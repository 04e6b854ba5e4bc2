---------------------------- MODULE Y4mVideoSink -----------------------------
(***************************************************************************)
(* What the receiver writes of the video (headless_common/receiver_sink.cc)*)
(* to a file or to the pipe of a player.                                   *)
(***************************************************************************)
EXTENDS Naturals, Sequences

NoSize == <<0, 0>>

NewSink == [header |-> NoSize, frames |-> <<>>]

(* Rows are written without their padding, whatever the stride.            *)
Plane(width, height) == width * height
Half(n) == (n + 1) \div 2

(* The bytes of a frame's three planes.                                    *)
Payload(size) ==
  Plane(size[1], size[2]) + 2 * Plane(Half(size[1]), Half(size[2]))

WriteHeader(k, size) == IF k.header = NoSize THEN [k EXCEPT !.header = size] ELSE k

(* A sink whose file did not open, and a frame without I420 planes, write  *)
(* nothing: that comes to the same as no frame.                            *)
OnFrame(k, size) ==
  [WriteHeader(k, size) EXCEPT !.frames = Append(@, Payload(size))]
=============================================================================
