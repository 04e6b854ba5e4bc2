------------------------------ MODULE MCServer ------------------------------
(* Instances of the signaling server for TLC. *)
EXTENDS ServerChannel

CONSTANTS Hi, Ho    \* message bodies

Get(path, peer) ==
  [method |-> "GET", path |-> path, peer |-> peer, to |-> 0, body |-> NoBody]

Post(from, to, body) ==
  [method |-> "POST", path |-> "/message", peer |-> from, to |-> to, body |-> body]

SignIn == Get("/sign_in", 0)

(* Members that come and go, and nothing else. *)
PresenceRequests ==
  {SignIn} \cup {Get(p, m) : p \in {"/wait", "/sign_out"}, m \in Ids}

(* Messages that meet parked polls, queues, a sender or a target that is   *)
(* not there, and one without a body.                                      *)
MailRequests ==
  {SignIn, Get("/wait", 2), Post(1, 2, Hi), Post(1, 2, NoBody)}

(* Two members that leave, one of which polls and sends its sign-out to the*)
(* other as a message.                                                     *)
LeavingRequests ==
  {SignIn, Get("/wait", 1), Get("/sign_out", 2),
   [Get("/sign_out", 1) EXCEPT !.to = 2]}

(* A browser stops the server while members poll and others send what the  *)
(* server answers without acting on it, or does not understand.            *)
QuitRequests ==
  {SignIn, Get("/wait", 1), Get("/wait", 2), Get("/quit", 0), Get("/", 0)}
    \cup {[Get("/", 0) EXCEPT !.method = m] : m \in {"OPTIONS", "INVALID"}}

Connections == Permutations(Conns)
=============================================================================
