--------------------------- MODULE MCApplication ----------------------------
(* Instances of the applications for TLC. *)
EXTENDS Application
=============================================================================
