------------------------------ MODULE MCClient ------------------------------
(* Instances of the client's session for TLC. *)
EXTENDS ClientSession
=============================================================================
