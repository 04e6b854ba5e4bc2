---------------------------- MODULE MCSignaling -----------------------------
(* Instances of the calls for TLC. *)
EXTENDS Signaling

(* Nobody sends video of the size of another. *)
Sizes == [m \in People |-> <<2 * m + 1, 2>>]
=============================================================================
