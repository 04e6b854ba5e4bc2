------------------------------ MODULE Channel -------------------------------
(***************************************************************************)
(* What the signaling channel promises its members, without sockets, polls *)
(* or rounds: everyone in the room learns of each arrival and departure,   *)
(* messages reach the mailbox of their addressee, and every mailbox is     *)
(* handed out in order, each item at most once.                            *)
(***************************************************************************)
EXTENDS Naturals, Sequences

CONSTANTS People, Texts

VARIABLES
  room,       \* who is in the channel
  posted,     \* posted[m]: everything ever put into the mailbox of m
  handed      \* handed[m]: what has been taken out of it

vars == <<room, posted, handed>>

Event == [kind : {"welcome", "joined", "left", "mail", "closing"},
          who : SUBSET People, text : Texts \cup {""}]

Happened(kind, who) == [kind |-> kind, who |-> who, text |-> ""]

Init ==
  /\ room = {}
  /\ posted = [m \in People |-> <<>>]
  /\ handed = [m \in People |-> <<>>]

Drained == {m \in People : handed[m] = posted[m]}

(* The mailboxes become boxes; those of served are handed out at once, and *)
(* so may be those in which nothing was pending.                           *)
Post(boxes, served) ==
  /\ posted' = boxes
  /\ \E prompt \in SUBSET Drained :
       handed' = [m \in People |-> IF m \in prompt \cup served THEN boxes[m] ELSE handed[m]]

(* The mailboxes when the item has been put into those of who.             *)
With(item, who) ==
  [m \in People |-> IF m \in who THEN Append(posted[m], item) ELSE posted[m]]

(* A newcomer is welcomed with the list of those in the room.              *)
Join(m) ==
  /\ m \notin room /\ room' = room \cup {m}
  /\ Post([With(Happened("joined", {m}), room) EXCEPT
             ![m] = <<Happened("welcome", room')>>], {m})

Leave(m) ==
  /\ m \in room /\ room' = room \ {m}
  /\ Post([With(Happened("left", {m}), room') EXCEPT ![m] = <<>>], {m})

SendText(m, k, text) ==
  /\ {m, k} \subseteq room /\ room' = room
  /\ Post(With([kind |-> "mail", who |-> {m}, text |-> text], {k}), {})

Send(m, k) == \E text \in Texts : SendText(m, k, text)

(* The oldest pending item is handed over.                                 *)
Take(m) ==
  /\ m \in room /\ room' = room
  /\ Len(handed[m]) < Len(posted[m])
  /\ handed' = [handed EXCEPT ![m] = Append(@, posted[m][Len(@) + 1])]
  /\ posted' = posted

(* The channel closes; what is still pending is lost.                      *)
Dismiss ==
  /\ room' = {}
  /\ posted' = [m \in People |-> <<>>]
  /\ handed' = [m \in People |-> <<>>]

Next ==
  \/ \E m \in People : Join(m) \/ Leave(m) \/ Take(m)
  \/ \E m, k \in People : Send(m, k)
  \/ Dismiss

Spec == Init /\ [][Next]_vars
=============================================================================
