--------------------------- MODULE ServerChannel ----------------------------
(***************************************************************************)
(* The server implements Channel: its members are the people in the room,  *)
(* and the responses of a mailbox are the events they tell of.             *)
(***************************************************************************)
EXTENDS Server

(* What a response tells the member it is addressed to.                    *)
Tells(x) ==
  [kind |-> IF x.status = "200 Added" THEN "welcome"
           ELSE IF x.entries # <<>> THEN IF x.entries[1].up THEN "joined" ELSE "left"
           ELSE IF x.pragma # 0 THEN "mail" ELSE "closing",
   who |-> IF x.entries # <<>> THEN {e.id : e \in Range(x.entries)}
           ELSE {x.pragma} \ {0},
   text |-> x.text]

Events(xs) == [p \in DOMAIN xs |-> Tells(xs[p])]

Promised == INSTANCE Channel WITH
  People <- Ids,
  room <- Members,
  posted <- [m \in Ids |-> Events(member[m].posted)],
  handed <- [m \in Ids |-> Events(member[m].handed)]

(* Every step of the server is a step of the channel or none of its        *)
(* business: no erasing loop, lost connection or late poll makes a mailbox *)
(* skip, repeat or invent an event.  (Promised!Spec, with the usual case, a *)
(* stutter, put first.)                                                    *)
ImplementsChannel ==
  Promised!Init /\ [][UNCHANGED Promised!vars \/ Promised!Next]_vars
=============================================================================
