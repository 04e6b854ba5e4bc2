---------------------------- MODULE PeerChannel -----------------------------
(***************************************************************************)
(* The members of the signaling channel and their mailboxes                *)
(* (server/peer_channel.cc): ChannelMember and PeerChannel.                *)
(*                                                                         *)
(* A member is reached through the hanging GET it parks on the server: one *)
(* response is sent on it, or is queued until the member polls again.      *)
(***************************************************************************)
EXTENDS DataSocket, SequencesExt

CONSTANTS
  MaxId,      \* bound: members ever created
  Timeout     \* ticks of silence a member is allowed (30 seconds in the code)

ASSUME ChannelAssumption == MaxId \in Nat /\ Timeout \in Nat

Ids == 1 .. MaxId

VARIABLES
  members,    \* members_: ids in the order of the vector
  member,     \* member[m]: the state of ChannelMember m, NoMember when deleted
  lastId      \* s_member_id_

channelVars == <<members, member, lastId>>

(* idle is the time since timestamp_, capped one tick beyond Timeout.      *)
(* posted and handed are history: the responses addressed to the member,   *)
(* and those the server has sent out of its mailbox.                       *)
ChannelMember ==
  [connected : BOOLEAN, waiting : Conns \cup {NoConn}, idle : 0 .. Timeout + 1,
   queue : Seq(Response), posted : Seq(Response), handed : Seq(Response)]

NoMember == [connected |-> FALSE, waiting |-> NoConn, idle |-> 0,
             queue |-> <<>>, posted |-> <<>>, handed |-> <<>>]

ChannelTypeOK ==
  /\ lastId \in 0 .. MaxId
  /\ members \in Seq(1 .. lastId)
  /\ member \in [Ids -> ChannelMember]

ChannelInit ==
  /\ members = <<>>
  /\ member = [m \in Ids |-> NoMember]
  /\ lastId = 0

Members == {members[k] : k \in DOMAIN members}

-----------------------------------------------------------------------------
(* ChannelMember                                                           *)

(* QueueResponse, as seen by the member: the parked GET takes the response *)
(* and restarts the clock, or the response joins the queue.                *)
QueueResponse(rec, x) ==
  LET parked == rec.waiting # NoConn
  IN [connected |-> rec.connected, waiting |-> NoConn,
      idle |-> IF parked THEN 0 ELSE rec.idle,
      queue |-> IF parked THEN rec.queue ELSE Append(rec.queue, x),
      posted |-> Append(rec.posted, x),
      handed |-> IF parked THEN Append(rec.handed, x) ELSE rec.handed]

(* Mutants: the queue is not looked at; its front is sent but not popped;  *)
(* its newest response is sent; a poll is ignored while another is parked. *)
SetWaitingParks(rec, c) == [rec EXCEPT !.waiting = c]

SetWaitingRepeats(rec, c) ==
  IF rec.queue # <<>> THEN [rec EXCEPT !.handed = Append(@, Head(rec.queue))]
                      ELSE [rec EXCEPT !.waiting = c]

SetWaitingNewest(rec, c) ==
  IF rec.queue # <<>>
  THEN [rec EXCEPT !.queue = Front(@), !.handed = Append(@, Last(rec.queue))]
  ELSE [rec EXCEPT !.waiting = c]

SetWaitingOnce(rec, c) ==
  IF rec.queue # <<>>
  THEN [rec EXCEPT !.queue = Tail(@), !.handed = Append(@, Head(rec.queue))]
  ELSE IF rec.waiting # NoConn THEN rec ELSE [rec EXCEPT !.waiting = c]

(* SetWaitingSocket: the oldest queued response answers the poll at once   *)
(* (and does not restart the clock), or the poll is parked.                *)
SetWaitingSocket(rec, c) ==
  IF rec.queue # <<>>
  THEN [connected |-> rec.connected, waiting |-> rec.waiting, idle |-> rec.idle,
        queue |-> Tail(rec.queue), posted |-> rec.posted,
        handed |-> Append(rec.handed, Head(rec.queue))]
  ELSE [rec EXCEPT !.waiting = c]

(* Mutant: the closed socket is not forgotten.                             *)
OnClosingIgnored(rec, c) == rec

(* ChannelMember::OnClosing *)
OnClosing(rec, c) ==
  IF rec.waiting = c
  THEN [connected |-> rec.connected, waiting |-> NoConn, idle |-> 0,
        queue |-> rec.queue, posted |-> rec.posted, handed |-> rec.handed]
  ELSE rec

(* Mutant: the test of the parked poll is inverted.                        *)
TimedOutWaiting(rec) == rec.waiting # NoConn /\ rec.idle > Timeout

TimedOut(rec) == rec.waiting = NoConn /\ rec.idle > Timeout

SetDisconnected(rec) == [rec EXCEPT !.connected = FALSE]

(* Mutant: the two-field entry "name,id".                                  *)
GetShortEntry(m, up) == [id |-> m]

(* The body "name,id,connected" about a member.                            *)
GetEntry(m, up) == [id |-> m, up |-> up]

(* NotifyOfOtherMember: a notification carries its recipient's own id.     *)
Notice(m, other, up) ==
  [status |-> "200 OK", pragma |-> m, entries |-> <<GetEntry(other, up)>>,
   text |-> ""]

(* A forwarded message carries its sender's id.                            *)
Mail(from, body) ==
  [status |-> "200 OK", pragma |-> from, entries |-> <<>>,
   text |-> IF body = NoBody THEN "" ELSE body]

-----------------------------------------------------------------------------
(* PeerChannel                                                             *)

(* QueueResponse for every m in DOMAIN item at once: the states of the     *)
(* members and the responses sent on their parked GETs.                    *)
Posted(rec, item) ==
  [m \in Ids |-> IF m \in DOMAIN item THEN QueueResponse(rec[m], item[m])
                                      ELSE rec[m]]

SentTo(item) ==
  [c \in Conns |->
     IF remote[c] = "up" /\ \E m \in DOMAIN item : member[m].waiting = c
     THEN Append(out[c], item[CHOOSE m \in DOMAIN item : member[m].waiting = c])
     ELSE out[c]]

(* Mutant: only members with a parked poll are told.                       *)
BroadcastToParked(changed, up) ==
  [m \in {k \in Members \ {changed} : member[k].waiting # NoConn} |->
     Notice(m, changed, up)]

(* BroadcastChangedState: every other member is told.  No delivery is ever *)
(* reported as failed, so HandleDeliveryFailures has nothing to do.        *)
BroadcastChangedState(changed, up) ==
  [m \in Members \ {changed} |-> Notice(m, changed, up)]

(* IsPeerConnection: a POST counts only if it has announced its length.    *)
IsPeerConnection(r) ==
  \/ r.method = "POST" /\ r.body # NoBody
  \/ r.method = "GET" /\ r.path = "/sign_in"

(* The member the "peer_id=" argument names, 0 when there is none.         *)
Lookup(r) ==
  IF /\ r.method \in {"GET", "POST"}
     /\ r.path \in {"/wait", "/sign_out", "/message"}
     /\ r.peer \in Members
  THEN r.peer ELSE 0

(* The member the "to=" argument names, 0 when there is none.              *)
IsTargetedRequest(r) == IF r.to \in Members THEN r.to ELSE 0

(* Lookup's side effect on the member it finds.                            *)
LookedUp(m, c) ==
  CASE req[c].path = "/wait" -> [member EXCEPT ![m] = SetWaitingSocket(@, c)]
    [] req[c].path = "/sign_out" -> [member EXCEPT ![m] = SetDisconnected(@)]
    [] OTHER -> member

(* BuildResponseForNewMember: the newcomer first, then the others.         *)
BuildResponseForNewMember(new) ==
  [status |-> "200 Added", pragma |-> new, text |-> "",
   entries |-> <<GetEntry(new, TRUE)>> \o
     [k \in DOMAIN members |-> GetEntry(members[k], member[members[k]].connected)]]

(* A new ChannelMember, which is answered x on the socket it signs in on.  *)
NewMember(x) == [connected |-> TRUE, waiting |-> NoConn, idle |-> 0,
                 queue |-> <<>>, posted |-> <<x>>, handed |-> <<x>>]

(* AddMember: tell the others, join, answer with the list of members.      *)
AddMember(c) ==
  LET new == lastId + 1
      item == BroadcastChangedState(new, TRUE)
      added == BuildResponseForNewMember(new)
  IN /\ lastId < MaxId
     /\ lastId' = new
     /\ members' = Append(members, new)
     /\ member' = [Posted(member, item) EXCEPT ![new] = NewMember(added)]
     /\ out' = Send(SentTo(item), c, added)

(* members_.erase(i), BroadcastChangedState and delete: the member at      *)
(* position k leaves and the remaining ones are told.                      *)
EraseMember(k) ==
  LET gone == members[k]
      item == BroadcastChangedState(gone, FALSE)
  IN /\ members' = RemoveAt(members, k)
     /\ member' = [Posted(member, item) EXCEPT ![gone] = NoMember]
     /\ out' = SentTo(item)
     /\ UNCHANGED lastId
=============================================================================
