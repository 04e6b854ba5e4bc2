-------------------------- MODULE SignalingProofs ---------------------------
(***************************************************************************)
(* Theorems about Signaling, for any number of programs and any sizes.     *)
(***************************************************************************)
EXTENDS Signaling, SequenceTheorems, WellFoundedInduction, TLAPS

(* A set of numbers has a least element, whatever it is: well-founded.     *)
LEMMA LeastMember ==
  ASSUME NEW S \in SUBSET Nat, S # {}
  PROVE  Min(S) \in S
<1> DEFINE R == OpToRel(<, Nat)
<1>1. \A x, y \in Nat : <<y, x>> \in R <=> y < x
  BY DEF OpToRel
<1>2. IsWellFoundedOn(R, Nat)
  BY NatLessThanWellFounded
<1> HIDE DEF R
<1>3. PICK x \in S : \A y \in S : <<y, x>> \notin R
  BY <1>2, WFMin
<1>4. \A y \in S : x <= y
  <2> SUFFICES ASSUME NEW y \in S PROVE x <= y
    OBVIOUS
  <2>1. x \in Nat /\ y \in Nat
    OBVIOUS
  <2>2. ~(y < x)
    BY <1>1, <1>3, <2>1
  <2> QED BY <2>1, <2>2
<1> QED BY <1>4 DEF Min

-----------------------------------------------------------------------------
(* The programs.                                                           *)

Whoever == People \cup {NoPeer}

(* Everything but the farewell is from or about somebody.                  *)
Said == {e \in Room!Event : e.kind # "closing" => e.who # {}}

(* A receiver holds the description of its peer or none, and none without  *)
(* a peer connection.                                                      *)
KnowsItsPeer(p) ==
  p.role = "receiver" =>
    /\ p.remote \in {NoPeer, p.peer}
    /\ p.sig = "none" => p.remote = NoPeer

Begun == {"on", "spinning", "over"}

(* What a callback does to a program that runs.                            *)
Follows(q, p) ==
  /\ q \in Program /\ q.role = p.role /\ q.state \in Begun
  /\ KnowsItsPeer(p) => KnowsItsPeer(q)
  /\ KnowsItsPeer(p) /\ p.role = "receiver" /\ p.remote # NoPeer /\ q.state = "on"
       => q.remote = p.remote

LEMMA NewProgramType ==
  ASSUME NEW role \in {"none", "sender", "receiver"}, NEW state \in {"off", "on", "spinning", "over"}
  PROVE  /\ NewProgram(role, state) \in Program
         /\ NewProgram(role, state).role = role /\ NewProgram(role, state).state = state
         /\ NewProgram(role, state).remote = NoPeer
         /\ KnowsItsPeer(NewProgram(role, state))
BY DEF NewProgram, Program, KnowsItsPeer

LEMMA QuitFollows ==
  ASSUME NEW p \in Program, NEW waits \in BOOLEAN
  PROVE  Follows(Quit(p, waits), p) /\ Quit(p, waits).state # "on"
<1>1. p.role \in {"none", "sender", "receiver"}
  BY DEF Program
<1>2. ASSUME NEW state \in {"spinning", "over"}
      PROVE  Follows(NewProgram(p.role, state), p) /\ NewProgram(p.role, state).state # "on"
  BY <1>1, NewProgramType DEF Follows, Begun
<1>3. Quit(p, waits) \in {NewProgram(p.role, "spinning"), NewProgram(p.role, "over")}
  BY DEF Quit
<1> QED BY <1>2, <1>3

LEMMA ExitsFollows ==
  ASSUME NEW p \in Program
  PROVE  Follows(Exits(p), p)
BY QuitFollows DEF Exits

LEMMA StaysFollows ==
  ASSUME NEW p \in Program, p.state = "on"
  PROVE  Follows(p, p)
BY DEF Follows, Begun

LEMMA StartsFacts ==
  ASSUME NEW p \in Program, NEW who \in Whoever
  PROVE  LET q == Starts(p, who, TRUE)
         IN /\ q \in Program /\ q.peer = who /\ q.sig = "stable"
            /\ q.remote = p.remote /\ q.role = p.role /\ q.state = p.state
BY DEF Starts, Program, Whoever
LEMMA OnPeerConnectedFollows ==
  ASSUME NEW p \in Program, NEW who \in People, NEW ok \in BOOLEAN, p.state = "on"
  PROVE  Follows(OnPeerConnected(p, who, ok), p)
<1>1. CASE p.role = "sender" /\ p.peer = NoPeer /\ ok
  <2> DEFINE s == Starts(p, who, TRUE)
             q == [s EXCEPT !.creating = "offer"]
  <2>1. OnPeerConnected(p, who, ok) = q
    BY <1>1 DEF OnPeerConnected, StartCall, Starts
  <2>2. s \in Program /\ s.role = p.role /\ s.state = p.state
    BY StartsFacts DEF Whoever
  <2> HIDE DEF s
  <2>3. q \in Program /\ q.role = p.role /\ q.state = p.state
    BY <2>2 DEF Program
  <2> HIDE DEF q
  <2> QED BY <1>1, <2>1, <2>3 DEF Follows, KnowsItsPeer, Begun
<1>2. CASE p.role = "sender" /\ p.peer = NoPeer /\ ~ok
  BY <1>2, ExitsFollows DEF OnPeerConnected, StartCall
<1>3. CASE ~(p.role = "sender" /\ p.peer = NoPeer)
  BY <1>3, StaysFollows DEF OnPeerConnected
<1> QED BY <1>1, <1>2, <1>3

LEMMA OnPeerDisconnectedFollows ==
  ASSUME NEW p \in Program, NEW who, NEW waits \in BOOLEAN, p.state = "on"
  PROVE  Follows(OnPeerDisconnected(p, who, waits), p)
BY QuitFollows, StaysFollows DEF OnPeerDisconnected

(* A description is set only of the peer it came from.                     *)
LEMMA SetRemoteFacts ==
  ASSUME NEW p \in Program, NEW who \in Whoever, NEW text
  PROVE  LET q == SetRemoteDescription(p, who, text)
         IN /\ q \in Program /\ q.remote \in {p.remote, who}
            /\ q.role = p.role /\ q.state = p.state /\ q.peer = p.peer
            /\ p.sig # "none" => q.sig # "none"
BY DEF SetRemoteDescription, Program, Whoever

LEMMA HandlesFacts ==
  ASSUME NEW p \in Program, NEW who \in Whoever, NEW text
  PROVE  LET q == Handles(p, who, text)
         IN /\ q \in Program /\ q.remote \in {p.remote, who}
            /\ q.role = p.role /\ q.state = p.state /\ q.peer = p.peer
            /\ p.sig # "none" => q.sig # "none"
<1> DEFINE q == SetRemoteDescription(p, who, text)
<1>1. /\ q \in Program /\ q.remote \in {p.remote, who}
      /\ q.role = p.role /\ q.state = p.state /\ q.peer = p.peer
      /\ p.sig # "none" => q.sig # "none"
  BY SetRemoteFacts
<1>2. Handles(p, who, text) \in {q, [q EXCEPT !.creating = "answer"]}
  BY DEF Handles
<1> HIDE DEF q
<1> QED BY <1>1, <1>2 DEF Program

LEMMA OnMessageFromPeerFollows ==
  ASSUME NEW p \in Program, NEW who \in Whoever, NEW text, NEW ok \in BOOLEAN,
         p.state = "on"
  PROVE  Follows(OnMessageFromPeer(p, who, text, ok), p)
<1>1. CASE p.sig = "none" /\ ok
  <2> DEFINE s == Starts(p, who, TRUE)
  <2>1. /\ s \in Program /\ s.peer = who /\ s.sig = "stable" /\ s.remote = p.remote
        /\ s.role = p.role /\ s.state = "on"
    BY StartsFacts
  <2>2. OnMessageFromPeer(p, who, text, ok) = Handles(s, who, text)
    BY <1>1 DEF OnMessageFromPeer, Starts
  <2> DEFINE q == Handles(s, who, text)
  <2> HIDE DEF s
  <2>3. /\ q \in Program /\ q.remote \in {s.remote, who}
        /\ q.role = s.role /\ q.state = s.state /\ q.peer = s.peer /\ q.sig # "none"
    BY <2>1, HandlesFacts
  <2> HIDE DEF q
  <2>4. Follows(q, p)
    BY <1>1, <2>1, <2>3 DEF Follows, KnowsItsPeer, Begun
  <2> QED BY <2>2, <2>4 DEF q
<1>2. CASE p.sig = "none" /\ ~ok
  BY <1>2, ExitsFollows DEF OnMessageFromPeer
<1>3. CASE p.sig # "none" /\ p.role = "receiver" /\ who # p.peer
  BY <1>3, StaysFollows DEF OnMessageFromPeer
<1>4. CASE p.sig # "none" /\ ~(p.role = "receiver" /\ who # p.peer)
  <2>1. OnMessageFromPeer(p, who, text, ok) = Handles(p, who, text)
    BY <1>4 DEF OnMessageFromPeer
  <2> QED BY <1>4, <2>1, HandlesFacts DEF Follows, KnowsItsPeer, Begun
<1> QED BY <1>1, <1>2, <1>3, <1>4

LEMMA HearsFollows ==
  ASSUME NEW p \in Program, NEW m \in People, NEW e \in Said, NEW ok \in BOOLEAN,
         NEW waits \in BOOLEAN, p.state = "on"
  PROVE  Follows(Hears(p, m, e, ok, waits), p)
<1>1. /\ e.kind \in {"welcome", "joined", "left", "mail", "closing"}
      /\ e.who \in SUBSET People /\ People \subseteq Nat
  BY SignalingAssumption DEF Said, Room!Event
<1>2. e.kind # "closing" => Min(e.who) \in People
  BY <1>1, LeastMember DEF Said
<1>3. CASE e.kind = "welcome"
  <2>1. CASE e.who = {m}
    BY <1>3, <2>1, StaysFollows DEF Hears
  <2>2. CASE e.who # {m}
    <3>1. e.who \ {m} # {} /\ e.who \ {m} \in SUBSET Nat
      BY <1>1, <1>3, <2>2 DEF Said
    <3>2. Min(e.who \ {m}) \in People
      BY <1>1, <3>1, LeastMember
    <3> QED BY <1>3, <2>2, <3>2, OnPeerConnectedFollows DEF Hears
  <2> QED BY <2>1, <2>2
<1>4. CASE e.kind = "joined"
  BY <1>2, <1>4, OnPeerConnectedFollows DEF Hears
<1>5. CASE e.kind = "left"
  BY <1>2, <1>5, OnPeerDisconnectedFollows DEF Hears
<1>6. CASE e.kind = "mail"
  BY <1>2, <1>6, OnMessageFromPeerFollows DEF Hears, Whoever
<1>7. CASE e.kind = "closing"
  BY <1>7, OnMessageFromPeerFollows DEF Hears, Whoever
<1> QED BY <1>1, <1>3, <1>4, <1>5, <1>6, <1>7

LEMMA OnSuccessFollows ==
  ASSUME NEW p \in Program, p.creating # "none", p.state = "on"
  PROVE  Follows(OnSuccess(p), p)
<1> DEFINE q == OnSuccess(p)
<1>1. p.creating \in Texts /\ "candidate" \in Texts /\ p.outbox \in Seq(Texts)
  BY DEF Program, Texts
<1>2. /\ p.outbox \o <<p.creating>> \in Seq(Texts)
      /\ p.outbox \o <<p.creating, "candidate">> \in Seq(Texts)
  BY <1>1
<1>3. q.outbox \in Seq(Texts)
  BY <1>2 DEF OnSuccess, Program
<1>4. /\ q \in Program /\ q.role = p.role /\ q.state = p.state
      /\ q.peer = p.peer /\ q.remote = p.remote
  BY <1>3 DEF OnSuccess, Program
<1>5. q.sig = "none" => p.sig = "none"
  BY DEF OnSuccess, Program
<1> HIDE DEF q
<1>6. Follows(q, p)
  BY <1>4, <1>5 DEF Follows, KnowsItsPeer, Begun
<1> QED BY <1>6 DEF q
-----------------------------------------------------------------------------
(* The channel.                                                            *)

Mailboxes == [People -> Seq(Said)]

ChannelInv ==
  /\ room \subseteq People /\ up \in BOOLEAN
  /\ posted \in Mailboxes /\ handed \in Mailboxes
  /\ inbox \in Mailboxes /\ \A m \in People : Len(inbox[m]) <= 1

(* A step puts at most one more item into the hands of anyone.             *)
HandsOutOne ==
  /\ room' \subseteq People /\ posted' \in Mailboxes /\ handed' \in Mailboxes
  /\ \A m \in People : Len(handed'[m]) <= Len(handed[m]) + 1

LEMMA SaidItems ==
  ASSUME NEW m \in People
  PROVE  /\ Room!Happened("joined", {m}) \in Said /\ Room!Happened("left", {m}) \in Said
         /\ \A who \in SUBSET People : who # {} => Room!Happened("welcome", who) \in Said
         /\ \A text \in Texts : [kind |-> "mail", who |-> {m}, text |-> text] \in Said
BY DEF Said, Room!Event, Room!Happened

LEMMA FarewellSaid == Farewell \in Said
BY DEF Farewell, Said, Room!Event, Room!Happened

LEMMA WithType ==
  ASSUME posted \in Mailboxes, NEW item \in Said, NEW who
  PROVE  /\ Room!With(item, who) \in Mailboxes
         /\ \A m \in People : Len(Room!With(item, who)[m]) <= Len(posted[m]) + 1
<1>1. ASSUME NEW m \in People
      PROVE  /\ posted[m] \in Seq(Said) /\ Append(posted[m], item) \in Seq(Said)
             /\ Len(Append(posted[m], item)) = Len(posted[m]) + 1
  BY <1>1 DEF Mailboxes
<1>2. Room!With(item, who)
        = [m \in People |-> IF m \in who THEN Append(posted[m], item) ELSE posted[m]]
  BY DEF Room!With
<1> QED BY <1>1, <1>2 DEF Mailboxes

LEMMA PostHands ==
  ASSUME ChannelInv, room' \subseteq People,
         NEW boxes \in Mailboxes, NEW served \in SUBSET People, Room!Post(boxes, served),
         \A m \in People : Len(boxes[m]) <= Len(posted[m]) + 1,
         \A m \in served : Len(boxes[m]) <= 1
  PROVE  HandsOutOne
<1>1. PICK prompt \in SUBSET Room!Drained :
        handed' = [m \in People |-> IF m \in prompt \cup served THEN boxes[m] ELSE handed[m]]
  BY DEF Room!Post
<1>2. posted' = boxes
  BY DEF Room!Post
<1>3. handed' \in Mailboxes
  BY <1>1 DEF Mailboxes, ChannelInv
<1>4. ASSUME NEW m \in People
      PROVE  Len(handed'[m]) <= Len(handed[m]) + 1
  <2>1. Len(handed[m]) \in Nat /\ Len(boxes[m]) \in Nat
    BY DEF ChannelInv, Mailboxes
  <2>2. CASE m \in served
    BY <1>1, <2>1, <2>2
  <2>3. CASE m \in prompt
    BY <1>1, <2>1, <2>3 DEF Room!Drained
  <2>4. CASE m \notin prompt \cup served
    BY <1>1, <2>1, <2>4
  <2> QED BY <2>2, <2>3, <2>4
<1> QED BY <1>2, <1>3, <1>4 DEF HandsOutOne

LEMMA JoinHands ==
  ASSUME ChannelInv, NEW m \in People, Room!Join(m)
  PROVE  HandsOutOne
<1> DEFINE told == Room!With(Room!Happened("joined", {m}), room)
           boxes == [told EXCEPT ![m] = <<Room!Happened("welcome", room')>>]
<1>1. room' = room \cup {m} /\ room' \subseteq People /\ room' # {}
  BY DEF Room!Join, ChannelInv
<1>2. told \in Mailboxes /\ \A k \in People : Len(told[k]) <= Len(posted[k]) + 1
  BY SaidItems, WithType DEF ChannelInv
<1>3. <<Room!Happened("welcome", room')>> \in Seq(Said)
  <2> DEFINE welcome == Room!Happened("welcome", room')
  <2>1. welcome \in Said
    BY <1>1, SaidItems
  <2> HIDE DEF welcome
  <2>2. <<welcome>> \in Seq(Said)
    BY <2>1
  <2> QED BY <2>2 DEF welcome
<1>4. Room!Post(boxes, {m})
  BY DEF Room!Join
<1> HIDE DEF told
<1>5. boxes \in Mailboxes /\ Len(boxes[m]) <= 1
  BY <1>2, <1>3 DEF Mailboxes
<1>6. \A k \in People : Len(boxes[k]) <= Len(posted[k]) + 1
  BY <1>2, <1>5 DEF Mailboxes, ChannelInv
<1> HIDE DEF boxes
<1> QED BY <1>1, <1>4, <1>5, <1>6, PostHands

LEMMA LeaveHands ==
  ASSUME ChannelInv, NEW m \in People, Room!Leave(m)
  PROVE  HandsOutOne
<1> DEFINE told == Room!With(Room!Happened("left", {m}), room')
           boxes == [told EXCEPT ![m] = <<>>]
<1>1. room' = room \ {m} /\ room' \subseteq People
  BY DEF Room!Leave, ChannelInv
<1>2. told \in Mailboxes /\ \A k \in People : Len(told[k]) <= Len(posted[k]) + 1
  BY SaidItems, WithType DEF ChannelInv
<1>3. Room!Post(boxes, {m})
  BY DEF Room!Leave
<1> HIDE DEF told
<1>4. boxes \in Mailboxes /\ Len(boxes[m]) = 0
  BY <1>2 DEF Mailboxes
<1>5. \A k \in People : Len(boxes[k]) <= Len(posted[k]) + 1
  BY <1>2, <1>4 DEF Mailboxes, ChannelInv
<1> HIDE DEF boxes
<1> QED BY <1>1, <1>3, <1>4, <1>5, PostHands

LEMMA SendTextHands ==
  ASSUME ChannelInv, NEW m \in People, NEW k, NEW text \in Texts, Room!SendText(m, k, text)
  PROVE  HandsOutOne
<1> DEFINE boxes == Room!With([kind |-> "mail", who |-> {m}, text |-> text], {k})
<1>1. boxes \in Mailboxes /\ \A j \in People : Len(boxes[j]) <= Len(posted[j]) + 1
  BY SaidItems, WithType DEF ChannelInv
<1>2. Room!Post(boxes, {}) /\ room' \subseteq People
  BY DEF Room!SendText, ChannelInv
<1> HIDE DEF boxes
<1> QED BY <1>1, <1>2, PostHands

LEMMA TakeHands ==
  ASSUME ChannelInv, NEW m \in People, Room!Take(m)
  PROVE  HandsOutOne
<1> DEFINE item == posted[m][Len(handed[m]) + 1]
<1>1. /\ posted[m] \in Seq(Said) /\ handed[m] \in Seq(Said)
      /\ Len(handed[m]) < Len(posted[m])
  BY DEF ChannelInv, Mailboxes, Room!Take
<1>2. item \in Said
  BY <1>1
<1>3. handed' = [handed EXCEPT ![m] = Append(@, item)] /\ posted' = posted /\ room' = room
  BY DEF Room!Take
<1> HIDE DEF item
<1>4. \A k \in People : Len(handed[k]) \in Nat /\ handed[k] \in Seq(Said)
  BY DEF ChannelInv, Mailboxes
<1>5. Append(handed[m], item) \in Seq(Said)
      /\ Len(Append(handed[m], item)) = Len(handed[m]) + 1
  BY <1>1, <1>2
<1>6. handed' \in Mailboxes
  BY <1>3, <1>5 DEF ChannelInv, Mailboxes
<1>7. \A k \in People : Len(handed'[k]) <= Len(handed[k]) + 1
  BY <1>3, <1>4, <1>5 DEF ChannelInv, Mailboxes
<1> QED BY <1>3, <1>6, <1>7 DEF HandsOutOne, ChannelInv

(* What is handed out to a program has been read before the next.          *)
LEMMA DeliversInv ==
  ASSUME ChannelInv, HandsOutOne, up' = up, NEW gone, Delivers(gone)
  PROVE  ChannelInv'
<1> DEFINE new(m) == SubSeq(handed'[m], Len(handed[m]) + 1, Len(handed'[m]))
<1>1. inbox' = [m \in People |-> IF m \in gone THEN <<>> ELSE inbox[m] \o new(m)]
  BY DEF Delivers
<1>2. ASSUME NEW m \in People, m \notin gone
      PROVE  inbox[m] \o new(m) \in Seq(Said) /\ Len(inbox[m] \o new(m)) <= 1
  <2>1. /\ handed[m] \in Seq(Said) /\ handed'[m] \in Seq(Said) /\ inbox[m] \in Seq(Said)
        /\ Len(handed'[m]) <= Len(handed[m]) + 1 /\ Len(inbox[m]) <= 1
    BY <1>2 DEF ChannelInv, HandsOutOne, Mailboxes
  <2>2. Len(handed[m]) \in Nat /\ Len(handed'[m]) \in Nat
    BY <2>1
  <2>3. \A i \in Len(handed[m]) + 1 .. Len(handed'[m]) : handed'[m][i] \in Said
    BY <2>1, <2>2
  <2>4. new(m) \in Seq(Said) /\ Len(new(m)) <= 1
    BY <2>1, <2>2, <2>3, SubSeqProperties
  <2>5. CASE handed'[m] = handed[m]
    <3>1. new(m) = <<>>
      BY <2>2, <2>5, SubSeqEmpty
    <3> HIDE DEF new
    <3> QED BY <2>1, <3>1, ConcatEmptySeq
  <2>6. CASE handed'[m] # handed[m]
    <3>1. inbox[m] = <<>>
      BY <1>2, <2>6 DEF Delivers, Polls
    <3> HIDE DEF new
    <3> QED BY <2>4, <3>1
  <2> QED BY <2>5, <2>6
<1> HIDE DEF new
<1>3. inbox' \in Mailboxes /\ \A m \in People : Len(inbox'[m]) <= 1
  BY <1>1, <1>2 DEF Mailboxes
<1> QED BY <1>3 DEF ChannelInv, HandsOutOne
-----------------------------------------------------------------------------
(* The system.                                                             *)

TypeInv ==
  /\ ChannelInv
  /\ prog \in [People -> Program] /\ sink \in [People -> Sinks]

LEMMA SaidAreEvents == Mailboxes \subseteq [People -> Seq(Room!Event)]
<1>1. Said \subseteq Room!Event
  BY DEF Said
<1>2. Seq(Said) \subseteq Seq(Room!Event)
  BY <1>1
<1> QED BY <1>2 DEF Mailboxes

LEMMA TypeInit == Init => TypeInv
<1> SUFFICES ASSUME Init PROVE TypeInv
  OBVIOUS
<1>1. /\ room = {} /\ posted = [m \in People |-> <<>>] /\ handed = [m \in People |-> <<>>]
      /\ up = TRUE /\ inbox = [m \in People |-> <<>>]
  BY DEF Init, Room!Init
<1>2. ChannelInv
  BY <1>1 DEF ChannelInv, Mailboxes
<1>3. prog \in [People -> Program]
  BY NewProgramType DEF Init
<1>4. NewSink \in Sinks
  BY DEF NewSink, NoSize, Sinks
<1>5. sink \in [People -> Sinks]
  BY <1>4 DEF Init
<1> QED BY <1>2, <1>3, <1>5 DEF TypeInv

LEMMA ClearedInbox ==
  ASSUME ChannelInv, NEW m \in People, inbox' = [inbox EXCEPT ![m] = <<>>],
         UNCHANGED roomVars, up' = up
  PROVE  ChannelInv'
<1>1. <<>> \in Seq(Said) /\ Len(<<>>) <= 1
  OBVIOUS
<1>2. inbox' \in Mailboxes /\ \A k \in People : Len(inbox'[k]) <= 1
  BY <1>1 DEF ChannelInv, Mailboxes
<1> QED BY <1>2 DEF ChannelInv, roomVars

LEMMA ChannelNext == TypeInv /\ [Next]_vars => ChannelInv'
<1> SUFFICES ASSUME TypeInv, [Next]_vars
             PROVE  ChannelInv'
  OBVIOUS
<1>a. ChannelInv /\ prog \in [People -> Program]
  BY DEF TypeInv
<1>1. ASSUME NEW m \in People, SignsIn(m)
      PROVE  ChannelInv'
  BY <1>a, <1>1, JoinHands, DeliversInv DEF SignsIn
<1>2. ASSUME NEW m \in People, Evicted(m)
      PROVE  ChannelInv'
  BY <1>a, <1>2, LeaveHands, DeliversInv DEF Evicted
<1>3. ASSUME NEW m \in People, PollAnswered(m)
      PROVE  ChannelInv'
  BY <1>a, <1>3, TakeHands, DeliversInv DEF PollAnswered
<1>4. CASE ShutsDown
  <2>1. /\ room' = {} /\ up' = FALSE
        /\ posted' = [m \in People |-> <<>>] /\ handed' = [m \in People |-> <<>>]
    BY <1>4 DEF ShutsDown, Room!Dismiss
  <2>2. PICK parked \in SUBSET {m \in Room!Drained : On(m) /\ inbox[m] = <<>>} :
          inbox' = [m \in People |-> IF m \in parked THEN <<Farewell>> ELSE inbox[m]]
    BY <1>4 DEF ShutsDown
  <2>3. <<Farewell>> \in Seq(Said) /\ Len(<<Farewell>>) <= 1
    BY FarewellSaid
  <2>4. inbox' \in Mailboxes /\ \A m \in People : Len(inbox'[m]) <= 1
    BY <1>a, <2>2, <2>3 DEF ChannelInv, Mailboxes
  <2>5. posted' \in Mailboxes /\ handed' \in Mailboxes
    BY <2>1 DEF Mailboxes
  <2>6. room' \subseteq People /\ up' \in BOOLEAN
    BY <2>1
  <2> QED BY <2>4, <2>5, <2>6 DEF ChannelInv
<1>5. ASSUME NEW m \in People, Reads(m)
      PROVE  ChannelInv'
  <2>1. inbox[m] \in Seq(Said) /\ inbox[m] # <<>> /\ Len(inbox[m]) <= 1
    BY <1>a, <1>5 DEF Reads, ChannelInv, Mailboxes
  <2>2. Tail(inbox[m]) \in Seq(Said) /\ Len(Tail(inbox[m])) <= 1
    BY <2>1, HeadTailProperties
  <2>3. inbox' = [inbox EXCEPT ![m] = Tail(@)] /\ UNCHANGED <<room, posted, handed, up>>
    BY <1>5 DEF Reads, roomVars
  <2>4. inbox' \in Mailboxes /\ \A k \in People : Len(inbox'[k]) <= 1
    BY <1>a, <2>2, <2>3 DEF ChannelInv, Mailboxes
  <2> QED BY <1>a, <2>3, <2>4 DEF ChannelInv
<1>6. ASSUME NEW m \in People, Speaks(m)
      PROVE  ChannelInv'
  <2>1. CASE prog[m].peer \in room
    <3>1. Head(prog[m].outbox) \in Texts
      BY <1>a, <1>6 DEF Speaks, Program
    <3>2. Room!SendText(m, prog[m].peer, Head(prog[m].outbox))
      BY <1>6, <2>1 DEF Speaks
    <3>3. Delivers({}) /\ up' = up
      BY <1>6, <2>1 DEF Speaks
    <3>4. HandsOutOne
      BY <1>a, <3>1, <3>2, SendTextHands
    <3> QED BY <1>a, <3>3, <3>4, DeliversInv
  <2>2. CASE prog[m].peer \notin room
    BY <1>a, <1>6, <2>2, ClearedInbox DEF Speaks
  <2> QED BY <2>1, <2>2
<1>8. ASSUME NEW m \in People, Stops(m)
      PROVE  ChannelInv'
  BY <1>a, <1>8, ClearedInbox DEF Stops
<1>7. CASE \/ \E m \in People : Describes(m) \/ Disconnects(m)
           \/ \E s, r \in People : Streams(s, r)
           \/ Over \/ UNCHANGED vars
  <2>1. UNCHANGED <<room, posted, handed, up, inbox>>
    BY <1>7 DEF Describes, Disconnects, Streams, Over, vars, roomVars
  <2> QED BY <1>a, <2>1 DEF ChannelInv
<1> QED BY <1>1, <1>2, <1>3, <1>4, <1>5, <1>6, <1>7, <1>8 DEF Next, Progress

(* A step of the programs: one of them goes on, or starts, or a frame is   *)
(* written.                                                                *)
GoesOn(m, q) ==
  On(m) /\ Follows(q, prog[m]) /\ prog' = [prog EXCEPT ![m] = q] /\ sink' = sink

LEMMA ReadsGoesOn ==
  ASSUME TypeInv, NEW m \in People, Reads(m)
  PROVE  \E q \in Program : GoesOn(m, q)
<1>1. inbox[m] \in Seq(Said) /\ inbox[m] # <<>> /\ prog[m] \in Program
  BY DEF TypeInv, ChannelInv, Mailboxes, Reads
<1>2. Head(inbox[m]) \in Said
  BY <1>1
<1>3. PICK ok \in BOOLEAN, waits \in BOOLEAN :
        prog' = [prog EXCEPT ![m] = Hears(@, m, Head(inbox[m]), ok, waits)]
  BY DEF Reads, Waits
<1> DEFINE q == Hears(prog[m], m, Head(inbox[m]), ok, waits)
<1>4. prog' = [prog EXCEPT ![m] = q] /\ On(m) /\ sink' = sink
  BY <1>3 DEF Reads
<1>5. Follows(q, prog[m])
  BY <1>1, <1>2, <1>4, HearsFollows DEF On
<1>6. q \in Program
  BY <1>5 DEF Follows
<1> HIDE DEF q
<1> QED BY <1>4, <1>5, <1>6 DEF GoesOn

LEMMA SpeaksGoesOn ==
  ASSUME TypeInv, NEW m \in People, Speaks(m)
  PROVE  \E q \in Program : GoesOn(m, q)
<1>1. prog[m] \in Program /\ On(m) /\ sink' = sink /\ prog[m].outbox # <<>>
  BY DEF TypeInv, Speaks
<1>2. CASE prog[m].peer \in room
  <2> DEFINE q == [prog[m] EXCEPT !.outbox = Tail(@)]
  <2>1. prog' = [prog EXCEPT ![m] = q]
    BY <1>2 DEF Speaks
  <2>2. Tail(prog[m].outbox) \in Seq(Texts)
    BY <1>1 DEF Program
  <2>3. /\ q \in Program /\ q.role = prog[m].role /\ q.state = prog[m].state
        /\ q.peer = prog[m].peer /\ q.remote = prog[m].remote /\ q.sig = prog[m].sig
    BY <1>1, <2>2 DEF Program
  <2> HIDE DEF q
  <2>4. Follows(q, prog[m])
    BY <1>1, <2>3 DEF Follows, KnowsItsPeer, On, Begun
  <2> QED BY <1>1, <2>1, <2>3, <2>4 DEF GoesOn
<1>3. CASE prog[m].peer \notin room
  <2> DEFINE q == Exits(prog[m])
  <2>1. prog' = [prog EXCEPT ![m] = q]
    BY <1>3 DEF Speaks
  <2>2. Follows(q, prog[m])
    BY <1>1, ExitsFollows
  <2>3. q \in Program
    BY <2>2 DEF Follows
  <2> HIDE DEF q
  <2> QED BY <1>1, <2>1, <2>2, <2>3 DEF GoesOn
<1> QED BY <1>2, <1>3

LEMMA EndsGoesOn ==
  ASSUME TypeInv, NEW m \in People, Stops(m) \/ Disconnects(m)
  PROVE  \E q \in Program : GoesOn(m, q)
<1>0. PICK waits \in BOOLEAN : prog' = [prog EXCEPT ![m] = Quit(@, waits)]
  BY DEF Stops, Disconnects, Exits, Waits
<1> DEFINE q == Quit(prog[m], waits)
<1>1. prog[m] \in Program /\ On(m) /\ sink' = sink /\ prog' = [prog EXCEPT ![m] = q]
  BY <1>0 DEF TypeInv, Stops, Disconnects
<1>2. Follows(q, prog[m])
  BY <1>1, QuitFollows
<1>3. q \in Program
  BY <1>2 DEF Follows
<1> HIDE DEF q
<1> QED BY <1>1, <1>2, <1>3 DEF GoesOn

LEMMA DescribesGoesOn ==
  ASSUME TypeInv, NEW m \in People, Describes(m)
  PROVE  \E q \in Program : GoesOn(m, q)
<1> DEFINE q == OnSuccess(prog[m])
<1>1. /\ prog[m] \in Program /\ On(m) /\ prog[m].creating # "none"
      /\ sink' = sink /\ prog' = [prog EXCEPT ![m] = q]
  BY DEF TypeInv, Describes
<1>2. Follows(q, prog[m])
  BY <1>1, OnSuccessFollows DEF On
<1>3. q \in Program
  BY <1>2 DEF Follows
<1> HIDE DEF q
<1> QED BY <1>1, <1>2, <1>3 DEF GoesOn

LEMMA ProgramSteps ==
  ASSUME TypeInv, [Next]_vars
  PROVE  \/ UNCHANGED <<prog, sink>>
         \/ \E m \in People, q \in Program : GoesOn(m, q)
         \/ \E m \in People : SignsIn(m)
         \/ \E s, r \in People : Streams(s, r)
<1>1. CASE \E m \in People : Reads(m) \/ Describes(m) \/ Speaks(m) \/ Disconnects(m) \/ Stops(m)
  BY <1>1, ReadsGoesOn, DescribesGoesOn, SpeaksGoesOn, EndsGoesOn
<1>2. CASE \/ \E m \in People : Evicted(m) \/ PollAnswered(m)
           \/ ShutsDown \/ Over \/ UNCHANGED vars
  BY <1>2 DEF Evicted, PollAnswered, ShutsDown, Over, vars
<1> QED BY <1>1, <1>2 DEF Next, Progress

-----------------------------------------------------------------------------
(* The files.                                                              *)

(* A running receiver's file has the size of the sender whose description  *)
(* it holds; nothing was written before a program began.                   *)
FileInv ==
  \A r \in People :
    /\ KnowsItsPeer(prog[r])
    /\ sink[r].header = NoSize => sink[r].frames = <<>>
    /\ \A i \in DOMAIN sink[r].frames : sink[r].frames[i] = Payload(sink[r].header)
    /\ sink[r].header # NoSize => prog[r].state # "off"
    /\ sink[r].header # NoSize /\ On(r) =>
         /\ prog[r].role = "receiver" /\ prog[r].remote # NoPeer
         /\ sink[r].header = Size[prog[r].remote]

LEMMA PayloadType ==
  ASSUME NEW size \in Nat \X Nat
  PROVE  Payload(size) \in Nat
<1>1. size[1] \in Nat /\ size[2] \in Nat /\ Half(size[1]) \in Nat /\ Half(size[2]) \in Nat
  BY DEF Half
<1>2. \A a, b \in Nat : Plane(a, b) \in Nat
  BY DEF Plane
<1>3. \A a, b \in Nat : a + 2 * b \in Nat
  OBVIOUS
<1> QED BY <1>1, <1>2, <1>3 DEF Payload

LEMMA OnFrameFacts ==
  ASSUME NEW k \in Sinks, NEW size \in (Nat \X Nat) \ {NoSize},
         k.header \in {NoSize, size}, k.header = NoSize => k.frames = <<>>,
         \A i \in DOMAIN k.frames : k.frames[i] = Payload(k.header)
  PROVE  LET q == OnFrame(k, size)
         IN /\ q \in Sinks /\ q.header = size
            /\ \A i \in DOMAIN q.frames : q.frames[i] = Payload(size)
<1> DEFINE w == WriteHeader(k, size)
           q == [w EXCEPT !.frames = Append(@, Payload(size))]
<1>1. w \in Sinks /\ w.header = size /\ w.frames = k.frames
  BY DEF WriteHeader, Sinks
<1> HIDE DEF w
<1>2. w.frames \in Seq(Nat) /\ Payload(size) \in Nat
  BY <1>1, PayloadType DEF Sinks
<1>3. Append(w.frames, Payload(size)) \in Seq(Nat)
  BY <1>2
<1>4. /\ q \in Sinks /\ q.header = size
      /\ q.frames = Append(w.frames, Payload(size))
  BY <1>1, <1>3 DEF Sinks
<1>5. \A i \in DOMAIN w.frames : w.frames[i] = Payload(size)
  BY <1>1
<1>6. \A i \in DOMAIN Append(w.frames, Payload(size)) :
        Append(w.frames, Payload(size))[i] = Payload(size)
  BY <1>2, <1>5
<1>7. OnFrame(k, size) = q
  BY DEF OnFrame, w
<1> HIDE DEF q
<1> QED BY <1>4, <1>6, <1>7

LEMMA FileInit == Init => FileInv
BY NewProgramType DEF Init, FileInv, NewSink, On

LEMMA StreamsInv ==
  ASSUME TypeInv, FileInv, NEW s \in People, NEW r \in People, Streams(s, r)
  PROVE  FileInv' /\ sink' \in [People -> Sinks]
<1> DEFINE q == OnFrame(sink[r], Size[s])
<1>1. /\ prog[r].role = "receiver" /\ On(r) /\ prog[r].remote = s
      /\ prog' = prog /\ sink' = [sink EXCEPT ![r] = q]
  BY DEF Streams, InCall
<1>2. Size[s] \in (Nat \X Nat) \ {NoSize} /\ s # NoPeer
  BY SignalingAssumption DEF NoPeer
<1>3. sink[r] \in Sinks /\ sink[r].header \in {NoSize, Size[s]}
  BY <1>1 DEF TypeInv, FileInv
<1>4. /\ q \in Sinks /\ q.header = Size[s]
      /\ \A i \in DOMAIN q.frames : q.frames[i] = Payload(Size[s])
  BY <1>2, <1>3, OnFrameFacts DEF FileInv
<1> HIDE DEF q
<1>5. sink' \in [People -> Sinks] /\ sink'[r] = q /\ \A k \in People \ {r} : sink'[k] = sink[k]
  BY <1>1, <1>4 DEF TypeInv
<1>6. prog[r].state # "off"
  BY <1>1 DEF On
<1>7. FileInv'
  BY <1>1, <1>2, <1>4, <1>5, <1>6 DEF FileInv, On
<1> QED BY <1>5, <1>7

LEMMA FileNext == TypeInv /\ FileInv /\ [Next]_vars => TypeInv' /\ FileInv'
<1> SUFFICES ASSUME TypeInv, FileInv, [Next]_vars
             PROVE  TypeInv' /\ FileInv'
  OBVIOUS
<1>a. ChannelInv' /\ prog \in [People -> Program] /\ sink \in [People -> Sinks]
  BY ChannelNext DEF TypeInv
<1>1. CASE UNCHANGED <<prog, sink>>
  BY <1>a, <1>1 DEF TypeInv, FileInv, On
<1>2. ASSUME NEW m \in People, NEW q \in Program, GoesOn(m, q)
      PROVE  TypeInv' /\ FileInv'
  <2>1. prog' \in [People -> Program] /\ sink' = sink /\ prog'[m] = q
        /\ \A k \in People \ {m} : prog'[k] = prog[k]
    BY <1>a, <1>2 DEF GoesOn
  <2>2. /\ KnowsItsPeer(q) /\ q.state \in Begun /\ q.role = prog[m].role
        /\ prog[m].role = "receiver" /\ prog[m].remote # NoPeer /\ q.state = "on"
             => q.remote = prog[m].remote
    BY <1>2 DEF GoesOn, Follows, FileInv
  <2>3. On(m)
    BY <1>2 DEF GoesOn
  <2>4. FileInv'
    BY <2>1, <2>2, <2>3 DEF FileInv, On, Begun
  <2> QED BY <1>a, <2>1, <2>4 DEF TypeInv
<1>3. ASSUME NEW m \in People, SignsIn(m)
      PROVE  TypeInv' /\ FileInv'
  <2>1. PICK role \in {"sender", "receiver"} : prog' = [prog EXCEPT ![m] = NewProgram(role, "on")]
    BY <1>3 DEF SignsIn
  <2>2. prog[m].state = "off" /\ sink' = sink
    BY <1>3 DEF SignsIn
  <2>3. prog' \in [People -> Program] /\ KnowsItsPeer(prog'[m])
        /\ prog'[m].state = "on" /\ \A k \in People \ {m} : prog'[k] = prog[k]
    BY <1>a, <2>1, NewProgramType
  <2>4. FileInv'
    BY <2>2, <2>3 DEF FileInv, On
  <2> QED BY <1>a, <2>2, <2>3, <2>4 DEF TypeInv
<1>4. ASSUME NEW s \in People, NEW r \in People, Streams(s, r)
      PROVE  TypeInv' /\ FileInv'
  BY <1>a, <1>4, StreamsInv DEF TypeInv, Streams
<1> QED BY <1>1, <1>2, <1>3, <1>4, ProgramSteps

(* The state is well typed, and a program has at most one response to read:*)
(* the server answers a poll only when there is one.                       *)
THEOREM CallsTypeCorrect == Spec => []TypeOK
<1>1. TypeInv => TypeOK
  BY SaidAreEvents DEF TypeInv, ChannelInv, TypeOK
<1> QED BY <1>1, TypeInit, FileInit, FileNext, PTL DEF Spec

(* Whoever calls a receiver, in whatever order, its file holds frames of   *)
(* one size only, which is the one that its header announces.              *)
THEOREM FilesCorrect == Spec => []FileConsistent
<1>1. FileInv => FileConsistent
  BY DEF FileInv, FileConsistent
<1> QED BY <1>1, TypeInit, FileInit, FileNext, PTL DEF Spec
-----------------------------------------------------------------------------
(* What is on its way.                                                     *)

(* The line of a program: the response it has not read, then what is       *)
(* pending in its mailbox.                                                 *)
Ahead(k) == Len(inbox[k]) + Len(posted[k]) - Len(handed[k])

Item(k, i) == IF i <= Len(inbox[k]) THEN inbox[k][i]
              ELSE posted[k][Len(handed[k]) + i - Len(inbox[k])]

Letter(s, text) == [kind |-> "mail", who |-> {s}, text |-> text]

Mail(k, i, s, text) == i \in 1 .. Ahead(k) /\ Item(k, i) = Letter(s, text)

Known(m) == prog[m].state # "off"

(* Nothing waits for a program that has not begun.                         *)
LineInv ==
  \A k \in People :
    /\ Len(handed[k]) <= Len(posted[k])
    /\ ~Known(k) => /\ posted[k] = <<>> /\ handed[k] = <<>> /\ inbox[k] = <<>>
                    /\ k \notin room

(* What an item in a line may be.                                          *)
Likely(e) ==
  /\ e \in Said /\ \A s \in e.who : Known(s)
  /\ e.kind # "mail" => e.text = ""
  /\ e.kind = "mail" => \E s \in People : \E text \in Texts :
       /\ e = Letter(s, text)
       /\ text = "offer" => prog[s].role = "sender"
       /\ text = "answer" => prog[s].role = "receiver"

NewsInv ==
  \A k \in People : \A i \in 1 .. Ahead(k) :
    /\ Likely(Item(k, i))
    /\ Item(k, i).kind = "closing" => ~up /\ Ahead(k) = 1

(* A program by itself.                                                    *)
Has(p, text) == p.outbox # <<>> /\ Head(p.outbox) = text

Called(p) == p.sig = "have-local-offer" \/ p.remote # NoPeer

Description(p) == IF p.role = "sender" THEN "offer" ELSE "answer"

Orderly(p) ==
  /\ p.state = "off" => p.role = "none"
  /\ p.state = "on" => p.role \in {"sender", "receiver"}
  /\ p.sig = "none" => /\ p.peer = NoPeer /\ p.remote = NoPeer
                       /\ p.creating = "none" /\ p.outbox = <<>>
  /\ p.state # "on" => p.sig = "none"
  /\ p.creating \in {"none", Description(p)}
  /\ p.creating # "none" => p.outbox = <<>>
  /\ p.creating # "none" \/ p.outbox # <<>> => p.peer # NoPeer
  /\ p.outbox \in {<<>>, <<Description(p)>>, <<Description(p), "candidate">>,
                   <<"candidate">>}
  /\ p.outbox # <<>> => Called(p)
  /\ p.sig = "have-remote-offer" => p.remote # NoPeer
  /\ p.role = "receiver" =>
       /\ p.remote \in {NoPeer, p.peer}
       /\ p.sig # "have-local-offer"
       /\ p.creating = "answer" <=> p.sig = "have-remote-offer"

Fits(m) ==
  /\ Orderly(prog[m])
  /\ prog[m].peer # NoPeer => Known(prog[m].peer)
  /\ prog[m].remote # NoPeer => Known(prog[m].remote)
  /\ On(m) /\ prog[m].peer = NoPeer /\ prog[m].sig # "none" => ~up /\ Ahead(m) = 0

ProgramsInv == \A m \in People : Fits(m)

(* The one offer of a sender.                                              *)
Offered(s) ==
  /\ prog[s].role = "sender" /\ prog[s].creating # "offer" /\ ~Has(prog[s], "offer")
  /\ On(s) => prog[s].peer # NoPeer /\ Called(prog[s])

Accepted(s) == \E r \in People : prog[r].role = "receiver" /\ prog[r].remote = s

OfferInv ==
  \A s \in People :
    /\ Accepted(s) => Offered(s)
    /\ \A k \in People : \A i \in Nat : Mail(k, i, s, "offer") =>
         /\ Offered(s) /\ ~Accepted(s)
         /\ \A l \in People : \A j \in Nat : Mail(l, j, s, "offer") => l = k /\ j = i

Settled(r, s) == On(r) => prog[r].remote = s /\ prog[r].sig = "stable"

AnswerInv ==
  \A r, s \in People :
    /\ prog[r].role = "receiver" /\ prog[s].role = "sender" /\ prog[s].remote = r
         => Settled(r, s)
    /\ \A i \in Nat : Mail(s, i, r, "answer") =>
         Settled(r, s) /\ (On(s) => Called(prog[s]))

(* k has the description of s, or is in a call with another.               *)
Informed(k, s) ==
  On(k) => prog[k].remote # NoPeer \/ prog[k].peer \notin {NoPeer, s}

Described(k, s, n) ==
  \E j \in Nat : j < n /\ (Mail(k, j, s, "offer") \/ Mail(k, j, s, "answer"))

CandidateInv ==
  \A k, s \in People :
    prog[k].role # prog[s].role =>
      /\ \A i \in Nat : Mail(k, i, s, "candidate") => Described(k, s, i) \/ Informed(k, s)
      /\ up /\ prog[s].peer = k /\ Has(prog[s], "candidate")
           => Described(k, s, Ahead(k) + 1) \/ Informed(k, s)

CallsInv ==
  LineInv /\ NewsInv /\ ProgramsInv /\ OfferInv /\ AnswerInv /\ CandidateInv
-----------------------------------------------------------------------------
(* What a step does to a line.                                             *)

Stays(k) ==
  Ahead(k)' = Ahead(k) /\ \A i \in 1 .. Ahead(k) : Item(k, i)' = Item(k, i)

Gets(k, e) ==
  /\ Ahead(k)' = Ahead(k) + 1
  /\ \A i \in 1 .. Ahead(k) + 1 : Item(k, i)' = IF i <= Ahead(k) THEN Item(k, i) ELSE e

Begins(k, e) == Ahead(k)' = 1 /\ Item(k, 1)' = e

Advances(k) ==
  /\ Ahead(k) \in Nat \ {0} /\ Ahead(k)' = Ahead(k) - 1
  /\ \A i \in 1 .. Ahead(k) - 1 : Item(k, i)' = Item(k, i + 1)

Cuts(k) ==
  /\ Ahead(k)' \in 0 .. Ahead(k)
  /\ \A i \in 1 .. Ahead(k) : i <= Ahead(k)' => Item(k, i)' = Item(k, i)

LEMMA LineType ==
  ASSUME ChannelInv, LineInv, NEW k \in People
  PROVE  /\ posted[k] \in Seq(Said) /\ handed[k] \in Seq(Said) /\ inbox[k] \in Seq(Said)
         /\ Len(posted[k]) \in Nat /\ Len(handed[k]) \in Nat /\ Len(inbox[k]) \in Nat
         /\ Len(inbox[k]) <= 1 /\ Len(handed[k]) <= Len(posted[k])
         /\ Ahead(k) \in Nat
         /\ \A i \in 1 .. Ahead(k) : Item(k, i) \in Said
<1>1. /\ posted[k] \in Seq(Said) /\ handed[k] \in Seq(Said) /\ inbox[k] \in Seq(Said)
      /\ Len(inbox[k]) <= 1 /\ Len(handed[k]) <= Len(posted[k])
  BY DEF ChannelInv, Mailboxes, LineInv
<1>2. Len(posted[k]) \in Nat /\ Len(handed[k]) \in Nat /\ Len(inbox[k]) \in Nat
  BY <1>1
<1> DEFINE a == Len(inbox[k])
           b == Len(posted[k])
           c == Len(handed[k])
<1>0. a \in Nat /\ b \in Nat /\ c \in Nat /\ a <= 1 /\ c <= b /\ Ahead(k) = a + b - c
  BY <1>1, <1>2 DEF Ahead
<1>3. Ahead(k) \in Nat
  <2> HIDE DEF a, b, c
  <2> QED BY <1>0
<1>4. ASSUME NEW i \in 1 .. Ahead(k) PROVE Item(k, i) \in Said
  <2>1. CASE i <= Len(inbox[k])
    BY <1>1, <1>2, <2>1 DEF Item
  <2>2. CASE ~(i <= Len(inbox[k]))
    <3>1. c + i - a \in 1 .. b
      <4>1. ~(i <= a) /\ i \in 1 .. a + b - c
        BY <1>0, <2>2
      <4> HIDE DEF a, b, c
      <4> QED BY <1>0, <4>1
    <3>2. posted[k][c + i - a] \in Said
      BY <1>1, <3>1
    <3> QED BY <2>2, <3>2 DEF Item
  <2> QED BY <2>1, <2>2
<1> QED BY <1>1, <1>2, <1>3, <1>4

(* The response to a poll is read after those that came before.            *)
LEMMA InboxAfter ==
  ASSUME ChannelInv, LineInv, NEW gone, Delivers(gone), NEW k \in People, k \notin gone
  PROVE  /\ handed'[k] = handed[k] => inbox'[k] = inbox[k]
         /\ \A x \in Said : handed'[k] = Append(handed[k], x) =>
              inbox[k] = <<>> /\ inbox'[k] = <<x>>
<1> DEFINE new == SubSeq(handed'[k], Len(handed[k]) + 1, Len(handed'[k]))
<1>1. inbox'[k] = inbox[k] \o new
  BY DEF Delivers
<1>2. handed[k] \in Seq(Said) /\ inbox[k] \in Seq(Said) /\ Len(handed[k]) \in Nat
  BY LineType
<1>3. CASE handed'[k] = handed[k]
  <2>1. new = <<>>
    BY <1>2, <1>3, SubSeqEmpty
  <2>2. Append(handed[k], 0) # handed[k] /\ \A x \in Said : handed[k] # Append(handed[k], x)
    BY <1>2
  <2> HIDE DEF new
  <2> QED BY <1>1, <1>2, <1>3, <2>1, <2>2, ConcatEmptySeq
<1>4. ASSUME NEW x \in Said, handed'[k] = Append(handed[k], x)
      PROVE  inbox[k] = <<>> /\ inbox'[k] = <<x>>
  <2>1. handed'[k] # handed[k] /\ Len(handed'[k]) = Len(handed[k]) + 1
    BY <1>2, <1>4
  <2>2. inbox[k] = <<>>
    BY <2>1 DEF Delivers, Polls
  <2>3. new = <<x>>
    <3>1. handed'[k] \in Seq(Said) /\ Len(handed[k]) + 1 \in 1 .. Len(handed'[k])
      BY <1>2, <1>4, <2>1
    <3>2. /\ new \in Seq(Said) /\ Len(new) = 1
          /\ new[1] = handed'[k][Len(handed[k]) + 1]
      BY <1>2, <2>1, <3>1, SubSeqProperties
    <3>3. handed'[k][Len(handed[k]) + 1] = x
      BY <1>2, <1>4
    <3> HIDE DEF new
    <3> QED BY <3>2, <3>3
  <2> HIDE DEF new
  <2> QED BY <1>1, <2>2, <2>3
<1>5. CASE handed'[k] # handed[k]
  BY <1>4, <1>5
<1> QED BY <1>3, <1>5, <1>4

LEMMA OneLine ==
  ASSUME ChannelInv, LineInv, NEW gone, Delivers(gone), NEW k \in People, k \notin gone
  PROVE  /\ handed'[k] = handed[k] /\ posted'[k] = posted[k] => Stays(k)
         /\ \A e \in Said : handed'[k] = handed[k] /\ posted'[k] = Append(posted[k], e)
              => Gets(k, e)
         /\ /\ posted'[k] = posted[k] /\ Len(handed[k]) < Len(posted[k])
            /\ handed'[k] = Append(handed[k], posted[k][Len(handed[k]) + 1])
            => Stays(k)
         /\ \A e \in Said : /\ posted[k] = handed[k] /\ handed'[k] = posted'[k]
                            /\ posted'[k] = Append(posted[k], e)
              => Gets(k, e)
<1>1. /\ posted[k] \in Seq(Said) /\ handed[k] \in Seq(Said) /\ inbox[k] \in Seq(Said)
      /\ Len(posted[k]) \in Nat /\ Len(handed[k]) \in Nat /\ Len(inbox[k]) \in Nat
      /\ Len(handed[k]) <= Len(posted[k]) /\ Ahead(k) \in Nat
  BY LineType
<1> DEFINE a == Len(inbox[k])
           b == Len(posted[k])
           c == Len(handed[k])
<1>0. /\ a \in Nat /\ b \in Nat /\ c \in Nat /\ c <= b /\ Ahead(k) = a + b - c
      /\ Ahead(k) \in Nat
      /\ \A i : Item(k, i) = IF i <= a THEN inbox[k][i] ELSE posted[k][c + i - a]
  BY <1>1 DEF Ahead, Item
<1>2. CASE handed'[k] = handed[k] /\ posted'[k] = posted[k]
  <2>1. inbox'[k] = inbox[k]
    BY <1>2, InboxAfter
  <2> QED BY <1>2, <2>1 DEF Stays, Ahead, Item
<1>3. ASSUME NEW e \in Said, handed'[k] = handed[k], posted'[k] = Append(posted[k], e)
      PROVE  Gets(k, e)
  <2>1. inbox'[k] = inbox[k]
    BY <1>3, InboxAfter
  <2>2. /\ Len(posted'[k]) = Len(posted[k]) + 1 /\ posted'[k][Len(posted[k]) + 1] = e
        /\ \A i \in 1 .. Len(posted[k]) : posted'[k][i] = posted[k][i]
    BY <1>1, <1>3
  <2>a. /\ Ahead(k)' = a + (b + 1) - c
        /\ \A i : Item(k, i)' = IF i <= a THEN inbox[k][i] ELSE posted'[k][c + i - a]
    BY <1>3, <2>1, <2>2 DEF Ahead, Item
  <2>b. posted'[k][b + 1] = e /\ \A i \in 1 .. b : posted'[k][i] = posted[k][i]
    BY <2>2
  <2> HIDE DEF a, b, c
  <2>3. Ahead(k)' = Ahead(k) + 1
    BY <1>0, <2>a
  <2>4. ASSUME NEW i \in 1 .. Ahead(k) + 1
        PROVE  Item(k, i)' = IF i <= Ahead(k) THEN Item(k, i) ELSE e
    <3>1. CASE i <= a
      <4>1. i <= Ahead(k)
        BY <1>0, <3>1
      <4> QED BY <1>0, <2>a, <3>1, <4>1
    <3>2. CASE ~(i <= a) /\ i <= Ahead(k)
      <4>1. c + i - a \in 1 .. b
        BY <1>0, <3>2
      <4> QED BY <1>0, <2>a, <2>b, <3>2, <4>1
    <3>3. CASE ~(i <= a) /\ ~(i <= Ahead(k))
      <4>1. c + i - a = b + 1
        BY <1>0, <3>3
      <4> QED BY <2>a, <2>b, <3>3, <4>1
    <3> QED BY <3>1, <3>2, <3>3
  <2> QED BY <2>3, <2>4 DEF Gets
<1>4. ASSUME posted'[k] = posted[k], Len(handed[k]) < Len(posted[k]),
             handed'[k] = Append(handed[k], posted[k][Len(handed[k]) + 1])
      PROVE  Stays(k)
  <2> DEFINE x == posted[k][Len(handed[k]) + 1]
  <2>1. x \in Said
    BY <1>1, <1>4
  <2>2. inbox[k] = <<>> /\ inbox'[k] = <<x>>
    BY <1>4, <2>1, InboxAfter
  <2>3. Len(handed'[k]) = Len(handed[k]) + 1
    BY <1>1, <1>4, <2>1
  <2>4. Len(inbox[k]) = 0 /\ Len(inbox'[k]) = 1 /\ inbox'[k][1] = x
    BY <2>2
  <2>5. Ahead(k)' = Ahead(k)
    BY <1>1, <1>4, <2>3, <2>4 DEF Ahead
  <2>6. ASSUME NEW i \in 1 .. Ahead(k) PROVE Item(k, i)' = Item(k, i)
    <3>1. CASE i = 1
      BY <1>1, <2>4, <3>1 DEF Item
    <3>2. CASE i > 1
      <4>1. Len(handed[k]) + 1 + i - 1 = Len(handed[k]) + i - 0
        BY <1>1
      <4> QED BY <1>1, <1>4, <2>3, <2>4, <3>2, <4>1 DEF Item
    <3> QED BY <1>1, <3>1, <3>2
  <2> QED BY <2>5, <2>6 DEF Stays
<1>5. ASSUME NEW e \in Said, posted[k] = handed[k], handed'[k] = posted'[k],
             posted'[k] = Append(posted[k], e)
      PROVE  Gets(k, e)
  <2>1. inbox[k] = <<>> /\ inbox'[k] = <<e>>
    BY <1>5, InboxAfter
  <2>2. Len(inbox[k]) = 0 /\ Len(inbox'[k]) = 1 /\ inbox'[k][1] = e
    BY <2>1
  <2>3. Len(posted'[k]) = Len(posted[k]) + 1
    BY <1>1, <1>5
  <2>4. Ahead(k) = 0 /\ Ahead(k)' = 1
    BY <1>1, <1>5, <2>2, <2>3 DEF Ahead
  <2>5. Item(k, 1)' = e
    BY <2>2 DEF Item
  <2> QED BY <2>4, <2>5 DEF Gets
<1> QED BY <1>2, <1>3, <1>4, <1>5

LEMMA PostLine ==
  ASSUME ChannelInv, LineInv, NEW gone, Delivers(gone),
         NEW boxes, NEW served, Room!Post(boxes, served), NEW e \in Said,
         NEW k \in People, k \notin gone, k \notin served
  PROVE  /\ boxes[k] = posted[k] =>
              /\ posted'[k] = posted[k] /\ handed'[k] = handed[k] /\ inbox'[k] = inbox[k]
              /\ Stays(k)
         /\ boxes[k] = Append(posted[k], e) =>
              Gets(k, e) /\ Len(handed'[k]) <= Len(posted'[k])
<1>1. PICK prompt \in SUBSET Room!Drained :
        handed' = [m \in People |-> IF m \in prompt \cup served THEN boxes[m] ELSE handed[m]]
  BY DEF Room!Post
<1>2. posted'[k] = boxes[k]
  BY DEF Room!Post
<1>3. \/ handed'[k] = handed[k]
      \/ handed'[k] = boxes[k] /\ handed[k] = posted[k]
  BY <1>1 DEF Room!Drained
<1>4. /\ posted[k] \in Seq(Said) /\ Len(posted[k]) \in Nat /\ Len(handed[k]) \in Nat
      /\ Len(handed[k]) <= Len(posted[k])
  BY LineType
<1>5. CASE boxes[k] = posted[k]
  <2>1. handed'[k] = handed[k] /\ posted'[k] = posted[k]
    BY <1>2, <1>3, <1>5
  <2>2. inbox'[k] = inbox[k] /\ Stays(k)
    BY <2>1, InboxAfter, OneLine
  <2>3. boxes[k] # Append(posted[k], e)
    BY <1>4, <1>5
  <2> QED BY <2>1, <2>2, <2>3
<1>6. CASE boxes[k] = Append(posted[k], e)
  <2>1. Gets(k, e)
    BY <1>2, <1>3, <1>6, OneLine
  <2>2. Len(boxes[k]) = Len(posted[k]) + 1
    BY <1>4, <1>6
  <2>3. Len(handed'[k]) <= Len(posted'[k])
    BY <1>2, <1>3, <1>4, <2>2
  <2>4. boxes[k] # posted[k]
    BY <1>4, <1>6
  <2> QED BY <2>1, <2>3, <2>4
<1> QED BY <1>5, <1>6

Silent(k) == posted[k] = <<>> /\ handed[k] = <<>> /\ inbox[k] = <<>>

(* The newcomer is welcomed, the others are told.                          *)
LEMMA SignsInLines ==
  ASSUME TypeInv, LineInv, NEW m \in People, SignsIn(m)
  PROVE  /\ LineInv'
         /\ \E e \in Said : /\ Begins(m, e) /\ e.kind = "welcome" /\ e.text = ""
                            /\ \A s \in e.who : s = m \/ Known(s)
         /\ \A k \in People \ {m} : Stays(k) \/ Gets(k, Room!Happened("joined", {m}))
<1> DEFINE joined == Room!Happened("joined", {m})
           told == Room!With(joined, room)
           welcome == Room!Happened("welcome", room')
           boxes == [told EXCEPT ![m] = <<welcome>>]
<1>1. /\ ChannelInv /\ Room!Join(m) /\ Delivers({}) /\ ~Known(m) /\ prog \in [People -> Program]
      /\ \E role \in {"sender", "receiver"} : prog' = [prog EXCEPT ![m] = NewProgram(role, "on")]
  BY DEF SignsIn, TypeInv, Known
<1>2. /\ room' = room \cup {m} /\ Room!Post(boxes, {m})
      /\ room' \in SUBSET People /\ room' # {}
  BY <1>1 DEF Room!Join, ChannelInv
<1>3. joined \in Said /\ welcome \in Said
  BY <1>2, SaidItems
<1>4. \A k \in People \ {m} : boxes[k] = IF k \in room THEN Append(posted[k], joined) ELSE posted[k]
  BY DEF Room!With
<1>5. boxes[m] = <<welcome>>
  BY DEF Room!With
<1>6. /\ welcome.kind = "welcome" /\ welcome.text = "" /\ welcome.who = room'
      /\ \A s \in room : Known(s)
  BY <1>1, <1>2 DEF Room!Happened, LineInv, ChannelInv
<1>7. posted'[m] = <<welcome>> /\ handed'[m] = <<welcome>>
  BY <1>2, <1>5 DEF Room!Post
<1>8. Silent(m)
  BY <1>1 DEF LineInv, Silent
<1>9. \A k \in People \ {m} : Known(k)' <=> Known(k)
  BY <1>1 DEF Known
<1>10. Known(m)'
  BY <1>1, NewProgramType DEF Known
<1> HIDE DEF joined, told, welcome, boxes
<1>11. ASSUME NEW k \in People \ {m}
       PROVE  /\ Stays(k) \/ Gets(k, joined)
              /\ Len(handed'[k]) <= Len(posted'[k])
              /\ ~Known(k) => Silent(k)' /\ k \notin room'
  <2>1. /\ boxes[k] = posted[k] =>
              /\ posted'[k] = posted[k] /\ handed'[k] = handed[k] /\ inbox'[k] = inbox[k]
              /\ Stays(k)
        /\ boxes[k] = Append(posted[k], joined) =>
              Gets(k, joined) /\ Len(handed'[k]) <= Len(posted'[k])
    BY <1>1, <1>2, <1>3, PostLine
  <2>2. CASE k \in room
    BY <1>4, <1>6, <2>1, <2>2
  <2>3. CASE k \notin room
    BY <1>2, <1>4, <2>1, <2>3 DEF LineInv, Silent
  <2> QED BY <2>2, <2>3
<1>12. Begins(m, welcome)
  <2>1. handed'[m] = Append(handed[m], welcome)
    BY <1>7, <1>8 DEF Silent
  <2>2. inbox'[m] = <<welcome>>
    BY <1>1, <1>3, <2>1, InboxAfter
  <2>3. Len(inbox'[m]) = 1 /\ inbox'[m][1] = welcome /\ Len(posted'[m]) = 1 /\ Len(handed'[m]) = 1
    BY <1>7, <2>2
  <2> QED BY <2>3 DEF Begins, Ahead, Item
<1>13. LineInv'
  BY <1>7, <1>9, <1>10, <1>11 DEF LineInv, Silent
<1> QED BY <1>2, <1>3, <1>6, <1>11, <1>12, <1>13 DEF joined

(* Who leaves has no mailbox any more, the others are told.                *)
LEMMA EvictedLines ==
  ASSUME TypeInv, LineInv, NEW m \in People, Evicted(m)
  PROVE  /\ LineInv' /\ Cuts(m) /\ Known(m)
         /\ \A k \in People \ {m} : Stays(k) \/ Gets(k, Room!Happened("left", {m}))
<1> DEFINE left == Room!Happened("left", {m})
           told == Room!With(left, room')
           boxes == [told EXCEPT ![m] = <<>>]
<1>1. ChannelInv /\ Room!Leave(m) /\ Delivers({m}) /\ Known(m) /\ prog' = prog
  BY DEF Evicted, TypeInv, Known
<1>2. room' = room \ {m} /\ Room!Post(boxes, {m})
  BY <1>1 DEF Room!Leave
<1>3. left \in Said
  BY SaidItems
<1>4. \A k \in People \ {m} : boxes[k] = IF k \in room' THEN Append(posted[k], left) ELSE posted[k]
  BY DEF Room!With
<1>5. boxes[m] = <<>>
  BY DEF Room!With
<1>6. posted'[m] = <<>> /\ handed'[m] = <<>>
  BY <1>2, <1>5 DEF Room!Post
<1>7. inbox'[m] = <<>>
  BY <1>1 DEF Delivers
<1> HIDE DEF left, told, boxes
<1>8. ASSUME NEW k \in People \ {m}
      PROVE  /\ Stays(k) \/ Gets(k, left)
             /\ Len(handed'[k]) <= Len(posted'[k])
             /\ ~Known(k) => Silent(k)' /\ k \notin room'
  <2>1. /\ boxes[k] = posted[k] =>
              /\ posted'[k] = posted[k] /\ handed'[k] = handed[k] /\ inbox'[k] = inbox[k]
              /\ Stays(k)
        /\ boxes[k] = Append(posted[k], left) =>
              Gets(k, left) /\ Len(handed'[k]) <= Len(posted'[k])
    BY <1>1, <1>2, <1>3, PostLine
  <2>2. CASE k \in room'
    BY <1>2, <1>4, <2>1, <2>2 DEF LineInv
  <2>3. CASE k \notin room'
    BY <1>2, <1>4, <2>1, <2>3 DEF LineInv, Silent
  <2> QED BY <2>2, <2>3
<1>9. Cuts(m)
  <2>1. Len(inbox'[m]) = 0 /\ Len(posted'[m]) = 0 /\ Len(handed'[m]) = 0
    BY <1>6, <1>7
  <2>2. Ahead(m)' = 0
    <3>1. Ahead(m)' = Len(inbox'[m]) + Len(posted'[m]) - Len(handed'[m])
      BY DEF Ahead
    <3> QED BY <2>1, <3>1
  <2>3. Ahead(m) \in Nat
    BY <1>1, LineType
  <2> QED BY <2>2, <2>3 DEF Cuts
<1>10. LineInv'
  BY <1>1, <1>6, <1>8 DEF LineInv, Silent, Known
<1> QED BY <1>1, <1>8, <1>9, <1>10 DEF left

LEMMA PollAnsweredLines ==
  ASSUME TypeInv, LineInv, NEW m \in People, PollAnswered(m)
  PROVE  LineInv' /\ \A k \in People : Stays(k)
<1>1. ChannelInv /\ Room!Take(m) /\ Delivers({}) /\ prog' = prog
  BY DEF PollAnswered, TypeInv
<1> DEFINE x == posted[m][Len(handed[m]) + 1]
<1>2. /\ m \in room /\ room' = room /\ posted' = posted
      /\ Len(handed[m]) < Len(posted[m])
      /\ handed' = [handed EXCEPT ![m] = Append(@, x)]
  BY <1>1 DEF Room!Take
<1>3. /\ handed[m] \in Seq(Said) /\ posted[m] \in Seq(Said)
      /\ Len(handed[m]) \in Nat /\ Len(posted[m]) \in Nat /\ handed \in Mailboxes
  BY <1>1, LineType DEF ChannelInv
<1>4. x \in Said
  BY <1>2, <1>3
<1>5. handed'[m] = Append(handed[m], x) /\ \A k \in People \ {m} : handed'[k] = handed[k]
  BY <1>2, <1>3 DEF Mailboxes
<1>6. Stays(m)
  BY <1>1, <1>2, <1>5, OneLine
<1>7. \A k \in People \ {m} : Stays(k) /\ inbox'[k] = inbox[k]
  BY <1>1, <1>2, <1>5, OneLine, InboxAfter
<1>8. Len(handed'[m]) <= Len(posted'[m]) /\ Known(m)'
  <2>1. Len(handed'[m]) = Len(handed[m]) + 1
    BY <1>3, <1>4, <1>5
  <2>2. Known(m)'
    BY <1>1, <1>2 DEF LineInv, Known
  <2> QED BY <1>2, <1>3, <2>1, <2>2
<1>9. LineInv'
  BY <1>1, <1>2, <1>5, <1>7, <1>8 DEF LineInv, Known
<1> QED BY <1>6, <1>7, <1>9

(* A farewell, or the response on its way and nothing after it.            *)
LEMMA ShutsDownLines ==
  ASSUME TypeInv, LineInv, ShutsDown
  PROVE  /\ LineInv'
         /\ \A k \in People : Cuts(k) \/ Begins(k, Farewell)
<1>1. /\ room' = {} /\ prog' = prog
      /\ posted' = [m \in People |-> <<>>] /\ handed' = [m \in People |-> <<>>]
  BY DEF ShutsDown, Room!Dismiss
<1>2. PICK parked \in SUBSET {m \in Room!Drained : On(m) /\ inbox[m] = <<>>} :
        inbox' = [m \in People |-> IF m \in parked THEN <<Farewell>> ELSE inbox[m]]
  BY DEF ShutsDown
<1>3. ASSUME NEW k \in People
      PROVE  /\ posted'[k] = <<>> /\ handed'[k] = <<>>
             /\ Len(posted'[k]) = 0 /\ Len(handed'[k]) = 0
  BY <1>1
<1>4. ASSUME NEW k \in People PROVE Cuts(k) \/ Begins(k, Farewell)
  <2>1. /\ Len(inbox[k]) \in Nat /\ Ahead(k) \in Nat
        /\ Len(inbox[k]) <= Ahead(k)
    <3> DEFINE a == Len(inbox[k])
               b == Len(posted[k])
               c == Len(handed[k])
    <3>1. a \in Nat /\ b \in Nat /\ c \in Nat /\ c <= b /\ Ahead(k) = a + b - c
      BY LineType DEF TypeInv, Ahead
    <3> HIDE DEF a, b, c
    <3>2. a <= Ahead(k) /\ Ahead(k) \in Nat
      BY <3>1
    <3> QED BY <3>1, <3>2 DEF a
  <2>2. CASE inbox'[k] = inbox[k]
    <3>1. Ahead(k)' = Len(inbox[k])
      <4>1. Ahead(k)' = Len(inbox[k]) + Len(posted'[k]) - Len(handed'[k])
        BY <2>2 DEF Ahead
      <4>2. \A n \in Nat : n + 0 - 0 = n
        OBVIOUS
      <4> QED BY <1>3, <2>1, <4>1, <4>2
    <3>2. ASSUME NEW i \in 1 .. Len(inbox[k])
          PROVE  Item(k, i) = inbox[k][i] /\ Item(k, i)' = inbox[k][i]
      <4>1. i <= Len(inbox[k])
        BY <2>1
      <4>2. Item(k, i) = inbox[k][i]
        BY <4>1 DEF Item
      <4>3. Item(k, i)' = inbox[k][i]
        BY <2>2, <4>1 DEF Item
      <4> QED BY <4>2, <4>3
    <3> QED BY <2>1, <3>1, <3>2 DEF Cuts
  <2>3. CASE inbox'[k] = <<Farewell>>
    <3>1. Len(inbox'[k]) = 1 /\ inbox'[k][1] = Farewell
      BY <2>3
    <3>2. Ahead(k)' = 1
      <4>1. Ahead(k)' = Len(inbox'[k]) + Len(posted'[k]) - Len(handed'[k])
        BY DEF Ahead
      <4> QED BY <1>3, <3>1, <4>1
    <3> QED BY <3>1, <3>2 DEF Begins, Item
  <2> QED BY <1>2, <2>2, <2>3
<1>5. ASSUME NEW k \in People, ~Known(k)' PROVE inbox'[k] = <<>>
  BY <1>1, <1>2, <1>5 DEF LineInv, Known, On
<1>6. LineInv'
  BY <1>1, <1>3, <1>5 DEF LineInv
<1> QED BY <1>4, <1>6

LEMMA SameLines ==
  ASSUME TypeInv, LineInv, UNCHANGED <<room, posted, handed, inbox>>,
         \A k \in People : Known(k)' <=> Known(k)
  PROVE  LineInv' /\ \A k \in People : Stays(k)
<1>1. \A k \in People : Stays(k)
  BY DEF Stays, Ahead, Item
<1>2. LineInv'
  BY DEF LineInv
<1> QED BY <1>1, <1>2

(* Who reads takes the first item of its line.                             *)
LEMMA ReadsLines ==
  ASSUME TypeInv, LineInv, NEW m \in People, On(m), inbox[m] # <<>>,
         UNCHANGED <<room, posted, handed>>, inbox' = [inbox EXCEPT ![m] = Tail(@)],
         \A k \in People : Known(k)' <=> Known(k)
  PROVE  /\ LineInv' /\ Advances(m) /\ Item(m, 1) = Head(inbox[m])
         /\ \A k \in People \ {m} : Stays(k)
<1>1. /\ UNCHANGED <<room, posted, handed>> /\ inbox[m] # <<>>
      /\ inbox' = [inbox EXCEPT ![m] = Tail(@)] /\ Known(m)
  BY DEF Reads, roomVars, On, Known
<1> DEFINE a == Len(inbox[m])
           b == Len(posted[m])
           c == Len(handed[m])
<1>2. /\ a \in Nat /\ b \in Nat /\ c \in Nat /\ a <= 1 /\ c <= b
      /\ inbox[m] \in Seq(Said)
  BY LineType DEF TypeInv
<1>3. a = 1 /\ inbox[m][1] = Head(inbox[m]) /\ Tail(inbox[m]) = <<>>
  <2>1. a # 0
    BY <1>1, <1>2
  <2>2. a = 1
    <3> HIDE DEF a, b, c
    <3> QED BY <1>2, <2>1
  <2>3. inbox[m][1] = Head(inbox[m])
    BY <1>1, <1>2
  <2>4. Tail(inbox[m]) = <<>>
    <3>1. Tail(inbox[m]) \in Seq(Said) /\ Len(Tail(inbox[m])) = a - 1
      BY <1>1, <1>2, HeadTailProperties
    <3>2. Len(Tail(inbox[m])) = 0
      BY <2>2, <3>1
    <3> QED BY <3>1, <3>2, EmptySeq
  <2> QED BY <2>2, <2>3, <2>4
<1>4. inbox'[m] = <<>> /\ \A k \in People \ {m} : inbox'[k] = inbox[k]
  BY <1>1, <1>3 DEF TypeInv, ChannelInv, Mailboxes
<1>5. Len(inbox'[m]) = 0
  BY <1>4
<1>6. /\ Ahead(m) = a + b - c /\ Ahead(m)' = Len(inbox'[m]) + b - c
      /\ \A i : Item(m, i) = IF i <= a THEN inbox[m][i] ELSE posted[m][c + i - a]
      /\ \A i : Item(m, i)' = IF i <= Len(inbox'[m]) THEN inbox'[m][i] ELSE posted[m][c + i - Len(inbox'[m])]
  BY <1>1 DEF Ahead, Item
<1>7. Advances(m) /\ Item(m, 1) = Head(inbox[m])
  <2>1. Item(m, 1) = Head(inbox[m])
    BY <1>3, <1>6
  <2> HIDE DEF a, b, c
  <2>2. Ahead(m) \in Nat \ {0} /\ Ahead(m)' = Ahead(m) - 1
    BY <1>2, <1>3, <1>5, <1>6
  <2>3. ASSUME NEW i \in 1 .. Ahead(m) - 1 PROVE Item(m, i)' = Item(m, i + 1)
    <3>1. ~(i <= 0) /\ ~(i + 1 <= a) /\ c + i - 0 = c + (i + 1) - a
      BY <1>2, <1>3, <2>2
    <3> QED BY <1>5, <1>6, <3>1
  <2> QED BY <2>1, <2>2, <2>3 DEF Advances
<1>8. \A k \in People \ {m} : Stays(k)
  BY <1>1, <1>4 DEF Stays, Ahead, Item
<1>9. LineInv'
  BY <1>1, <1>4 DEF LineInv
<1> QED BY <1>7, <1>8, <1>9

LEMMA SpeaksLines ==
  ASSUME TypeInv, LineInv, NEW m \in People, NEW k \in People, NEW text \in Texts,
         Room!SendText(m, k, text), Delivers({}), \A j \in People : Known(j)' <=> Known(j)
  PROVE  /\ LineInv' /\ Gets(k, Letter(m, text)) /\ Known(k)
         /\ \A j \in People \ {k} : Stays(j)
<1> DEFINE boxes == Room!With([kind |-> "mail", who |-> {m}, text |-> text], {k})
<1>1. k \in room /\ room' = room /\ Room!Post(boxes, {}) /\ Letter(m, text) \in Said /\ ChannelInv
  BY SaidItems DEF Room!SendText, Letter, TypeInv
<1>2. \A j \in People : boxes[j] = IF j = k THEN Append(posted[j], Letter(m, text)) ELSE posted[j]
  BY DEF Room!With, Letter
<1> HIDE DEF boxes
<1>3. ASSUME NEW j \in People
      PROVE  /\ boxes[j] = posted[j] =>
                  /\ posted'[j] = posted[j] /\ handed'[j] = handed[j] /\ inbox'[j] = inbox[j]
                  /\ Stays(j)
             /\ boxes[j] = Append(posted[j], Letter(m, text)) =>
                  Gets(j, Letter(m, text)) /\ Len(handed'[j]) <= Len(posted'[j])
  BY <1>1, PostLine
<1>4. Gets(k, Letter(m, text)) /\ Len(handed'[k]) <= Len(posted'[k])
  BY <1>2, <1>3
<1>5. \A j \in People \ {k} : Stays(j) /\ posted'[j] = posted[j] /\ handed'[j] = handed[j]
                              /\ inbox'[j] = inbox[j]
  BY <1>2, <1>3
<1>6. Known(k)
  BY <1>1 DEF LineInv
<1>7. LineInv'
  BY <1>1, <1>4, <1>5, <1>6 DEF LineInv
<1> QED BY <1>4, <1>5, <1>6, <1>7

-----------------------------------------------------------------------------
(* The programs by themselves.                                             *)

(* What an item does to a program that runs.                               *)
Turns(q, p, e) ==
  /\ q \in Program /\ Orderly(q) /\ q.role = p.role /\ q.state \in Begun
  /\ q.peer \in {p.peer, NoPeer} \cup e.who /\ q.remote \in {p.remote, NoPeer} \cup e.who
  /\ q.state = "on" =>
       /\ q.peer = NoPeer /\ q.sig # "none" => e.kind = "closing"
       /\ p.peer # NoPeer => q.peer = p.peer
       /\ q.outbox = p.outbox
       /\ q.creating = "offer" => p.creating = "offer" \/ p.peer = NoPeer
       /\ q.remote # p.remote => \/ e = Letter(q.remote, "offer")
                                 \/ p.role = "sender" /\ e = Letter(q.remote, "answer")
       /\ p.remote # NoPeer => q.remote # NoPeer
       /\ Called(p) => Called(q)
       /\ p.role = "receiver" /\ p.remote # NoPeer
            => q.remote = p.remote /\ (p.sig = "stable" => q.sig = "stable")
       /\ \A s \in People :
            \/ e = Letter(s, "offer") /\ p.role = "receiver"
            \/ e = Letter(s, "answer") /\ p.role = "sender" /\ Called(p)
            => q.remote # NoPeer \/ q.peer \notin {NoPeer, s}

LEMMA QuitTurns ==
  ASSUME NEW p \in Program, NEW waits \in BOOLEAN, NEW e
  PROVE  Turns(Quit(p, waits), p, e)
<1> DEFINE q == Quit(p, waits)
<1>1. /\ q.role = p.role /\ q.state \in {"spinning", "over"}
      /\ q.peer = NoPeer /\ q.remote = NoPeer
      /\ q.sig = "none" /\ q.creating = "none" /\ q.outbox = <<>>
  BY DEF Quit, NewProgram
<1>2. q \in Program
  BY QuitFollows DEF Follows
<1> HIDE DEF q
<1>3. Orderly(q)
  BY <1>1 DEF Orderly
<1> QED BY <1>1, <1>2, <1>3 DEF Turns, q, Begun

LEMMA ExitsTurns ==
  ASSUME NEW p \in Program, NEW e
  PROVE  Turns(Exits(p), p, e)
BY QuitTurns DEF Exits

(* A program that stays as it is.                                          *)
LEMMA SameTurns ==
  ASSUME NEW p \in Program, Orderly(p), p.state = "on", NEW e,
         p.peer = NoPeer => p.sig = "none",
         \A s \in People :
            \/ e = Letter(s, "offer") /\ p.role = "receiver"
            \/ e = Letter(s, "answer") /\ p.role = "sender" /\ Called(p)
            => p.remote # NoPeer \/ p.peer \notin {NoPeer, s}
  PROVE  Turns(p, p, e)
BY DEF Turns, Begun

LEMMA StartsOrderly ==
  ASSUME NEW p \in Program, Orderly(p), p.state = "on", p.sig = "none", NEW who \in Whoever
  PROVE  LET q == Starts(p, who, TRUE)
         IN /\ q \in Program /\ Orderly(q) /\ q.peer = who /\ q.sig = "stable"
            /\ q.remote = NoPeer /\ q.role = p.role /\ q.state = "on"
            /\ q.creating = "none" /\ q.outbox = <<>>
<1> DEFINE q == Starts(p, who, TRUE)
<1>1. q \in Program /\ q.peer = who /\ q.sig = "stable"
      /\ q.remote = NoPeer /\ q.role = p.role /\ q.state = "on"
  BY StartsFacts DEF Orderly
<1>2. q.creating = "none" /\ q.outbox = <<>>
  BY DEF Starts, Orderly, Program
<1> HIDE DEF q
<1>3. Orderly(q)
  BY <1>1, <1>2 DEF Orderly
<1> QED BY <1>1, <1>2, <1>3 DEF q

LEMMA LetterFacts ==
  ASSUME NEW s \in People, NEW text
  PROVE  /\ Letter(s, text).kind = "mail" /\ Letter(s, text).who = {s}
         /\ Letter(s, text).text = text
         /\ \A r, t : Letter(r, t) = Letter(s, text) => r = s /\ t = text
<1>1. ASSUME NEW r, NEW t, Letter(r, t) = Letter(s, text) PROVE r = s /\ t = text
  <2>1. Letter(r, t).who = {r} /\ Letter(r, t).text = t
    BY DEF Letter
  <2>2. Letter(s, text).who = {s} /\ Letter(s, text).text = text
    BY DEF Letter
  <2> QED BY <1>1, <2>1, <2>2
<1> QED BY <1>1 DEF Letter

LEMMA HandlesTurns ==
  ASSUME NEW p \in Program, Orderly(p), p.state = "on", p.sig # "none", p.peer # NoPeer,
         NEW s \in People, NEW text \in Texts, p.role = "receiver" => p.peer = s,
         p.role = "receiver" /\ text = "offer" => p.remote # s
  PROVE  Turns(Handles(p, s, text), p, Letter(s, text))
<1> DEFINE e == Letter(s, text)
           q == Handles(p, s, text)
<1>0. s # NoPeer /\ "offer" # "answer" /\ p.role \in {"sender", "receiver"}
  BY SignalingAssumption DEF NoPeer, Orderly
<1>1. /\ e.who = {s} /\ e.kind = "mail"
      /\ \A r \in People, t \in Texts : e = Letter(r, t) <=> r = s /\ t = text
  BY LetterFacts
<1>2. q \in Program /\ q.role = p.role /\ q.state = "on" /\ q.peer = p.peer
      /\ q.remote \in {p.remote, s} /\ q.sig # "none"
  BY HandlesFacts DEF Whoever
<1>3. CASE text = "offer" /\ p.role = "receiver"
  <2>1. p.sig = "stable" /\ p.remote = NoPeer
    BY <1>3, <1>0 DEF Orderly, Program
  <2>2. q = [[p EXCEPT !.sig = "have-remote-offer", !.remote = s] EXCEPT !.creating = "answer"]
    BY <1>3, <2>1 DEF Handles, SetRemoteDescription
  <2>3. /\ q.sig = "have-remote-offer" /\ q.remote = s /\ q.creating = "answer"
        /\ q.outbox = p.outbox
    BY <2>2 DEF Program
  <2>4. p.outbox = <<>>
    BY <2>1 DEF Orderly, Called
  <2> HIDE DEF q
  <2>5. Orderly(q)
    BY <1>0, <1>2, <1>3, <2>1, <2>3, <2>4 DEF Orderly, Description, Called
  <2> HIDE DEF e
  <2>6. e = Letter(q.remote, "offer")
    BY <1>3, <2>3 DEF e
  <2>7. Called(q) /\ ~(q.creating = "offer")
    BY <1>0, <2>3 DEF Called
  <2>8. Turns(q, p, e)
    BY <1>0, <1>1, <1>2, <1>3, <2>1, <2>3, <2>5, <2>6, <2>7 DEF Turns, Begun
  <2> QED BY <2>8 DEF q, e
<1>4. CASE text = "offer" /\ p.role = "sender" /\ p.sig = "stable"
  <2>1. q = [p EXCEPT !.sig = "have-remote-offer", !.remote = s]
    BY <1>4 DEF Handles, SetRemoteDescription
  <2>2. /\ q.sig = "have-remote-offer" /\ q.remote = s /\ q.creating = p.creating
        /\ q.outbox = p.outbox
    BY <2>1 DEF Program
  <2> HIDE DEF q
  <2>3. Orderly(q)
    BY <1>0, <1>2, <1>4, <2>2 DEF Orderly, Description, Called
  <2> HIDE DEF e
  <2>4. e = Letter(q.remote, "offer")
    BY <1>4, <2>2 DEF e
  <2>5. Called(q)
    BY <1>0, <2>2 DEF Called
  <2>6. Turns(q, p, e)
    BY <1>0, <1>1, <1>2, <1>4, <2>2, <2>3, <2>4, <2>5 DEF Turns, Begun
  <2> QED BY <2>6 DEF q, e
<1>5. CASE text = "answer" /\ p.sig = "have-local-offer"
  <2>1. q = [p EXCEPT !.sig = "stable", !.remote = s]
    BY <1>5 DEF Handles, SetRemoteDescription
  <2>2. /\ q.sig = "stable" /\ q.remote = s /\ q.creating = p.creating
        /\ q.outbox = p.outbox
    BY <2>1 DEF Program
  <2>3. p.role = "sender"
    BY <1>0, <1>5 DEF Orderly
  <2> HIDE DEF q
  <2>4. Orderly(q)
    BY <1>0, <1>2, <1>5, <2>2, <2>3 DEF Orderly, Description, Called
  <2> HIDE DEF e
  <2>5. e = Letter(q.remote, "answer")
    BY <1>5, <2>2 DEF e
  <2>6. Called(q)
    BY <1>0, <2>2 DEF Called
  <2>7. Turns(q, p, e)
    BY <1>0, <1>1, <1>2, <1>5, <2>2, <2>3, <2>4, <2>5, <2>6 DEF Turns, Begun
  <2> QED BY <2>7 DEF q, e
<1>6. CASE ~(text = "offer" /\ p.role = "receiver")
           /\ ~(text = "offer" /\ p.role = "sender" /\ p.sig = "stable")
           /\ ~(text = "answer" /\ p.sig = "have-local-offer")
  <2>1. q = p
    BY <1>0, <1>6 DEF Handles, SetRemoteDescription
  <2>2. ASSUME NEW r \in People,
               \/ e = Letter(r, "offer") /\ p.role = "receiver"
               \/ e = Letter(r, "answer") /\ p.role = "sender" /\ Called(p)
        PROVE  p.remote # NoPeer
    <3>1. text = "answer" /\ p.role = "sender" /\ Called(p)
      BY <1>1, <1>6, <2>2 DEF Texts
    <3> QED BY <1>6, <3>1 DEF Called
  <2> HIDE DEF q, e
  <2>3. Turns(p, p, e)
    BY <2>2, SameTurns
  <2> QED BY <2>1, <2>3 DEF q, e
<1> QED BY <1>0, <1>3, <1>4, <1>5, <1>6

LEMMA OnMessageTurns ==
  ASSUME NEW p \in Program, Orderly(p), p.state = "on", NEW ok \in BOOLEAN,
         p.peer = NoPeer => p.sig = "none",
         NEW s \in People, NEW text \in Texts,
         p.role = "receiver" /\ text = "offer" => p.remote # s
  PROVE  Turns(OnMessageFromPeer(p, s, text, ok), p, Letter(s, text))
<1> DEFINE e == Letter(s, text)
<1>0. s # NoPeer /\ p.role \in {"sender", "receiver"} /\ "offer" # "answer"
  BY SignalingAssumption DEF NoPeer, Orderly
<1>a. e.who = {s} /\ \A r \in People, t \in Texts : e = Letter(r, t) <=> r = s /\ t = text
  BY LetterFacts
<1>1. CASE p.sig = "none" /\ ok
  <2> DEFINE p0 == Starts(p, s, TRUE)
             q == Handles(p0, s, text)
  <2>1. OnMessageFromPeer(p, s, text, ok) = q
    BY <1>1 DEF OnMessageFromPeer, Starts
  <2>2. /\ p0 \in Program /\ Orderly(p0) /\ p0.peer = s /\ p0.sig = "stable"
        /\ p0.remote = NoPeer /\ p0.role = p.role /\ p0.state = "on"
        /\ p0.creating = "none" /\ p0.outbox = <<>>
    BY <1>1, StartsOrderly DEF Whoever
  <2> HIDE DEF p0
  <2>3. Turns(q, p0, e)
    BY <1>0, <2>2, HandlesTurns
  <2> HIDE DEF q, e
  <2>4. p.peer = NoPeer /\ p.remote = NoPeer /\ ~Called(p) /\ p.outbox = <<>>
    BY <1>1 DEF Orderly, Called
  <2>5. /\ q \in Program /\ Orderly(q) /\ q.role = p.role /\ q.state \in Begun
        /\ q.peer \in {s, NoPeer} /\ q.remote \in {NoPeer, s}
    BY <1>a, <2>2, <2>3 DEF Turns
  <2>6. ASSUME q.state = "on"
        PROVE  /\ q.peer = s /\ q.outbox = <<>>
               /\ q.remote # NoPeer => \/ e = Letter(q.remote, "offer")
                                       \/ p.role = "sender" /\ e = Letter(q.remote, "answer")
               /\ \A r \in People : e = Letter(r, "offer") /\ p.role = "receiver"
                     => q.remote # NoPeer \/ q.peer \notin {NoPeer, r}
    BY <1>0, <2>2, <2>3, <2>6 DEF Turns
  <2>7. Turns(q, p, e)
    BY <1>0, <1>a, <2>4, <2>5, <2>6 DEF Turns
  <2> QED BY <2>1, <2>7 DEF e
<1>2. CASE p.sig = "none" /\ ~ok
  BY <1>2, ExitsTurns DEF OnMessageFromPeer
<1>3. CASE p.sig # "none" /\ p.role = "receiver" /\ s # p.peer
  <2>1. OnMessageFromPeer(p, s, text, ok) = p
    BY <1>3 DEF OnMessageFromPeer
  <2>2. \A r \in People : e = Letter(r, "offer") \/ e = Letter(r, "answer") => r = s
    BY <1>a DEF Texts
  <2> HIDE DEF e
  <2>3. Turns(p, p, e)
    BY <1>3, <2>2, SameTurns
  <2> QED BY <2>1, <2>3 DEF e
<1>4. CASE p.sig # "none" /\ ~(p.role = "receiver" /\ s # p.peer)
  <2>1. OnMessageFromPeer(p, s, text, ok) = Handles(p, s, text)
    BY <1>4 DEF OnMessageFromPeer
  <2>2. Turns(Handles(p, s, text), p, e)
    BY <1>4, HandlesTurns
  <2> QED BY <2>1, <2>2
<1> QED BY <1>1, <1>2, <1>3, <1>4

(* The farewell seems to come from peer -1.                                *)
LEMMA ClosingTurns ==
  ASSUME NEW p \in Program, Orderly(p), p.state = "on", NEW ok \in BOOLEAN,
         p.peer = NoPeer => p.sig = "none",
         NEW e, e.kind = "closing"
  PROVE  Turns(OnMessageFromPeer(p, NoPeer, "", ok), p, e)
<1>a. \A s, t : e # Letter(s, t)
  BY DEF Letter
<1>b. p.role \in {"sender", "receiver"}
  BY DEF Orderly
<1>1. CASE p.sig = "none" /\ ok
  <2> DEFINE p0 == Starts(p, NoPeer, TRUE)
  <2>1. OnMessageFromPeer(p, NoPeer, "", ok) = p0
    BY <1>1 DEF OnMessageFromPeer, Starts, Handles, SetRemoteDescription
  <2>2. /\ p0 \in Program /\ Orderly(p0) /\ p0.peer = NoPeer /\ p0.sig = "stable"
        /\ p0.remote = NoPeer /\ p0.role = p.role /\ p0.state = "on"
        /\ p0.creating = "none" /\ p0.outbox = <<>>
    BY <1>1, StartsOrderly DEF Whoever
  <2> HIDE DEF p0
  <2>3. p.peer = NoPeer /\ p.remote = NoPeer /\ ~Called(p) /\ p.outbox = <<>>
    BY <1>1 DEF Orderly, Called
  <2>4. Turns(p0, p, e)
    BY <1>a, <1>b, <2>2, <2>3 DEF Turns, Begun
  <2> QED BY <2>1, <2>4
<1>2. CASE p.sig = "none" /\ ~ok
  BY <1>2, ExitsTurns DEF OnMessageFromPeer
<1>3. CASE p.sig # "none"
  <2>1. OnMessageFromPeer(p, NoPeer, "", ok) = p
    BY <1>3, <1>b DEF OnMessageFromPeer, Handles, SetRemoteDescription
  <2>2. Turns(p, p, e)
    BY <1>a, SameTurns
  <2> QED BY <2>1, <2>2
<1> QED BY <1>1, <1>2, <1>3

LEMMA StartCallTurns ==
  ASSUME NEW p \in Program, Orderly(p), p.state = "on", NEW ok \in BOOLEAN,
         p.peer = NoPeer => p.sig = "none",
         NEW e, e.kind # "mail", NEW who \in e.who, who \in People
  PROVE  Turns(OnPeerConnected(p, who, ok), p, e)
<1>a. \A s, t : e # Letter(s, t)
  BY DEF Letter
<1>b. who # NoPeer
  BY SignalingAssumption DEF NoPeer
<1>1. CASE p.role = "sender" /\ p.peer = NoPeer /\ ok
  <2> DEFINE p0 == Starts(p, who, TRUE)
             q == [p0 EXCEPT !.creating = "offer"]
  <2>1. OnPeerConnected(p, who, ok) = q
    BY <1>1 DEF OnPeerConnected, StartCall, Starts
  <2>2. /\ p0 \in Program /\ Orderly(p0) /\ p0.peer = who /\ p0.sig = "stable"
        /\ p0.remote = NoPeer /\ p0.role = p.role /\ p0.state = "on"
        /\ p0.creating = "none" /\ p0.outbox = <<>>
    BY <1>1, StartsOrderly DEF Whoever
  <2> HIDE DEF p0
  <2>3. /\ q \in Program /\ q.peer = who /\ q.sig = "stable"
        /\ q.remote = NoPeer /\ q.role = p.role /\ q.state = "on"
        /\ q.creating = "offer" /\ q.outbox = <<>>
    BY <2>2 DEF Program
  <2> HIDE DEF q
  <2>4. Orderly(q)
    BY <1>1, <1>b, <2>3 DEF Orderly, Description
  <2>5. p.peer = NoPeer /\ p.remote = NoPeer /\ ~Called(p) /\ p.outbox = <<>>
    BY <1>1 DEF Orderly, Called
  <2>6. Turns(q, p, e)
    BY <1>1, <1>a, <1>b, <2>3, <2>4, <2>5 DEF Turns, Begun
  <2> QED BY <2>1, <2>6
<1>2. CASE p.role = "sender" /\ p.peer = NoPeer /\ ~ok
  BY <1>2, ExitsTurns DEF OnPeerConnected, StartCall
<1>3. CASE ~(p.role = "sender" /\ p.peer = NoPeer)
  <2>1. OnPeerConnected(p, who, ok) = p
    BY <1>3 DEF OnPeerConnected
  <2>2. Turns(p, p, e)
    BY <1>a, SameTurns
  <2> QED BY <2>1, <2>2
<1> QED BY <1>1, <1>2, <1>3

LEMMA HearsTurns ==
  ASSUME NEW p \in Program, Orderly(p), p.state = "on", NEW ok \in BOOLEAN,
         p.peer = NoPeer => p.sig = "none",
         NEW waits \in BOOLEAN, NEW m \in People, NEW e \in Said,
         e.kind # "mail" => e.text = "",
         e.kind = "mail" => \E s \in People : \E text \in Texts : e = Letter(s, text),
         \A s \in People : e = Letter(s, "offer") /\ p.role = "receiver" => p.remote # s
  PROVE  Turns(Hears(p, m, e, ok, waits), p, e)
<1>1. /\ e.kind \in {"welcome", "joined", "left", "mail", "closing"}
      /\ e.who \in SUBSET People /\ People \subseteq Nat
      /\ e.kind # "closing" => e.who # {}
  BY SignalingAssumption DEF Said, Room!Event
<1>a. ASSUME e.kind # "mail", NEW s, NEW t PROVE e # Letter(s, t)
  <2>1. Letter(s, t).kind = "mail"
    BY DEF Letter
  <2> QED BY <1>a, <2>1
<1>2. e.kind # "closing" => Min(e.who) \in e.who /\ Min(e.who) \in People
  <2>1. e.kind # "closing" => Min(e.who) \in e.who
    BY <1>1, LeastMember
  <2> QED BY <1>1, <2>1
<1>3. CASE e.kind = "welcome"
  <2>1. CASE e.who = {m}
    <3>1. Hears(p, m, e, ok, waits) = p
      BY <1>3, <2>1 DEF Hears
    <3>2. Turns(p, p, e)
      BY <1>3, <1>a, SameTurns
    <3> QED BY <3>1, <3>2
  <2>2. CASE e.who # {m}
    <3>1. e.who \ {m} # {} /\ e.who \ {m} \in SUBSET Nat
      BY <1>1, <1>3, <2>2
    <3>2. Min(e.who \ {m}) \in e.who \ {m}
      BY <3>1, LeastMember
    <3>3. Min(e.who \ {m}) \in e.who /\ Min(e.who \ {m}) \in People
      BY <1>1, <3>2
    <3>4. Turns(OnPeerConnected(p, Min(e.who \ {m}), ok), p, e)
      BY <1>3, <3>3, StartCallTurns
    <3> QED BY <1>3, <2>2, <3>4 DEF Hears
  <2> QED BY <2>1, <2>2
<1>4. CASE e.kind = "joined"
  BY <1>2, <1>4, StartCallTurns DEF Hears
<1>5. CASE e.kind = "left"
  <2>1. Hears(p, m, e, ok, waits) \in {p, Quit(p, waits)}
    BY <1>5 DEF Hears, OnPeerDisconnected
  <2>2. Turns(p, p, e)
    BY <1>5, <1>a, SameTurns
  <2> QED BY <2>1, <2>2, QuitTurns
<1>6. CASE e.kind = "mail"
  <2>1. PICK s \in People : \E text \in Texts : e = Letter(s, text)
    BY <1>6
  <2>2. PICK text \in Texts : e = Letter(s, text)
    BY <2>1
  <2>3. e.who = {s} /\ e.text = text /\ Min(e.who) = s
    <3>1. e.who = {s} /\ e.text = text
      BY <2>2 DEF Letter
    <3> QED BY <1>2, <1>6, <3>1
  <2>4. p.role = "receiver" /\ text = "offer" => p.remote # s
    BY <2>2
  <2>5. Turns(OnMessageFromPeer(p, s, text, ok), p, e)
    BY <2>2, <2>4, OnMessageTurns
  <2> QED BY <1>6, <2>3, <2>5 DEF Hears
<1>7. CASE e.kind = "closing"
  <2>1. Turns(OnMessageFromPeer(p, NoPeer, "", ok), p, e)
    BY <1>7, ClosingTurns
  <2> QED BY <1>7, <2>1 DEF Hears
<1> QED BY <1>1, <1>3, <1>4, <1>5, <1>6, <1>7

-----------------------------------------------------------------------------
(* A program ends, or turns as the item that it reads says.                *)

LEMMA StaysMail ==
  ASSUME NEW k, Stays(k)
  PROVE  /\ Ahead(k)' = Ahead(k)
         /\ \A i \in Nat : \A s, text : Mail(k, i, s, text)' <=> Mail(k, i, s, text)
BY DEF Stays, Mail, Letter

LEMMA AdvancesMail ==
  ASSUME NEW k, Advances(k)
  PROVE  \A i \in Nat : \A s, text :
           /\ Mail(k, i, s, text)' => Mail(k, i + 1, s, text)
           /\ Mail(k, i + 1, s, text) /\ i # 0 => Mail(k, i, s, text)'
<1> SUFFICES ASSUME NEW i \in Nat, NEW s, NEW text
             PROVE  /\ Mail(k, i, s, text)' => Mail(k, i + 1, s, text)
                    /\ Mail(k, i + 1, s, text) /\ i # 0 => Mail(k, i, s, text)'
  OBVIOUS
<1>1. /\ Ahead(k) \in Nat \ {0} /\ Ahead(k)' = Ahead(k) - 1
      /\ \A j \in 1 .. Ahead(k) - 1 : Item(k, j)' = Item(k, j + 1)
  BY DEF Advances
<1>2. i \in 1 .. Ahead(k)' <=> i + 1 \in 1 .. Ahead(k) /\ i # 0
  BY <1>1
<1>3. i \in 1 .. Ahead(k)' => Item(k, i)' = Item(k, i + 1)
  BY <1>1
<1>4. Letter(s, text)' = Letter(s, text)
  BY DEF Letter
<1> QED BY <1>2, <1>3, <1>4 DEF Mail

TurnStep(m, q, e) ==
  /\ On(m) /\ Turns(q, prog[m], e) /\ prog' = [prog EXCEPT ![m] = q] /\ up' = up
  /\ \A k \in People \ {m} : Stays(k)
  /\ \/ Advances(m) /\ e = Item(m, 1)
     \/ Stays(m) /\ q.state # "on"

(* What is on its way was so before the step.                              *)
LEMMA TurnMail ==
  ASSUME TypeInv, LineInv, NEW m \in People, NEW q, NEW e, TurnStep(m, q, e)
  PROVE  /\ \A k \in People, i \in Nat : \A s, text :
              Mail(k, i, s, text)' =>
                i # 0 /\ (Mail(k, i + 1, s, text) \/ Mail(k, i, s, text))
         /\ \A k \in People \ {m}, i \in Nat : \A s, text :
              Mail(k, i, s, text)' <=> Mail(k, i, s, text)
         /\ \A i \in Nat : \A s, text :
              q.state = "on" => /\ Mail(m, i, s, text)' => Mail(m, i + 1, s, text)
                                /\ Mail(m, i + 1, s, text) /\ i # 0 => Mail(m, i, s, text)'
         /\ \A s \in People : \A text : q.state = "on" => (Mail(m, 1, s, text) <=> e = Letter(s, text))
         /\ \A k \in People \ {m} : Ahead(k)' = Ahead(k)
         /\ q.state = "on" => Ahead(m) \in Nat \ {0} /\ Ahead(m)' = Ahead(m) - 1
<1>1. ASSUME NEW k \in People \ {m}
      PROVE  /\ Ahead(k)' = Ahead(k)
             /\ \A i \in Nat : \A s, text : Mail(k, i, s, text)' <=> Mail(k, i, s, text)
  BY StaysMail DEF TurnStep
<1>2. \A k, i, s, text : Mail(k, i, s, text)' => i # 0
  BY DEF Mail
<1>3. CASE Advances(m) /\ e = Item(m, 1)
  <2>1. \A i \in Nat : \A s, text :
           /\ Mail(m, i, s, text)' => Mail(m, i + 1, s, text)
           /\ Mail(m, i + 1, s, text) /\ i # 0 => Mail(m, i, s, text)'
    BY <1>3, AdvancesMail
  <2>2. Ahead(m) \in Nat \ {0} /\ Ahead(m)' = Ahead(m) - 1
    BY <1>3 DEF Advances
  <2>3. \A s \in People : \A text : Mail(m, 1, s, text) <=> e = Letter(s, text)
    BY <1>3, <2>2 DEF Mail
  <2> QED BY <1>1, <1>2, <2>1, <2>2, <2>3
<1>4. CASE Stays(m) /\ q.state # "on"
  <2>1. \A i \in Nat : \A s, text : Mail(m, i, s, text)' <=> Mail(m, i, s, text)
    BY <1>4, StaysMail
  <2> QED BY <1>1, <1>2, <1>4, <2>1
<1> QED BY <1>3, <1>4 DEF TurnStep

LEMMA TurnProgram ==
  ASSUME TypeInv, NEW m \in People, NEW q, NEW e, TurnStep(m, q, e)
  PROVE  /\ prog'[m] = q /\ \A k \in People \ {m} : prog'[k] = prog[k]
         /\ prog' \in [People -> Program] /\ On(m)
         /\ \A k \in People : prog'[k].role = prog[k].role /\ (Known(k)' <=> Known(k))
<1>1. prog'[m] = q /\ (\A k \in People \ {m} : prog'[k] = prog[k])
      /\ q \in Program /\ q.role = prog[m].role /\ q.state # "off" /\ On(m)
  BY DEF TurnStep, Turns, TypeInv, Begun
<1>2. Known(m)' /\ Known(m)
  BY <1>1 DEF Known, On
<1> QED BY <1>1, <1>2 DEF Known, TypeInv, TurnStep

LEMMA LikelyStays ==
  ASSUME NEW e, Likely(e), \A s \in People : Known(s) => Known(s)' /\ prog'[s].role = prog[s].role,
         NewsInv
  PROVE  Likely(e)'
<1>1. e \in Said /\ e.who \subseteq People
  BY DEF Likely, Said, Room!Event
<1>2. e.kind = "mail" => \E s \in People : \E text \in Texts :
       /\ e = Letter(s, text) /\ Known(s)
       /\ text = "offer" => prog[s].role = "sender"
       /\ text = "answer" => prog[s].role = "receiver"
  BY LetterFacts DEF Likely
<1> QED BY <1>1, <1>2 DEF Likely, Letter

LEMMA TurnNews ==
  ASSUME TypeInv, LineInv, NewsInv, NEW m \in People, NEW q, NEW e, TurnStep(m, q, e)
  PROVE  NewsInv'
<1>1. \A s \in People : Known(s) => Known(s)' /\ prog'[s].role = prog[s].role
  BY TurnProgram
<1>2. up' = up
  BY DEF TurnStep
<1>3. ASSUME NEW k \in People, Stays(k), NEW i \in 1 .. Ahead(k)'
      PROVE  Likely(Item(k, i))' /\ (Item(k, i)'.kind = "closing" => ~up' /\ Ahead(k)' = 1)
  <2>1. Ahead(k)' = Ahead(k) /\ Item(k, i)' = Item(k, i) /\ i \in 1 .. Ahead(k)
    BY <1>3 DEF Stays
  <2>2. Likely(Item(k, i)) /\ (Item(k, i).kind = "closing" => ~up /\ Ahead(k) = 1)
    BY <2>1 DEF NewsInv
  <2> DEFINE x == Item(k, i)
  <2>3. \A z : Likely(z) => Likely(z)'
    BY <1>1, LikelyStays
  <2> QED BY <1>2, <2>1, <2>2, <2>3
<1>4. ASSUME Advances(m), NEW i \in 1 .. Ahead(m)'
      PROVE  Likely(Item(m, i))' /\ (Item(m, i)'.kind = "closing" => ~up' /\ Ahead(m)' = 1)
  <2>1. /\ Ahead(m) \in Nat \ {0} /\ Ahead(m)' = Ahead(m) - 1
        /\ i + 1 \in 1 .. Ahead(m) /\ Item(m, i)' = Item(m, i + 1)
    BY <1>4 DEF Advances
  <2>2. Likely(Item(m, i + 1)) /\ Item(m, i + 1).kind # "closing"
    BY <2>1 DEF NewsInv
  <2>3. \A z : Likely(z) => Likely(z)'
    BY <1>1, LikelyStays
  <2> QED BY <2>1, <2>2, <2>3
<1> QED BY <1>3, <1>4 DEF NewsInv, TurnStep

LEMMA TurnPrograms ==
  ASSUME TypeInv, LineInv, NewsInv, ProgramsInv,
         NEW m \in People, NEW q, NEW e, TurnStep(m, q, e)
  PROVE  ProgramsInv'
<1>1. /\ prog'[m] = q /\ \A k \in People \ {m} : prog'[k] = prog[k]
      /\ \A k \in People : Known(k)' <=> Known(k)
  BY TurnProgram
<1>2. /\ Orderly(q) /\ q \in Program /\ q.state \in Begun
      /\ q.peer \in {prog[m].peer, NoPeer} \cup e.who
      /\ q.remote \in {prog[m].remote, NoPeer} \cup e.who
      /\ q.state = "on" /\ q.peer = NoPeer /\ q.sig # "none" => e.kind = "closing"
  BY DEF TurnStep, Turns
<1>3. q.state # "on" => q.peer = NoPeer /\ q.remote = NoPeer
  BY <1>2 DEF Orderly
<1>4. CASE q.state # "on"
  <2>1. \A k \in People \ {m} : Ahead(k)' = Ahead(k) /\ up' = up
    BY TurnMail DEF TurnStep
  <2>2. ASSUME NEW k \in People \ {m}
        PROVE  prog[k].peer \in Whoever /\ prog[k].remote \in Whoever
    BY DEF TypeInv, Program, Whoever
  <2>3. ASSUME NEW k \in People \ {m} PROVE Fits(k)'
    <3>1. Fits(k)
      BY DEF ProgramsInv, Fits
    <3> QED BY <1>1, <2>1, <2>2, <3>1 DEF Fits, On, Known, Whoever
  <2>4. Fits(m)'
    BY <1>1, <1>2, <1>3, <1>4 DEF Fits, On
  <2> QED BY <2>3, <2>4 DEF ProgramsInv, Fits
<1>5. CASE q.state = "on"
  <2>1. e = Item(m, 1) /\ Ahead(m) \in Nat \ {0} /\ Ahead(m)' = Ahead(m) - 1
    BY <1>5 DEF TurnStep, Advances
  <2>2. Likely(e) /\ (e.kind = "closing" => ~up /\ Ahead(m) = 1)
    BY <2>1 DEF NewsInv
  <2>3. \A s \in e.who : Known(s)
    BY <2>2 DEF Likely
  <2>4. \A k \in People \ {m} : Ahead(k)' = Ahead(k) /\ up' = up
    BY TurnMail DEF TurnStep
  <2>5. up' = up
    BY DEF TurnStep
  <2>6. /\ q.peer # NoPeer => Known(q.peer)
        /\ q.remote # NoPeer => Known(q.remote)
    BY <1>2, <2>3 DEF ProgramsInv, Fits
  <2>7. q.peer \in Whoever /\ q.remote \in Whoever
    BY <1>2 DEF Program, Whoever
  <2>8. ASSUME NEW k \in People \ {m} PROVE Fits(k)'
    <3>1. prog[k].peer \in Whoever /\ prog[k].remote \in Whoever
      BY DEF TypeInv, Program, Whoever
    <3>2. Fits(k)
      BY DEF ProgramsInv, Fits
    <3> QED BY <1>1, <2>4, <3>1, <3>2 DEF Fits, On, Known, Whoever
  <2>9. Fits(m)'
    BY <1>1, <1>2, <1>5, <2>1, <2>2, <2>5, <2>6, <2>7 DEF Fits, On, Known, Whoever
  <2> QED BY <2>8, <2>9 DEF ProgramsInv, Fits
<1> QED BY <1>4, <1>5

LEMMA TurnOffers ==
  ASSUME TypeInv, LineInv, NewsInv, ProgramsInv, OfferInv,
         NEW m \in People, NEW q, NEW e, TurnStep(m, q, e)
  PROVE  OfferInv'
<1> DEFINE p == prog[m]
<1>1. /\ prog'[m] = q /\ \A k \in People \ {m} : prog'[k] = prog[k]
      /\ \A k \in People : prog'[k].role = prog[k].role
      /\ On(m)
  BY TurnProgram
<1>2. /\ Orderly(q) /\ q.role = p.role /\ q.state \in Begun
      /\ q.state = "on" =>
           /\ p.peer # NoPeer => q.peer = p.peer
           /\ q.outbox = p.outbox
           /\ q.creating = "offer" => p.creating = "offer" \/ p.peer = NoPeer
           /\ q.remote # p.remote => \/ e = Letter(q.remote, "offer")
                                     \/ p.role = "sender" /\ e = Letter(q.remote, "answer")
           /\ Called(p) => Called(q)
  BY DEF TurnStep, Turns
<1>3. q.state # "on" => /\ q.remote = NoPeer /\ q.creating = "none" /\ q.outbox = <<>>
  BY <1>2 DEF Orderly
<1>4. ASSUME NEW s \in People, Offered(s) PROVE Offered(s)'
  <2>1. CASE s # m
    BY <1>1, <1>4, <2>1 DEF Offered, Has, On
  <2>2. CASE s = m /\ q.state # "on"
    BY <1>1, <1>2, <1>3, <1>4, <2>2 DEF Offered, Has, On
  <2>3. CASE s = m /\ q.state = "on"
    <3>1. /\ p.role = "sender" /\ p.creating # "offer" /\ ~Has(p, "offer")
          /\ p.peer # NoPeer /\ Called(p)
      BY <1>1, <1>4, <2>3 DEF Offered
    <3>2. q.creating # "offer" /\ ~Has(q, "offer") /\ q.peer # NoPeer /\ Called(q)
      BY <1>2, <2>3, <3>1 DEF Has
    <3> QED BY <1>1, <1>2, <2>3, <3>1, <3>2 DEF Offered
  <2> QED BY <2>1, <2>2, <2>3
<1>5. ASSUME NEW s \in People, Accepted(s)'
      PROVE  Accepted(s) \/ (q.state = "on" /\ Mail(m, 1, s, "offer"))
  <2>1. PICK r \in People : prog'[r].role = "receiver" /\ prog'[r].remote = s
    BY <1>5 DEF Accepted
  <2>2. s # NoPeer
    BY SignalingAssumption DEF NoPeer
  <2>3. CASE prog[r].remote = s
    BY <1>1, <2>1, <2>3 DEF Accepted
  <2>4. CASE prog[r].remote # s
    <3>1. r = m /\ q.remote = s /\ q.state = "on" /\ p.role = "receiver"
      BY <1>1, <1>2, <1>3, <2>1, <2>2, <2>4
    <3>2. e = Letter(s, "offer")
      BY <1>2, <2>4, <3>1
    <3> QED BY <3>1, <3>2, TurnMail
  <2> QED BY <2>3, <2>4
<1>6. ASSUME NEW s \in People, Accepted(s)' PROVE Offered(s)'
  <2>1. Offered(s)
    BY <1>5, <1>6 DEF OfferInv
  <2> QED BY <1>4, <2>1
<1>7. ASSUME NEW s \in People, NEW k \in People, NEW i \in Nat, Mail(k, i, s, "offer")'
      PROVE  /\ Offered(s)' /\ ~Accepted(s)'
             /\ \A l \in People : \A j \in Nat : Mail(l, j, s, "offer")' => l = k /\ j = i
  <2>1. i # 0 /\ (Mail(k, i + 1, s, "offer") \/ Mail(k, i, s, "offer"))
    BY <1>7, TurnMail
  <2>2. PICK i0 \in {i, i + 1} : Mail(k, i0, s, "offer")
    BY <2>1
  <2>3. /\ Offered(s) /\ ~Accepted(s)
        /\ \A l \in People : \A j \in Nat : Mail(l, j, s, "offer") => l = k /\ j = i0
    BY <2>2 DEF OfferInv
  <2>4. ~(q.state = "on" /\ Mail(m, 1, s, "offer"))
    <3> SUFFICES ASSUME q.state = "on", Mail(m, 1, s, "offer") PROVE FALSE
      OBVIOUS
    <3>1. k = m /\ i0 = 1
      BY <2>3
    <3>2. Mail(m, i + 1, s, "offer")
      BY <1>7, <3>1, TurnMail
    <3>3. i + 1 = 1
      BY <2>3, <3>1, <3>2
    <3> QED BY <2>1, <3>3
  <2>5. ~Accepted(s)'
    BY <1>5, <2>3, <2>4
  <2>6. ASSUME NEW l \in People, NEW j \in Nat, Mail(l, j, s, "offer")'
        PROVE  l = k /\ j = i
    <3>1. j # 0 /\ (Mail(l, j + 1, s, "offer") \/ Mail(l, j, s, "offer"))
      BY <2>6, TurnMail
    <3>2. l = k
      BY <2>3, <3>1
    <3>3. CASE k # m
      <4>1. Mail(k, i, s, "offer") /\ Mail(k, j, s, "offer")
        BY <1>7, <2>6, <3>2, <3>3, TurnMail
      <4> QED BY <2>3, <3>2, <4>1
    <3>4. CASE k = m /\ Advances(m)
      <4>1. Mail(k, i + 1, s, "offer") /\ Mail(k, j + 1, s, "offer")
        BY <1>7, <2>6, <3>2, <3>4, AdvancesMail
      <4>2. i + 1 = j + 1
        BY <2>3, <4>1
      <4> QED BY <3>2, <4>2
    <3>5. CASE k = m /\ Stays(m)
      <4>1. Mail(k, i, s, "offer") /\ Mail(k, j, s, "offer")
        BY <1>7, <2>6, <3>2, <3>5, StaysMail
      <4> QED BY <2>3, <3>2, <4>1
    <3> QED BY <3>3, <3>4, <3>5 DEF TurnStep
  <2> QED BY <1>4, <2>3, <2>5, <2>6
<1> QED BY <1>6, <1>7 DEF OfferInv

(* Who an offer or an answer is from.                                      *)
LEMMA Senders ==
  ASSUME NewsInv, NEW k \in People, NEW i \in Nat, NEW s \in People, NEW text,
         Mail(k, i, s, text)
  PROVE  /\ text \in Texts /\ Known(s)
         /\ text = "offer" => prog[s].role = "sender"
         /\ text = "answer" => prog[s].role = "receiver"
<1>1. Likely(Letter(s, text))
  BY DEF Mail, NewsInv
<1>2. Letter(s, text).kind = "mail" /\ Letter(s, text).who = {s}
      /\ \A r, t : Letter(r, t) = Letter(s, text) => r = s /\ t = text
  BY LetterFacts
<1> DEFINE e == Letter(s, text)
<1>3. Likely(e) /\ e.kind = "mail" /\ e.who = {s}
      /\ \A r, t : e = Letter(r, t) => r = s /\ t = text
  BY <1>1, <1>2
<1> HIDE DEF e
<1>4. Known(s) /\ \E r \in People : \E t \in Texts :
        /\ e = Letter(r, t)
        /\ t = "offer" => prog[r].role = "sender"
        /\ t = "answer" => prog[r].role = "receiver"
  BY <1>3 DEF Likely
<1> QED BY <1>3, <1>4

LEMMA TurnAnswers ==
  ASSUME TypeInv, LineInv, NewsInv, ProgramsInv, OfferInv, AnswerInv,
         NEW m \in People, NEW q, NEW e, TurnStep(m, q, e)
  PROVE  AnswerInv'
<1> DEFINE p == prog[m]
<1>1. /\ prog'[m] = q /\ \A k \in People \ {m} : prog'[k] = prog[k]
      /\ \A k \in People : prog'[k].role = prog[k].role
      /\ On(m)
  BY TurnProgram
<1>2. /\ Orderly(q) /\ q.role = p.role /\ q.state \in Begun
      /\ q.state = "on" =>
           /\ q.remote # p.remote => \/ e = Letter(q.remote, "offer")
                                     \/ p.role = "sender" /\ e = Letter(q.remote, "answer")
           /\ Called(p) => Called(q)
           /\ p.role = "receiver" /\ p.remote # NoPeer
                => q.remote = p.remote /\ (p.sig = "stable" => q.sig = "stable")
  BY DEF TurnStep, Turns
<1>3. q.state # "on" => q.remote = NoPeer
  BY <1>2 DEF Orderly
<1>4. \A s \in People : s # NoPeer
  BY SignalingAssumption DEF NoPeer
<1>5. ASSUME NEW r \in People, NEW s \in People, prog[r].role = "receiver", Settled(r, s)
      PROVE  Settled(r, s)'
  <2>1. CASE r # m
    BY <1>1, <1>5, <2>1 DEF Settled, On
  <2>2. CASE r = m
    BY <1>1, <1>2, <1>4, <1>5, <2>2 DEF Settled, On
  <2> QED BY <2>1, <2>2
<1>6. ASSUME NEW r \in People, NEW s \in People,
             prog'[r].role = "receiver", prog'[s].role = "sender", prog'[s].remote = r
      PROVE  Settled(r, s)'
  <2>1. prog[r].role = "receiver" /\ prog[s].role = "sender"
    BY <1>1, <1>6
  <2>2. CASE prog[s].remote = r
    BY <1>5, <2>1, <2>2 DEF AnswerInv
  <2>3. CASE prog[s].remote # r
    <3>1. s = m /\ q.remote = r /\ q.state = "on"
      BY <1>1, <1>2, <1>3, <1>4, <1>6, <2>3
    <3>2. CASE e = Letter(r, "offer")
      <4>1. Mail(m, 1, r, "offer")
        BY <3>1, <3>2, TurnMail
      <4> QED BY <2>1, <4>1, Senders
    <3>3. CASE e = Letter(r, "answer")
      <4>1. Mail(m, 1, r, "answer")
        BY <3>1, <3>3, TurnMail
      <4> QED BY <1>5, <2>1, <3>1, <4>1 DEF AnswerInv
    <3> QED BY <1>2, <2>3, <3>1, <3>2, <3>3
  <2> QED BY <2>2, <2>3
<1>7. ASSUME NEW r \in People, NEW s \in People, NEW i \in Nat, Mail(s, i, r, "answer")'
      PROVE  Settled(r, s)' /\ (On(s)' => Called(prog'[s]))
  <2>1. PICK j \in Nat : Mail(s, j, r, "answer")
    <3>1. Mail(s, i + 1, r, "answer") \/ Mail(s, i, r, "answer")
      BY <1>7, TurnMail
    <3> QED BY <3>1
  <2>2. Settled(r, s) /\ (On(s) => Called(prog[s])) /\ prog[r].role = "receiver"
    BY <2>1, Senders DEF AnswerInv
  <2>3. On(s)' => Called(prog'[s])
    BY <1>1, <1>2, <2>2 DEF On
  <2> QED BY <1>5, <2>2, <2>3
<1> QED BY <1>6, <1>7 DEF AnswerInv

LEMMA TurnCandidates ==
  ASSUME TypeInv, LineInv, NewsInv, ProgramsInv, AnswerInv, CandidateInv,
         NEW m \in People, NEW q, NEW e, TurnStep(m, q, e)
  PROVE  CandidateInv'
<1> DEFINE p == prog[m]
<1>1. /\ prog'[m] = q /\ \A k \in People \ {m} : prog'[k] = prog[k]
      /\ \A k \in People : prog'[k].role = prog[k].role
      /\ On(m) /\ up' = up
  BY TurnProgram DEF TurnStep
<1>2. /\ Orderly(q) /\ q.role = p.role /\ q.state \in Begun
      /\ q.state = "on" =>
           /\ p.peer # NoPeer => q.peer = p.peer
           /\ q.outbox = p.outbox
           /\ p.remote # NoPeer => q.remote # NoPeer
           /\ \A s \in People :
                \/ e = Letter(s, "offer") /\ p.role = "receiver"
                \/ e = Letter(s, "answer") /\ p.role = "sender" /\ Called(p)
                => q.remote # NoPeer \/ q.peer \notin {NoPeer, s}
  BY DEF TurnStep, Turns
<1>3. q.state # "on" => q.outbox = <<>>
  BY <1>2 DEF Orderly
<1>4. Orderly(p) /\ p.role \in {"sender", "receiver"}
  BY <1>1 DEF ProgramsInv, Fits, Orderly, On
(* Of a description that has been read the program is informed.            *)
<1>5. ASSUME NEW s \in People, p.role # prog[s].role, NEW n \in Nat,
             Described(m, s, n + 1) \/ Informed(m, s)
      PROVE  Described(m, s, n)' \/ Informed(m, s)'
  <2>1. CASE q.state # "on"
    BY <1>1, <2>1 DEF Informed, On
  <2>2. CASE q.state = "on" /\ Informed(m, s)
    BY <1>1, <1>2, <2>2 DEF Informed, On
  <2>3. ASSUME q.state = "on", NEW j \in Nat, j < n + 1, NEW text \in {"offer", "answer"},
               Mail(m, j, s, text)
        PROVE  Described(m, s, n)' \/ Informed(m, s)'
    <3>1. CASE j = 1
      <4>1. e = Letter(s, text)
        BY <2>3, <3>1, TurnMail
      <4>2. CASE text = "offer"
        <5>1. p.role = "receiver"
          BY <1>4, <1>5, <2>3, <4>2, Senders
        <5> QED BY <1>1, <1>2, <2>3, <4>1, <4>2, <5>1 DEF Informed
      <4>3. CASE text = "answer"
        <5>1. p.role = "sender"
          BY <1>4, <1>5, <2>3, <4>3, Senders
        <5>2. Called(p)
          BY <1>1, <2>3, <4>3 DEF AnswerInv
        <5> QED BY <1>1, <1>2, <2>3, <4>1, <4>3, <5>1, <5>2 DEF Informed
      <4> QED BY <2>3, <4>2, <4>3
    <3>2. CASE j # 1
      <4>1. j # 0
        BY <2>3 DEF Mail
      <4>2. j - 1 \in Nat /\ j - 1 # 0 /\ (j - 1) + 1 = j /\ j - 1 < n
        BY <2>3, <3>2, <4>1
      <4>3. Mail(m, j - 1, s, text)'
        BY <2>3, <4>2, TurnMail
      <4> QED BY <2>3, <4>2, <4>3 DEF Described
    <3> QED BY <3>1, <3>2
  <2>4. CASE q.state = "on" /\ Described(m, s, n + 1)
    BY <2>3, <2>4 DEF Described
  <2> QED BY <1>5, <2>1, <2>2, <2>4
(* What concerns the others has not changed.                               *)
<1>6. ASSUME NEW k \in People \ {m}, NEW s \in People, NEW n \in Nat,
             Described(k, s, n) \/ Informed(k, s)
      PROVE  Described(k, s, n)' \/ Informed(k, s)'
  <2>1. CASE Informed(k, s)
    BY <1>1, <2>1 DEF Informed, On
  <2>2. CASE Described(k, s, n)
    <3>1. \A j \in Nat : \A text : Mail(k, j, s, text) => Mail(k, j, s, text)'
      BY TurnMail
    <3> QED BY <2>2, <3>1 DEF Described
  <2> QED BY <1>6, <2>1, <2>2
<1>7. ASSUME NEW k \in People, NEW s \in People, prog[k].role # prog[s].role,
             NEW i \in Nat, Mail(k, i, s, "candidate")'
      PROVE  Described(k, s, i)' \/ Informed(k, s)'
  <2>1. CASE k # m
    <3>1. Mail(k, i, s, "candidate")
      BY <1>7, <2>1, TurnMail
    <3> QED BY <1>6, <1>7, <2>1, <3>1 DEF CandidateInv
  <2>2. CASE k = m /\ q.state # "on"
    BY <1>1, <2>2 DEF Informed, On
  <2>3. CASE k = m /\ q.state = "on"
    <3>1. Mail(m, i + 1, s, "candidate") /\ i + 1 \in Nat
      BY <1>7, <2>3, TurnMail
    <3>2. Described(m, s, i + 1) \/ Informed(m, s)
      BY <1>7, <2>3, <3>1 DEF CandidateInv
    <3> QED BY <1>5, <1>7, <2>3, <3>2
  <2> QED BY <1>2, <2>1, <2>2, <2>3
<1>8. ASSUME NEW k \in People, NEW s \in People, prog[k].role # prog[s].role,
             up', prog'[s].peer = k, Has(prog'[s], "candidate")
      PROVE  Described(k, s, Ahead(k) + 1)' \/ Informed(k, s)'
  <2>1. prog[s].peer = k /\ Has(prog[s], "candidate")
    <3>1. CASE s # m
      BY <1>1, <1>8, <3>1
    <3>2. CASE s = m
      <4>1. q.state = "on" /\ q.outbox = p.outbox /\ Has(p, "candidate")
        BY <1>1, <1>2, <1>3, <1>8, <3>2 DEF Has
      <4>2. p.peer # NoPeer
        BY <1>4, <4>1 DEF Orderly, Has
      <4> QED BY <1>1, <1>2, <1>8, <3>2, <4>1, <4>2
    <3> QED BY <3>1, <3>2
  <2>2. Described(k, s, Ahead(k) + 1) \/ Informed(k, s)
    BY <1>1, <1>8, <2>1 DEF CandidateInv
  <2>3. CASE k # m
    <3>1. Ahead(k)' = Ahead(k) /\ Ahead(k) + 1 \in Nat
      BY <2>3, TurnMail, LineType DEF TypeInv
    <3> DEFINE n == Ahead(k) + 1
    <3>2. \A i \in Nat : Described(k, s, i) \/ Informed(k, s)
                         => Described(k, s, i)' \/ Informed(k, s)'
      BY <1>6, <2>3
    <3> QED BY <2>2, <3>1, <3>2 DEF Described
  <2>4. CASE k = m /\ q.state # "on"
    BY <1>1, <2>4 DEF Informed, On
  <2>5. CASE k = m /\ q.state = "on"
    <3>1. Ahead(m)' + 1 = Ahead(m) /\ Ahead(m) \in Nat
      BY <2>5, TurnMail
    <3>2. \A i \in Nat : Described(m, s, i + 1) \/ Informed(m, s)
                         => Described(m, s, i)' \/ Informed(m, s)'
      BY <1>5, <1>8, <2>5
    <3> QED BY <2>2, <2>5, <3>1, <3>2 DEF Described
  <2> QED BY <1>2, <2>3, <2>4, <2>5
<1> QED BY <1>1, <1>7, <1>8 DEF CandidateInv

LEMMA TurnCalls ==
  ASSUME TypeInv, CallsInv, NEW m \in People, NEW q, NEW e, TurnStep(m, q, e), LineInv'
  PROVE  CallsInv'
BY TurnNews, TurnPrograms, TurnOffers, TurnAnswers, TurnCandidates DEF CallsInv

LEMMA ReadsCalls ==
  ASSUME TypeInv, CallsInv, NEW m \in People, Reads(m)
  PROVE  CallsInv'
<1>1. PICK ok \in BOOLEAN, waits \in BOOLEAN :
        prog' = [prog EXCEPT ![m] = Hears(@, m, Head(inbox[m]), ok, waits)]
  BY DEF Reads, Waits
<1> DEFINE e == Head(inbox[m])
           q == Hears(prog[m], m, e, ok, waits)
<1>2. /\ LineInv /\ NewsInv /\ ProgramsInv /\ OfferInv
      /\ On(m) /\ up' = up /\ prog' = [prog EXCEPT ![m] = q] /\ prog[m] \in Program
      /\ inbox[m] # <<>> /\ UNCHANGED <<room, posted, handed>>
  BY <1>1 DEF CallsInv, Reads, TypeInv, roomVars
<1>3. /\ inbox[m] \in Seq(Said) /\ Len(inbox[m]) \in Nat /\ Len(handed[m]) \in Nat
      /\ Len(posted[m]) \in Nat /\ Len(handed[m]) <= Len(posted[m]) /\ Ahead(m) \in Nat
  BY <1>2, LineType DEF TypeInv
<1>4. 1 \in 1 .. Ahead(m) /\ Item(m, 1) = e
  <2> DEFINE a == Len(inbox[m])
             b == Len(posted[m])
             c == Len(handed[m])
  <2>1. a # 0 /\ Ahead(m) = a + b - c
    BY <1>2, <1>3 DEF Ahead
  <2>2. a \in Nat /\ b \in Nat /\ c \in Nat /\ c <= b
    BY <1>3
  <2>3. a >= 1 /\ a + b - c >= 1
    <3> HIDE DEF a, b, c
    <3> QED BY <2>1, <2>2
  <2>4. Item(m, 1) = inbox[m][1]
    BY <2>3 DEF Item
  <2> HIDE DEF a, b, c
  <2> QED BY <1>2, <1>3, <2>1, <2>3, <2>4
<1>5. Likely(e)
  BY <1>2, <1>4 DEF NewsInv
<1>6. /\ e \in Said
      /\ e.kind # "mail" => e.text = ""
      /\ e.kind = "mail" => \E s \in People : \E text \in Texts : e = Letter(s, text)
  BY <1>5 DEF Likely
<1>7. Orderly(prog[m]) /\ prog[m].state = "on" /\ (prog[m].peer = NoPeer => prog[m].sig = "none")
  BY <1>2, <1>4 DEF ProgramsInv, Fits, On
<1>8. ASSUME NEW s \in People, e = Letter(s, "offer"), prog[m].role = "receiver"
      PROVE  prog[m].remote # s
  <2>1. Mail(m, 1, s, "offer")
    BY <1>4, <1>8 DEF Mail
  <2>2. ~Accepted(s)
    BY <1>2, <2>1 DEF OfferInv
  <2> QED BY <1>8, <2>2 DEF Accepted
<1>9. Turns(q, prog[m], e)
  <2> HIDE DEF e
  <2> QED BY <1>2, <1>6, <1>7, <1>8, HearsTurns
<1> HIDE DEF q, e
<1>10. q.state # "off"
  BY <1>9 DEF Turns, Begun
<1>11. \A k \in People : Known(k)' <=> Known(k)
  BY <1>2, <1>10 DEF Known, On, TypeInv
<1>12. LineInv' /\ Advances(m) /\ \A k \in People \ {m} : Stays(k)
  BY <1>2, <1>11, ReadsLines DEF Reads
<1>13. TurnStep(m, q, e)
  BY <1>2, <1>4, <1>9, <1>12 DEF TurnStep
<1> QED BY <1>12, <1>13, TurnCalls

(* What a program that ends has not read is as good as read.               *)
LEMMA EndsCalls ==
  ASSUME TypeInv, CallsInv, NEW m \in People, On(m), NEW waits \in BOOLEAN,
         prog' = [prog EXCEPT ![m] = Quit(@, waits)],
         UNCHANGED <<room, posted, handed, up>>, inbox' = [inbox EXCEPT ![m] = <<>>]
  PROVE  CallsInv'
<1> DEFINE q == Quit(prog[m], waits)
<1>1. prog' = [prog EXCEPT ![m] = q] /\ prog[m] \in Program /\ q.state \in {"spinning", "over"}
  BY DEF TypeInv, Quit, NewProgram
<1>2. \A e : Turns(q, prog[m], e)
  BY <1>1, QuitTurns
<1> HIDE DEF q
<1>3. \A k \in People : Known(k)' <=> Known(k)
  BY <1>1 DEF Known, On, TypeInv
<1>4. inbox \in Mailboxes /\ inbox[m] \in Seq(Said) /\ Len(inbox[m]) <= 1 /\ LineInv
  BY DEF TypeInv, ChannelInv, Mailboxes, CallsInv
<1>5. CASE inbox[m] = <<>>
  <2>1. inbox' = inbox
    BY <1>4, <1>5 DEF Mailboxes
  <2>2. LineInv' /\ \A k \in People : Stays(k)
    BY <1>3, <2>1, SameLines DEF CallsInv
  <2>3. TurnStep(m, q, Farewell)
    BY <1>1, <1>2, <2>2 DEF TurnStep
  <2> QED BY <2>2, <2>3, TurnCalls
<1>6. CASE inbox[m] # <<>>
  <2>1. Tail(inbox[m]) = <<>>
    BY <1>4, <1>6
  <2>2. inbox' = [inbox EXCEPT ![m] = Tail(@)]
    BY <2>1
  <2>3. LineInv' /\ Advances(m) /\ \A k \in People \ {m} : Stays(k)
    BY <1>3, <1>4, <1>6, <2>2, ReadsLines
  <2>4. TurnStep(m, q, Item(m, 1))
    BY <1>1, <1>2, <2>3 DEF TurnStep
  <2> QED BY <2>3, <2>4, TurnCalls
<1> QED BY <1>5, <1>6

-----------------------------------------------------------------------------
(* Descriptions are made and messages are sent.                            *)

LEMMA StaysItems ==
  ASSUME \A k \in People : Stays(k)
  PROVE  /\ \A k \in People : Ahead(k)' = Ahead(k)
         /\ \A k \in People, i \in Nat : \A s, text : Mail(k, i, s, text)' <=> Mail(k, i, s, text)
         /\ \A k, s \in People : \A n : Described(k, s, n)' <=> Described(k, s, n)
<1>1. \A k \in People, i \in Nat : \A s, text : Mail(k, i, s, text)' <=> Mail(k, i, s, text)
  BY StaysMail
<1>2. \A k \in People : Ahead(k)' = Ahead(k)
  BY StaysMail
<1> QED BY <1>1, <1>2 DEF Described

(* OnSuccess, with the offer or the answer that it sends.                  *)
LEMMA OnSuccessFacts ==
  ASSUME NEW p \in Program, Orderly(p), p.state = "on", p.creating # "none"
  PROVE  LET q == OnSuccess(p)
         IN /\ q \in Program /\ Orderly(q) /\ q.role = p.role /\ q.state = "on"
            /\ q.peer = p.peer /\ q.remote = p.remote /\ q.creating = "none"
            /\ p.peer # NoPeer /\ q.sig # "none" /\ Called(q)
            /\ p.creating = Description(p) /\ Has(q, p.creating)
            /\ Called(p) => Called(q)
            /\ p.role = "receiver" => p.sig # "stable"
<1> DEFINE q == OnSuccess(p)
<1>1. /\ p.creating = Description(p) /\ p.outbox = <<>> /\ p.peer # NoPeer /\ p.sig # "none"
      /\ p.role \in {"sender", "receiver"}
      /\ p.sig \in {"stable", "have-local-offer", "have-remote-offer"}
      /\ p.creating \in {"offer", "answer"}
  BY DEF Orderly, Program
<1>2. q \in Program /\ q.role = p.role /\ q.state = "on"
      /\ q.peer = p.peer /\ q.remote = p.remote
  <2>1. Follows(q, p)
    BY OnSuccessFollows
  <2> QED BY <2>1 DEF Follows, OnSuccess, Program
<1>3. CASE p.role = "sender"
  <2>1. p.creating = "offer"
    BY <1>1, <1>3 DEF Description
  <2>2. CASE p.sig = "stable"
    <3>1. q.sig = "have-local-offer" /\ q.creating = "none"
      BY <2>1, <2>2 DEF OnSuccess, Program
    <3>2. q.outbox = p.outbox \o <<"offer", "candidate">>
      BY <2>1, <2>2 DEF OnSuccess, Program
    <3>3. q.outbox = <<"offer", "candidate">>
      BY <1>1, <3>2
    <3>4. q.outbox # <<>> /\ Head(q.outbox) = "offer"
      BY <3>3
    <3> HIDE DEF q
    <3>5. Orderly(q)
      BY <1>1, <1>2, <1>3, <2>1, <3>1, <3>3 DEF Orderly, Description, Called
    <3> QED BY <1>1, <1>2, <1>3, <2>1, <3>1, <3>4, <3>5 DEF Has, Called, q
  <2>3. CASE p.sig # "stable"
    <3>1. q.sig = p.sig /\ q.creating = "none"
      BY <1>1, <2>1, <2>3 DEF OnSuccess, Program
    <3>2. q.outbox = p.outbox \o <<"offer">>
      BY <1>1, <2>1, <2>3 DEF OnSuccess, Program
    <3>3. q.outbox = <<"offer">>
      BY <1>1, <3>2
    <3>4. q.outbox # <<>> /\ Head(q.outbox) = "offer"
      BY <3>3
    <3> HIDE DEF q
    <3>5. Called(p) /\ Called(q)
      BY <1>1, <1>2, <2>3, <3>1 DEF Orderly, Called
    <3>6. Orderly(q)
      BY <1>1, <1>2, <1>3, <2>1, <3>1, <3>3, <3>5 DEF Orderly, Description
    <3> QED BY <1>1, <1>2, <1>3, <2>1, <3>1, <3>4, <3>5, <3>6 DEF Has, q
  <2> QED BY <2>2, <2>3
<1>4. CASE p.role = "receiver"
  <2>1. p.creating = "answer" /\ p.sig = "have-remote-offer" /\ p.remote # NoPeer
    BY <1>1, <1>4 DEF Description, Orderly
  <2>2. q.sig = "stable" /\ q.creating = "none" /\ q.outbox = p.outbox \o <<"answer", "candidate">>
    BY <2>1 DEF OnSuccess, Program
  <2>3. q.outbox = <<"answer", "candidate">>
    BY <1>1, <2>2
  <2>4. q.outbox # <<>> /\ Head(q.outbox) = "answer"
    BY <2>3
  <2> HIDE DEF q
  <2>5. Called(q)
    BY <1>2, <2>1 DEF Called
  <2>6. Orderly(q)
    BY <1>1, <1>2, <1>4, <2>1, <2>2, <2>3, <2>5 DEF Orderly, Description
  <2> QED BY <1>1, <1>2, <1>4, <2>1, <2>2, <2>4, <2>5, <2>6 DEF Has, q
<1> QED BY <1>1, <1>3, <1>4

LEMMA DescribesCalls ==
  ASSUME TypeInv, CallsInv, NEW m \in People, Describes(m)
  PROVE  CallsInv'
<1> DEFINE p == prog[m]
           q == OnSuccess(p)
<1>1. /\ LineInv /\ NewsInv /\ ProgramsInv /\ OfferInv /\ AnswerInv /\ CandidateInv
      /\ p \in Program /\ Orderly(p) /\ On(m) /\ p.state = "on" /\ p.creating # "none"
      /\ prog' = [prog EXCEPT ![m] = q] /\ UNCHANGED <<room, posted, handed, up, inbox>>
  BY DEF CallsInv, Describes, TypeInv, ProgramsInv, Fits, On, roomVars
<1>2. /\ q \in Program /\ Orderly(q) /\ q.role = p.role /\ q.state = "on"
      /\ q.peer = p.peer /\ q.remote = p.remote /\ q.creating = "none"
      /\ p.peer # NoPeer /\ q.sig # "none" /\ Called(q)
      /\ p.creating = Description(p) /\ Has(q, p.creating)
      /\ Called(p) => Called(q)
      /\ p.role = "receiver" => p.sig # "stable"
  BY <1>1, OnSuccessFacts
<1> HIDE DEF q
<1>3. prog'[m] = q /\ \A k \in People \ {m} : prog'[k] = prog[k]
  BY <1>1 DEF TypeInv
<1>4. /\ \A k \in People : /\ Known(k)' <=> Known(k)
                           /\ On(k)' <=> On(k)
                           /\ prog'[k].role = prog[k].role /\ prog'[k].peer = prog[k].peer
                           /\ prog'[k].remote = prog[k].remote
                           /\ Called(prog[k]) => Called(prog'[k])
  BY <1>1, <1>2, <1>3 DEF Known, On
<1>5. LineInv' /\ \A k \in People : Stays(k)
  BY <1>1, <1>4, SameLines
<1>6. /\ \A k \in People : Ahead(k)' = Ahead(k)
      /\ \A k \in People, i \in Nat : \A s, text : Mail(k, i, s, text)' <=> Mail(k, i, s, text)
      /\ \A k, s \in People : \A n : Described(k, s, n)' <=> Described(k, s, n)
  BY <1>5, StaysItems
<1>7. NewsInv'
  <2>1. ASSUME NEW k \in People, NEW i \in 1 .. Ahead(k)'
        PROVE  Likely(Item(k, i))' /\ (Item(k, i)'.kind = "closing" => ~up' /\ Ahead(k)' = 1)
    <3>1. Ahead(k)' = Ahead(k) /\ Item(k, i)' = Item(k, i) /\ i \in 1 .. Ahead(k)
      BY <1>5 DEF Stays
    <3>2. Likely(Item(k, i)) /\ (Item(k, i).kind = "closing" => ~up /\ Ahead(k) = 1)
      BY <1>1, <3>1 DEF NewsInv
    <3>3. \A z : Likely(z) => Likely(z)'
      BY <1>1, <1>4, LikelyStays
    <3> QED BY <1>1, <3>1, <3>2, <3>3
  <2> QED BY <2>1 DEF NewsInv
<1>8. ProgramsInv'
  <2>1. ASSUME NEW k \in People PROVE Fits(k)'
    <3>1. Fits(k) /\ prog[k].peer \in Whoever /\ prog[k].remote \in Whoever
      BY <1>1 DEF ProgramsInv, TypeInv, Program, Whoever
    <3>2. CASE k # m
      BY <1>1, <1>3, <1>4, <1>6, <3>1, <3>2 DEF Fits, On, Known, Whoever
    <3>3. CASE k = m
      BY <1>1, <1>2, <1>3, <1>4, <1>6, <3>1, <3>3 DEF Fits, On, Known, Whoever
    <3> QED BY <3>2, <3>3
  <2> QED BY <2>1 DEF ProgramsInv
<1>9. ASSUME NEW s \in People, Offered(s) PROVE Offered(s)'
  <2>1. s # m
    BY <1>1, <1>2, <1>9 DEF Offered, Description
  <2> QED BY <1>3, <1>4, <1>9, <2>1 DEF Offered, On
<1>10. \A s \in People : Accepted(s)' <=> Accepted(s)
  BY <1>4 DEF Accepted
<1>11. OfferInv'
  BY <1>1, <1>6, <1>9, <1>10 DEF OfferInv
<1>12. ASSUME NEW r \in People, NEW s \in People, prog[r].role = "receiver", Settled(r, s)
       PROVE  Settled(r, s)'
  <2>1. r # m
    BY <1>1, <1>2, <1>12 DEF Settled
  <2> QED BY <1>3, <1>4, <1>12, <2>1 DEF Settled, On
<1>13. AnswerInv'
  <2>1. ASSUME NEW r \in People, NEW s \in People
        PROVE  /\ prog'[r].role = "receiver" /\ prog'[s].role = "sender" /\ prog'[s].remote = r
                    => Settled(r, s)'
               /\ \A i \in Nat : Mail(s, i, r, "answer")' =>
                    Settled(r, s)' /\ (On(s)' => Called(prog'[s]))
    <3>1. prog[r].role = "receiver" /\ prog[s].role = "sender" /\ prog[s].remote = r
            => Settled(r, s)
      BY <1>1 DEF AnswerInv
    <3>2. ASSUME NEW i \in Nat, Mail(s, i, r, "answer")
          PROVE  Settled(r, s) /\ (On(s) => Called(prog[s])) /\ prog[r].role = "receiver"
      BY <1>1, <3>2, Senders DEF AnswerInv
    <3> QED BY <1>4, <1>6, <1>12, <3>1, <3>2
  <2> QED BY <2>1 DEF AnswerInv
<1>14. \A k, s \in People : Informed(k, s)' <=> Informed(k, s)
  BY <1>4 DEF Informed
<1>15. ASSUME NEW s \in People, Has(prog'[s], "candidate") PROVE Has(prog[s], "candidate")
  <2>1. s # m
    BY <1>2, <1>3, <1>15 DEF Has, Description
  <2> QED BY <1>3, <1>15, <2>1
<1>16. CandidateInv'
  <2>1. ASSUME NEW k \in People, NEW s \in People, prog'[k].role # prog'[s].role
        PROVE  /\ \A i \in Nat : Mail(k, i, s, "candidate")' =>
                    Described(k, s, i)' \/ Informed(k, s)'
               /\ up' /\ prog'[s].peer = k /\ Has(prog'[s], "candidate")
                    => Described(k, s, Ahead(k) + 1)' \/ Informed(k, s)'
    <3>1. prog[k].role # prog[s].role
      BY <1>4, <2>1
    <3>2. /\ \A i \in Nat : Mail(k, i, s, "candidate") => Described(k, s, i) \/ Informed(k, s)
          /\ up /\ prog[s].peer = k /\ Has(prog[s], "candidate")
               => Described(k, s, Ahead(k) + 1) \/ Informed(k, s)
      BY <1>1, <3>1 DEF CandidateInv
    <3>3. Described(k, s, Ahead(k) + 1)' <=> Described(k, s, Ahead(k) + 1)
      <4> DEFINE n == Ahead(k) + 1
      <4>1. \A i : Described(k, s, i)' <=> Described(k, s, i)
        BY <1>6
      <4> QED BY <1>6, <4>1 DEF Described
    <3> QED BY <1>1, <1>4, <1>6, <1>14, <1>15, <3>2, <3>3
  <2> QED BY <2>1 DEF CandidateInv
<1> QED BY <1>5, <1>7, <1>8, <1>11, <1>13, <1>16 DEF CallsInv

LEMMA GetsMail ==
  ASSUME NEW k \in People, NEW e, Gets(k, e), Ahead(k) \in Nat
  PROVE  /\ Ahead(k)' = Ahead(k) + 1
         /\ \A i \in Nat : \A s, text : Mail(k, i, s, text)' <=>
              Mail(k, i, s, text) \/ (i = Ahead(k) + 1 /\ e = Letter(s, text))
<1> SUFFICES ASSUME NEW i \in Nat, NEW s, NEW text
             PROVE  Mail(k, i, s, text)' <=>
                      Mail(k, i, s, text) \/ (i = Ahead(k) + 1 /\ e = Letter(s, text))
  BY DEF Gets
<1>1. /\ Ahead(k)' = Ahead(k) + 1
      /\ \A j \in 1 .. Ahead(k) + 1 : Item(k, j)' = IF j <= Ahead(k) THEN Item(k, j) ELSE e
  BY DEF Gets
<1>2. Letter(s, text)' = Letter(s, text)
  BY DEF Letter
<1>3. CASE i \in 1 .. Ahead(k)
  <2>1. i \in 1 .. Ahead(k)' /\ Item(k, i)' = Item(k, i) /\ i # Ahead(k) + 1
    BY <1>1, <1>3
  <2> QED BY <1>2, <1>3, <2>1 DEF Mail
<1>4. CASE i = Ahead(k) + 1
  <2>1. i \in 1 .. Ahead(k)' /\ Item(k, i)' = e /\ i \notin 1 .. Ahead(k)
    BY <1>1, <1>4
  <2> QED BY <1>2, <1>4, <2>1 DEF Mail
<1>5. CASE i \notin 1 .. Ahead(k) /\ i # Ahead(k) + 1
  <2>1. i \notin 1 .. Ahead(k)'
    BY <1>1, <1>5
  <2> QED BY <1>5, <2>1 DEF Mail
<1> QED BY <1>3, <1>4, <1>5

(* What is left to say.                                                    *)
LEMMA TailFacts ==
  ASSUME NEW p \in Program, Orderly(p), p.state = "on", p.outbox # <<>>
  PROVE  LET q == [p EXCEPT !.outbox = Tail(@)]
         IN /\ q \in Program /\ Orderly(q) /\ q.role = p.role /\ q.state = "on"
            /\ q.peer = p.peer /\ q.remote = p.remote /\ q.creating = "none" /\ q.sig = p.sig
            /\ p.peer # NoPeer /\ p.creating = "none" /\ Called(p) /\ p.sig # "none"
            /\ Head(p.outbox) \in {Description(p), "candidate"}
            /\ Has(q, "candidate") => Has(p, Description(p))
            /\ ~Has(q, "offer") /\ ~Has(q, "answer")
<1> DEFINE d == Description(p)
           q == [p EXCEPT !.outbox = Tail(@)]
<1>1. /\ p.outbox \in {<<d>>, <<d, "candidate">>, <<"candidate">>}
      /\ p.creating = "none" /\ p.peer # NoPeer /\ Called(p) /\ p.sig # "none"
      /\ d \in {"offer", "answer"} /\ "candidate" \in Texts
  BY DEF Orderly, Description, Texts
<1> HIDE DEF d
<1>2. /\ q.role = p.role /\ q.state = "on" /\ q.peer = p.peer /\ q.remote = p.remote
      /\ q.creating = "none" /\ q.sig = p.sig /\ q.outbox = Tail(p.outbox)
  BY <1>1 DEF Program
<1>3. CASE p.outbox = <<d, "candidate">>
  <2>1. Tail(p.outbox) = <<"candidate">> /\ Head(p.outbox) = d
    BY <1>3
  <2>2. <<"candidate">> \in Seq(Texts) /\ <<"candidate">> # <<>> /\ Head(<<"candidate">>) = "candidate"
    BY <1>1
  <2>3. q \in Program
    BY <1>3, <2>1, <2>2 DEF Program
  <2> HIDE DEF q
  <2>4. Orderly(q)
    BY <1>1, <1>2, <2>1 DEF Orderly, Called, Description
  <2> QED BY <1>1, <1>2, <1>3, <2>1, <2>2, <2>3, <2>4 DEF Has, d, q
<1>4. CASE p.outbox = <<d>> \/ p.outbox = <<"candidate">>
  <2>1. Tail(p.outbox) = <<>> /\ Head(p.outbox) \in {d, "candidate"}
    <3>1. CASE p.outbox = <<d>>
      BY <3>1
    <3>2. CASE p.outbox = <<"candidate">>
      BY <3>2
    <3> QED BY <1>4, <3>1, <3>2
  <2>2. q \in Program
    BY <1>4, <2>1 DEF Program
  <2> HIDE DEF q
  <2>3. Orderly(q)
    BY <1>1, <1>2, <2>1 DEF Orderly, Called, Description
  <2> QED BY <1>1, <1>2, <2>1, <2>2, <2>3 DEF Has, d, q
<1> QED BY <1>1, <1>3, <1>4

LEMMA SpeaksCalls ==
  ASSUME TypeInv, CallsInv, NEW m \in People, Speaks(m), prog[m].peer \in room
  PROVE  CallsInv'
<1> DEFINE p == prog[m]
           q == [p EXCEPT !.outbox = Tail(@)]
<1>0. PICK to, said, end : to = p.peer /\ said = Head(p.outbox) /\ end = Ahead(to) + 1
  OBVIOUS
<1>1. /\ LineInv /\ NewsInv /\ ProgramsInv /\ OfferInv /\ AnswerInv /\ CandidateInv
      /\ p \in Program /\ Orderly(p) /\ On(m) /\ p.state = "on" /\ p.outbox # <<>>
      /\ prog' = [prog EXCEPT ![m] = q] /\ up /\ up' = up
      /\ Room!SendText(m, to, said) /\ Delivers({})
      /\ to \in People
  BY <1>0 DEF CallsInv, Speaks, TypeInv, ProgramsInv, Fits, On, ChannelInv
<1>2. /\ q \in Program /\ Orderly(q) /\ q.role = p.role /\ q.state = "on"
      /\ q.peer = p.peer /\ q.remote = p.remote /\ q.creating = "none" /\ q.sig = p.sig
      /\ p.peer # NoPeer /\ p.creating = "none" /\ Called(p) /\ p.sig # "none"
      /\ said \in {Description(p), "candidate"}
      /\ Has(q, "candidate") => Has(p, Description(p))
      /\ ~Has(q, "offer") /\ ~Has(q, "answer")
  BY <1>0, <1>1, TailFacts
<1> HIDE DEF q
<1>3. /\ prog'[m] = q /\ \A k \in People \ {m} : prog'[k] = prog[k]
      /\ p.role \in {"sender", "receiver"} /\ said \in Texts
      /\ Description(p) = IF p.role = "sender" THEN "offer" ELSE "answer"
      /\ p.outbox # <<>> /\ Has(p, said)
  BY <1>0, <1>1, <1>2 DEF TypeInv, Orderly, Description, Texts, Has
<1>4. \A k \in People : /\ Known(k)' <=> Known(k)
                        /\ On(k)' <=> On(k)
                        /\ prog'[k].role = prog[k].role /\ prog'[k].peer = prog[k].peer
                        /\ prog'[k].remote = prog[k].remote /\ prog'[k].sig = prog[k].sig
                        /\ prog'[k].creating = prog[k].creating
  BY <1>1, <1>2, <1>3 DEF Known, On
<1>5. /\ LineInv' /\ Gets(to, Letter(m, said)) /\ Known(to)
      /\ \A j \in People \ {to} : Stays(j)
  BY <1>1, <1>3, <1>4, SpeaksLines
<1>6. Ahead(to) \in Nat /\ end \in Nat
  BY <1>0, <1>1, LineType DEF TypeInv
<1>7. /\ Ahead(to)' = end
      /\ \A k \in People \ {to} : Ahead(k)' = Ahead(k)
      /\ \A k \in People, i \in Nat : \A s, text : Mail(k, i, s, text)' <=>
           Mail(k, i, s, text) \/ (k = to /\ i = end /\ s = m /\ text = said)
  <2>1. \A k \in People \ {to} :
          /\ Ahead(k)' = Ahead(k)
          /\ \A i \in Nat : \A s, text : Mail(k, i, s, text)' <=> Mail(k, i, s, text)
    BY <1>5, StaysMail
  <2>2. /\ Ahead(to)' = end
        /\ \A i \in Nat : \A s, text : Mail(to, i, s, text)' <=>
              Mail(to, i, s, text) \/ (i = end /\ Letter(m, said) = Letter(s, text))
    BY <1>0, <1>1, <1>5, <1>6, GetsMail
  <2>3. \A s, text : Letter(m, said) = Letter(s, text) <=> s = m /\ text = said
    BY LetterFacts
  <2> QED BY <2>1, <2>2, <2>3
<1>8. \A k, i, s, text : Mail(k, i, s, text) => i \in 1 .. Ahead(k)
  BY DEF Mail
<1>9. \A i : ~Mail(to, end, i, said) /\ ~Mail(to, end, i, "offer") /\ ~Mail(to, end, i, "answer")
  BY <1>0, <1>6, <1>8
<1>10. NewsInv'
  <2>1. \A z : Likely(z) => Likely(z)'
    BY <1>1, <1>4, LikelyStays
  <2>2. ASSUME NEW k \in People \ {to}, NEW i \in 1 .. Ahead(k)'
        PROVE  Likely(Item(k, i))' /\ (Item(k, i)'.kind = "closing" => ~up' /\ Ahead(k)' = 1)
    <3>1. Ahead(k)' = Ahead(k) /\ Item(k, i)' = Item(k, i) /\ i \in 1 .. Ahead(k)
      BY <1>5, <2>2 DEF Stays
    <3>2. Likely(Item(k, i)) /\ (Item(k, i).kind = "closing" => ~up /\ Ahead(k) = 1)
      BY <1>1, <3>1 DEF NewsInv
    <3> QED BY <1>1, <2>1, <3>1, <3>2
  <2>3. Likely(Letter(m, said))
    <3>1. Letter(m, said) \in Said
      BY <1>3, SaidItems DEF Letter
    <3>2. Known(m)
      BY <1>1 DEF Known, On
    <3>3. said = "offer" => p.role = "sender"
      BY <1>2, <1>3
    <3>4. said = "answer" => p.role = "receiver"
      BY <1>2, <1>3
    <3>5. Letter(m, said).kind = "mail" /\ Letter(m, said).who = {m}
      BY LetterFacts
    <3> DEFINE z == Letter(m, said)
    <3>6. z \in Said /\ z.kind = "mail" /\ z.who = {m} /\ z = Letter(m, said)
      BY <3>1, <3>5
    <3> HIDE DEF z
    <3>7. Likely(z)
      BY <1>3, <3>2, <3>3, <3>4, <3>6 DEF Likely
    <3> QED BY <3>7 DEF z
  <2>4. ASSUME NEW i \in 1 .. Ahead(to)'
        PROVE  Likely(Item(to, i))' /\ Item(to, i)'.kind # "closing"
    <3>1. Item(to, i)' = IF i <= Ahead(to) THEN Item(to, i) ELSE Letter(m, said)
      BY <1>0, <1>5, <1>7, <2>4 DEF Gets
    <3>2. CASE i <= Ahead(to)
      <4>1. i \in 1 .. Ahead(to)
        BY <1>6, <2>4, <3>2
      <4>2. Likely(Item(to, i)) /\ Item(to, i).kind # "closing"
        BY <1>1, <4>1 DEF NewsInv
      <4> QED BY <2>1, <3>1, <3>2, <4>2
    <3>3. CASE ~(i <= Ahead(to))
      <4>1. Letter(m, said).kind = "mail"
        BY LetterFacts
      <4>2. Letter(m, said)' = Letter(m, said)
        BY DEF Letter
      <4> QED BY <2>1, <2>3, <3>1, <3>3, <4>1
    <3> QED BY <3>2, <3>3
  <2> QED BY <1>1, <2>2, <2>4 DEF NewsInv
<1>11. ProgramsInv'
  <2>1. ASSUME NEW k \in People PROVE Fits(k)'
    <3>1. Fits(k) /\ prog[k].peer \in Whoever /\ prog[k].remote \in Whoever
      BY <1>1 DEF ProgramsInv, TypeInv, Program, Whoever
    <3>2. Orderly(prog'[k])
      BY <1>2, <1>3, <3>1 DEF Fits
    <3> QED BY <1>1, <1>4, <3>1, <3>2 DEF Fits, Known, On, Whoever
  <2> QED BY <2>1 DEF ProgramsInv
<1>12. ASSUME NEW s \in People, Offered(s) PROVE Offered(s)'
  <2>1. ~Has(prog'[s], "offer")
    BY <1>2, <1>3, <1>12 DEF Offered
  <2> QED BY <1>4, <1>12, <2>1 DEF Offered, Called
<1>13. \A s \in People : Accepted(s)' <=> Accepted(s)
  BY <1>4 DEF Accepted
<1>14. \A s \in People : Called(prog'[s]) <=> Called(prog[s])
  BY <1>4 DEF Called
(* Its offer, if it is one, is its first.                                  *)
<1>15. ASSUME NEW s \in People, NEW k \in People, NEW i \in Nat, Mail(k, i, s, "offer")'
       PROVE  /\ Offered(s)' /\ ~Accepted(s)'
              /\ \A l \in People : \A j \in Nat : Mail(l, j, s, "offer")' => l = k /\ j = i
  <2>1. CASE ~(said = "offer" /\ s = m)
    <3>1. \A l \in People, j \in Nat : Mail(l, j, s, "offer")' <=> Mail(l, j, s, "offer")
      BY <1>7, <2>1
    <3>2. /\ Offered(s) /\ ~Accepted(s)
          /\ \A l \in People : \A j \in Nat : Mail(l, j, s, "offer") => l = k /\ j = i
      BY <1>1, <1>15, <3>1 DEF OfferInv
    <3> QED BY <1>12, <1>13, <3>1, <3>2
  <2>2. CASE said = "offer" /\ s = m
    <3>1. p.role = "sender"
      BY <1>2, <1>3, <2>2
    <3>2. ~Offered(m)
      BY <1>3, <2>2 DEF Offered
    <3>3. Offered(m)'
      BY <1>2, <1>3, <3>1 DEF Offered, Called
    <3>4. ~Accepted(m) /\ \A l \in People, j \in Nat : ~Mail(l, j, m, "offer")
      BY <1>1, <3>2 DEF OfferInv
    <3>5. \A l \in People, j \in Nat : Mail(l, j, m, "offer")' => l = to /\ j = end
      BY <1>7, <3>4
    <3>6. k = to /\ i = end
      BY <1>15, <2>2, <3>5
    <3> QED BY <1>13, <2>2, <3>3, <3>4, <3>5, <3>6
  <2> QED BY <2>1, <2>2
<1>16. OfferInv'
  <2>1. ASSUME NEW s \in People, Accepted(s)' PROVE Offered(s)'
    BY <1>1, <1>12, <1>13, <2>1 DEF OfferInv
  <2> QED BY <1>15, <2>1 DEF OfferInv
(* It answers the sender whose offer it holds.                             *)
<1>17. \A r, s \in People : Settled(r, s)' <=> Settled(r, s)
  BY <1>4 DEF Settled
<1>18. ASSUME said = "answer" PROVE Settled(m, to) /\ (On(to) => Called(prog[to]))
  <2>1. p.role = "receiver"
    BY <1>2, <1>3, <1>18
  <2>2. p.remote = to /\ p.sig = "stable"
    BY <1>0, <1>1, <1>2, <2>1 DEF Orderly, Called, Program
  <2>3. Accepted(to)
    BY <1>1, <2>1, <2>2 DEF Accepted
  <2>4. On(to) => Called(prog[to])
    BY <1>1, <2>3 DEF OfferInv, Offered
  <2> QED BY <2>2, <2>4 DEF Settled
<1>19. AnswerInv'
  <2>1. ASSUME NEW r \in People, NEW s \in People,
               prog'[r].role = "receiver", prog'[s].role = "sender", prog'[s].remote = r
        PROVE  Settled(r, s)'
    <3>1. Settled(r, s)
      BY <1>1, <1>4, <2>1 DEF AnswerInv
    <3> QED BY <1>17, <3>1
  <2>2. ASSUME NEW r \in People, NEW s \in People, NEW i \in Nat, Mail(s, i, r, "answer")'
        PROVE  Settled(r, s)' /\ (On(s)' => Called(prog'[s]))
    <3>1. Settled(r, s) /\ (On(s) => Called(prog[s]))
      <4>1. CASE Mail(s, i, r, "answer")
        BY <1>1, <4>1 DEF AnswerInv
      <4>2. CASE s = to /\ r = m /\ said = "answer"
        BY <1>18, <4>2
      <4> QED BY <1>7, <2>2, <4>1, <4>2
    <3> QED BY <1>4, <1>14, <1>17, <3>1
  <2> QED BY <2>1, <2>2 DEF AnswerInv
(* Its candidate comes after its description.                              *)
<1>20. \A k, s \in People : Informed(k, s)' <=> Informed(k, s)
  BY <1>4 DEF Informed
<1>21. \A k, s \in People, n, n1 \in Nat : Described(k, s, n) /\ n <= n1 => Described(k, s, n1)'
  <2> SUFFICES ASSUME NEW k \in People, NEW s \in People, NEW n \in Nat, NEW n1 \in Nat,
                      Described(k, s, n), n <= n1
               PROVE  \E j \in Nat : j < n1 /\ (Mail(k, j, s, "offer")' \/ Mail(k, j, s, "answer")')
    BY DEF Described
  <2>1. PICK j \in Nat : j < n /\ (Mail(k, j, s, "offer") \/ Mail(k, j, s, "answer"))
    BY DEF Described
  <2>2. j < n1
    BY <2>1
  <2> QED BY <1>7, <2>1, <2>2
<1>22. \A k \in People : Ahead(k) + 1 \in Nat /\ Ahead(k)' + 1 \in Nat /\ Ahead(k) + 1 <= Ahead(k)' + 1
  <2>1. \A k \in People : Ahead(k) \in Nat
    BY <1>1, LineType DEF TypeInv
  <2>2. end = Ahead(to) + 1
    BY <1>0
  <2>3. ASSUME NEW k \in People
        PROVE Ahead(k) + 1 \in Nat /\ Ahead(k)' + 1 \in Nat /\ Ahead(k) + 1 <= Ahead(k)' + 1
    <3>1. CASE k = to
      BY <1>6, <1>7, <2>1, <2>2, <3>1
    <3>2. CASE k # to
      BY <1>7, <2>1, <3>2
    <3> QED BY <3>1, <3>2
  <2> QED BY <2>3
<1>23. CandidateInv'
  <2>1. ASSUME NEW k \in People, NEW s \in People, prog[k].role # prog[s].role,
               NEW i \in Nat, Mail(k, i, s, "candidate")'
        PROVE  Described(k, s, i)' \/ Informed(k, s)'
    <3>1. Described(k, s, i) \/ Informed(k, s)
      <4>1. CASE Mail(k, i, s, "candidate")
        BY <1>1, <2>1, <4>1 DEF CandidateInv
      <4>2. CASE k = to /\ i = end /\ s = m /\ said = "candidate"
        <5>1. Described(to, m, Ahead(to) + 1) \/ Informed(to, m)
          BY <1>0, <1>1, <1>3, <2>1, <4>2 DEF CandidateInv
        <5> QED BY <1>0, <4>2, <5>1
      <4> QED BY <1>7, <2>1, <4>1, <4>2
    <3> QED BY <1>20, <1>21, <2>1, <3>1
  <2>2. ASSUME NEW k \in People, NEW s \in People, prog[k].role # prog[s].role,
               prog'[s].peer = k, Has(prog'[s], "candidate")
        PROVE  Described(k, s, Ahead(k) + 1)' \/ Informed(k, s)'
    <3>a. PICK n1 \in Nat : n1 = Ahead(k)' + 1 /\ Ahead(k) + 1 \in Nat /\ Ahead(k) + 1 <= n1
      BY <1>22
    <3>0. Described(k, s, n1)' => Described(k, s, Ahead(k) + 1)'
      BY <3>a DEF Described
    <3>1. CASE s # m
      <4>1. Described(k, s, Ahead(k) + 1) \/ Informed(k, s)
        BY <1>1, <1>3, <2>2, <3>1 DEF CandidateInv
      <4>2. Described(k, s, Ahead(k) + 1) => Described(k, s, n1)'
        BY <1>21, <3>a
      <4> QED BY <1>20, <3>0, <4>1, <4>2
    <3>2. CASE s = m
      <4>1. k = to /\ said = Description(p)
        BY <1>0, <1>2, <1>3, <2>2, <3>2 DEF Has
      <4>2. said \in {"offer", "answer"}
        BY <1>3, <4>1
      <4>3. Mail(k, end, m, said)' /\ end < n1
        BY <1>0, <1>6, <1>7, <3>a, <4>1
      <4>4. Mail(k, end, m, "offer")' \/ Mail(k, end, m, "answer")'
        BY <4>2, <4>3
      <4>5. Described(k, m, n1)'
        BY <1>6, <4>3, <4>4 DEF Described
      <4> QED BY <3>0, <3>2, <4>5
    <3> QED BY <3>1, <3>2
  <2> QED BY <1>1, <1>4, <2>1, <2>2 DEF CandidateInv
<1> QED BY <1>5, <1>10, <1>11, <1>16, <1>19, <1>23 DEF CallsInv

-----------------------------------------------------------------------------
(* The server's notices, and a program that begins.                        *)

LineStep(k) ==
  \/ Stays(k)
  \/ Cuts(k) /\ (~On(k) \/ ~up')
  \/ \E e \in Said : /\ Gets(k, e) \/ (Begins(k, e) /\ Ahead(k) = 0)
                     /\ e.kind \notin {"mail", "closing"} /\ Likely(e)'
  \/ Begins(k, Farewell) /\ ~up'

LEMMA NoticeLine ==
  ASSUME NewsInv, up, NEW k \in People, LineStep(k), Ahead(k) \in Nat,
         Likely(Farewell)', \A z : Likely(z) => Likely(z)'
  PROVE  /\ \A i \in 1 .. Ahead(k)' :
              Likely(Item(k, i))' /\ (Item(k, i)'.kind = "closing" => ~up' /\ Ahead(k)' = 1)
         /\ \A i \in Nat : \A s, text : Mail(k, i, s, text)' => Mail(k, i, s, text)
         /\ \A i, j \in Nat : \A s, t, s1, t1 :
              Mail(k, i, s, t)' /\ j <= i /\ Mail(k, j, s1, t1) => Mail(k, j, s1, t1)'
         /\ On(k) /\ up' => /\ Ahead(k)' \in Nat /\ Ahead(k) <= Ahead(k)'
                            /\ \A j \in Nat : \A s, t : Mail(k, j, s, t) => Mail(k, j, s, t)'
<1>1. \A s, t, e : e.kind # "mail" => e # Letter(s, t)
  BY DEF Letter
<1>2. \A i \in 1 .. Ahead(k) : Likely(Item(k, i)) /\ Item(k, i).kind # "closing"
  BY DEF NewsInv
<1>3. \A s, t : Letter(s, t)' = Letter(s, t)
  BY DEF Letter
<1>4. ASSUME Ahead(k)' \in Nat, Ahead(k)' <= Ahead(k),
             \A i \in 1 .. Ahead(k)' : Item(k, i)' = Item(k, i)
      PROVE  /\ \A i \in 1 .. Ahead(k)' : Likely(Item(k, i))' /\ Item(k, i)'.kind # "closing"
             /\ \A i \in Nat : \A s, text : Mail(k, i, s, text)' => Mail(k, i, s, text)
             /\ \A i, j \in Nat : \A s, t, s1, t1 :
                  Mail(k, i, s, t)' /\ j <= i /\ Mail(k, j, s1, t1) => Mail(k, j, s1, t1)'
  <2>0. \A i \in 1 .. Ahead(k)' : i \in 1 .. Ahead(k)
    BY <1>4
  <2>1. \A i \in 1 .. Ahead(k)' : Likely(Item(k, i))' /\ Item(k, i)'.kind # "closing"
    BY <1>2, <1>4, <2>0
  <2>2. \A i \in Nat : \A s, text : Mail(k, i, s, text)' => Mail(k, i, s, text)
    BY <1>3, <1>4, <2>0 DEF Mail
  <2>3. \A i, j \in Nat : \A s, t, s1, t1 :
          Mail(k, i, s, t)' /\ j <= i /\ Mail(k, j, s1, t1) => Mail(k, j, s1, t1)'
    BY <1>3, <1>4, <2>0 DEF Mail
  <2> QED BY <2>1, <2>2, <2>3
<1>5. CASE Stays(k)
  <2>1. Ahead(k)' = Ahead(k) /\ \A j \in Nat : \A s, t : Mail(k, j, s, t) <=> Mail(k, j, s, t)'
    BY <1>5, StaysMail
  <2> QED BY <1>4, <1>5, <2>1 DEF Stays
<1>6. CASE Cuts(k) /\ (~On(k) \/ ~up')
  BY <1>4, <1>6 DEF Cuts
<1>7. ASSUME NEW e \in Said, Gets(k, e), e.kind \notin {"mail", "closing"}, Likely(e)'
      PROVE  /\ \A i \in 1 .. Ahead(k)' : Likely(Item(k, i))' /\ Item(k, i)'.kind # "closing"
             /\ Ahead(k)' \in Nat /\ Ahead(k) <= Ahead(k)'
             /\ \A j \in Nat : \A s, t : Mail(k, j, s, t) <=> Mail(k, j, s, t)'
  <2>1. /\ Ahead(k)' = Ahead(k) + 1
        /\ \A i \in Nat : \A s, text : Mail(k, i, s, text)' <=>
              Mail(k, i, s, text) \/ (i = Ahead(k) + 1 /\ e = Letter(s, text))
    BY <1>7, GetsMail
  <2>2. \A j \in Nat : \A s, t : Mail(k, j, s, t) <=> Mail(k, j, s, t)'
    BY <1>1, <1>7, <2>1
  <2>3. ASSUME NEW i \in 1 .. Ahead(k)'
        PROVE  Likely(Item(k, i))' /\ Item(k, i)'.kind # "closing"
    <3>1. CASE i <= Ahead(k)
      <4>1. i \in 1 .. Ahead(k) /\ Item(k, i)' = Item(k, i)
        BY <1>7, <2>1, <2>3, <3>1 DEF Gets
      <4> QED BY <1>2, <4>1
    <3>2. CASE ~(i <= Ahead(k))
      <4>1. Item(k, i)' = e
        BY <1>7, <2>1, <2>3, <3>2 DEF Gets
      <4> QED BY <1>7, <4>1
    <3> QED BY <3>1, <3>2
  <2> QED BY <2>1, <2>2, <2>3
<1>8. ASSUME NEW e, Begins(k, e), e.kind # "mail", Likely(e)'
      PROVE  /\ Ahead(k)' = 1
             /\ \A i \in 1 .. Ahead(k)' : Likely(Item(k, i))' /\ Item(k, i)' = e
             /\ \A i \in Nat : \A s, text : ~Mail(k, i, s, text)'
  <2>1. Ahead(k)' = 1 /\ \A i \in 1 .. Ahead(k)' : i = 1 /\ Item(k, i)' = e
    BY <1>8 DEF Begins
  <2> QED BY <1>1, <1>3, <1>8, <2>1 DEF Mail
<1>9. ASSUME NEW e \in Said, Begins(k, e), Ahead(k) = 0,
             e.kind \notin {"mail", "closing"}, Likely(e)'
      PROVE  /\ \A i \in 1 .. Ahead(k)' : Likely(Item(k, i))' /\ Item(k, i)'.kind # "closing"
             /\ Ahead(k)' \in Nat /\ Ahead(k) <= Ahead(k)'
             /\ \A j \in Nat : \A s, t : ~Mail(k, j, s, t) /\ ~Mail(k, j, s, t)'
  <2>1. \A j \in Nat : \A s, t : ~Mail(k, j, s, t)
    BY <1>9 DEF Mail
  <2> QED BY <1>8, <1>9, <2>1
<1>10. CASE Begins(k, Farewell) /\ ~up'
  <2>1. Farewell.kind # "mail"
    BY DEF Farewell, Room!Happened
  <2> QED BY <1>8, <1>10, <2>1
<1> QED BY <1>5, <1>6, <1>7, <1>9, <1>10 DEF LineStep

LEMMA NoticesCalls ==
  ASSUME TypeInv, CallsInv, up, LineInv', NEW m \in People,
         \/ prog' = prog
         \/ ~Known(m) /\ \E role \in {"sender", "receiver"} :
              prog' = [prog EXCEPT ![m] = NewProgram(role, "on")],
         \A k \in People : LineStep(k)
  PROVE  CallsInv'
<1>1. LineInv /\ NewsInv /\ ProgramsInv /\ OfferInv /\ AnswerInv /\ CandidateInv
  BY DEF CallsInv
<1>2. \A k \in People : /\ Ahead(k) \in Nat /\ (~Known(k) => Ahead(k) = 0)
                        /\ prog[k] \in Program /\ k # NoPeer
  <2>1. ASSUME NEW k \in People, ~Known(k) PROVE Ahead(k) = 0
    <3>1. Len(inbox[k]) = 0 /\ Len(posted[k]) = 0 /\ Len(handed[k]) = 0
      BY <1>1, <2>1 DEF LineInv
    <3>2. 0 + 0 - 0 = 0
      OBVIOUS
    <3> QED BY <3>1, <3>2 DEF Ahead
  <2> QED BY <1>1, <2>1, LineType, SignalingAssumption DEF TypeInv, NoPeer
<1>3. \A k \in People : Known(k) => prog'[k] = prog[k] /\ Known(k)'
  BY DEF Known, TypeInv
(* Who is not known yet has no peer and nothing to say.                    *)
<1>4. ASSUME NEW k \in People, prog'[k] # prog[k]
      PROVE  /\ ~Known(k) /\ prog[k].role = "none" /\ prog[k].peer = NoPeer
             /\ prog[k].remote = NoPeer
             /\ Orderly(prog'[k]) /\ prog'[k] \in Program /\ prog'[k].state = "on"
             /\ prog'[k].peer = NoPeer /\ prog'[k].remote = NoPeer
             /\ prog'[k].sig = "none" /\ prog'[k].outbox = <<>>
  <2>1. PICK role \in {"sender", "receiver"} : ~Known(m) /\ prog' = [prog EXCEPT ![m] = NewProgram(role, "on")]
    BY <1>4
  <2>2. k = m /\ prog'[k] = NewProgram(role, "on") /\ ~Known(k)
    BY <1>4, <2>1 DEF TypeInv
  <2>3. Orderly(prog[k])
    BY <1>1 DEF ProgramsInv, Fits
  <2>4. prog'[k] \in Program
    BY <2>2, NewProgramType
  <2>5. /\ prog'[k].state = "on" /\ prog'[k].peer = NoPeer /\ prog'[k].remote = NoPeer
        /\ prog'[k].sig = "none" /\ prog'[k].outbox = <<>> /\ prog'[k].creating = "none"
        /\ prog'[k].role = role
    BY <2>2 DEF NewProgram
  <2>6. Orderly(prog'[k])
    BY <2>5 DEF Orderly, Called
  <2> QED BY <2>2, <2>3, <2>4, <2>5, <2>6 DEF Orderly, Known
<1>5. \A z : Likely(z) => Likely(z)'
  <2>1. \A s \in People : Known(s) => Known(s)' /\ prog'[s].role = prog[s].role
    BY <1>3
  <2> QED BY <1>1, <2>1, LikelyStays
<1>6. Likely(Farewell)'
  <2>1. Farewell \in Said /\ Farewell.kind = "closing" /\ Farewell.who = {} /\ Farewell.text = ""
    BY FarewellSaid DEF Farewell, Room!Happened
  <2>2. Farewell' = Farewell
    BY DEF Farewell, Room!Happened
  <2> QED BY <2>1, <2>2 DEF Likely
<1>7. NewsInv'
  <2>1. ASSUME NEW k \in People
        PROVE  \A i \in 1 .. Ahead(k)' :
                 Likely(Item(k, i))' /\ (Item(k, i)'.kind = "closing" => ~up' /\ Ahead(k)' = 1)
    BY <1>1, <1>2, <1>5, <1>6, NoticeLine
  <2> QED BY <2>1 DEF NewsInv
<1>8. ASSUME NEW k \in People
      PROVE  /\ \A i \in Nat : \A s, text : Mail(k, i, s, text)' => Mail(k, i, s, text)
             /\ \A i, j \in Nat : \A s, t, s1, t1 :
                  Mail(k, i, s, t)' /\ j <= i /\ Mail(k, j, s1, t1) => Mail(k, j, s1, t1)'
             /\ On(k) /\ up' => /\ Ahead(k)' \in Nat /\ Ahead(k) <= Ahead(k)'
                                /\ \A j \in Nat : \A s, t : Mail(k, j, s, t) => Mail(k, j, s, t)'
  BY <1>1, <1>2, <1>5, <1>6, NoticeLine
<1>9. ASSUME NEW k \in People, NEW i \in Nat, NEW s \in People, NEW text, Mail(k, i, s, text)'
      PROVE  /\ Mail(k, i, s, text) /\ Known(k) /\ Known(s)
             /\ prog'[k] = prog[k] /\ prog'[s] = prog[s]
  <2>1. Mail(k, i, s, text)
    BY <1>8, <1>9
  <2>2. Known(s)
    BY <1>1, <2>1, Senders
  <2>3. Known(k)
    BY <1>2, <2>1 DEF Mail
  <2> QED BY <1>3, <2>1, <2>2, <2>3
<1>10. ProgramsInv'
  <2>1. ASSUME NEW k \in People PROVE Fits(k)'
    <3>1. Fits(k)
      BY <1>1 DEF ProgramsInv
    <3>2. CASE prog'[k] = prog[k]
      <4>1. On(k) => prog[k].peer # NoPeer \/ prog[k].sig = "none"
        BY <3>1 DEF Fits
      <4>2. /\ prog[k].peer # NoPeer => prog[k].peer \in People /\ Known(prog[k].peer)'
            /\ prog[k].remote # NoPeer => prog[k].remote \in People /\ Known(prog[k].remote)'
        <5>1. prog[k].peer \in People \cup {NoPeer} /\ prog[k].remote \in People \cup {NoPeer}
          BY <1>2 DEF Program
        <5>2. (prog[k].peer # NoPeer => Known(prog[k].peer)) /\ (prog[k].remote # NoPeer => Known(prog[k].remote))
          BY <3>1 DEF Fits
        <5>3. \A j \in People : Known(j) => prog'[j].state # "off"
          BY <1>3 DEF Known
        <5> QED BY <5>1, <5>2, <5>3, <3>2 DEF Known
      <4> QED BY <3>1, <3>2, <4>1, <4>2 DEF Fits, On, Known
    <3>3. CASE prog'[k] # prog[k]
      BY <1>4, <3>3 DEF Fits
    <3> QED BY <3>2, <3>3
  <2> QED BY <2>1 DEF ProgramsInv
<1>11. ASSUME NEW s \in People, Offered(s) PROVE Offered(s)'
  BY <1>4, <1>11 DEF Offered, On
<1>12. ASSUME NEW s \in People, Accepted(s)' PROVE Accepted(s)
  BY <1>2, <1>4, <1>12 DEF Accepted
<1>13. OfferInv'
  <2>1. ASSUME NEW s \in People, NEW k \in People, NEW i \in Nat, Mail(k, i, s, "offer")'
        PROVE  /\ Offered(s)' /\ ~Accepted(s)'
               /\ \A l \in People : \A j \in Nat : Mail(l, j, s, "offer")' => l = k /\ j = i
    <3>1. Mail(k, i, s, "offer") /\ \A l \in People, j \in Nat : Mail(l, j, s, "offer")' => Mail(l, j, s, "offer")
      BY <1>8, <2>1
    <3>2. Offered(s) /\ ~Accepted(s) /\ \A l \in People : \A j \in Nat : Mail(l, j, s, "offer") => l = k /\ j = i
      BY <1>1, <3>1 DEF OfferInv
    <3> QED BY <1>11, <1>12, <3>1, <3>2
  <2>2. ASSUME NEW s \in People, Accepted(s)' PROVE Offered(s)'
    BY <1>1, <1>11, <1>12, <2>2 DEF OfferInv
  <2> QED BY <2>1, <2>2 DEF OfferInv
<1>14. AnswerInv'
  <2>1. ASSUME NEW r \in People, NEW s \in People,
               prog'[r].role = "receiver", prog'[s].role = "sender", prog'[s].remote = r
        PROVE  Settled(r, s)'
    <3>1. prog'[s] = prog[s]
      BY <1>2, <1>4, <2>1
    <3>2. Known(r)
      BY <1>1, <1>2, <2>1, <3>1 DEF ProgramsInv, Fits
    <3>3. prog'[r] = prog[r]
      BY <1>3, <3>2
    <3>4. Settled(r, s)
      BY <1>1, <2>1, <3>1, <3>3 DEF AnswerInv
    <3> QED BY <3>3, <3>4 DEF Settled, On
  <2>2. ASSUME NEW r \in People, NEW s \in People, NEW i \in Nat, Mail(s, i, r, "answer")'
        PROVE  Settled(r, s)' /\ (On(s)' => Called(prog'[s]))
    <3>1. Mail(s, i, r, "answer") /\ prog'[s] = prog[s] /\ prog'[r] = prog[r]
      BY <1>9, <2>2
    <3> QED BY <1>1, <3>1 DEF AnswerInv, Settled, On
  <2> QED BY <2>1, <2>2 DEF AnswerInv
<1>15. CandidateInv'
  <2>1. ASSUME NEW k \in People, NEW s \in People, prog'[k].role # prog'[s].role,
               NEW i \in Nat, Mail(k, i, s, "candidate")'
        PROVE  Described(k, s, i)' \/ Informed(k, s)'
    <3>1. Mail(k, i, s, "candidate") /\ prog'[k] = prog[k] /\ prog'[s] = prog[s]
      BY <1>9, <2>1
    <3>2. CASE Informed(k, s)
      BY <3>1, <3>2 DEF Informed, On
    <3>3. CASE Described(k, s, i)
      <4>1. PICK j \in Nat : j < i /\ (Mail(k, j, s, "offer") \/ Mail(k, j, s, "answer"))
        BY <3>3 DEF Described
      <4>2. j <= i
        BY <4>1
      <4>3. Mail(k, j, s, "offer")' \/ Mail(k, j, s, "answer")'
        BY <1>8, <2>1, <4>1, <4>2
      <4> QED BY <4>1, <4>3 DEF Described
    <3> QED BY <1>1, <2>1, <3>1, <3>2, <3>3 DEF CandidateInv
  <2>2. ASSUME NEW k \in People, NEW s \in People, prog'[k].role # prog'[s].role,
               up', prog'[s].peer = k, Has(prog'[s], "candidate")
        PROVE  Described(k, s, Ahead(k) + 1)' \/ Informed(k, s)'
    <3>1. prog'[s] = prog[s]
      BY <1>4, <2>2 DEF Has
    <3>2. Known(k)
      BY <1>1, <1>2, <2>2, <3>1 DEF ProgramsInv, Fits
    <3>3. prog'[k] = prog[k]
      BY <1>3, <3>2
    <3>4. CASE Informed(k, s)
      BY <3>3, <3>4 DEF Informed, On
    <3>5. CASE ~Informed(k, s)
      <4>1. On(k)
        BY <3>5 DEF Informed
      <4>2. Described(k, s, Ahead(k) + 1)
        BY <1>1, <2>2, <3>1, <3>3, <3>5 DEF CandidateInv
      <4>3. PICK j \in Nat : j < Ahead(k) + 1 /\ (Mail(k, j, s, "offer") \/ Mail(k, j, s, "answer"))
        BY <4>2 DEF Described
      <4>4. Mail(k, j, s, "offer")' \/ Mail(k, j, s, "answer")'
        BY <1>8, <2>2, <4>1, <4>3
      <4>5. j < Ahead(k)' + 1
        BY <1>2, <1>8, <2>2, <4>1, <4>3
      <4> QED BY <4>4, <4>5 DEF Described
    <3> QED BY <3>4, <3>5
  <2> QED BY <2>1, <2>2 DEF CandidateInv
<1> QED BY <1>7, <1>10, <1>13, <1>14, <1>15 DEF CallsInv

LEMMA RoomCalls ==
  ASSUME TypeInv, CallsInv, NEW m \in People, SignsIn(m) \/ Evicted(m) \/ PollAnswered(m)
  PROVE  CallsInv'
<1>1. LineInv /\ NewsInv /\ up
  BY DEF CallsInv, SignsIn, Evicted, PollAnswered
<1>2. ASSUME NEW e \in Said, e.kind # "mail", e.text = "", \A s \in e.who : Known(s)'
      PROVE  Likely(e)'
  BY <1>2 DEF Likely
<1>3. CASE SignsIn(m)
  <2>1. PICK e \in Said : /\ Begins(m, e) /\ e.kind = "welcome" /\ e.text = ""
                          /\ \A s \in e.who : s = m \/ Known(s)
    BY <1>1, <1>3, SignsInLines
  <2>2. LineInv' /\ \A k \in People \ {m} : Stays(k) \/ Gets(k, Room!Happened("joined", {m}))
    BY <1>1, <1>3, SignsInLines
  <2>3. ~Known(m) /\ \E role \in {"sender", "receiver"} : prog' = [prog EXCEPT ![m] = NewProgram(role, "on")]
    BY <1>3 DEF SignsIn, Known
  <2>4. \A s \in People : s = m \/ Known(s) => Known(s)'
    BY <2>3, NewProgramType DEF Known, TypeInv
  <2>5. Ahead(m) = 0
    <3>1. Len(inbox[m]) = 0 /\ Len(posted[m]) = 0 /\ Len(handed[m]) = 0
      BY <1>1, <2>3 DEF LineInv
    <3>2. 0 + 0 - 0 = 0
      OBVIOUS
    <3> QED BY <3>1, <3>2 DEF Ahead
  <2>6. Likely(e)'
    <3>1. e.who \subseteq People
      BY <2>1 DEF Said, Room!Event
    <3> QED BY <1>2, <2>1, <2>4, <3>1
  <2> DEFINE joined == Room!Happened("joined", {m})
  <2>7. /\ joined \in Said /\ joined.kind = "joined" /\ joined.text = "" /\ joined.who = {m}
    BY SaidItems DEF Room!Happened
  <2> HIDE DEF joined
  <2>8. Likely(joined)'
    BY <1>2, <2>4, <2>7
  <2>9. LineStep(m)
    BY <2>1, <2>5, <2>6 DEF LineStep
  <2>10. \A k \in People \ {m} : LineStep(k)
    BY <2>2, <2>7, <2>8 DEF LineStep, joined
  <2> QED BY <1>1, <2>2, <2>3, <2>9, <2>10, NoticesCalls
<1>4. CASE Evicted(m)
  <2>1. /\ LineInv' /\ Cuts(m) /\ Known(m)
        /\ \A k \in People \ {m} : Stays(k) \/ Gets(k, Room!Happened("left", {m}))
    BY <1>1, <1>4, EvictedLines
  <2>2. prog' = prog /\ ~On(m)
    BY <1>4 DEF Evicted, On
  <2> DEFINE left == Room!Happened("left", {m})
  <2>3. /\ left \in Said /\ left.kind = "left" /\ left.text = "" /\ left.who = {m}
    BY SaidItems DEF Room!Happened
  <2> HIDE DEF left
  <2>4. Likely(left)'
    BY <1>2, <2>1, <2>2, <2>3 DEF Known
  <2>5. LineStep(m)
    BY <2>1, <2>2 DEF LineStep
  <2>6. \A k \in People \ {m} : LineStep(k)
    BY <2>1, <2>3, <2>4 DEF LineStep, left
  <2> QED BY <1>1, <2>1, <2>2, <2>5, <2>6, NoticesCalls
<1>5. CASE PollAnswered(m)
  <2>1. LineInv' /\ \A k \in People : Stays(k)
    BY <1>1, <1>5, PollAnsweredLines
  <2>2. prog' = prog
    BY <1>5 DEF PollAnswered
  <2>3. \A k \in People : LineStep(k)
    BY <2>1 DEF LineStep
  <2> QED BY <1>1, <2>1, <2>2, <2>3, NoticesCalls
<1> QED BY <1>3, <1>4, <1>5

LEMMA ShutsDownCalls ==
  ASSUME TypeInv, CallsInv, NEW m \in People, ShutsDown
  PROVE  CallsInv'
<1>1. LineInv' /\ \A k \in People : Cuts(k) \/ Begins(k, Farewell)
  BY ShutsDownLines DEF CallsInv
<1>2. prog' = prog /\ up /\ ~up'
  BY DEF ShutsDown
<1>3. \A k \in People : LineStep(k)
  BY <1>1, <1>2 DEF LineStep
<1> QED BY <1>1, <1>2, <1>3, NoticesCalls

LEMMA SameCalls ==
  ASSUME TypeInv, CallsInv, UNCHANGED <<room, posted, handed, up, inbox, prog>>
  PROVE  CallsInv'
<1>1. /\ \A k : Ahead(k)' = Ahead(k) /\ (Known(k)' <=> Known(k)) /\ (On(k)' <=> On(k))
      /\ \A k, i : Item(k, i)' = Item(k, i)
      /\ \A s, text : Letter(s, text)' = Letter(s, text)
  BY DEF Ahead, Known, On, Item, Letter
<1>2. \A k, i, s, text : Mail(k, i, s, text)' <=> Mail(k, i, s, text)
  BY <1>1 DEF Mail
<1>3. /\ \A e : Likely(e)' <=> Likely(e)
      /\ \A k, s, n : Described(k, s, n)' <=> Described(k, s, n)
      /\ \A k, s : Informed(k, s)' <=> Informed(k, s)
      /\ \A k, s : Settled(k, s)' <=> Settled(k, s)
      /\ \A s : Offered(s)' <=> Offered(s)
      /\ \A s : Accepted(s)' <=> Accepted(s)
  BY <1>1, <1>2 DEF Likely, Described, Informed, Settled, Offered, Accepted
<1>4. LineInv' /\ NewsInv'
  BY <1>1, <1>3 DEF CallsInv, LineInv, NewsInv
<1>5. ProgramsInv'
  BY <1>1 DEF CallsInv, ProgramsInv, Fits, Known
<1>6. OfferInv' /\ AnswerInv'
  BY <1>1, <1>2, <1>3 DEF CallsInv, OfferInv, AnswerInv
<1>7. CandidateInv'
  <2>1. \A k, s : Described(k, s, Ahead(k) + 1)' <=> Described(k, s, Ahead(k) + 1)
    BY <1>1, <1>2 DEF Described
  <2> QED BY <1>1, <1>2, <1>3, <2>1 DEF CallsInv, CandidateInv
<1> QED BY <1>4, <1>5, <1>6, <1>7 DEF CallsInv

LEMMA CallsInit == Init => CallsInv
<1> SUFFICES ASSUME Init PROVE CallsInv
  OBVIOUS
<1>1. /\ room = {} /\ up
      /\ \A k \in People : posted[k] = <<>> /\ handed[k] = <<>> /\ inbox[k] = <<>>
      /\ \A k \in People : prog[k] = NewProgram("none", "off")
  BY DEF Init, Room!Init
<1>2. \A k \in People : Len(posted[k]) = 0 /\ Len(handed[k]) = 0 /\ Len(inbox[k]) = 0
  BY <1>1
<1>3. \A k \in People : Ahead(k) = 0
  <2>1. 0 + 0 - 0 = 0
    OBVIOUS
  <2> QED BY <1>2, <2>1 DEF Ahead
<1>4. \A k \in People : \A i, s, text : ~Mail(k, i, s, text)
  BY <1>3 DEF Mail
<1>5. LineInv /\ NewsInv
  BY <1>1, <1>2, <1>3 DEF LineInv, NewsInv
<1>6. ASSUME NEW k \in People
      PROVE  /\ prog[k].role = "none" /\ prog[k].state = "off" /\ prog[k].sig = "none"
             /\ prog[k].peer = NoPeer /\ prog[k].remote = NoPeer
             /\ prog[k].creating = "none" /\ prog[k].outbox = <<>>
  BY <1>1 DEF NewProgram
<1>7. ProgramsInv
  <2>1. ASSUME NEW k \in People PROVE Fits(k)
    <3>1. Orderly(prog[k])
      BY <1>6 DEF Orderly, Called
    <3> QED BY <1>6, <3>1 DEF Fits
  <2> QED BY <2>1 DEF ProgramsInv
<1>8. OfferInv /\ AnswerInv
  BY <1>4, <1>6 DEF OfferInv, AnswerInv, Accepted
<1>9. CandidateInv
  BY <1>6 DEF CandidateInv
<1> QED BY <1>5, <1>7, <1>8, <1>9 DEF CallsInv

LEMMA CallsNext == TypeInv /\ CallsInv /\ [Next]_vars => CallsInv'
<1> SUFFICES ASSUME TypeInv, CallsInv, [Next]_vars PROVE CallsInv'
  OBVIOUS
<1>1. ASSUME NEW m \in People, SignsIn(m) \/ Evicted(m) \/ PollAnswered(m)
      PROVE  CallsInv'
  BY <1>1, RoomCalls
<1>2. CASE ShutsDown
  <2>1. CASE People = {}
    BY <2>1 DEF CallsInv, LineInv, NewsInv, ProgramsInv, OfferInv, AnswerInv, CandidateInv
  <2>2. CASE People # {}
    BY <1>2, <2>2, ShutsDownCalls
  <2> QED BY <2>1, <2>2
<1>3. ASSUME NEW m \in People, Reads(m) PROVE CallsInv'
  BY <1>3, ReadsCalls
<1>4. ASSUME NEW m \in People, Describes(m) PROVE CallsInv'
  BY <1>4, DescribesCalls
<1>5. ASSUME NEW m \in People, Speaks(m) PROVE CallsInv'
  <2>1. CASE prog[m].peer \in room
    BY <1>5, <2>1, SpeaksCalls
  <2>2. CASE prog[m].peer \notin room
    BY <1>5, <2>2, EndsCalls DEF Speaks, roomVars, Exits
  <2> QED BY <2>1, <2>2
<1>6. ASSUME NEW m \in People, Stops(m) PROVE CallsInv'
  BY <1>6, EndsCalls DEF Stops, Waits, roomVars
<1>8. ASSUME NEW m \in People, Disconnects(m) PROVE CallsInv'
  <2>1. inbox' = [inbox EXCEPT ![m] = <<>>]
    BY <1>8 DEF Disconnects, TypeInv, ChannelInv, Mailboxes
  <2> QED BY <1>8, <2>1, EndsCalls DEF Disconnects, roomVars, Exits
<1>7. CASE (\E s, r \in People : Streams(s, r)) \/ Over \/ UNCHANGED vars
  BY <1>7, SameCalls DEF Streams, Over, vars, roomVars
<1> QED BY <1>1, <1>2, <1>3, <1>4, <1>5, <1>6, <1>7, <1>8 DEF Next, Progress

(* When a program hears an answer, whoever it is that answers holds its    *)
(* offer and is not moved from it.                                         *)
THEOREM AnswersAgreeCorrect == Spec => []AnswersAgree
<1>1. CallsInv => AnswersAgree
  BY DEF CallsInv, AnswerInv, AnswersAgree, Running, Settled, On
<1> QED BY <1>1, TypeInit, FileInit, FileNext, CallsInit, CallsNext, PTL DEF Spec

(* A description is said, is handed on and is read before any candidate.   *)
THEOREM CandidatesInTime == Spec => []CandidateInTime
<1>1. ASSUME TypeInv, CallsInv PROVE CandidateInTime
  <2> SUFFICES ASSUME NEW m \in People, On(m), inbox[m] # <<>>,
                      Head(inbox[m]).text = "candidate",
                      prog[m].role # prog[Speaker(m)].role
               PROVE  prog[m].peer \notin {NoPeer, Speaker(m)} \/ prog[m].remote # NoPeer
    BY DEF CandidateInTime
  <2>1. LineInv /\ NewsInv /\ CandidateInv
    BY <1>1 DEF CallsInv
  <2>2. /\ inbox[m] \in Seq(Said) /\ Len(inbox[m]) \in Nat /\ Len(handed[m]) \in Nat
        /\ Len(posted[m]) \in Nat /\ Len(handed[m]) <= Len(posted[m])
    BY <1>1, <2>1, LineType DEF TypeInv
  <2>3. 1 \in 1 .. Ahead(m) /\ Item(m, 1) = Head(inbox[m])
    <3> DEFINE a == Len(inbox[m])
               b == Len(posted[m])
               c == Len(handed[m])
    <3>1. a \in Nat \ {0} /\ b \in Nat /\ c \in Nat /\ c <= b /\ Ahead(m) = a + b - c
      BY <2>2 DEF Ahead
    <3>2. 1 <= a /\ Ahead(m) \in Nat /\ 1 <= Ahead(m)
      <4> HIDE DEF a, b, c
      <4> QED BY <3>1
    <3>3. Item(m, 1) = inbox[m][1] /\ inbox[m][1] = Head(inbox[m])
      BY <2>2, <3>2 DEF Item
    <3> HIDE DEF a, b, c
    <3> QED BY <3>2, <3>3
  <2> DEFINE e == Head(inbox[m])
  <2>4. Likely(Item(m, 1))
    BY <2>1, <2>3 DEF NewsInv
  <2>5. Likely(e) /\ e.text = "candidate"
    BY <2>3, <2>4
  <2> HIDE DEF e
  <2>6. PICK s \in People : e = Letter(s, "candidate")
    <3>1. e.kind = "mail"
      BY <2>5 DEF Likely
    <3>2. PICK s \in People, text \in Texts : e = Letter(s, text)
      BY <2>5, <3>1 DEF Likely
    <3>3. text = "candidate"
      BY <2>5, <3>2, LetterFacts
    <3> QED BY <3>2, <3>3
  <2>7. Speaker(m) = s
    <3>1. e.who = {s}
      BY <2>6, LetterFacts
    <3>2. Speaker(m) = Min(e.who)
      BY DEF Speaker, e
    <3>3. {s} \in SUBSET Nat
      BY SignalingAssumption
    <3> QED BY <3>1, <3>2, <3>3, LeastMember
  <2>8. Mail(m, 1, s, "candidate")
    BY <2>3, <2>6 DEF Mail, e
  <2>9. Described(m, s, 1) \/ Informed(m, s)
    BY <2>1, <2>7, <2>8 DEF CandidateInv
  <2>10. ~Described(m, s, 1)
    BY DEF Described, Mail
  <2> QED BY <2>7, <2>9, <2>10 DEF Informed
<1> QED BY <1>1, TypeInit, FileInit, FileNext, CallsInit, CallsNext, PTL DEF Spec
=============================================================================
