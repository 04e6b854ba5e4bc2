--------------------------- MODULE PresenceProofs ----------------------------
(***************************************************************************)
(* What a step of the server does to the members and their mailboxes, and  *)
(* from it: whoever reads its mailbox knows exactly the other members.     *)
(***************************************************************************)
EXTENDS ServerProofs

-----------------------------------------------------------------------------
(* The six things that can happen to the channel in one step.              *)

(* The mailbox of m is left alone.                                         *)
Kept(m) ==
  /\ member'[m].posted = member[m].posted
  /\ member'[m].handed = member[m].handed

(* x is put into the mailbox of m, and handed out if m has a poll parked.  *)
Got(m, x) ==
  /\ member'[m].posted = Append(member[m].posted, x)
  /\ member'[m].handed = IF member[m].waiting # NoConn
                         THEN Append(member[m].handed, x) ELSE member[m].handed

Stays == UNCHANGED <<members, lastId>> /\ \A m \in Ids : Kept(m)

Answers(m) ==
  /\ m \in Members /\ UNCHANGED <<members, lastId>>
  /\ member[m].queue # <<>>
  /\ member'[m].posted = member[m].posted
  /\ member'[m].handed = Append(member[m].handed, Head(member[m].queue))
  /\ \A n \in Ids \ {m} : Kept(n)

Forwards(m, peer, body) ==
  /\ m \in Members /\ peer \in Members /\ UNCHANGED <<members, lastId>>
  /\ Got(peer, Mail(m, body))
  /\ \A n \in Ids \ {peer} : Kept(n)

Joins(new) ==
  /\ new = lastId + 1 /\ lastId' = new
  /\ new \in Ids \ Members
  /\ members' = Append(members, new)
  /\ member'[new] = NewMember(BuildResponseForNewMember(new))
  /\ \A n \in Members : Got(n, Notice(n, new, TRUE))
  /\ \A n \in Ids \ (Members \cup {new}) : Kept(n)

Departs(k) ==
  /\ members' = RemoveAt(members, k) /\ UNCHANGED lastId
  /\ member'[members[k]] = NoMember
  /\ \A n \in Members \ {members[k]} : Got(n, Notice(n, members[k], FALSE))
  /\ \A n \in Ids \ Members : Kept(n)

ChannelStep ==
  \/ Stays
  \/ \E m \in Members : Answers(m)
  \/ \E m, peer \in Members, body \in Bodies \cup {NoBody} : Forwards(m, peer, body)
  \/ \E new \in Ids : Joins(new)
  \/ \E k \in DOMAIN members : Departs(k)
  \/ CloseAll

(* What QueueResponse leaves in the member's history.                      *)
LEMMA QueueResponseGives ==
  ASSUME NEW rec, NEW x
  PROVE  /\ QueueResponse(rec, x).posted = Append(rec.posted, x)
         /\ QueueResponse(rec, x).handed =
              IF rec.waiting # NoConn THEN Append(rec.handed, x) ELSE rec.handed
<1> DEFINE posted == Append(rec.posted, x)
           handed == IF rec.waiting # NoConn THEN Append(rec.handed, x) ELSE rec.handed
           queue == IF rec.waiting # NoConn THEN rec.queue ELSE Append(rec.queue, x)
           idle == IF rec.waiting # NoConn THEN 0 ELSE rec.idle
<1>1. QueueResponse(rec, x) =
        [connected |-> rec.connected, waiting |-> NoConn, idle |-> idle,
         queue |-> queue, posted |-> posted, handed |-> handed]
  BY DEF QueueResponse
<1> HIDE DEF posted, handed, queue, idle
<1>2. QueueResponse(rec, x).posted = posted /\ QueueResponse(rec, x).handed = handed
  BY <1>1
<1> QED BY <1>2 DEF posted, handed

LEMMA AddMemberJoins ==
  ASSUME ChannelTypeOK, NEW c \in Conns, AddMember(c)
  PROVE  Joins(lastId + 1)
<1> DEFINE new == lastId + 1
           item == BroadcastChangedState(new, TRUE)
           added == BuildResponseForNewMember(new)
<1>1. new \in Ids /\ new \notin Members /\ Members \subseteq Ids
  BY ChannelAssumption, MembersAreIds DEF ChannelTypeOK, AddMember, Ids
<1>2. /\ members' = Append(members, new) /\ lastId' = new
      /\ member' = [Posted(member, item) EXCEPT ![new] = NewMember(added)]
  BY DEF AddMember
<1>3. DOMAIN item = Members /\ \A n \in Members : item[n] = Notice(n, new, TRUE)
  BY <1>1 DEF BroadcastChangedState
<1> HIDE DEF item, added, new
<1>4. member'[new] = NewMember(added)
  BY <1>1, <1>2 DEF Posted
<1>5. \A n \in Members : member'[n] = QueueResponse(member[n], Notice(n, new, TRUE))
  BY <1>1, <1>2, <1>3 DEF Posted
<1>6. \A n \in Ids \ (Members \cup {new}) : member'[n] = member[n]
  BY <1>1, <1>2, <1>3 DEF Posted
<1>7. ASSUME NEW n \in Members PROVE Got(n, Notice(n, new, TRUE))
  <2> DEFINE x == Notice(n, new, TRUE)
  <2>1. member'[n] = QueueResponse(member[n], x)
    BY <1>5
  <2> HIDE DEF x
  <2>2. Got(n, x)
    BY <2>1, QueueResponseGives DEF Got
  <2> QED BY <2>2 DEF x
<1>8. \A n \in Ids \ (Members \cup {new}) : Kept(n)
  BY <1>6 DEF Kept
<1>9. Joins(new)
  BY <1>1, <1>2, <1>4, <1>7, <1>8 DEF Joins, added, new
<1> QED BY <1>9 DEF new

LEMMA EraseMemberDeparts ==
  ASSUME ChannelTypeOK, NEW k \in DOMAIN members, EraseMember(k)
  PROVE  Departs(k)
<1> DEFINE gone == members[k]
           item == BroadcastChangedState(gone, FALSE)
<1>1. gone \in Members /\ Members \subseteq Ids
  BY MembersAreIds DEF Members
<1>2. /\ members' = RemoveAt(members, k) /\ UNCHANGED lastId
      /\ member' = [Posted(member, item) EXCEPT ![gone] = NoMember]
  BY DEF EraseMember
<1>3. /\ DOMAIN item = Members \ {gone}
      /\ \A n \in Members \ {gone} : item[n] = Notice(n, gone, FALSE)
  BY DEF BroadcastChangedState
<1> HIDE DEF item, gone
<1>4. member'[gone] = NoMember
  BY <1>1, <1>2 DEF Posted
<1>5. \A n \in Members \ {gone} :
        member'[n] = QueueResponse(member[n], Notice(n, gone, FALSE))
  BY <1>1, <1>2, <1>3 DEF Posted
<1>6. \A n \in Ids \ Members : member'[n] = member[n]
  BY <1>1, <1>2, <1>3 DEF Posted
<1>7. ASSUME NEW n \in Members \ {gone} PROVE Got(n, Notice(n, gone, FALSE))
  <2> DEFINE x == Notice(n, gone, FALSE)
  <2>1. member'[n] = QueueResponse(member[n], x)
    BY <1>5
  <2> HIDE DEF x
  <2>2. Got(n, x)
    BY <2>1, QueueResponseGives DEF Got
  <2> QED BY <2>2 DEF x
<1>8. \A n \in Ids \ Members : Kept(n)
  BY <1>6 DEF Kept
<1> QED BY <1>2, <1>4, <1>7, <1>8 DEF Departs, gone

(* Lookup leaves every mailbox alone, unless it answers a poll.            *)
LEMMA LookedUpKeeps ==
  ASSUME ChannelTypeOK, NEW m \in Ids, NEW c \in Conns,
         req[c].path = "/wait" => member[m].queue = <<>>
  PROVE  \A n \in Ids : /\ LookedUp(m, c)[n].posted = member[n].posted
                        /\ LookedUp(m, c)[n].handed = member[n].handed
<1>1. member \in [Ids -> ChannelMember] /\ member[m] \in ChannelMember
  BY DEF ChannelTypeOK
<1>2. /\ SetDisconnected(member[m]).posted = member[m].posted
      /\ SetDisconnected(member[m]).handed = member[m].handed
  BY <1>1 DEF SetDisconnected, ChannelMember
<1>3. member[m].queue = <<>> =>
        /\ SetWaitingSocket(member[m], c).posted = member[m].posted
        /\ SetWaitingSocket(member[m], c).handed = member[m].handed
  BY <1>1 DEF SetWaitingSocket, ChannelMember
<1> QED BY <1>1, <1>2, <1>3 DEF LookedUp

LEMMA HandleChannel ==
  ASSUME TypeInv, NEW c \in Conns, Handle(c)
  PROVE  ChannelStep
<1> DEFINE m == Lookup(req[c])
<1>a. ChannelTypeOK /\ member \in [Ids -> ChannelMember]
  BY DEF TypeInv, TypeOK, ChannelTypeOK
<1>b. m # 0 => m \in Members /\ m \in Ids
  BY <1>a, LookupType
<1>c. UNCHANGED channelVars => ChannelStep
  BY DEF ChannelStep, Stays, Kept, channelVars
<1>1. CASE HandleWait(c)
  <2>1. m \in Members /\ m \in Ids /\ UNCHANGED <<members, lastId>> /\ member' = LookedUp(m, c)
        /\ req[c].path = "/wait"
    BY <1>1, <1>b DEF HandleWait
  <2>2. CASE member[m].queue = <<>>
    <3>1. Stays
      BY <2>1, <2>2, <1>a, LookedUpKeeps DEF Stays, Kept
    <3> QED BY <3>1 DEF ChannelStep
  <2>3. CASE member[m].queue # <<>>
    <3>1. member' = [member EXCEPT ![m] = SetWaitingSocket(member[m], c)]
      BY <2>1 DEF LookedUp
    <3>2. Answers(m)
      BY <2>1, <2>3, <3>1, <1>a DEF Answers, Kept, SetWaitingSocket
    <3> QED BY <2>1, <3>2 DEF ChannelStep
  <2> QED BY <2>2, <2>3
<1>2. CASE HandleSignIn(c)
  <2>1. Joins(lastId + 1)
    BY <1>2, <1>a, AddMemberJoins DEF HandleSignIn
  <2> QED BY <2>1 DEF ChannelStep, Joins
<1>3. CASE HandleOrphan(c) \/ HandleBrowserRequest(c)
  BY <1>3, <1>c DEF HandleOrphan, HandleBrowserRequest
<1>4. CASE HandleForward(c)
  <2> DEFINE peer == IsTargetedRequest(req[c])
             mail == Mail(m, req[c].body)
             item == [p \in {peer} |-> mail]
  <2>1. /\ m \in Members /\ m \in Ids /\ peer \in Members /\ peer \in Ids
        /\ UNCHANGED <<members, lastId>> /\ Requested(c) /\ req[c].path # "/wait"
    BY <1>4, <1>a, <1>b, LookupType DEF HandleForward
  <2>2. /\ \A n \in Ids : /\ LookedUp(m, c)[n].posted = member[n].posted
                          /\ LookedUp(m, c)[n].handed = member[n].handed
        /\ \A n \in Ids : LookedUp(m, c)[n].waiting = member[n].waiting
    BY <2>1, <1>a, LookedUpKeeps, LookedUpWaiting
  <2>3. CASE peer = m
    <3>1. member' = LookedUp(m, c)
      BY <1>4, <2>3 DEF HandleForward
    <3> QED BY <2>1, <2>2, <3>1 DEF ChannelStep, Stays, Kept
  <2>4. CASE peer # m
    <3>1. member' = Posted(LookedUp(m, c), item)
      BY <1>4, <2>4 DEF HandleForward
    <3>2. DOMAIN item = {peer} /\ item[peer] = mail
      OBVIOUS
    <3>3. /\ member'[peer] = QueueResponse(LookedUp(m, c)[peer], mail)
          /\ \A n \in Ids \ {peer} : member'[n] = LookedUp(m, c)[n]
      <4> HIDE DEF item, mail
      <4> QED BY <2>1, <3>1, <3>2 DEF Posted
    <3>4. Got(peer, mail)
      <4> HIDE DEF mail
      <4> QED BY <2>1, <2>2, <3>3, QueueResponseGives DEF Got
    <3>5. \A n \in Ids \ {peer} : Kept(n)
      BY <2>2, <3>3 DEF Kept
    <3>6. Forwards(m, peer, req[c].body)
      BY <2>1, <3>4, <3>5 DEF Forwards
    <3>7. req[c].body \in Bodies \cup {NoBody}
      BY <2>1, RequestedType
    <3> QED BY <2>1, <3>6, <3>7 DEF ChannelStep
  <2> QED BY <2>3, <2>4
<1>5. CASE HandleUntargeted(c)
  <2>1. /\ m \in Ids /\ UNCHANGED <<members, lastId>> /\ member' = LookedUp(m, c)
        /\ req[c].path # "/wait"
    BY <1>5, <1>b DEF HandleUntargeted
  <2>2. Stays
    BY <2>1, <1>a, LookedUpKeeps DEF Stays, Kept
  <2> QED BY <2>2 DEF ChannelStep
<1>6. CASE HandleQuit(c)
  BY <1>6 DEF HandleQuit, ChannelStep
<1> QED BY <1>1, <1>2, <1>3, <1>4, <1>5, <1>6 DEF Handle

(* Every step of the server is one of the six.                             *)
LEMMA NextChannel == TypeInv /\ [Next]_vars => ChannelStep
<1> SUFFICES ASSUME TypeInv, [Next]_vars PROVE ChannelStep
  OBVIOUS
<1>a. ChannelTypeOK /\ member \in [Ids -> ChannelMember]
  BY DEF TypeInv, TypeOK, ChannelTypeOK
<1>b. UNCHANGED channelVars => ChannelStep
  BY DEF ChannelStep, Stays, Kept, channelVars
<1>1. CASE Tick
  <2>1. \A m \in Ids : Kept(m)
    <3> SUFFICES ASSUME NEW m \in Ids PROVE Kept(m)
      OBVIOUS
    <3>1. \/ member'[m] = member[m]
          \/ member'[m] = [member[m] EXCEPT !.idle = @ + 1]
      BY <1>1 DEF Tick
    <3> QED BY <1>a, <3>1 DEF Kept, ChannelMember
  <2> QED BY <1>1, <2>1 DEF Tick, ChannelStep, Stays
<1>2. ASSUME NEW c \in Conns, Handle(c) PROVE ChannelStep
  BY <1>2, HandleChannel
<1>3. ASSUME NEW c \in Conns, NEW k \in DOMAIN members, CloseFor(c, k)
      PROVE  ChannelStep
  <2>1. CASE member[members[k]].connected
    <3>1. /\ member' = [member EXCEPT ![members[k]] = OnClosing(@, c)]
          /\ UNCHANGED <<members, lastId>>
      BY <1>3, <2>1 DEF CloseFor
    <3>2. \A m \in Ids : Kept(m)
      BY <3>1, <1>a DEF Kept, OnClosing
    <3> QED BY <3>1, <3>2 DEF ChannelStep, Stays
  <2>2. CASE ~member[members[k]].connected
    BY <1>3, <2>2, <1>a, EraseMemberDeparts DEF CloseFor, ChannelStep
  <2> QED BY <2>1, <2>2
<1>4. ASSUME NEW k \in DOMAIN members, CheckForTimeout(k) PROVE ChannelStep
  BY <1>4, <1>a, EraseMemberDeparts DEF CheckForTimeout, ChannelStep
<1>5. CASE Leave
  BY <1>5 DEF Leave, ChannelStep
<1>6. CASE Select \/ SelectFails \/ EndServing \/ EndTimeouts \/ AcceptNothing
           \/ AcceptsNull
  BY <1>6, <1>b DEF Select, SelectFails, EndServing, EndTimeouts,
                    AcceptNothing, AcceptsNull
<1>7. ASSUME NEW c \in Conns,
             \/ BeginClosing(c) \/ ReadOn(c) \/ Accept(c)
             \/ \E n \in DOMAIN sockets : DeleteSocket(c, n)
             \/ ClientConnects(c) \/ ClientWrites(c) \/ ClientHangsUp(c)
      PROVE  ChannelStep
  BY <1>7, <1>b DEF BeginClosing, ReadOn, Accept, DeleteSocket, ClientConnects,
                    ClientWrites, ClientHangsUp
<1>8. CASE UNCHANGED vars
  BY <1>8, <1>b DEF vars
<1>9. CASE ServerStep
  BY <1>9, <1>2, <1>3, <1>4, <1>5, <1>6, <1>7 DEF ServerStep, Serve, Close
<1>10. CASE Environment
  BY <1>10, <1>1, <1>7 DEF Environment
<1> QED BY <1>8, <1>9, <1>10 DEF Next, Stopped
-----------------------------------------------------------------------------
(* Presence.  What a member knows follows from its mailbox alone, and each *)
(* response changes it as the channel changed.  The inductive invariant    *)
(* adds that a member is in the list once, so that erasing it leaves none  *)
(* behind, and that a mailbox starts with the list of the sign-in: only in *)
(* that first response does an entry "name,id,0" count as a peer.          *)

PresenceInv ==
  /\ PresenceConsistent
  /\ Once(members)
  /\ \A m \in Members : member[m].posted # <<>>

(* What a reader of the responses s knows.                                 *)
Knows(s) ==
  {k \in Ids : \E p \in DOMAIN s :
     /\ Says(s[p], k, TRUE) \/ (p = 1 /\ Says(s[p], k, FALSE))
     /\ \A q \in DOMAIN s : q > p => ~Says(s[q], k, FALSE)}

LEMMA ToldKnows == \A m : Told(m) = Knows(member[m].posted)
BY DEF Told, Knows

LEMMA AppendNotEmpty ==
  ASSUME NEW S, NEW s \in Seq(S), NEW x \in S
  PROVE  Append(s, x) # <<>>
<1>1. Len(Append(s, x)) = Len(s) + 1 /\ Len(s) \in Nat
  OBVIOUS
<1> QED BY <1>1

(* Responses without entries say nothing of presence.                      *)
LEMMA MailSays ==
  ASSUME NEW m, NEW body, NEW k, NEW up
  PROVE  ~Says(Mail(m, body), k, up)
<1>1. Mail(m, body).entries = <<>>
  BY DEF Mail
<1>2. DOMAIN <<>> = {}
  OBVIOUS
<1> QED BY <1>1, <1>2 DEF Says, Range

LEMMA NoticeSays ==
  ASSUME NEW m, NEW other, NEW up \in BOOLEAN
  PROVE  \A k, b : Says(Notice(m, other, up), k, b) <=> k = other /\ b = up
<1>1. Notice(m, other, up).entries = <<[id |-> other, up |-> up]>>
  BY DEF Notice, GetEntry
<1>2. Range(<<[id |-> other, up |-> up]>>) = {[id |-> other, up |-> up]}
  BY DEF Range
<1> QED BY <1>1, <1>2 DEF Says

(* The list of the sign-in has an entry for each member and the newcomer.  *)
LEMMA RosterSays ==
  ASSUME ChannelTypeOK, members \in Seq(Ids), NEW new, NEW k
  PROVE  (\E up \in BOOLEAN : Says(BuildResponseForNewMember(new), k, up))
           <=> k \in Members \cup {new}
<1> DEFINE first == GetEntry(new, TRUE)
           others == [n \in DOMAIN members |->
                        GetEntry(members[n], member[members[n]].connected)]
           entries == BuildResponseForNewMember(new).entries
<1>1. entries = <<first>> \o others
  BY DEF BuildResponseForNewMember
<1>2. ASSUME NEW n \in DOMAIN members
      PROVE  /\ others[n].id = members[n]
             /\ others[n].up = member[members[n]].connected
  BY DEF GetEntry
<1>3. first.id = new /\ first.up = TRUE
  BY DEF GetEntry
<1>4. \A n \in DOMAIN members : others[n].up \in BOOLEAN
  BY <1>2 DEF ChannelTypeOK, ChannelMember
<1> DEFINE S == {first} \cup {others[n] : n \in DOMAIN members}
<1>5. Range(entries) = S
  <2>1. Len(members) \in Nat /\ DOMAIN members = 1 .. Len(members)
    OBVIOUS
  <2>2. others \in Seq(S) /\ Len(others) = Len(members)
    <3>1. \A n \in 1 .. Len(members) : others[n] \in S
      <4> HIDE DEF others
      <4> QED BY <2>1
    <3> HIDE DEF S
    <3> QED BY <2>1, <3>1
  <2>3. <<first>> \in Seq(S) /\ Len(<<first>>) = 1 /\ <<first>>[1] = first
    OBVIOUS
  <2>4. /\ Len(entries) = 1 + Len(members) /\ entries \in Seq(S)
        /\ \A n \in 1 .. 1 + Len(members) :
             entries[n] = IF n <= 1 THEN <<first>>[n] ELSE others[n - 1]
    <3> HIDE DEF first, others, S, entries
    <3> QED BY <2>2, <2>3, <1>1, ConcatProperties
  <2> HIDE DEF first, others, entries
  <2>5. DOMAIN entries = 1 .. 1 + Len(members) /\ entries[1] = first
    BY <2>1, <2>3, <2>4
  <2>6. ASSUME NEW n \in DOMAIN entries PROVE entries[n] \in S
    BY <2>4, <2>6
  <2>7. ASSUME NEW n \in DOMAIN members
        PROVE  n + 1 \in DOMAIN entries /\ entries[n + 1] = others[n]
    <3>1. n + 1 \in 1 .. 1 + Len(members) /\ ~(n + 1 <= 1) /\ (n + 1) - 1 = n
      BY <2>1
    <3> QED BY <3>1, <2>4, <2>5
  <2>8. 1 \in DOMAIN entries
    BY <2>1, <2>5
  <2>9. \A e \in S : \E n \in DOMAIN entries : entries[n] = e
    BY <2>5, <2>7, <2>8
  <2> HIDE DEF S
  <2> QED BY <2>6, <2>9 DEF Range
<1> HIDE DEF first, others, entries
<1>6. (\E up \in BOOLEAN : \E e \in Range(entries) : e.id = k /\ e.up = up)
        <=> k \in Members \cup {new}
  <2>1. ASSUME NEW e \in S
        PROVE  e.id \in Members \cup {new} /\ e.up \in BOOLEAN
    <3>1. CASE e = first
      <4>1. first.up \in BOOLEAN
        BY <1>3
      <4> QED BY <3>1, <4>1, <1>3
    <3>2. CASE \E n \in DOMAIN members : e = others[n]
      BY <3>2, <1>2, <1>4 DEF Members
    <3> QED BY <3>1, <3>2
  <2>2. ASSUME k \in Members \cup {new} PROVE \E e \in S : e.id = k
    BY <1>2, <1>3, <2>2 DEF Members
  <2> HIDE DEF S
  <2> QED BY <1>5, <2>1, <2>2
<1> QED BY <1>6 DEF Says, entries

LEMMA KnowsMore ==
  ASSUME NEW s \in Seq(Response), NEW x \in Response
  PROVE  /\ (\A k \in Ids, up \in BOOLEAN : ~Says(x, k, up))
              => Knows(Append(s, x)) = Knows(s)
         /\ \A other \in Ids :
              (\A k \in Ids, up \in BOOLEAN : Says(x, k, up) <=> k = other /\ up = TRUE)
                => Knows(Append(s, x)) = Knows(s) \cup {other}
         /\ \A other \in Ids :
              /\ s # <<>>
              /\ \A k \in Ids, up \in BOOLEAN : Says(x, k, up) <=> k = other /\ up = FALSE
              => Knows(Append(s, x)) = Knows(s) \ {other}
<1> DEFINE t == Append(s, x)
           n == Len(s)
           Tells(p, k) == Says(t[p], k, TRUE) \/ (p = 1 /\ Says(t[p], k, FALSE))
           Denies(p, k) == Says(t[p], k, FALSE)
<1>1. /\ DOMAIN s = 1 .. n /\ DOMAIN t = 1 .. n + 1 /\ n \in Nat
      /\ t[n + 1] = x /\ \A p \in 1 .. n : t[p] = s[p]
      /\ s # <<>> => n # 0
  OBVIOUS
<1>2. Knows(s) = {k \in Ids : \E p \in 1 .. n :
         Tells(p, k) /\ \A q \in 1 .. n : q > p => ~Denies(q, k)}
  <2>1. \A p \in 1 .. n, k \in Ids :
          /\ Tells(p, k) <=> Says(s[p], k, TRUE) \/ (p = 1 /\ Says(s[p], k, FALSE))
          /\ Denies(p, k) <=> Says(s[p], k, FALSE)
    BY <1>1
  <2>2. DOMAIN s = 1 .. n
    BY <1>1
  <2> HIDE DEF t, n, Tells, Denies
  <2> QED BY <2>1, <2>2 DEF Knows
<1>3. Knows(t) = {k \in Ids : \E p \in 1 .. n + 1 :
         Tells(p, k) /\ \A q \in 1 .. n + 1 : q > p => ~Denies(q, k)}
  <2> HIDE DEF t, n
  <2> QED BY <1>1 DEF Knows
<1>4. ASSUME NEW k \in Ids
      PROVE  /\ Tells(n + 1, k) <=> Says(x, k, TRUE) \/ (n = 0 /\ Says(x, k, FALSE))
             /\ Denies(n + 1, k) <=> Says(x, k, FALSE)
  <2>1. t[n + 1] = x /\ (n + 1 = 1 <=> n = 0)
    BY <1>1
  <2> HIDE DEF t, n
  <2> QED BY <2>1
<1> HIDE DEF t, n, Tells, Denies
(* Who is known after one more response.                                   *)
<1>5. ASSUME NEW k \in Ids
      PROVE  k \in Knows(t) <=> \/ Tells(n + 1, k)
                                \/ k \in Knows(s) /\ ~Denies(n + 1, k)
  <2>1. 1 .. n + 1 = 1 .. n \cup {n + 1} /\ n + 1 \notin 1 .. n
        /\ (\A p \in 1 .. n : n + 1 > p) /\ (\A p \in 1 .. n : ~(p > n + 1))
        /\ ~(n + 1 > n + 1)
    BY <1>1
  <2> QED BY <1>2, <1>3, <2>1
<1>6. Knows(t) \subseteq Ids /\ Knows(s) \subseteq Ids
  BY DEF Knows
<1>7. (\A k \in Ids, up \in BOOLEAN : ~Says(x, k, up)) => Knows(t) = Knows(s)
  BY <1>4, <1>5, <1>6
<1>8. ASSUME NEW other \in Ids,
             \A k \in Ids, up \in BOOLEAN : Says(x, k, up) <=> k = other /\ up = TRUE
      PROVE  Knows(t) = Knows(s) \cup {other}
  BY <1>4, <1>5, <1>6, <1>8
<1>9. ASSUME NEW other \in Ids, s # <<>>,
             \A k \in Ids, up \in BOOLEAN : Says(x, k, up) <=> k = other /\ up = FALSE
      PROVE  Knows(t) = Knows(s) \ {other}
  BY <1>1, <1>4, <1>5, <1>6, <1>9
<1> QED BY <1>7, <1>8, <1>9 DEF t
(* The other members are told of an arrival: each of them adds it.         *)
LEMMA JoinsPresence ==
  ASSUME ChannelTypeOK, PresenceInv, NEW new \in Ids, Joins(new)
  PROVE  PresenceInv'
<1>a. /\ members \in Seq(Ids) /\ member \in [Ids -> ChannelMember]
      /\ Members \subseteq Ids
  BY ChannelAssumption, MembersAreIds DEF ChannelTypeOK, Ids
<1>b. PresenceConsistent /\ Once(members)
      /\ \A m \in Members : member[m].posted # <<>>
  BY DEF PresenceInv
<1>1. new \notin Members /\ members' = Append(members, new)
  BY DEF Joins
<1>2. Members' = Members \cup {new} /\ Once(members')
  <2>1. /\ DOMAIN members = 1 .. Len(members) /\ Len(members) \in Nat
        /\ DOMAIN members' = 1 .. Len(members) + 1
        /\ members'[Len(members) + 1] = new
        /\ \A n \in 1 .. Len(members) : members'[n] = members[n]
    BY <1>1, <1>a
  <2>2. \A n \in DOMAIN members : members[n] # new
    BY <1>1 DEF Members
  <2>3. Once(members')
    BY <2>1, <2>2, <1>b DEF Once
  <2> QED BY <2>1, <2>3 DEF Members
<1>3. ASSUME NEW m \in Members
      PROVE  Knows(member'[m].posted) = Knows(member[m].posted) \cup {new}
             /\ member'[m].posted # <<>>
  <2>1. member'[m].posted = Append(member[m].posted, Notice(m, new, TRUE))
    BY DEF Joins, Got
  <2>2. Notice(m, new, TRUE) \in Response /\ member[m].posted \in Seq(Response)
    <3>1. m \in Nat /\ new \in Nat /\ member[m] \in ChannelMember
      BY <1>a, ChannelAssumption DEF Ids
    <3> QED BY <3>1, NoticeType DEF ChannelMember
  <2>3. \A k \in Ids, up \in BOOLEAN :
          Says(Notice(m, new, TRUE), k, up) <=> k = new /\ up = TRUE
    <3>1. \A k, b : Says(Notice(m, new, TRUE), k, b) <=> k = new /\ b = TRUE
      BY NoticeSays
    <3> QED BY <3>1
  <2>4. Append(member[m].posted, Notice(m, new, TRUE)) # <<>>
    BY <2>2, AppendNotEmpty
  <2> DEFINE x == Notice(m, new, TRUE)
  <2>5. x \in Response /\ \A k \in Ids, up \in BOOLEAN :
          Says(x, k, up) <=> k = new /\ up = TRUE
    BY <2>2, <2>3
  <2> HIDE DEF x
  <2>6. Knows(Append(member[m].posted, x)) = Knows(member[m].posted) \cup {new}
    BY <2>2, <2>5, <1>a, <1>b, KnowsMore
  <2> QED BY <2>1, <2>4, <2>6 DEF x
<1>4. Knows(member'[new].posted) = Members \cup {new} /\ member'[new].posted # <<>>
  <2> DEFINE added == BuildResponseForNewMember(new)
  <2>1. member'[new].posted = <<added>>
    BY DEF Joins, NewMember
  <2>2. \A k : (\E up \in BOOLEAN : Says(added, k, up)) <=> k \in Members \cup {new}
    BY <1>a, RosterSays
  <2> HIDE DEF added
  <2>3. Knows(<<added>>) = {k \in Ids : \E up \in BOOLEAN : Says(added, k, up)}
    <3>1. DOMAIN <<added>> = {1} /\ <<added>>[1] = added /\ ~(1 > 1)
      OBVIOUS
    <3> QED BY <3>1 DEF Knows
  <2>4. Knows(<<added>>) = Members \cup {new}
    <3>1. {k \in Ids : \E up \in BOOLEAN : Says(added, k, up)}
            = {k \in Ids : k \in Members \cup {new}}
      BY <2>2
    <3>2. {k \in Ids : k \in Members \cup {new}} = Members \cup {new}
      BY <1>a
    <3> QED BY <2>3, <3>1, <3>2
  <2>5. <<added>> # <<>>
    <3>1. Len(<<added>>) = 1 /\ Len(<<>>) = 0
      OBVIOUS
    <3> QED BY <3>1
  <2> QED BY <2>1, <2>4, <2>5
<1>5. ASSUME NEW m \in Members' PROVE Told(m)' \ {m} = Members' \ {m}
  <2>1. Told(m)' = Knows(member'[m].posted)
    BY DEF Told, Knows
  <2>2. CASE m = new
    BY <2>1, <2>2, <1>2, <1>4
  <2>3. CASE m # new
    <3>1. m \in Members /\ Knows(member[m].posted) \ {m} = Members \ {m}
      BY <1>2, <2>3, <1>b, ToldKnows DEF PresenceConsistent
    <3> QED BY <2>1, <3>1, <1>2, <1>3
  <2> QED BY <2>2, <2>3
<1> QED BY <1>2, <1>3, <1>4, <1>5 DEF PresenceInv, PresenceConsistent

(* The remaining members are told of a departure: each of them forgets it. *)
LEMMA DepartsPresence ==
  ASSUME ChannelTypeOK, PresenceInv, NEW k \in DOMAIN members, Departs(k)
  PROVE  PresenceInv'
<1> DEFINE gone == members[k]
<1>a. /\ members \in Seq(Ids) /\ member \in [Ids -> ChannelMember]
      /\ Members \subseteq Ids /\ k \in 1 .. Len(members) /\ gone \in Members
  BY ChannelAssumption, MembersAreIds DEF ChannelTypeOK, Ids, Members
<1>b. PresenceConsistent /\ Once(members)
      /\ \A m \in Members : member[m].posted # <<>>
  BY DEF PresenceInv
<1>1. members' = RemoveAt(members, k)
  BY DEF Departs
<1>2. Members' = Members \ {gone} /\ Once(members')
  <2>1. /\ Once(RemoveAt(members, k))
        /\ Elements(RemoveAt(members, k)) = Elements(members) \ {members[k]}
    BY <1>a, <1>b, RemoveOnce
  <2> QED BY <1>1, <2>1 DEF Members, Elements
<1> HIDE DEF gone
<1>3. ASSUME NEW m \in Members \ {gone}
      PROVE  Knows(member'[m].posted) = Knows(member[m].posted) \ {gone}
             /\ member'[m].posted # <<>>
  <2>1. member'[m].posted = Append(member[m].posted, Notice(m, gone, FALSE))
    BY DEF Departs, Got, gone
  <2>2. Notice(m, gone, FALSE) \in Response /\ member[m].posted \in Seq(Response)
    <3>1. m \in Nat /\ gone \in Nat /\ member[m] \in ChannelMember
      BY <1>a, ChannelAssumption DEF Ids
    <3> QED BY <3>1, NoticeType DEF ChannelMember
  <2>3. \A h \in Ids, up \in BOOLEAN :
          Says(Notice(m, gone, FALSE), h, up) <=> h = gone /\ up = FALSE
    <3>1. \A h, b : Says(Notice(m, gone, FALSE), h, b) <=> h = gone /\ b = FALSE
      BY NoticeSays
    <3> QED BY <3>1
  <2>4. Append(member[m].posted, Notice(m, gone, FALSE)) # <<>>
    BY <2>2, AppendNotEmpty
  <2> DEFINE x == Notice(m, gone, FALSE)
  <2>5. x \in Response /\ \A h \in Ids, up \in BOOLEAN :
          Says(x, h, up) <=> h = gone /\ up = FALSE
    BY <2>2, <2>3
  <2> HIDE DEF x
  <2>6. Knows(Append(member[m].posted, x)) = Knows(member[m].posted) \ {gone}
    BY <2>2, <2>5, <1>a, <1>b, KnowsMore
  <2> QED BY <2>1, <2>4, <2>6 DEF x
<1>4. ASSUME NEW m \in Members' PROVE Told(m)' \ {m} = Members' \ {m}
  <2>1. Told(m)' = Knows(member'[m].posted)
    BY DEF Told, Knows
  <2>2. m \in Members \ {gone} /\ Knows(member[m].posted) \ {m} = Members \ {m}
    BY <1>2, <1>b, ToldKnows DEF PresenceConsistent
  <2> QED BY <2>1, <2>2, <1>2, <1>3
<1> QED BY <1>2, <1>3, <1>4 DEF PresenceInv, PresenceConsistent

LEMMA PresenceStep == TypeInv /\ PresenceInv /\ [Next]_vars => PresenceInv'
<1> SUFFICES ASSUME TypeInv, PresenceInv, [Next]_vars PROVE PresenceInv'
  OBVIOUS
<1>a. /\ ChannelTypeOK /\ members \in Seq(Ids) /\ member \in [Ids -> ChannelMember]
      /\ Members \subseteq Ids
  BY ChannelAssumption, MembersAreIds DEF TypeInv, TypeOK, ChannelTypeOK, Ids
(* Steps that change no list and no knowledge.                             *)
<1>b. ASSUME members' = members,
             \A m \in Members : Knows(member'[m].posted) = Knows(member[m].posted)
                                /\ member'[m].posted # <<>>
      PROVE  PresenceInv'
  <2>1. Members' = Members /\ Once(members')
    BY <1>b DEF Members, PresenceInv, Once
  <2>2. \A m : Told(m)' = Knows(member'[m].posted)
    BY DEF Told, Knows
  <2>3. \A m \in Members : Told(m) \ {m} = Members \ {m}
    BY DEF PresenceInv, PresenceConsistent
  <2>4. \A m \in Members' : Told(m)' \ {m} = Members' \ {m}
    BY <1>b, <2>1, <2>2, <2>3, ToldKnows
  <2> QED BY <1>b, <2>1, <2>4 DEF PresenceInv, PresenceConsistent
<1>c. \A m \in Members : member[m].posted # <<>>
  BY DEF PresenceInv
<1>1. CASE Stays
  BY <1>1, <1>a, <1>b, <1>c DEF Stays, Kept
<1>2. ASSUME NEW m \in Members, Answers(m) PROVE PresenceInv'
  <2>1. \A n \in Members : member'[n].posted = member[n].posted
    BY <1>2, <1>a DEF Answers, Kept
  <2> QED BY <1>2, <2>1, <1>b, <1>c DEF Answers
<1>3. ASSUME NEW m \in Members, NEW peer \in Members,
             NEW body \in Bodies \cup {NoBody}, Forwards(m, peer, body)
      PROVE  PresenceInv'
  <2>1. Mail(m, body) \in Response /\ member[peer].posted \in Seq(Response)
    <3>1. m \in Nat /\ member[peer] \in ChannelMember
      BY <1>a, ChannelAssumption DEF Ids
    <3> QED BY <3>1, MailType DEF ChannelMember
  <2>2. member'[peer].posted = Append(member[peer].posted, Mail(m, body))
    BY <1>3 DEF Forwards, Got
  <2>3. \A n \in Members \ {peer} : member'[n].posted = member[n].posted
    BY <1>3, <1>a DEF Forwards, Kept
  <2>4. /\ Knows(Append(member[peer].posted, Mail(m, body)))
             = Knows(member[peer].posted)
        /\ Append(member[peer].posted, Mail(m, body)) # <<>>
    BY <2>1, MailSays, KnowsMore, AppendNotEmpty
  <2> QED BY <1>3, <2>2, <2>3, <2>4, <1>b, <1>c DEF Forwards
<1>4. ASSUME NEW new \in Ids, Joins(new) PROVE PresenceInv'
  BY <1>4, <1>a, JoinsPresence
<1>5. ASSUME NEW k \in DOMAIN members, Departs(k) PROVE PresenceInv'
  BY <1>5, <1>a, DepartsPresence
<1>6. CASE CloseAll
  <2>1. DOMAIN members' = {}
    <3>1. Len(members') = 0 /\ members' \in Seq(Ids)
      BY <1>6 DEF CloseAll
    <3> QED BY <3>1
  <2> QED BY <2>1 DEF PresenceInv, PresenceConsistent, Members, Once
<1> QED BY <1>1, <1>2, <1>3, <1>4, <1>5, <1>6, NextChannel DEF ChannelStep

LEMMA PresenceInit == Init => PresenceInv
<1> SUFFICES ASSUME Init PROVE PresenceInv
  OBVIOUS
<1>1. DOMAIN members = {}
  <2>1. Len(members) = 0 /\ members \in Seq(Ids)
    BY DEF Init, ChannelInit
  <2> QED BY <2>1
<1> QED BY <1>1 DEF PresenceInv, PresenceConsistent, Members, Once

(* Whoever reads its whole mailbox knows exactly the other members: every  *)
(* arrival and every departure (sign-out, timeout), in whatever order the  *)
(* loops of OnClosing and CheckForTimeout reach them, is told to everyone. *)
THEOREM PresenceCorrect == Spec => []PresenceConsistent
<1>1. PresenceInv => PresenceConsistent
  BY DEF PresenceInv
<1> QED BY <1>1, PresenceInit, TypeInit, TypeStep, PresenceStep, PTL DEF Spec
=============================================================================
