---------------------------- MODULE ServerProofs ----------------------------
(***************************************************************************)
(* Theorems about the signaling server, for every number of connections,   *)
(* members and requests, and every interleaving of clients with a round.   *)
(***************************************************************************)
EXTENDS Server, SequenceTheorems, TLAPS

-----------------------------------------------------------------------------
(* Operators keep their types.                                             *)

(* RemoveAt yields a sequence over the same set.                           *)
LEMMA RemoveAtType ==
  ASSUME NEW S, NEW s \in Seq(S), NEW n \in 1 .. Len(s)
  PROVE  /\ RemoveAt(s, n) \in Seq(S)
         /\ Len(RemoveAt(s, n)) = Len(s) - 1
         /\ \A k \in 1 .. Len(s) - 1 :
              RemoveAt(s, n)[k] = IF k < n THEN s[k] ELSE s[k + 1]
<1> DEFINE a == SubSeq(s, 1, n - 1)
           b == SubSeq(s, n + 1, Len(s))
<1>1. /\ a \in Seq(S)
      /\ Len(a) = n - 1
      /\ \A k \in 1 .. n - 1 : a[k] = s[k]
  <2>1. \A k \in 1 .. n - 1 : s[k] \in S
    OBVIOUS
  <2> QED BY <2>1, SubSeqProperties
<1>2. /\ b \in Seq(S)
      /\ Len(b) = Len(s) - n
      /\ \A k \in 1 .. Len(s) - n : b[k] = s[n + k]
  <2>1. \A k \in n + 1 .. Len(s) : s[k] \in S
    OBVIOUS
  <2>2. /\ b \in Seq(S)
        /\ Len(b) = IF n + 1 <= Len(s) THEN Len(s) - (n + 1) + 1 ELSE 0
        /\ \A k \in 1 .. Len(s) - (n + 1) + 1 : b[k] = s[n + 1 + k - 1]
    BY <2>1, SubSeqProperties
  <2> QED BY <2>2
<1>3. /\ a \o b \in Seq(S)
      /\ Len(a \o b) = Len(a) + Len(b)
      /\ \A k \in 1 .. Len(a) + Len(b) :
           (a \o b)[k] = IF k <= Len(a) THEN a[k] ELSE b[k - Len(a)]
  BY <1>1, <1>2, ConcatProperties
<1>4. RemoveAt(s, n) = a \o b
  BY DEF RemoveAt
<1> HIDE DEF a, b
<1>5. RemoveAt(s, n) \in Seq(S) /\ Len(RemoveAt(s, n)) = Len(s) - 1
  <2>1. Len(a) + Len(b) = Len(s) - 1
    BY <1>1, <1>2
  <2> QED BY <2>1, <1>3, <1>4
<1>6. ASSUME NEW k \in 1 .. Len(s) - 1
      PROVE  RemoveAt(s, n)[k] = IF k < n THEN s[k] ELSE s[k + 1]
  <2>1. CASE k < n
    BY <2>1, <1>1, <1>2, <1>3, <1>4
  <2>2. CASE ~(k < n)
    <3>1. /\ k \in 1 .. Len(a) + Len(b)
          /\ ~(k <= Len(a))
          /\ k - Len(a) = k - n + 1
          /\ k - n + 1 \in 1 .. Len(s) - n
      BY <2>2, <1>1, <1>2
    <3>2. (a \o b)[k] = b[k - n + 1]
      BY <3>1, <1>3
    <3>3. b[k - n + 1] = s[n + (k - n + 1)]
      BY <3>1, <1>2
    <3>4. n + (k - n + 1) = k + 1
      BY <2>2
    <3> QED BY <2>2, <3>2, <3>3, <3>4, <1>4
  <2> QED BY <2>1, <2>2
<1> QED BY <1>5, <1>6

(* The members are ids that exist.                                         *)
LEMMA MembersAreIds ==
  ChannelTypeOK => /\ Members \subseteq 1 .. lastId
                   /\ Members \subseteq Ids
BY ChannelAssumption DEF ChannelTypeOK, Members, Ids

LEMMA QueueResponseType ==
  ASSUME NEW rec \in ChannelMember, NEW x \in Response
  PROVE  QueueResponse(rec, x) \in ChannelMember
BY ChannelAssumption DEF ChannelMember, QueueResponse

LEMMA SetWaitingSocketType ==
  ASSUME NEW rec \in ChannelMember, NEW c \in Conns
  PROVE  SetWaitingSocket(rec, c) \in ChannelMember
BY ChannelAssumption DEF ChannelMember, SetWaitingSocket

LEMMA OnClosingType ==
  ASSUME NEW rec \in ChannelMember, NEW c
  PROVE  OnClosing(rec, c) \in ChannelMember
BY ChannelAssumption DEF ChannelMember, OnClosing

LEMMA NoMemberType == NoMember \in ChannelMember
BY ChannelAssumption DEF ChannelMember, NoMember

(* On a connection that carries bytes, they are those of a request.        *)
RequestsWritten == \A c \in Conns : wrote[c] > 0 => req[c] \in Requests

(* The responses addressed to some members.                                *)
Items(item) ==
  /\ DOMAIN item \subseteq Ids
  /\ \A m \in DOMAIN item : item[m] \in Response

LEMMA PostedType ==
  ASSUME NEW rec \in [Ids -> ChannelMember], NEW item, Items(item)
  PROVE  Posted(rec, item) \in [Ids -> ChannelMember]
BY QueueResponseType DEF Posted, Items

LEMMA SentToType ==
  ASSUME SocketTypeOK, NEW item, Items(item)
  PROVE  SentTo(item) \in [Conns -> Seq(Response)]
BY DEF SentTo, Items, SocketTypeOK

LEMMA SendType ==
  ASSUME NEW sent \in [Conns -> Seq(Response)], NEW c \in Conns,
         NEW x \in Response
  PROVE  Send(sent, c, x) \in [Conns -> Seq(Response)]
BY DEF Send

LEMMA ReplyType ==
  ASSUME NEW status \in Statuses, NEW text \in Texts
  PROVE  Reply(status, text) \in Response
BY DEF Reply, Response

LEMMA NoticeType ==
  ASSUME NEW m \in Nat, NEW other \in Nat, NEW up \in BOOLEAN
  PROVE  Notice(m, other, up) \in Response
BY DEF Notice, Response, GetEntry, Entry, Statuses, Texts

LEMMA MailType ==
  ASSUME NEW m \in Nat, NEW body \in Bodies \cup {NoBody}
  PROVE  Mail(m, body) \in Response
<1> DEFINE text == IF body = NoBody THEN "" ELSE body
<1>1. text \in Texts
  BY DEF Texts
<1> HIDE DEF text
<1>2. [status |-> "200 OK", pragma |-> m, entries |-> <<>>, text |-> text]
        \in Response
  BY <1>1 DEF Response, Statuses
<1> QED BY <1>2 DEF Mail, text

LEMMA BroadcastType ==
  ASSUME ChannelTypeOK, NEW changed \in Nat, NEW up \in BOOLEAN
  PROVE  Items(BroadcastChangedState(changed, up))
BY MembersAreIds, NoticeType, ChannelAssumption
   DEF Items, BroadcastChangedState, Ids

LEMMA RosterType ==
  ASSUME ChannelTypeOK, NEW new \in Nat
  PROVE  BuildResponseForNewMember(new) \in Response
<1>1. \A k \in DOMAIN members :
        GetEntry(members[k], member[members[k]].connected) \in Entry
  <2> SUFFICES ASSUME NEW k \in DOMAIN members
               PROVE  GetEntry(members[k], member[members[k]].connected) \in Entry
    OBVIOUS
  <2>1. members[k] \in Nat /\ members[k] \in Ids
    BY ChannelAssumption DEF ChannelTypeOK, Ids
  <2>2. member[members[k]].connected \in BOOLEAN
    BY <2>1 DEF ChannelTypeOK, ChannelMember
  <2> QED BY <2>1, <2>2 DEF GetEntry, Entry
<1>2. [k \in DOMAIN members |->
         GetEntry(members[k], member[members[k]].connected)] \in Seq(Entry)
  BY <1>1 DEF ChannelTypeOK
<1>3. <<GetEntry(new, TRUE)>> \in Seq(Entry)
  BY DEF GetEntry, Entry
<1> DEFINE others == [k \in DOMAIN members |->
                        GetEntry(members[k], member[members[k]].connected)]
<1>4. others \in Seq(Entry)
  BY <1>2
<1> HIDE DEF others
<1>5. <<GetEntry(new, TRUE)>> \o others \in Seq(Entry)
  BY <1>3, <1>4, ConcatProperties
<1> QED BY <1>5 DEF BuildResponseForNewMember, Response, Statuses, Texts, others

(* What a closing step leaves of the sockets.                              *)
LEMMA CloseSocketsType ==
  ASSUME SocketTypeOK, RequestsWritten, NEW S \in SUBSET Conns,
         NEW reads \in [Conns -> Nat],
         NEW sent \in [Conns -> Seq(Response)],
         CloseSockets(S, reads, sent)
  PROVE  SocketTypeOK' /\ RequestsWritten'
BY DEF CloseSockets, SocketTypeOK, RequestsWritten

LEMMA AddMemberType ==
  ASSUME SocketTypeOK, ChannelTypeOK, NEW c \in Conns, AddMember(c)
  PROVE  ChannelTypeOK' /\ out' \in [Conns -> Seq(Response)]
<1> DEFINE new == lastId + 1
           item == BroadcastChangedState(new, TRUE)
           added == BuildResponseForNewMember(new)
<1>1. new \in Nat /\ new \in Ids /\ new <= MaxId
  BY ChannelAssumption DEF ChannelTypeOK, AddMember, Ids
<1>2. Items(item)
  BY <1>1, BroadcastType
<1>3. added \in Response
  BY <1>1, RosterType
<1>4. NewMember(added) \in ChannelMember
  <2> HIDE DEF added
  <2> QED BY <1>3, ChannelAssumption DEF NewMember, ChannelMember
<1>5. Posted(member, item) \in [Ids -> ChannelMember]
  BY <1>2, PostedType DEF ChannelTypeOK
<1>6. member' = [Posted(member, item) EXCEPT ![new] = NewMember(added)]
  BY DEF AddMember
<1>7. member' \in [Ids -> ChannelMember]
  <2> HIDE DEF new, item, added
  <2> QED BY <1>1, <1>4, <1>5, <1>6
<1>8. lastId' = new /\ members' = Append(members, new)
  BY DEF AddMember
<1>9. lastId' \in 0 .. MaxId /\ members' \in Seq(1 .. lastId')
  <2>1. members \in Seq(1 .. new) /\ new \in 1 .. new
    BY ChannelAssumption DEF ChannelTypeOK
  <2> QED BY <2>1, <1>1, <1>8
<1>10. out' \in [Conns -> Seq(Response)]
  <2>1. SentTo(item) \in [Conns -> Seq(Response)]
    BY <1>2, SentToType
  <2>2. out' = Send(SentTo(item), c, added)
    BY DEF AddMember
  <2> HIDE DEF item, added
  <2> QED BY <2>1, <2>2, <1>3, SendType
<1> QED BY <1>7, <1>9, <1>10 DEF ChannelTypeOK

LEMMA EraseMemberType ==
  ASSUME SocketTypeOK, ChannelTypeOK, NEW k \in DOMAIN members, EraseMember(k)
  PROVE  ChannelTypeOK' /\ out' \in [Conns -> Seq(Response)]
<1> DEFINE gone == members[k]
           item == BroadcastChangedState(gone, FALSE)
<1>1. gone \in Ids /\ gone \in Nat /\ k \in 1 .. Len(members)
  BY ChannelAssumption DEF ChannelTypeOK, Ids
<1>2. Items(item)
  BY <1>1, BroadcastType
<1>3. Posted(member, item) \in [Ids -> ChannelMember]
  BY <1>2, PostedType DEF ChannelTypeOK
<1>4. member' = [Posted(member, item) EXCEPT ![gone] = NoMember]
  BY DEF EraseMember
<1>5. member' \in [Ids -> ChannelMember]
  <2> HIDE DEF gone, item
  <2> QED BY <1>1, <1>3, <1>4, NoMemberType
<1>6. lastId' \in 0 .. MaxId /\ members' \in Seq(1 .. lastId')
  BY <1>1, RemoveAtType DEF EraseMember, ChannelTypeOK
<1>7. out' \in [Conns -> Seq(Response)]
  BY <1>2, SentToType DEF EraseMember
<1> QED BY <1>5, <1>6, <1>7 DEF ChannelTypeOK

-----------------------------------------------------------------------------
(* Type correctness.                                                       *)

TypeInv == TypeOK /\ RequestsWritten

LEMMA TypeInit == Init => TypeInv
<1> SUFFICES ASSUME Init PROVE TypeInv
  OBVIOUS
<1>1. SocketTypeOK /\ RequestsWritten
  BY DEF Init, SocketInit, SocketTypeOK, RequestsWritten
<1>2. ChannelTypeOK
  BY ChannelAssumption, NoMemberType DEF Init, ChannelInit, ChannelTypeOK
<1>3. sockets \in Seq(Conns) /\ j \in Nat \ {0}
  BY DEF Init
<1> QED BY <1>1, <1>2, <1>3 DEF Init, TypeInv, TypeOK

(* A request on which a handler acts is one of Requests.                   *)
LEMMA RequestedType ==
  ASSUME TypeInv, NEW c \in Conns, Requested(c)
  PROVE  /\ req[c] \in Requests
         /\ req[c].body \in Bodies \cup {NoBody}
         /\ req[c].peer \in Nat /\ req[c].to \in Nat
<1>1. wrote[c] > 0
  <2>1. wrote[c] >= 2
    BY DEF Requested, RequestComplete, Whole
  <2>2. wrote[c] \in Nat
    BY DEF TypeInv, TypeOK, SocketTypeOK
  <2> QED BY <2>1, <2>2
<1>2. req[c] \in Requests
  BY <1>1 DEF TypeInv, RequestsWritten
<1> QED BY <1>2, RequestsAssumption DEF Request

LEMMA LookupType ==
  ASSUME ChannelTypeOK, NEW r
  PROVE  /\ Lookup(r) # 0 => Lookup(r) \in Members /\ Lookup(r) \in Ids
         /\ IsTargetedRequest(r) # 0 =>
              IsTargetedRequest(r) \in Members /\ IsTargetedRequest(r) \in Ids
BY MembersAreIds DEF Lookup, IsTargetedRequest

LEMMA LookedUpType ==
  ASSUME ChannelTypeOK, NEW m \in Ids, NEW c \in Conns
  PROVE  LookedUp(m, c) \in [Ids -> ChannelMember]
<1>1. member \in [Ids -> ChannelMember] /\ member[m] \in ChannelMember
  BY DEF ChannelTypeOK
<1>2. SetWaitingSocket(member[m], c) \in ChannelMember
  BY <1>1, SetWaitingSocketType
<1>3. SetDisconnected(member[m]) \in ChannelMember
  BY <1>1 DEF SetDisconnected, ChannelMember
<1> QED BY <1>1, <1>2, <1>3 DEF LookedUp

(* What the rest of a handler leaves.                                      *)
LEMMA ServedType ==
  ASSUME TypeInv, NEW c \in Conns, Served(c), ChannelTypeOK',
         out' \in [Conns -> Seq(Response)],
         listening' \in BOOLEAN, quit' \in BOOLEAN
  PROVE  TypeInv'
BY DEF Served, Recv, TypeInv, TypeOK, SocketTypeOK, RequestsWritten

LEMMA HandleType ==
  ASSUME TypeInv, NEW c \in Conns, Handle(c)
  PROVE  TypeInv'
<1> USE DEF TypeInv, TypeOK
<1> SUFFICES ASSUME Requested(c) PROVE TypeInv'
  BY DEF Handle, HandleWait, HandleSignIn, HandleOrphan, HandleForward,
         HandleUntargeted, HandleBrowserRequest, HandleQuit
<1> DEFINE m == Lookup(req[c])
<1>a. /\ SocketTypeOK /\ ChannelTypeOK /\ req[c] \in Requests
      /\ out \in [Conns -> Seq(Response)]
  BY RequestedType DEF SocketTypeOK
<1>b. \A status \in Statuses, text \in Texts :
        Send(out, c, Reply(status, text)) \in [Conns -> Seq(Response)]
  BY <1>a, ReplyType, SendType
<1>c. /\ {"200 OK", "200 Added", "500 Error", "500 Sorry"} \subseteq Statuses
      /\ {"", "Server shutting down", "Peer most likely gone.", "Quitting...",
          "Sorry, not yet implemented"} \subseteq Texts
  BY DEF Statuses, Texts
<1>1. CASE HandleWait(c)
  <2>1. m \in Ids /\ member[m] \in ChannelMember
    BY <1>1, <1>a, LookupType DEF HandleWait, ChannelTypeOK
  <2>2. out' \in [Conns -> Seq(Response)]
    <3>1. CASE member[m].queue # <<>>
      <4>1. Head(member[m].queue) \in Response
        BY <2>1, <3>1 DEF ChannelMember
      <4> QED BY <1>1, <3>1, <4>1, <1>a, SendType DEF HandleWait
    <3>2. CASE member[m].queue = <<>>
      BY <1>1, <3>2, <1>a DEF HandleWait
    <3> QED BY <3>1, <3>2
  <2>3. ChannelTypeOK'
    <3>1. member' = LookedUp(m, c) /\ members' = members /\ lastId' = lastId
      BY <1>1 DEF HandleWait
    <3> QED BY <3>1, <2>1, <1>a, LookedUpType DEF ChannelTypeOK
  <2> QED BY <1>1, <2>2, <2>3, ServedType DEF HandleWait
<1>2. CASE HandleSignIn(c)
  <2>1. ChannelTypeOK' /\ out' \in [Conns -> Seq(Response)]
    BY <1>2, <1>a, AddMemberType DEF HandleSignIn
  <2> QED BY <1>2, <2>1, ServedType DEF HandleSignIn
<1>3. CASE HandleOrphan(c)
  <2>1. out' \in [Conns -> Seq(Response)]
    BY <1>3, <1>b, <1>c DEF HandleOrphan
  <2>2. ChannelTypeOK'
    BY <1>3, <1>a DEF HandleOrphan, channelVars, ChannelTypeOK
  <2> QED BY <1>3, <2>1, <2>2, ServedType DEF HandleOrphan
<1>4. CASE HandleForward(c)
  <2> DEFINE peer == IsTargetedRequest(req[c])
             mail == Mail(m, req[c].body)
             item == [p \in {peer} |-> mail]
  <2>1. m \in Ids /\ m \in Nat /\ peer \in Ids
    <3>1. m # 0 /\ peer # 0
      BY <1>4 DEF HandleForward
    <3>2. m \in Ids /\ peer \in Ids
      BY <3>1, <1>a, LookupType
    <3> QED BY <3>2, ChannelAssumption DEF Ids
  <2>2. mail \in Response
    BY <2>1, MailType, RequestedType
  <2>3. Items(item)
    <3> HIDE DEF mail
    <3> QED BY <2>1, <2>2 DEF Items
  <2>4. LookedUp(m, c) \in [Ids -> ChannelMember]
    BY <2>1, <1>a, LookedUpType
  <2>5. members' = members /\ lastId' = lastId
    BY <1>4 DEF HandleForward
  <2>6. CASE peer = m
    <3>1. member' = LookedUp(m, c) /\ out' = Send(out, c, mail)
      BY <1>4, <2>6 DEF HandleForward
    <3>2. out' \in [Conns -> Seq(Response)]
      BY <3>1, <2>2, <1>a, SendType
    <3>3. ChannelTypeOK'
      BY <3>1, <2>4, <2>5, <1>a DEF ChannelTypeOK
    <3> QED BY <1>4, <3>2, <3>3, ServedType DEF HandleForward
  <2>7. CASE peer # m
    <3>1. /\ member' = Posted(LookedUp(m, c), item)
          /\ out' = Send(SentTo(item), c, Reply("200 OK", ""))
      BY <1>4, <2>7 DEF HandleForward
    <3>2. out' \in [Conns -> Seq(Response)]
      <4>1. SentTo(item) \in [Conns -> Seq(Response)]
        BY <2>3, <1>a, SentToType
      <4>2. Reply("200 OK", "") \in Response
        BY <1>c, ReplyType
      <4> QED BY <3>1, <4>1, <4>2, SendType
    <3>3. ChannelTypeOK'
      <4>1. Posted(LookedUp(m, c), item) \in [Ids -> ChannelMember]
        BY <2>3, <2>4, PostedType
      <4> QED BY <3>1, <4>1, <2>5, <1>a DEF ChannelTypeOK
    <3> QED BY <1>4, <3>2, <3>3, ServedType DEF HandleForward
  <2> QED BY <2>6, <2>7
<1>5. CASE HandleUntargeted(c)
  <2>1. m \in Ids
    BY <1>5, <1>a, LookupType DEF HandleUntargeted
  <2>2. out' \in [Conns -> Seq(Response)]
    BY <1>5, <1>b, <1>c DEF HandleUntargeted
  <2>3. ChannelTypeOK'
    <3>1. member' = LookedUp(m, c) /\ members' = members /\ lastId' = lastId
      BY <1>5 DEF HandleUntargeted
    <3> QED BY <3>1, <2>1, <1>a, LookedUpType DEF ChannelTypeOK
  <2> QED BY <1>5, <2>2, <2>3, ServedType DEF HandleUntargeted
<1>6. CASE HandleBrowserRequest(c)
  <2>1. out' \in [Conns -> Seq(Response)]
    BY <1>6, <1>b, <1>c DEF HandleBrowserRequest
  <2>2. ChannelTypeOK'
    BY <1>6, <1>a DEF HandleBrowserRequest, channelVars, ChannelTypeOK
  <2> QED BY <1>6, <2>1, <2>2, ServedType DEF HandleBrowserRequest
<1>7. CASE HandleQuit(c)
  <2> DEFINE sent == Send(SentTo(ShuttingDown), c, Reply("200 OK", "Quitting..."))
             reads == [read EXCEPT ![c] = wrote[c]]
  <2>1. sent \in [Conns -> Seq(Response)]
    <3>1. Reply("200 OK", "Server shutting down") \in Response
          /\ Reply("200 OK", "Quitting...") \in Response
      BY <1>c, ReplyType
    <3>2. Items(ShuttingDown)
      BY <3>1, <1>a, MembersAreIds DEF Items, ShuttingDown
    <3>3. SentTo(ShuttingDown) \in [Conns -> Seq(Response)]
      BY <3>2, <1>a, SentToType
    <3> QED BY <3>1, <3>3, SendType
  <2>2. reads \in [Conns -> Nat]
    BY DEF SocketTypeOK
  <2>3. SocketTypeOK' /\ RequestsWritten'
    <3>1. CloseSockets(backlog, reads, sent)
      BY <1>7 DEF HandleQuit
    <3>2. backlog \in SUBSET Conns
      BY DEF SocketTypeOK
    <3> HIDE DEF sent, reads
    <3> QED BY <2>1, <2>2, <3>1, <3>2, <1>a, CloseSocketsType
  <2>4. ChannelTypeOK'
    <3>1. /\ members' = <<>> /\ lastId' = lastId
          /\ member' = [n \in Ids |-> NoMember]
      BY <1>7 DEF HandleQuit, CloseAll
    <3> QED BY <3>1, <1>a, NoMemberType DEF ChannelTypeOK
  <2> QED BY <1>7, <2>3, <2>4 DEF HandleQuit
<1> QED BY <1>1, <1>2, <1>3, <1>4, <1>5, <1>6, <1>7 DEF Handle

LEMMA TypeStep == TypeInv /\ [Next]_vars => TypeInv'
<1> SUFFICES ASSUME TypeInv, [Next]_vars PROVE TypeInv'
  OBVIOUS
<1> USE DEF TypeInv, TypeOK
<1>a. SocketTypeOK /\ ChannelTypeOK /\ RequestsWritten
  OBVIOUS
<1>1. ASSUME NEW c \in Conns, ClientConnects(c) PROVE TypeInv'
  BY <1>1 DEF ClientConnects, Connect, channelVars, loopVars, ChannelTypeOK,
              SocketTypeOK, RequestsWritten
<1>2. ASSUME NEW c \in Conns, ClientWrites(c) PROVE TypeInv'
  <2>0. ChannelTypeOK'
    BY <1>2, <1>a DEF ClientWrites, channelVars, ChannelTypeOK
  <2>1. ASSUME NEW r \in Requests, NEW n \in Levels, Write(c, r, n),
               mailed' = IF r.method = "POST" THEN mailed \cup {r} ELSE mailed
        PROVE  TypeInv'
    <3>1. n \in Nat
      BY ConnsAssumption DEF Part, Whole
    <3> QED BY <1>2, <2>0, <2>1, <3>1
            DEF ClientWrites, Write, loopVars, SocketTypeOK, RequestsWritten
  <2>2. ASSUME NEW n \in Levels, WriteMore(c, n), UNCHANGED mailed
        PROVE  TypeInv'
    <3>1. n \in Nat
      BY ConnsAssumption DEF Part, Whole
    <3> QED BY <1>2, <2>0, <2>2, <3>1
            DEF ClientWrites, WriteMore, loopVars, SocketTypeOK, RequestsWritten
  <2> QED BY <1>2, <2>1, <2>2 DEF ClientWrites
<1>3. ASSUME NEW c \in Conns, ClientHangsUp(c) PROVE TypeInv'
  BY <1>3 DEF ClientHangsUp, Hangup, channelVars, loopVars, ChannelTypeOK,
              SocketTypeOK, RequestsWritten
<1>4. CASE Tick
  <2>1. \A m \in Ids : member[m].idle <= Timeout =>
          [member[m] EXCEPT !.idle = @ + 1] \in ChannelMember
    <3> SUFFICES ASSUME NEW m \in Ids, member[m].idle <= Timeout
                 PROVE  [member[m] EXCEPT !.idle = @ + 1] \in ChannelMember
      OBVIOUS
    <3> DEFINE rec == member[m]
    <3>1. rec \in ChannelMember
      BY <1>a DEF ChannelTypeOK
    <3>2. rec.idle + 1 \in 0 .. Timeout + 1
      BY <3>1, ChannelAssumption DEF ChannelMember
    <3> HIDE DEF rec
    <3>3. [rec EXCEPT !.idle = rec.idle + 1] \in ChannelMember
      BY <3>1, <3>2 DEF ChannelMember
    <3> QED BY <3>3 DEF rec
  <2>2. member' \in [Ids -> ChannelMember]
    BY <1>4, <2>1 DEF Tick, ChannelTypeOK
  <2> QED BY <1>4, <2>2, <1>a
          DEF Tick, socketVars, loopVars, SocketTypeOK, ChannelTypeOK, RequestsWritten
<1>5. CASE Select
  BY <1>5, <1>a DEF Select, Held, socketVars, channelVars, SocketTypeOK,
                    ChannelTypeOK, RequestsWritten
<1>6. CASE SelectFails
  BY <1>6, <1>a DEF SelectFails, socketVars, channelVars, SocketTypeOK,
                    ChannelTypeOK, RequestsWritten
<1>7. ASSUME NEW c \in Conns, BeginClosing(c) PROVE TypeInv'
  BY <1>7, <1>a DEF BeginClosing, socketVars, channelVars, SocketTypeOK,
                    ChannelTypeOK, RequestsWritten
<1>8. ASSUME NEW c \in Conns, ReadOn(c) PROVE TypeInv'
  <2>1. ChannelTypeOK' /\ out' \in [Conns -> Seq(Response)]
    BY <1>8, <1>a DEF ReadOn, channelVars, ChannelTypeOK, SocketTypeOK
  <2> QED BY <1>8, <2>1, ServedType DEF ReadOn
<1>9. ASSUME NEW c \in Conns, Handle(c) PROVE TypeInv'
  BY <1>9, HandleType
<1>10. ASSUME NEW c \in Conns, NEW k \in DOMAIN members, CloseFor(c, k)
       PROVE  TypeInv'
  <2>1. ChannelTypeOK' /\ out' \in [Conns -> Seq(Response)]
    <3>1. CASE member[members[k]].connected
      <4>1. members[k] \in Ids
        BY ChannelAssumption DEF ChannelTypeOK, Ids
      <4>2. OnClosing(member[members[k]], c) \in ChannelMember
        BY <4>1, OnClosingType DEF ChannelTypeOK
      <4> QED BY <1>10, <3>1, <4>1, <4>2, <1>a
              DEF CloseFor, ChannelTypeOK, SocketTypeOK
    <3>2. CASE ~member[members[k]].connected
      BY <1>10, <3>2, <1>a, EraseMemberType DEF CloseFor
    <3> QED BY <3>1, <3>2
  <2>2. k \in Nat /\ j' = k + 1
    BY <1>10 DEF CloseFor, ChannelTypeOK
  <2>3. SocketTypeOK' /\ RequestsWritten'
    BY <1>10, <2>1, <1>a DEF CloseFor, SocketTypeOK, RequestsWritten
  <2>4. UNCHANGED <<pc, sockets, ready, listening, quit, mailed>>
    BY <1>10 DEF CloseFor
  <2>5. j' \in Nat \ {0}
    BY <2>2
  <2> QED BY <2>1, <2>3, <2>4, <2>5
<1>11. ASSUME NEW c \in Conns, NEW n \in DOMAIN sockets, DeleteSocket(c, n)
       PROVE  TypeInv'
  <2>1. SocketTypeOK' /\ RequestsWritten'
    <3>1. CloseSockets({c}, read, out)
      BY <1>11 DEF DeleteSocket
    <3> QED BY <3>1, <1>a, CloseSocketsType DEF SocketTypeOK
  <2>2. ChannelTypeOK'
    BY <1>11, <1>a DEF DeleteSocket, channelVars, ChannelTypeOK
  <2>3. sockets' \in Seq(Conns)
    BY <1>11, RemoveAtType DEF DeleteSocket
  <2> QED BY <1>11, <2>1, <2>2, <2>3 DEF DeleteSocket
<1>12. CASE EndServing
  BY <1>12, <1>a DEF EndServing, socketVars, channelVars, SocketTypeOK,
                     ChannelTypeOK, RequestsWritten
<1>13. ASSUME NEW k \in DOMAIN members, CheckForTimeout(k) PROVE TypeInv'
  <2>1. ChannelTypeOK' /\ out' \in [Conns -> Seq(Response)]
    BY <1>13, <1>a, EraseMemberType DEF CheckForTimeout
  <2>2. k \in Nat /\ j' = k + 1
    BY <1>13 DEF CheckForTimeout, ChannelTypeOK
  <2> QED BY <1>13, <2>1, <2>2 DEF CheckForTimeout, SocketTypeOK, RequestsWritten
<1>14. CASE EndTimeouts
  BY <1>14, <1>a DEF EndTimeouts, socketVars, channelVars, SocketTypeOK,
                     ChannelTypeOK, RequestsWritten
<1>15. ASSUME NEW c \in Conns, Accept(c) PROVE TypeInv'
  <2>1. ChannelTypeOK'
    BY <1>15, <1>a DEF Accept, channelVars, ChannelTypeOK
  <2>2. SocketTypeOK' /\ RequestsWritten' /\ sockets' \in Seq(Conns)
    <3>1. CASE Len(sockets) >= MaxConnections
      <4>1. CloseSockets({c}, read, out) /\ sockets' = sockets
        BY <1>15, <3>1 DEF Accept
      <4> QED BY <4>1, <1>a, CloseSocketsType DEF SocketTypeOK
    <3>2. CASE ~(Len(sockets) >= MaxConnections)
      <4>1. /\ sockets' = Append(sockets, c) /\ backlog' = backlog \ {c}
            /\ UNCHANGED <<remote, req, wrote, read, out>>
        BY <1>15, <3>2 DEF Accept
      <4>2. sockets' \in Seq(Conns)
        BY <4>1
      <4> QED BY <4>1, <4>2, <1>a DEF SocketTypeOK, RequestsWritten
    <3> QED BY <3>1, <3>2
  <2> QED BY <1>15, <2>1, <2>2 DEF Accept, NextRound
<1>16. CASE AcceptNothing
  BY <1>16, <1>a DEF AcceptNothing, NextRound, socketVars, channelVars,
                     SocketTypeOK, ChannelTypeOK, RequestsWritten
<1>17. CASE AcceptsNull
  BY <1>17, <1>a DEF AcceptsNull, NextRound, socketVars, channelVars,
                     SocketTypeOK, ChannelTypeOK, RequestsWritten
<1>18. CASE Leave
  <2>1. SocketTypeOK' /\ RequestsWritten'
    <3>1. CloseSockets(Conns, read, out)
      BY <1>18 DEF Leave
    <3> QED BY <3>1, <1>a, CloseSocketsType DEF SocketTypeOK
  <2>2. ChannelTypeOK'
    <3>1. /\ members' = <<>> /\ lastId' = lastId
          /\ member' = [n \in Ids |-> NoMember]
      BY <1>18 DEF Leave, CloseAll
    <3> QED BY <3>1, <1>a, NoMemberType DEF ChannelTypeOK
  <2>3. /\ sockets' \in Seq(Conns) /\ pc' = "halted" /\ ready' = {}
        /\ listening' = FALSE /\ j' = j /\ quit' = quit /\ mailed' = mailed
    BY <1>18 DEF Leave
  <2> QED BY <2>1, <2>2, <2>3
<1>19. CASE UNCHANGED vars
  BY <1>19, <1>a DEF vars, socketVars, channelVars, loopVars, SocketTypeOK,
                     ChannelTypeOK, RequestsWritten
<1>20. CASE ServerStep
  BY <1>20, <1>5, <1>6, <1>7, <1>8, <1>9, <1>10, <1>11, <1>12, <1>13, <1>14,
     <1>15, <1>16, <1>17, <1>18 DEF ServerStep, Serve, Close
<1>21. CASE Environment
  BY <1>21, <1>1, <1>2, <1>3, <1>4 DEF Environment
<1> QED BY <1>19, <1>20, <1>21 DEF Next, Stopped

(* The state is always well typed: no handler, erasing loop or failing     *)
(* system call leaves a mailbox, an iterator or a socket ill-formed.       *)
THEOREM TypeCorrect == Spec => []TypeOK
<1>1. TypeInv => TypeOK
  BY DEF TypeInv
<1> QED BY <1>1, TypeInit, TypeStep, PTL DEF Spec

-----------------------------------------------------------------------------
(* Mailboxes.  The queue is drained while a poll is parked, and what has   *)
(* been handed out, followed by the queue, is what was posted.  The two    *)
(* facts need each other: a response sent on a parked poll overtakes       *)
(* nothing only because nothing is queued.                                 *)

Orderly(rec) ==
  /\ rec.waiting # NoConn => rec.queue = <<>>
  /\ rec.posted = rec.handed \o rec.queue

MailboxInv == \A m \in Ids : Orderly(member[m])

LEMMA AppendConcat ==
  ASSUME NEW S, NEW s \in Seq(S), NEW t \in Seq(S), NEW x \in S
  PROVE  /\ Append(s \o t, x) = s \o Append(t, x)
         /\ t = <<>> => s \o t = s
         /\ t # <<>> => s \o t = Append(s, Head(t)) \o Tail(t)
<1>1. t = <<>> => s \o t = s
  BY ConcatEmptySeq
<1>2. Append(s \o t, x) = s \o Append(t, x)
  <2>1. s \o t \in Seq(S) /\ <<x>> \in Seq(S)
    BY ConcatProperties
  <2>2. (s \o t) \o <<x>> = s \o (t \o <<x>>)
    BY <2>1, ConcatAssociative
  <2> QED BY <2>1, <2>2, AppendIsConcat
<1>3. ASSUME t # <<>> PROVE s \o t = Append(s, Head(t)) \o Tail(t)
  <2>1. Head(t) \in S /\ Tail(t) \in Seq(S) /\ <<Head(t)>> \in Seq(S)
    BY <1>3
  <2>2. t = <<Head(t)>> \o Tail(t)
    BY <1>3, HeadTailAppend
  <2>3. s \o (<<Head(t)>> \o Tail(t)) = (s \o <<Head(t)>>) \o Tail(t)
    BY <2>1, ConcatAssociative
  <2>4. s \o <<Head(t)>> = Append(s, Head(t))
    BY <2>1, AppendIsConcat
  <2> QED BY <2>2, <2>3, <2>4
<1> QED BY <1>1, <1>2, <1>3

LEMMA QueueResponseOrderly ==
  ASSUME NEW rec \in ChannelMember, Orderly(rec), NEW x \in Response
  PROVE  Orderly(QueueResponse(rec, x)) /\ QueueResponse(rec, x).waiting = NoConn
<1>1. /\ rec.queue \in Seq(Response) /\ rec.handed \in Seq(Response)
      /\ rec.posted = rec.handed \o rec.queue
  BY DEF ChannelMember, Orderly
<1>2. Append(rec.handed \o rec.queue, x) = rec.handed \o Append(rec.queue, x)
  <2>1. \A h, q \in Seq(Response) : Append(h \o q, x) = h \o Append(q, x)
    BY AppendConcat
  <2> QED BY <1>1, <2>1
<1>3. CASE rec.waiting # NoConn
  <2>1. rec.queue = <<>>
    BY <1>3 DEF Orderly
  <2>2. rec.posted = rec.handed
    BY <2>1, <1>1, ConcatEmptySeq
  <2>3. Append(rec.handed, x) = Append(rec.handed, x) \o <<>>
    BY <1>1, ConcatEmptySeq
  <2> QED BY <1>3, <2>1, <2>2, <2>3 DEF QueueResponse, Orderly
<1>4. CASE rec.waiting = NoConn
  BY <1>4, <1>1, <1>2 DEF QueueResponse, Orderly
<1> QED BY <1>3, <1>4

LEMMA SetWaitingSocketOrderly ==
  ASSUME NEW rec \in ChannelMember, Orderly(rec), NEW c \in Conns
  PROVE  Orderly(SetWaitingSocket(rec, c))
<1>1. /\ rec.queue \in Seq(Response) /\ rec.handed \in Seq(Response)
      /\ rec.posted = rec.handed \o rec.queue
  BY DEF ChannelMember, Orderly
<1>2. CASE rec.queue # <<>>
  <2>1. rec.handed \o rec.queue
          = Append(rec.handed, Head(rec.queue)) \o Tail(rec.queue)
    <3>1. Head(rec.queue) \in Response
      BY <1>1, <1>2
    <3> QED BY <1>1, <1>2, <3>1, AppendConcat
  <2>2. rec.waiting = NoConn
    BY <1>2 DEF Orderly
  <2> QED BY <1>1, <1>2, <2>1, <2>2 DEF SetWaitingSocket, Orderly
<1>3. CASE rec.queue = <<>>
  <2>1. [rec EXCEPT !.waiting = c].queue = rec.queue
        /\ [rec EXCEPT !.waiting = c].posted = rec.posted
        /\ [rec EXCEPT !.waiting = c].handed = rec.handed
    BY DEF ChannelMember
  <2> QED BY <1>1, <1>3, <2>1 DEF SetWaitingSocket, Orderly
<1> QED BY <1>2, <1>3

LEMMA PostedOrderly ==
  ASSUME NEW rec \in [Ids -> ChannelMember], NEW item, Items(item),
         \A m \in Ids : Orderly(rec[m])
  PROVE  \A m \in Ids : Orderly(Posted(rec, item)[m])
BY QueueResponseOrderly DEF Posted, Items

LEMMA NoMemberOrderly == Orderly(NoMember)
<1>1. <<>> \o <<>> = <<>>
  BY ConcatEmptySeq
<1> QED BY <1>1 DEF Orderly, NoMember

LEMMA LookedUpOrderly ==
  ASSUME ChannelTypeOK, MailboxInv, NEW m \in Ids, NEW c \in Conns
  PROVE  \A n \in Ids : Orderly(LookedUp(m, c)[n])
<1>1. member \in [Ids -> ChannelMember] /\ member[m] \in ChannelMember
  BY DEF ChannelTypeOK
<1>2. Orderly(SetWaitingSocket(member[m], c))
  BY <1>1, SetWaitingSocketOrderly DEF MailboxInv
<1>3. Orderly(SetDisconnected(member[m]))
  BY <1>1 DEF MailboxInv, Orderly, SetDisconnected, ChannelMember
<1> QED BY <1>1, <1>2, <1>3 DEF LookedUp, MailboxInv

LEMMA EraseMemberOrderly ==
  ASSUME SocketTypeOK, ChannelTypeOK, MailboxInv,
         NEW k \in DOMAIN members, EraseMember(k)
  PROVE  MailboxInv'
<1> DEFINE gone == members[k]
           item == BroadcastChangedState(gone, FALSE)
<1>1. gone \in Ids /\ gone \in Nat
  BY ChannelAssumption DEF ChannelTypeOK, Ids
<1>2. Items(item)
  BY <1>1, BroadcastType
<1>3. \A m \in Ids : Orderly(Posted(member, item)[m])
  BY <1>2, PostedOrderly DEF ChannelTypeOK, MailboxInv
<1>4. member' = [Posted(member, item) EXCEPT ![gone] = NoMember]
  BY DEF EraseMember
<1>5. Posted(member, item) \in [Ids -> ChannelMember]
  BY <1>2, PostedType DEF ChannelTypeOK
<1> HIDE DEF gone, item
<1> QED BY <1>1, <1>3, <1>4, <1>5, NoMemberOrderly DEF MailboxInv

LEMMA AddMemberOrderly ==
  ASSUME SocketTypeOK, ChannelTypeOK, MailboxInv, NEW c \in Conns, AddMember(c)
  PROVE  MailboxInv'
<1> DEFINE new == lastId + 1
           item == BroadcastChangedState(new, TRUE)
           added == BuildResponseForNewMember(new)
<1>1. new \in Nat /\ new \in Ids
  BY ChannelAssumption DEF ChannelTypeOK, AddMember, Ids
<1>2. Items(item) /\ added \in Response
  BY <1>1, BroadcastType, RosterType
<1>3. \A m \in Ids : Orderly(Posted(member, item)[m])
  BY <1>2, PostedOrderly DEF ChannelTypeOK, MailboxInv
<1>4. member' = [Posted(member, item) EXCEPT ![new] = NewMember(added)]
  BY DEF AddMember
<1>5. Posted(member, item) \in [Ids -> ChannelMember]
  BY <1>2, PostedType DEF ChannelTypeOK
<1> HIDE DEF new, item, added
<1>6. Orderly(NewMember(added))
  <2>1. <<added>> \o <<>> = <<added>>
    BY <1>2, ConcatEmptySeq
  <2> QED BY <2>1 DEF Orderly, NewMember
<1> QED BY <1>1, <1>3, <1>4, <1>5, <1>6 DEF MailboxInv

LEMMA MailboxStep == TypeInv /\ MailboxInv /\ [Next]_vars => MailboxInv'
<1> SUFFICES ASSUME TypeInv, MailboxInv, [Next]_vars PROVE MailboxInv'
  OBVIOUS
<1>a. SocketTypeOK /\ ChannelTypeOK
  BY DEF TypeInv, TypeOK
<1>b. (\A m \in Ids : Orderly(member'[m])) => MailboxInv'
  BY DEF MailboxInv
<1>c. UNCHANGED member => MailboxInv'
  BY DEF MailboxInv
<1>d. CloseAll => MailboxInv'
  BY NoMemberOrderly DEF CloseAll, MailboxInv
<1>1. CASE Tick
  <2>1. \A m \in Ids : Orderly([member[m] EXCEPT !.idle = @ + 1])
    BY <1>a DEF MailboxInv, Orderly, ChannelTypeOK, ChannelMember
  <2> QED BY <1>1, <2>1 DEF Tick, MailboxInv
<1>2. ASSUME NEW c \in Conns, Handle(c) PROVE MailboxInv'
  <2> DEFINE m == Lookup(req[c])
  <2>1. CASE HandleWait(c)
    BY <2>1, <1>a, <1>b, LookupType, LookedUpOrderly DEF HandleWait
  <2>2. CASE HandleSignIn(c)
    BY <2>2, <1>a, AddMemberOrderly DEF HandleSignIn
  <2>3. CASE HandleOrphan(c) \/ HandleBrowserRequest(c)
    BY <2>3, <1>c DEF HandleOrphan, HandleBrowserRequest, channelVars
  <2>4. CASE HandleForward(c)
    <3> DEFINE peer == IsTargetedRequest(req[c])
               mail == Mail(m, req[c].body)
               item == [p \in {peer} |-> mail]
    <3>1. m # 0 /\ peer # 0 /\ Requested(c)
      BY <2>4 DEF HandleForward
    <3>2. m \in Ids /\ m \in Nat /\ peer \in Ids
      BY <3>1, <1>a, LookupType, ChannelAssumption DEF Ids
    <3>3. mail \in Response
      BY <3>1, <3>2, MailType, RequestedType
    <3>4. Items(item)
      <4> HIDE DEF mail
      <4> QED BY <3>2, <3>3 DEF Items
    <3>5. /\ LookedUp(m, c) \in [Ids -> ChannelMember]
          /\ \A n \in Ids : Orderly(LookedUp(m, c)[n])
      BY <3>2, <1>a, LookedUpType, LookedUpOrderly
    <3>6. \A n \in Ids : Orderly(Posted(LookedUp(m, c), item)[n])
      BY <3>4, <3>5, PostedOrderly
    <3>7. member' = LookedUp(m, c) \/ member' = Posted(LookedUp(m, c), item)
      BY <2>4 DEF HandleForward
    <3> QED BY <3>5, <3>6, <3>7, <1>b
  <2>5. CASE HandleUntargeted(c)
    BY <2>5, <1>a, <1>b, LookupType, LookedUpOrderly DEF HandleUntargeted
  <2>6. CASE HandleQuit(c)
    BY <2>6, <1>d DEF HandleQuit
  <2> QED BY <1>2, <2>1, <2>2, <2>3, <2>4, <2>5, <2>6 DEF Handle
<1>3. ASSUME NEW c \in Conns, NEW k \in DOMAIN members, CloseFor(c, k)
      PROVE  MailboxInv'
  <2>1. CASE member[members[k]].connected
    <3>1. members[k] \in Ids
      BY <1>a, ChannelAssumption DEF ChannelTypeOK, Ids
    <3>2. Orderly(OnClosing(member[members[k]], c))
      BY <3>1, <1>a DEF OnClosing, Orderly, MailboxInv, ChannelTypeOK, ChannelMember
    <3> QED BY <1>3, <2>1, <3>1, <3>2, <1>a
            DEF CloseFor, MailboxInv, ChannelTypeOK
  <2>2. CASE ~member[members[k]].connected
    BY <1>3, <2>2, <1>a, EraseMemberOrderly DEF CloseFor
  <2> QED BY <2>1, <2>2
<1>4. ASSUME NEW k \in DOMAIN members, CheckForTimeout(k) PROVE MailboxInv'
  BY <1>4, <1>a, EraseMemberOrderly DEF CheckForTimeout
<1>5. CASE Leave
  BY <1>5, <1>d DEF Leave
<1>6. CASE Select \/ SelectFails \/ EndServing \/ EndTimeouts \/ AcceptNothing
           \/ AcceptsNull
  BY <1>6, <1>c DEF Select, SelectFails, EndServing, EndTimeouts,
                    AcceptNothing, AcceptsNull, channelVars
<1>7. ASSUME NEW c \in Conns,
             \/ BeginClosing(c) \/ ReadOn(c) \/ Accept(c)
             \/ \E n \in DOMAIN sockets : DeleteSocket(c, n)
             \/ ClientConnects(c) \/ ClientWrites(c) \/ ClientHangsUp(c)
      PROVE  MailboxInv'
  BY <1>7, <1>c DEF BeginClosing, ReadOn, Accept, DeleteSocket, ClientConnects,
                    ClientWrites, ClientHangsUp, channelVars
<1>8. CASE UNCHANGED vars
  BY <1>8, <1>c DEF vars, channelVars
<1>9. CASE ServerStep
  BY <1>9, <1>2, <1>3, <1>4, <1>5, <1>6, <1>7 DEF ServerStep, Serve, Close
<1>10. CASE Environment
  BY <1>10, <1>1, <1>7 DEF Environment
<1> QED BY <1>8, <1>9, <1>10 DEF Next, Stopped

(* A parked poll and a queue never coexist, and no mailbox loses, repeats  *)
(* or reorders a response: the two DCHECKs of ChannelMember hold.          *)
THEOREM MailboxCorrect == Spec => [](WaitingMeansDrained /\ FifoMailbox)
<1>1. Init => MailboxInv
  BY NoMemberOrderly DEF Init, ChannelInit, MailboxInv
<1>2. TypeInv /\ MailboxInv => WaitingMeansDrained /\ FifoMailbox
  BY MembersAreIds DEF TypeInv, TypeOK, MailboxInv, Orderly,
                       WaitingMeansDrained, FifoMailbox
<1> QED BY <1>1, <1>2, TypeInit, TypeStep, MailboxStep, PTL DEF Spec

(* What a member has been sent is the beginning of what was addressed to   *)
(* it: QueueResponse and SetWaitingSocket take the oldest response first.  *)
THEOREM FifoCorrect == Spec => []FifoMailbox
<1> QED BY MailboxCorrect, PTL

-----------------------------------------------------------------------------
(* Parked polls.  waiting_socket_ designates a connection the loop holds;  *)
(* the inductive invariant adds that connections are held once, that an    *)
(* unread request is unanswered, and that while a socket is closed no      *)
(* member behind the iterator waits on it.                                 *)

HeldOnce ==
  /\ \A k, n \in DOMAIN sockets : sockets[k] = sockets[n] => k = n
  /\ \A c \in Held : c \notin backlog /\ remote[c] # "none"
  /\ \A c \in backlog : remote[c] # "none"

ReadWritten ==
  \A c \in Conns :
    /\ read[c] <= wrote[c]
    /\ read[c] < Whole => out[c] = <<>>

ClosedBehind ==
  pc = "closing" =>
    \A c \in Conns, n \in DOMAIN sockets : At(c, n) =>
      \A k \in DOMAIN members : k < j => member[members[k]].waiting # c

DanglingInv == NoDanglingWait /\ HeldOnce /\ ReadWritten /\ ClosedBehind

LEMMA HeldAreConns == TypeInv => Held \subseteq Conns
BY DEF TypeInv, TypeOK, Held

(* A handler never acts on a request that is already parked.               *)
LEMMA RequestNotParked ==
  ASSUME TypeInv, DanglingInv, NEW c \in Conns, Requested(c),
         NEW m \in Members
  PROVE  member[m].waiting # c
<1> SUFFICES ASSUME member[m].waiting = c PROVE FALSE
  OBVIOUS
<1>1. Polling(c, m) /\ read[c] >= Whole
  BY DEF DanglingInv, NoDanglingWait
<1>2. read[c] \in Nat
  BY DEF TypeInv, TypeOK, SocketTypeOK
<1>3. req[c].method = "POST"
  BY <1>1, <1>2 DEF Requested, RequestComplete, Whole
<1>4. req[c] \in Requests /\ req[c].path = "/wait"
  BY <1>1, RequestedType DEF Polling
<1> QED BY <1>3, <1>4, RequestsAssumption

(* Only connections on which a member of item is parked are sent anything. *)
LEMMA SentToParked ==
  ASSUME TypeInv, DanglingInv, NEW item, DOMAIN item \subseteq Members,
         NEW d \in Conns, SentTo(item)[d] # out[d]
  PROVE  /\ \E m \in DOMAIN item : member[m].waiting = d
         /\ read[d] >= Whole
<1>1. \E m \in DOMAIN item : member[m].waiting = d
  BY DEF SentTo
<1> QED BY <1>1 DEF DanglingInv, NoDanglingWait

(* Once a member is erased, every member has been told: nobody is parked.  *)
LEMMA EraseMemberUnparks ==
  ASSUME TypeInv, DanglingInv, NEW k \in DOMAIN members, EraseMember(k)
  PROVE  /\ \A m \in Members' : member'[m].waiting = NoConn
         /\ members' \in Seq(Ids)
         /\ \A d \in Conns : out'[d] # out[d] => read[d] >= Whole
<1> DEFINE gone == members[k]
           item == BroadcastChangedState(gone, FALSE)
<1>a. /\ SocketTypeOK /\ ChannelTypeOK
      /\ member \in [Ids -> ChannelMember] /\ members \in Seq(Ids)
  BY ChannelAssumption DEF TypeInv, TypeOK, ChannelTypeOK, Ids
<1>1. gone \in Ids /\ k \in 1 .. Len(members)
  BY <1>a
<1>2. /\ members' = RemoveAt(members, k)
      /\ member' = [Posted(member, item) EXCEPT ![gone] = NoMember]
      /\ out' = SentTo(item)
  BY DEF EraseMember
<1>3. /\ members' \in Seq(Ids)
      /\ Members' \subseteq Members
  <2>1. /\ members' \in Seq(Ids) /\ Len(members') = Len(members) - 1
        /\ \A n \in 1 .. Len(members) - 1 :
             members'[n] = IF n < k THEN members[n] ELSE members[n + 1]
    BY <1>1, <1>2, <1>a, RemoveAtType
  <2>2. ASSUME NEW n \in DOMAIN members' PROVE members'[n] \in Members
    <3>1. n \in 1 .. Len(members) - 1 /\ n \in DOMAIN members
          /\ n + 1 \in DOMAIN members
      BY <2>1, <1>a
    <3> QED BY <2>1, <3>1 DEF Members
  <2> QED BY <2>1, <2>2 DEF Members
<1>4. ASSUME NEW m \in Members' PROVE member'[m].waiting = NoConn
  <2>1. m \in Members /\ m \in Ids
    BY <1>3, <1>a, MembersAreIds
  <2>2. CASE m = gone
    <3>1. member'[m] = NoMember
      <4> HIDE DEF item
      <4> QED BY <1>2, <1>1, <2>2 DEF Posted
    <3> QED BY <3>1 DEF NoMember
  <2>3. CASE m # gone
    <3>1. m \in DOMAIN item
      BY <2>1, <2>3 DEF BroadcastChangedState
    <3>2. member'[m] = QueueResponse(member[m], item[m])
      <4> HIDE DEF item
      <4> QED BY <1>2, <1>1, <2>1, <2>3, <3>1 DEF Posted
    <3> QED BY <3>2 DEF QueueResponse
  <2> QED BY <2>2, <2>3
<1>5. DOMAIN item \subseteq Members
  BY DEF BroadcastChangedState
<1>6. \A d \in Conns : out'[d] # out[d] => read[d] >= Whole
  <2> HIDE DEF item
  <2> QED BY <1>2, <1>5, SentToParked
<1> QED BY <1>3, <1>4, <1>6

LEMMA AddMemberUnparks ==
  ASSUME TypeInv, DanglingInv, NEW c \in Conns, AddMember(c)
  PROVE  /\ \A m \in Members' : member'[m].waiting = NoConn
         /\ \A d \in Conns \ {c} : out'[d] # out[d] => read[d] >= Whole
<1> DEFINE new == lastId + 1
           item == BroadcastChangedState(new, TRUE)
           added == BuildResponseForNewMember(new)
<1>a. /\ SocketTypeOK /\ ChannelTypeOK
      /\ member \in [Ids -> ChannelMember] /\ members \in Seq(Ids)
      /\ lastId \in Nat /\ Members \subseteq 1 .. lastId
  BY ChannelAssumption, MembersAreIds DEF TypeInv, TypeOK, ChannelTypeOK, Ids
<1>1. new \in Ids /\ new \notin Members
  BY <1>a, ChannelAssumption DEF AddMember, Ids
<1>2. /\ members' = Append(members, new)
      /\ member' = [Posted(member, item) EXCEPT ![new] = NewMember(added)]
      /\ out' = Send(SentTo(item), c, added)
  BY DEF AddMember
<1>3. Members' \subseteq Members \cup {new}
  BY <1>2, <1>a DEF Members
<1>4. ASSUME NEW m \in Members' PROVE member'[m].waiting = NoConn
  <2>1. m \in Ids
    BY <1>1, <1>3, <1>a, MembersAreIds
  <2>2. CASE m = new
    <3>1. member'[m] = NewMember(added)
      <4> HIDE DEF item, added, new
      <4> QED BY <1>2, <1>1, <2>2 DEF Posted
    <3> QED BY <3>1 DEF NewMember
  <2>3. CASE m # new
    <3>1. m \in DOMAIN item
      BY <1>3, <2>3 DEF BroadcastChangedState
    <3>2. member'[m] = QueueResponse(member[m], item[m])
      <4> HIDE DEF item, added, new
      <4> QED BY <1>2, <1>1, <2>1, <2>3, <3>1 DEF Posted
    <3> QED BY <3>2 DEF QueueResponse
  <2> QED BY <2>2, <2>3
<1>5. DOMAIN item \subseteq Members
  BY DEF BroadcastChangedState
<1>6. ASSUME NEW d \in Conns \ {c}, out'[d] # out[d] PROVE read[d] >= Whole
  <2> HIDE DEF item, added
  <2>1. out'[d] = SentTo(item)[d]
    BY <1>2 DEF Send, SentTo
  <2> QED BY <2>1, <1>5, <1>6, SentToParked
<1> QED BY <1>4, <1>6

(* Steps that leave the members' polls alone keep them parked, provided    *)
(* that no connection on which one is parked is disturbed.                 *)
LEMMA StillParked ==
  ASSUME TypeInv, DanglingInv,
         members' = members,
         \A m \in Members : member'[m].waiting \in {member[m].waiting, NoConn},
         \A m \in Members, d \in Conns : member[m].waiting = d =>
           /\ d \in Held' /\ req'[d] = req[d] /\ read'[d] >= read[d]
           /\ out'[d] \in {out[d], <<>>} /\ read'[d] \in Nat
  PROVE  NoDanglingWait'
<1> SUFFICES ASSUME NEW m \in Members', NEW d \in Conns,
                    member'[m].waiting = d
             PROVE  /\ d \in Held' /\ Polling(d, m)' /\ read'[d] >= Whole
                    /\ out'[d] = <<>>
  BY DEF NoDanglingWait
<1>1. m \in Members /\ member[m].waiting = d
  BY ConnsAssumption DEF Members
<1>2. d \in Held /\ Polling(d, m) /\ read[d] >= Whole /\ out[d] = <<>>
  BY <1>1 DEF DanglingInv, NoDanglingWait
<1>3. read[d] \in Nat
  BY DEF TypeInv, TypeOK, SocketTypeOK
<1> QED BY <1>1, <1>2, <1>3 DEF Polling, Whole

(* A handler that reads all of c, and sends only on c and on connections   *)
(* with a parked poll, keeps the invariants of the connections.            *)
LEMMA ServedConnections ==
  ASSUME TypeInv, DanglingInv, NEW c \in Conns, Serving(c), Served(c),
         wrote[c] >= Whole \/ out' = out,
         \A d \in Conns \ {c} : out'[d] # out[d] => read[d] >= Whole
  PROVE  HeldOnce' /\ ReadWritten' /\ ClosedBehind'
<1>1. HeldOnce'
  BY DEF DanglingInv, HeldOnce, Served, Held
<1>2. ClosedBehind'
  BY DEF Serving, Served, ClosedBehind
<1>3. ReadWritten'
  <2> SUFFICES ASSUME NEW d \in Conns
               PROVE  read'[d] <= wrote'[d] /\ (read'[d] < Whole => out'[d] = <<>>)
    BY DEF ReadWritten
  <2>a. /\ read[d] \in Nat /\ wrote[d] \in Nat
        /\ read[d] <= wrote[d] /\ (read[d] < Whole => out[d] = <<>>)
    BY DEF TypeInv, TypeOK, SocketTypeOK, DanglingInv, ReadWritten
  <2>b. read' = [read EXCEPT ![c] = wrote[c]] /\ wrote' = wrote
        /\ read \in [Conns -> Nat]
    BY DEF Served, Recv, TypeInv, TypeOK, SocketTypeOK
  <2>1. CASE d = c
    BY <2>1, <2>a, <2>b DEF Whole
  <2>2. CASE d # c
    BY <2>2, <2>a, <2>b DEF Whole
  <2> QED BY <2>1, <2>2
<1> QED BY <1>1, <1>2, <1>3

(* Send touches one connection.                                            *)
LEMMA SendElsewhere ==
  ASSUME NEW sent, NEW c \in Conns, NEW x, NEW d \in Conns \ {c}
  PROVE  Send(sent, c, x)[d] = sent[d]
BY DEF Send

(* Lookup parks nothing unless the request is a poll.                      *)
LEMMA LookedUpWaiting ==
  ASSUME TypeInv, NEW m \in Ids, NEW c \in Conns, req[c].path # "/wait"
  PROVE  \A n \in Ids : LookedUp(m, c)[n].waiting = member[n].waiting
<1>1. member \in [Ids -> ChannelMember]
  BY DEF TypeInv, TypeOK, ChannelTypeOK
<1>2. SetDisconnected(member[m]).waiting = member[m].waiting
  BY <1>1 DEF SetDisconnected, ChannelMember
<1> QED BY <1>1, <1>2 DEF LookedUp

LEMMA StillPolling ==
  ASSUME NEW d, NEW p, Polling(d, p), req'[d] = req[d]
  PROVE  Polling(d, p)'
BY DEF Polling

LEMMA HandleDangling ==
  ASSUME TypeInv, DanglingInv, MailboxInv, NEW c \in Conns, Handle(c)
  PROVE  DanglingInv'
<1> SUFFICES ASSUME Requested(c) PROVE DanglingInv'
  BY DEF Handle, HandleWait, HandleSignIn, HandleOrphan, HandleForward,
         HandleUntargeted, HandleBrowserRequest, HandleQuit
<1> DEFINE m == Lookup(req[c])
<1>a. /\ SocketTypeOK /\ ChannelTypeOK
      /\ member \in [Ids -> ChannelMember] /\ out \in [Conns -> Seq(Response)]
      /\ read \in [Conns -> Nat] /\ wrote \in [Conns -> Nat]
  BY DEF TypeInv, TypeOK, ChannelTypeOK, SocketTypeOK
<1>b. Serving(c) /\ wrote[c] >= Whole /\ c \in Held
  BY DEF Requested, RequestComplete, Serving, At, Held
<1>c. \A p \in Members : member[p].waiting # c
  BY RequestNotParked
<1>d. \A p \in Members : p \in Ids
  BY <1>a, MembersAreIds
<1>e. m # 0 => m \in Members /\ m \in Ids
  BY <1>a, LookupType
<1>f. ASSUME Served(c)
      PROVE  /\ Held' = Held /\ req' = req
             /\ \A d \in Conns : read'[d] >= read[d] /\ read'[d] \in Nat
  <2>1. read[c] <= wrote[c]
    BY DEF DanglingInv, ReadWritten
  <2> QED BY <1>f, <2>1, <1>a DEF Served, Recv, Held
(* What is left to show when the handler answers on c only.                *)
<1>g. ASSUME Served(c), members' = members,
             \A p \in Members : member'[p].waiting = member[p].waiting,
             \A d \in Conns \ {c} : out'[d] = out[d]
      PROVE  DanglingInv'
  <2>1. HeldOnce' /\ ReadWritten' /\ ClosedBehind'
    BY <1>g, <1>b, ServedConnections
  <2>2. \A p \in Members, d \in Conns : member[p].waiting = d =>
          /\ d \in Held' /\ req'[d] = req[d] /\ read'[d] >= read[d]
          /\ out'[d] \in {out[d], <<>>} /\ read'[d] \in Nat
    BY <1>g, <1>f, <1>c DEF DanglingInv, NoDanglingWait
  <2>3. NoDanglingWait'
    BY <1>g, <2>2, StillParked
  <2> QED BY <2>1, <2>3 DEF DanglingInv
<1>1. CASE HandleWait(c)
  <2>1. /\ m \in Members /\ m \in Ids /\ Served(c) /\ members' = members
        /\ member' = [member EXCEPT ![m] = SetWaitingSocket(@, c)]
        /\ req[c].path = "/wait"
    BY <1>1, <1>e DEF HandleWait, LookedUp
  <2>2. CASE member[m].queue # <<>>
    <3>1. \A p \in Members : member'[p].waiting = member[p].waiting
      BY <2>1, <2>2, <1>a, <1>d DEF SetWaitingSocket
    <3>2. out' = Send(out, c, Head(member[m].queue))
      BY <1>1, <2>2 DEF HandleWait
    <3>3. \A d \in Conns \ {c} : out'[d] = out[d]
      BY <3>2, SendElsewhere
    <3> QED BY <2>1, <3>1, <3>3, <1>g
  <2>3. CASE member[m].queue = <<>>
    <3>1. out' = out
      BY <1>1, <2>3 DEF HandleWait
    <3>2. HeldOnce' /\ ReadWritten' /\ ClosedBehind'
      BY <2>1, <3>1, <1>b, ServedConnections
    <3>3. NoDanglingWait'
      <4> SUFFICES ASSUME NEW p \in Members', NEW d \in Conns,
                          member'[p].waiting = d
                   PROVE  /\ d \in Held' /\ Polling(d, p)' /\ read'[d] >= Whole
                          /\ out'[d] = <<>>
        BY DEF NoDanglingWait
      <4>0. p \in Members /\ p \in Ids
        BY <2>1, <1>d DEF Members
      <4>1. CASE p = m
        <5>1. member[m] \in ChannelMember
          BY <1>a, <2>1
        <5>2. [member[m] EXCEPT !.waiting = c].waiting = c
          BY <5>1 DEF ChannelMember
        <5>3. d = c
          BY <2>1, <2>3, <4>1, <5>2, <1>a DEF SetWaitingSocket
        <5>4. req[c] \in Requests /\ req[c].method = "GET"
          BY <2>1, RequestedType, RequestsAssumption
        <5>5. read[c] < Whole
          BY <5>4 DEF Requested, RequestComplete
        <5>6. out[c] = <<>>
          BY <5>5 DEF DanglingInv, ReadWritten
        <5>7. m = req[c].peer
          BY <1>1 DEF HandleWait, Lookup
        <5>8. read'[c] = wrote[c]
          BY <2>1, <1>a DEF Served, Recv
        <5>9. Polling(c, p)
          BY <2>1, <4>1, <5>4, <5>7, ConnsAssumption DEF Polling
        <5>10. req' = req /\ Held' = Held
          BY <2>1, <1>f
        <5>11. Polling(c, p)'
          BY <5>9, <5>10, StillPolling
        <5> QED BY <4>1, <5>3, <5>6, <5>8, <5>10, <5>11, <3>1, <1>b
      <4>2. CASE p # m
        <5>1. member'[p] = member[p]
          BY <2>1, <4>0, <4>2, <1>a
        <5>2. d \in Held /\ Polling(d, p) /\ read[d] >= Whole /\ out[d] = <<>>
          BY <5>1, <4>0 DEF DanglingInv, NoDanglingWait
        <5>3. req' = req /\ Held' = Held /\ read'[d] >= read[d]
              /\ read'[d] \in Nat /\ read[d] \in Nat
          BY <2>1, <1>f, <1>a
        <5>4. Polling(d, p)'
          BY <5>2, <5>3, StillPolling
        <5>5. read'[d] >= Whole
          BY <5>2, <5>3 DEF Whole
        <5> QED BY <5>2, <5>3, <5>4, <5>5, <3>1
      <4> QED BY <4>1, <4>2
    <3> QED BY <3>2, <3>3 DEF DanglingInv
  <2> QED BY <2>2, <2>3
<1>2. CASE HandleSignIn(c)
  <2>1. AddMember(c) /\ Served(c)
    BY <1>2 DEF HandleSignIn
  <2>2. /\ \A p \in Members' : member'[p].waiting = NoConn
        /\ \A d \in Conns \ {c} : out'[d] # out[d] => read[d] >= Whole
    BY <2>1, AddMemberUnparks
  <2>3. NoDanglingWait'
    BY <2>2, ConnsAssumption DEF NoDanglingWait
  <2> QED BY <2>1, <2>2, <2>3, <1>b, ServedConnections DEF DanglingInv
<1>3. CASE HandleOrphan(c)
  BY <1>3, <1>g, SendElsewhere DEF HandleOrphan, channelVars
<1>4. CASE HandleForward(c)
  <2> DEFINE peer == IsTargetedRequest(req[c])
             mail == Mail(m, req[c].body)
             item == [p \in {peer} |-> mail]
  <2>1. /\ m \in Members /\ m \in Ids /\ Served(c) /\ members' = members
        /\ req[c].path # "/wait" /\ peer \in Members /\ peer \in Ids
    BY <1>4, <1>a, <1>e, LookupType DEF HandleForward
  <2>2. \A n \in Ids : LookedUp(m, c)[n].waiting = member[n].waiting
    BY <2>1, LookedUpWaiting
  <2>3. CASE peer = m
    <3>1. member' = LookedUp(m, c) /\ out' = Send(out, c, mail)
      BY <1>4, <2>3 DEF HandleForward
    <3>2. \A p \in Members : member'[p].waiting = member[p].waiting
      BY <3>1, <2>2, <1>d
    <3> QED BY <2>1, <3>1, <3>2, <1>g, SendElsewhere
  <2>4. CASE peer # m
    <3>1. /\ member' = Posted(LookedUp(m, c), item)
          /\ out' = Send(SentTo(item), c, Reply("200 OK", ""))
      BY <1>4, <2>4 DEF HandleForward
    <3>2. DOMAIN item = {peer}
      OBVIOUS
    <3> HIDE DEF item, mail
    <3>3. \A p \in Ids : member'[p].waiting =
                           IF p = peer THEN NoConn ELSE member[p].waiting
      BY <3>1, <3>2, <2>1, <2>2 DEF Posted, QueueResponse
    <3>4. ASSUME NEW d \in Conns \ {c}, out'[d] # out[d]
          PROVE  read[d] >= Whole /\ member[peer].waiting = d
      <4>1. SentTo(item)[d] # out[d]
        BY <3>1, <3>4, SendElsewhere
      <4> QED BY <4>1, <3>2, <2>1, SentToParked
    <3>5. HeldOnce' /\ ReadWritten' /\ ClosedBehind'
      BY <2>1, <3>4, <1>b, ServedConnections
    <3>6. NoDanglingWait'
      <4> SUFFICES ASSUME NEW p \in Members', NEW d \in Conns,
                          member'[p].waiting = d
                   PROVE  /\ d \in Held' /\ Polling(d, p)' /\ read'[d] >= Whole
                          /\ out'[d] = <<>>
        BY DEF NoDanglingWait
      <4>1. p \in Members /\ p \in Ids
        BY <2>1, <1>d DEF Members
      <4>2. p # peer /\ member[p].waiting = d
        BY <3>3, <4>1, ConnsAssumption
      <4>3. d \in Held /\ Polling(d, p) /\ read[d] >= Whole /\ out[d] = <<>>
        BY <4>1, <4>2 DEF DanglingInv, NoDanglingWait
      <4>4. member[peer].waiting # d
        <5> SUFFICES ASSUME member[peer].waiting = d PROVE FALSE
          OBVIOUS
        <5>1. Polling(d, peer)
          BY <2>1 DEF DanglingInv, NoDanglingWait
        <5> QED BY <5>1, <4>2, <4>3 DEF Polling
      <4>5. d # c
        BY <4>1, <4>2, <1>c
      <4>6. out'[d] = out[d]
        BY <3>4, <4>4, <4>5
      <4>7. req' = req /\ Held' = Held /\ read'[d] >= read[d]
            /\ read'[d] \in Nat /\ read[d] \in Nat
        BY <2>1, <1>f, <1>a
      <4>8. Polling(d, p)'
        BY <4>3, <4>7, StillPolling
      <4>9. read'[d] >= Whole
        BY <4>3, <4>7 DEF Whole
      <4> QED BY <4>3, <4>6, <4>7, <4>8, <4>9
    <3> QED BY <3>5, <3>6 DEF DanglingInv
  <2> QED BY <2>3, <2>4
<1>5. CASE HandleUntargeted(c)
  <2>1. /\ m \in Members /\ m \in Ids /\ Served(c) /\ members' = members
        /\ req[c].path # "/wait" /\ member' = LookedUp(m, c)
    BY <1>5, <1>e DEF HandleUntargeted
  <2>2. \A p \in Members : member'[p].waiting = member[p].waiting
    BY <2>1, <1>d, LookedUpWaiting
  <2>3. \A d \in Conns \ {c} : out'[d] = out[d]
    <3>1. \E x : out' = Send(out, c, x)
      BY <1>5 DEF HandleUntargeted
    <3> QED BY <3>1, SendElsewhere
  <2> QED BY <2>1, <2>2, <2>3, <1>g
<1>6. CASE HandleBrowserRequest(c)
  <2>1. Served(c) /\ members' = members /\ member' = member
    BY <1>6 DEF HandleBrowserRequest, channelVars
  <2>2. \A d \in Conns \ {c} : out'[d] = out[d]
    <3>1. \E x : out' = Send(out, c, x)
      BY <1>6 DEF HandleBrowserRequest
    <3> QED BY <3>1, SendElsewhere
  <2> QED BY <2>1, <2>2, <1>g
<1>7. CASE HandleQuit(c)
  <2> DEFINE sent == Send(SentTo(ShuttingDown), c, Reply("200 OK", "Quitting..."))
             reads == [read EXCEPT ![c] = wrote[c]]
  <2>1. /\ members' = <<>> /\ sockets' = sockets /\ pc' = pc
        /\ CloseSockets(backlog, reads, sent)
    BY <1>7 DEF HandleQuit, CloseAll
  <2>2. NoDanglingWait' /\ ClosedBehind'
    <3>1. Members' = {} /\ DOMAIN members' = {}
      <4>1. DOMAIN members' = {}
        <5> HIDE DEF sent, reads
        <5>1. members' = <<>>
          BY <2>1
        <5>2. Len(members') = 0 /\ members' \in Seq(Ids)
          BY <5>1
        <5> QED BY <5>2
      <4> QED BY <4>1 DEF Members
    <3> QED BY <3>1 DEF NoDanglingWait, ClosedBehind
  <2>3. HeldOnce'
    <3>1. /\ Held' = Held /\ Held \subseteq Conns
          /\ backlog' = {} /\ backlog \subseteq Conns
          /\ \A d \in Conns : d \notin backlog => remote'[d] = remote[d]
      <4> HIDE DEF sent, reads
      <4> QED BY <2>1, <1>a, HeldAreConns DEF CloseSockets, Held, SocketTypeOK
    <3> QED BY <2>1, <3>1 DEF DanglingInv, HeldOnce
  <2>4. ReadWritten'
    <3> SUFFICES ASSUME NEW d \in Conns
                 PROVE  read'[d] <= wrote'[d] /\ (read'[d] < Whole => out'[d] = <<>>)
      BY DEF ReadWritten
    <3>a. /\ read[d] \in Nat /\ wrote[d] \in Nat
          /\ read[d] <= wrote[d] /\ (read[d] < Whole => out[d] = <<>>)
      BY <1>a DEF DanglingInv, ReadWritten
    <3>1. CASE d \in backlog
      <4>1. read'[d] = 0 /\ wrote'[d] = 0 /\ out'[d] = <<>>
        <5> HIDE DEF sent, reads
        <5> QED BY <3>1, <2>1 DEF CloseSockets
      <4> QED BY <4>1
    <3>2. CASE d \notin backlog
      <4>1. read'[d] = reads[d] /\ wrote'[d] = wrote[d] /\ out'[d] = sent[d]
        <5> HIDE DEF sent, reads
        <5> QED BY <3>2, <2>1 DEF CloseSockets
      <4>2. CASE d = c
        <5>1. reads[d] = wrote[d]
          BY <4>2, <1>a
        <5> HIDE DEF sent, reads
        <5> QED BY <4>1, <4>2, <5>1, <1>b, <3>a DEF Whole
      <4>3. CASE d # c
        <5>1. read'[d] = read[d]
          BY <4>1, <4>3, <1>a
        <5>2. sent[d] = SentTo(ShuttingDown)[d]
          BY <4>3, SendElsewhere
        <5>3. sent[d] # out[d] => read[d] >= Whole
          BY <5>2, SentToParked DEF ShuttingDown
        <5> HIDE DEF sent, reads
        <5> QED BY <4>1, <5>1, <5>3, <3>a DEF Whole
      <4> QED BY <4>2, <4>3
    <3> QED BY <3>1, <3>2
  <2> QED BY <2>2, <2>3, <2>4 DEF DanglingInv
<1> QED BY <1>1, <1>2, <1>3, <1>4, <1>5, <1>6, <1>7 DEF Handle

(* Erasing an element of a sequence without repetitions.                   *)
Once(s) == \A a, b \in DOMAIN s : s[a] = s[b] => a = b
Elements(s) == {s[a] : a \in DOMAIN s}

LEMMA RemoveOnce ==
  ASSUME NEW S, NEW s \in Seq(S), NEW n \in 1 .. Len(s), Once(s)
  PROVE  /\ Once(RemoveAt(s, n))
         /\ Elements(RemoveAt(s, n)) = Elements(s) \ {s[n]}
<1> DEFINE t == RemoveAt(s, n)
<1> USE DEF Once, Elements
<1>1. /\ DOMAIN t = 1 .. Len(s) - 1 /\ DOMAIN s = 1 .. Len(s) /\ Len(s) \in Nat
      /\ \A a \in DOMAIN t : t[a] = IF a < n THEN s[a] ELSE s[a + 1]
  <2>1. t \in Seq(S) /\ Len(t) = Len(s) - 1
    BY RemoveAtType
  <2> HIDE DEF t
  <2>2. \A a \in 1 .. Len(s) - 1 : t[a] = IF a < n THEN s[a] ELSE s[a + 1]
    BY RemoveAtType DEF t
  <2>3. DOMAIN t = 1 .. Len(s) - 1 /\ DOMAIN s = 1 .. Len(s) /\ Len(s) \in Nat
    BY <2>1
  <2> QED BY <2>2, <2>3
<1> HIDE DEF t
<1>2. \A a, b \in DOMAIN t : t[a] = t[b] => a = b
  BY <1>1
<1>3. ASSUME NEW a \in DOMAIN t
      PROVE  t[a] \in {s[b] : b \in DOMAIN s} \ {s[n]}
  BY <1>1
<1>4. ASSUME NEW b \in DOMAIN s, s[b] # s[n]
      PROVE  \E a \in DOMAIN t : t[a] = s[b]
  <2>1. CASE b < n
    <3>1. b \in DOMAIN t /\ t[b] = s[b]
      BY <2>1, <1>1
    <3> QED BY <3>1
  <2>2. CASE ~(b < n)
    <3>1. b - 1 \in DOMAIN t /\ ~(b - 1 < n)  /\ b - 1 + 1 = b
      BY <2>2, <1>1, <1>4
    <3>2. t[b - 1] = s[b]
      BY <3>1, <1>1
    <3> QED BY <3>1, <3>2
  <2> QED BY <2>1, <2>2
<1> QED BY <1>2, <1>3, <1>4 DEF t

(* The loop over sockets stands on one connection at a time.               *)
LEMMA AtOne ==
  ASSUME TypeInv, NEW c, NEW d, NEW k, NEW n, At(c, k), At(d, n)
  PROVE  c = d /\ k = n
<1>1. k \in Nat \ {0} /\ n \in Nat \ {0}
  BY DEF At, TypeInv, TypeOK
<1>2. ~(k < n) /\ ~(n < k)
  BY <1>1 DEF At
<1> QED BY <1>1, <1>2 DEF At

(* No member waits on the socket that is deleted.                          *)
LEMMA DeletedUnparked ==
  ASSUME TypeInv, DanglingInv, NEW c \in Conns, NEW n \in DOMAIN sockets,
         DeleteSocket(c, n), NEW m \in Members
  PROVE  member[m].waiting # c
<1>1. PICK k \in DOMAIN members : m = members[k]
  BY DEF Members
<1>2. k \in 1 .. Len(members) /\ j \in Nat /\ Len(members) \in Nat
  BY DEF TypeInv, TypeOK, ChannelTypeOK
<1>3. CASE k < j
  BY <1>1, <1>3 DEF DeleteSocket, DanglingInv, ClosedBehind
<1>4. CASE ~(k < j)
  BY <1>1, <1>2, <1>4 DEF DeleteSocket, Affected
<1> QED BY <1>3, <1>4

LEMMA DanglingStep == TypeInv /\ MailboxInv /\ DanglingInv /\ [Next]_vars
                        => DanglingInv'
<1> SUFFICES ASSUME TypeInv, MailboxInv, DanglingInv, [Next]_vars
             PROVE  DanglingInv'
  OBVIOUS
<1>a. /\ SocketTypeOK /\ ChannelTypeOK /\ j \in Nat \ {0}
      /\ member \in [Ids -> ChannelMember] /\ members \in Seq(Ids)
      /\ read \in [Conns -> Nat] /\ wrote \in [Conns -> Nat]
      /\ remote \in [Conns -> {"none", "up", "gone"}] /\ backlog \subseteq Conns
      /\ sockets \in Seq(Conns)
  BY ChannelAssumption DEF TypeInv, TypeOK, ChannelTypeOK, SocketTypeOK, Ids
<1>b. NoDanglingWait /\ HeldOnce /\ ReadWritten /\ ClosedBehind
  BY DEF DanglingInv
<1>g. j \in Nat /\ \A d \in Conns : read[d] \in Nat /\ wrote[d] \in Nat
  BY <1>a
(* A parked poll was read, hence written.                                  *)
<1>c. ASSUME NEW m \in Members, NEW d \in Conns, member[m].waiting = d
      PROVE  d \in Held /\ wrote[d] > 0 /\ read[d] >= Whole /\ out[d] = <<>>
  <2>1. d \in Held /\ read[d] >= Whole /\ out[d] = <<>>
    BY <1>b, <1>c DEF NoDanglingWait
  <2> QED BY <2>1, <1>a, <1>b DEF ReadWritten, Whole
(* Steps that change neither connections nor members.                      *)
<1>d. ASSUME UNCHANGED <<socketVars, channelVars, sockets>>,
             pc' # "closing" \/ j' = 1
      PROVE  DanglingInv'
  <2>1. NoDanglingWait' /\ HeldOnce' /\ ReadWritten'
    BY <1>b, <1>d DEF socketVars, channelVars, NoDanglingWait, HeldOnce,
                      ReadWritten, Held, Members, Polling
  <2>2. ClosedBehind'
    BY <1>d, <1>a DEF ClosedBehind, channelVars
  <2> QED BY <2>1, <2>2 DEF DanglingInv
(* Steps of the remote ends and of the clock leave the loop alone.         *)
<1>e. ASSUME UNCHANGED <<loopVars, members>>,
             \A m \in Members : member'[m].waiting = member[m].waiting
      PROVE  ClosedBehind' /\ Held' = Held
  BY <1>b, <1>e DEF ClosedBehind, loopVars, At, Members, Held
<1>1. ASSUME NEW c \in Conns, ClientConnects(c) PROVE DanglingInv'
  <2>1. ClosedBehind' /\ Held' = Held
    BY <1>1, <1>e DEF ClientConnects, channelVars
  <2>2. /\ remote[c] = "none" /\ remote' = [remote EXCEPT ![c] = "up"]
        /\ backlog' = backlog \cup {c}
        /\ UNCHANGED <<req, wrote, read, out, members, member, sockets>>
    BY <1>1 DEF ClientConnects, Connect, channelVars, loopVars
  <2>3. HeldOnce'
    BY <2>1, <2>2, <1>a, <1>b DEF HeldOnce
  <2>4. NoDanglingWait' /\ ReadWritten'
    BY <2>1, <2>2, <1>b DEF NoDanglingWait, ReadWritten, Members, Polling
  <2> QED BY <2>1, <2>3, <2>4 DEF DanglingInv
<1>2. ASSUME NEW c \in Conns, ClientWrites(c) PROVE DanglingInv'
  <2>1. ClosedBehind' /\ Held' = Held
    BY <1>2, <1>e DEF ClientWrites, channelVars
  <2>2. UNCHANGED <<remote, backlog, read, out, members, member, sockets>>
    BY <1>2 DEF ClientWrites, Write, WriteMore, channelVars, loopVars
  <2>3. \E n \in Levels : wrote[c] < n /\ wrote' = [wrote EXCEPT ![c] = n]
    BY <1>2, <1>a, ConnsAssumption DEF ClientWrites, Write, WriteMore, Part,
                                       Whole
  <2>4. \A d \in Conns : wrote[d] > 0 => req'[d] = req[d]
    BY <1>2, <1>a DEF ClientWrites, Write, WriteMore, SocketTypeOK
  <2>5. HeldOnce'
    BY <2>1, <2>2, <1>b DEF HeldOnce
  <2>6. ReadWritten'
    BY <2>2, <2>3, <1>a, <1>b, ConnsAssumption DEF ReadWritten, Part, Whole
  <2>7. NoDanglingWait'
    BY <2>1, <2>2, <2>4, <1>a, <1>c, StillParked
  <2> QED BY <2>1, <2>5, <2>6, <2>7 DEF DanglingInv
<1>3. ASSUME NEW c \in Conns, ClientHangsUp(c) PROVE DanglingInv'
  <2>1. ClosedBehind' /\ Held' = Held
    BY <1>3, <1>e DEF ClientHangsUp, channelVars
  <2>2. /\ remote' = [remote EXCEPT ![c] = "gone"]
        /\ out' = [out EXCEPT ![c] = <<>>]
        /\ UNCHANGED <<backlog, req, wrote, read, members, member, sockets>>
    BY <1>3 DEF ClientHangsUp, Hangup, channelVars, loopVars
  <2>3. out \in [Conns -> Seq(Response)]
    BY <1>a DEF SocketTypeOK
  <2>4. HeldOnce'
    BY <2>1, <2>2, <1>a, <1>b DEF HeldOnce
  <2>5. ReadWritten'
    BY <2>2, <2>3, <1>b DEF ReadWritten
  <2>6. NoDanglingWait'
    BY <2>1, <2>2, <2>3, <1>a, <1>c, StillParked
  <2> QED BY <2>1, <2>4, <2>5, <2>6 DEF DanglingInv
<1>4. CASE Tick
  <2>1. UNCHANGED <<socketVars, members, loopVars>>
    BY <1>4 DEF Tick
  <2>2. \A m \in Members : member'[m].waiting = member[m].waiting
    <3> SUFFICES ASSUME NEW m \in Members
                 PROVE  member'[m].waiting = member[m].waiting
      OBVIOUS
    <3>1. m \in Ids /\ member[m] \in ChannelMember
      BY <1>a, MembersAreIds
    <3>2. member'[m] = IF member[m].idle <= Timeout
                       THEN [member[m] EXCEPT !.idle = @ + 1] ELSE member[m]
      BY <1>4, <3>1 DEF Tick
    <3> QED BY <3>1, <3>2 DEF ChannelMember
  <2>3. ClosedBehind' /\ Held' = Held
    BY <2>1, <2>2, <1>e
  <2>4. HeldOnce' /\ ReadWritten'
    BY <2>1, <2>3, <1>b DEF HeldOnce, ReadWritten, socketVars, loopVars
  <2>5. NoDanglingWait'
    <3>1. \A m \in Members, d \in Conns : member[m].waiting = d =>
            /\ d \in Held' /\ req'[d] = req[d] /\ read'[d] >= read[d]
            /\ out'[d] \in {out[d], <<>>} /\ read'[d] \in Nat
      BY <2>1, <2>3, <1>g, <1>c DEF socketVars
    <3> QED BY <2>1, <2>2, <3>1, StillParked
  <2> QED BY <2>3, <2>4, <2>5 DEF DanglingInv
<1>5. CASE \/ Select \/ SelectFails \/ EndServing \/ EndTimeouts
           \/ AcceptNothing \/ AcceptsNull
  BY <1>5, <1>d DEF Select, SelectFails, EndServing, EndTimeouts, AcceptNothing,
                    AcceptsNull, NextRound
<1>6. ASSUME NEW c \in Conns, BeginClosing(c) PROVE DanglingInv'
  BY <1>6, <1>d DEF BeginClosing
<1>7. ASSUME NEW c \in Conns, ReadOn(c) PROVE DanglingInv'
  <2>1. /\ Serving(c) /\ Served(c) /\ out' = out
        /\ UNCHANGED <<members, member, sockets, req>>
    BY <1>7 DEF ReadOn, Served, channelVars
  <2>2. HeldOnce' /\ ReadWritten' /\ ClosedBehind'
    BY <2>1, ServedConnections
  <2>3. /\ Held' = Held
        /\ \A d \in Conns : read'[d] >= read[d] /\ read'[d] \in Nat
    BY <2>1, <1>a, <1>b DEF Served, Recv, Held, ReadWritten
  <2>4. NoDanglingWait'
    BY <2>1, <2>3, <1>c, StillParked
  <2> QED BY <2>2, <2>4 DEF DanglingInv
<1>8. ASSUME NEW c \in Conns, Handle(c) PROVE DanglingInv'
  BY <1>8, HandleDangling
(* A step that erases a member leaves nobody parked.                       *)
<1>f. ASSUME NEW k \in DOMAIN members, EraseMember(k),
             UNCHANGED <<remote, backlog, req, wrote, read, pc, sockets, ready>>
      PROVE  DanglingInv'
  <2>1. /\ \A m \in Members' : member'[m].waiting = NoConn
        /\ members' \in Seq(Ids)
        /\ \A d \in Conns : out'[d] # out[d] => read[d] >= Whole
    BY <1>f, EraseMemberUnparks
  <2>2. NoDanglingWait' /\ ClosedBehind'
    BY <2>1, ConnsAssumption DEF NoDanglingWait, ClosedBehind, Members
  <2>3. HeldOnce'
    BY <1>f, <1>b DEF HeldOnce, Held
  <2>4. ReadWritten'
    BY <1>f, <2>1, <1>g, <1>b DEF ReadWritten, Whole
  <2> QED BY <2>2, <2>3, <2>4 DEF DanglingInv
<1>9. ASSUME NEW c \in Conns, NEW k \in DOMAIN members, CloseFor(c, k)
      PROVE  DanglingInv'
  <2>0. UNCHANGED <<remote, backlog, req, wrote, read, pc, sockets, ready>>
    BY <1>9 DEF CloseFor
  <2>1. CASE ~member[members[k]].connected
    BY <1>9, <2>0, <2>1, <1>f DEF CloseFor
  <2>2. CASE member[members[k]].connected
    <3>1. /\ member' = [member EXCEPT ![members[k]] = OnClosing(@, c)]
          /\ UNCHANGED <<members, out>> /\ j' = k + 1
      BY <1>9, <2>2 DEF CloseFor
    <3>2. /\ members[k] \in Ids /\ k \in Nat
          /\ member'[members[k]] = OnClosing(member[members[k]], c)
      BY <3>1, <1>a
    <3>3. \A m \in Ids : /\ member'[m].waiting \in {member[m].waiting, NoConn}
                         /\ member[m].waiting # c => member'[m].waiting # c
      BY <3>1, <3>2, <1>a, ConnsAssumption DEF OnClosing
    <3>4. member'[members[k]].waiting # c
      BY <3>2, ConnsAssumption DEF OnClosing
    <3>5. HeldOnce' /\ ReadWritten'
      BY <2>0, <3>1, <1>b DEF HeldOnce, ReadWritten, Held
    <3>6. NoDanglingWait'
      <4>1. \A m \in Members, d \in Conns : member[m].waiting = d =>
              /\ d \in Held' /\ req'[d] = req[d] /\ read'[d] >= read[d]
              /\ out'[d] \in {out[d], <<>>} /\ read'[d] \in Nat
        BY <2>0, <3>1, <1>g, <1>c DEF Held
      <4>2. \A m \in Members : m \in Ids
        BY <1>a, MembersAreIds
      <4> QED BY <3>1, <3>3, <4>1, <4>2, StillParked
    <3>7. ClosedBehind'
      <4> SUFFICES ASSUME NEW d \in Conns, NEW n \in DOMAIN sockets, At(d, n),
                          NEW h \in DOMAIN members, h < k + 1
                   PROVE  member'[members[h]].waiting # d
        BY <2>0, <3>1 DEF ClosedBehind, At
      <4>1. d = c
        BY <1>9, AtOne DEF CloseFor
      <4>2. h \in Nat /\ members[h] \in Ids
        BY <1>a
      <4>3. CASE h < j
        BY <1>9, <4>1, <4>2, <4>3, <1>b, <3>3 DEF CloseFor, ClosedBehind
      <4>4. CASE ~(h < j) /\ h # k
        <5>1. h \in j .. k - 1
          BY <4>2, <4>4, <3>2, <1>g
        <5> QED BY <1>9, <4>1, <4>2, <5>1, <3>3 DEF CloseFor, Affected
      <4>5. CASE h = k
        BY <4>1, <4>5, <3>4
      <4> QED BY <4>3, <4>4, <4>5
    <3> QED BY <3>5, <3>6, <3>7 DEF DanglingInv
  <2> QED BY <2>1, <2>2
<1>10. ASSUME NEW c \in Conns, NEW n \in DOMAIN sockets, DeleteSocket(c, n)
       PROVE  DanglingInv'
  <2>1. /\ sockets' = RemoveAt(sockets, n) /\ c = sockets[n] /\ pc' = "serve"
        /\ CloseSockets({c}, read, out) /\ UNCHANGED <<members, member>>
    BY <1>10 DEF DeleteSocket, At, channelVars
  <2>2. /\ backlog' = backlog \ {c} /\ wrote'[c] = 0 /\ read'[c] = 0
        /\ out'[c] = <<>>
        /\ \A d \in Conns \ {c} :
             /\ remote'[d] = remote[d] /\ req'[d] = req[d] /\ out'[d] = out[d]
             /\ wrote'[d] = wrote[d] /\ read'[d] = read[d]
    BY <2>1 DEF CloseSockets
  <2>3. /\ \A k, h \in DOMAIN sockets' : sockets'[k] = sockets'[h] => k = h
        /\ Held' = Held \ {c}
    <3>1. n \in 1 .. Len(sockets)
      BY <1>a
    <3>2. sockets \in Seq(Conns) /\ Once(sockets)
      BY <1>a, <1>b DEF HeldOnce, Once
    <3>3. /\ Once(RemoveAt(sockets, n))
          /\ Elements(RemoveAt(sockets, n)) = Elements(sockets) \ {sockets[n]}
      BY <3>1, <3>2, RemoveOnce
    <3>4. Once(sockets') /\ Elements(sockets') = Elements(sockets) \ {c}
      BY <2>1, <3>3
    <3> QED BY <3>4 DEF Once, Elements, Held
  <2>4. HeldOnce'
    BY <2>2, <2>3, <1>a, <1>b, HeldAreConns DEF HeldOnce
  <2>5. ReadWritten'
    BY <2>2, <1>b DEF ReadWritten
  <2>6. NoDanglingWait'
    <3>1. \A m \in Members, d \in Conns : member[m].waiting = d =>
            /\ d \in Held' /\ req'[d] = req[d] /\ read'[d] >= read[d]
            /\ out'[d] \in {out[d], <<>>} /\ read'[d] \in Nat
      BY <1>10, <2>2, <2>3, <1>g, <1>c, DeletedUnparked
    <3> QED BY <2>1, <3>1, StillParked
  <2>7. ClosedBehind'
    BY <2>1 DEF ClosedBehind
  <2> QED BY <2>4, <2>5, <2>6, <2>7 DEF DanglingInv
<1>11. ASSUME NEW k \in DOMAIN members, CheckForTimeout(k) PROVE DanglingInv'
  BY <1>11, <1>f DEF CheckForTimeout
<1>12. ASSUME NEW c \in Conns, Accept(c) PROVE DanglingInv'
  <2>1. /\ c \in backlog /\ pc' # "closing" /\ UNCHANGED <<members, member>>
    BY <1>12 DEF Accept, NextRound, channelVars
  <2>2. c \notin Held /\ remote[c] # "none"
    BY <2>1, <1>b DEF HeldOnce
  <2>3. ClosedBehind'
    BY <2>1 DEF ClosedBehind
  <2>4. CASE Len(sockets) >= MaxConnections
    <3>1. CloseSockets({c}, read, out) /\ sockets' = sockets
      BY <1>12, <2>4 DEF Accept
    <3>2. /\ backlog' = backlog \ {c} /\ Held' = Held
          /\ wrote'[c] = 0 /\ read'[c] = 0 /\ out'[c] = <<>>
          /\ \A d \in Conns \ {c} :
               /\ remote'[d] = remote[d] /\ req'[d] = req[d] /\ out'[d] = out[d]
               /\ wrote'[d] = wrote[d] /\ read'[d] = read[d]
      BY <3>1 DEF CloseSockets, Held
    <3>3. HeldOnce'
      BY <3>1, <3>2, <2>2, <1>a, <1>b, HeldAreConns DEF HeldOnce
    <3>4. ReadWritten'
      BY <3>2, <1>b DEF ReadWritten
    <3>5. NoDanglingWait'
      <4>1. \A m \in Members, d \in Conns : member[m].waiting = d =>
              /\ d \in Held' /\ req'[d] = req[d] /\ read'[d] >= read[d]
              /\ out'[d] \in {out[d], <<>>} /\ read'[d] \in Nat
        BY <2>2, <3>2, <1>g, <1>c
      <4> QED BY <2>1, <4>1, StillParked
    <3> QED BY <2>3, <3>3, <3>4, <3>5 DEF DanglingInv
  <2>5. CASE ~(Len(sockets) >= MaxConnections)
    <3>1. /\ sockets' = Append(sockets, c) /\ backlog' = backlog \ {c}
          /\ UNCHANGED <<remote, req, wrote, read, out>>
      BY <1>12, <2>5 DEF Accept
    <3>2. /\ Held' = Held \cup {c}
          /\ \A k, n \in DOMAIN sockets' : sockets'[k] = sockets'[n] => k = n
      <4>1. /\ DOMAIN sockets = 1 .. Len(sockets) /\ Len(sockets) \in Nat
            /\ DOMAIN sockets' = 1 .. Len(sockets) + 1
            /\ \A k \in 1 .. Len(sockets) : sockets'[k] = sockets[k]
            /\ sockets'[Len(sockets) + 1] = c
        BY <3>1, <1>a
      <4>2. \A k \in DOMAIN sockets : sockets[k] # c
        BY <2>2 DEF Held
      <4>3. \A k, n \in DOMAIN sockets' : sockets'[k] = sockets'[n] => k = n
        BY <4>1, <4>2, <1>b DEF HeldOnce
      <4>4. Held' = Held \cup {c}
        BY <4>1 DEF Held
      <4> QED BY <4>3, <4>4
    <3>3. HeldOnce'
      BY <3>1, <3>2, <2>2, <1>b DEF HeldOnce
    <3>4. NoDanglingWait' /\ ReadWritten'
      BY <3>1, <3>2, <2>1, <1>b DEF NoDanglingWait, ReadWritten, Members, Polling
    <3> QED BY <2>3, <3>3, <3>4 DEF DanglingInv
  <2> QED BY <2>4, <2>5
<1>13. CASE Leave
  <2>1. /\ members' = <<>> /\ sockets' = <<>> /\ pc' = "halted"
        /\ CloseSockets(Conns, read, out)
    BY <1>13 DEF Leave, CloseAll
  <2>2. DOMAIN members' = {} /\ DOMAIN sockets' = {}
    <3>1. /\ Len(members') = 0 /\ members' \in Seq(Ids)
          /\ Len(sockets') = 0 /\ sockets' \in Seq(Conns)
      BY <2>1
    <3> QED BY <3>1
  <2>3. Members' = {} /\ Held' = {} /\ backlog' = {}
    BY <2>1, <2>2, <1>a DEF Members, Held, CloseSockets
  <2>4. ReadWritten'
    BY <2>1 DEF CloseSockets, ReadWritten
  <2> QED BY <2>1, <2>2, <2>3, <2>4 DEF DanglingInv, NoDanglingWait, HeldOnce, ClosedBehind
<1>14. CASE UNCHANGED vars
  <2>1. UNCHANGED <<socketVars, channelVars, loopVars>>
    BY <1>14 DEF vars
  <2>2. ClosedBehind' /\ Held' = Held
    BY <2>1, <1>e DEF channelVars
  <2>3. NoDanglingWait' /\ HeldOnce' /\ ReadWritten'
    BY <2>1, <2>2, <1>b DEF socketVars, channelVars, loopVars, NoDanglingWait,
                            HeldOnce, ReadWritten, Members, Polling
  <2> QED BY <2>2, <2>3 DEF DanglingInv
<1>15. CASE ServerStep
  BY <1>15, <1>5, <1>6, <1>7, <1>8, <1>9, <1>10, <1>11, <1>12, <1>13
     DEF ServerStep, Serve, Close
<1>16. CASE Environment
  BY <1>16, <1>1, <1>2, <1>3, <1>4 DEF Environment
<1> QED BY <1>14, <1>15, <1>16 DEF Next, Stopped

LEMMA DanglingInit == Init => DanglingInv
<1> SUFFICES ASSUME Init PROVE DanglingInv
  OBVIOUS
<1>1. DOMAIN members = {} /\ DOMAIN sockets = {}
  <2>1. /\ Len(members) = 0 /\ members \in Seq(Ids)
        /\ Len(sockets) = 0 /\ sockets \in Seq(Conns)
    BY DEF Init, ChannelInit
  <2> QED BY <2>1
<1>2. Members = {} /\ Held = {} /\ backlog = {} /\ pc = "select"
  BY <1>1 DEF Members, Held, Init, SocketInit
<1>3. ReadWritten
  BY DEF Init, SocketInit, ReadWritten
<1> QED BY <1>1, <1>2, <1>3 DEF DanglingInv, NoDanglingWait, HeldOnce, ClosedBehind

(* A parked poll always designates a connection that the loop still holds, *)
(* its member's own unanswered GET: OnClosing reaches every member that    *)
(* waits on a closing socket although its loop passes over members.        *)
THEOREM NoDangling == Spec => []NoDanglingWait
<1>1. Init => MailboxInv
  BY NoMemberOrderly DEF Init, ChannelInit, MailboxInv
<1>2. DanglingInv => NoDanglingWait
  BY DEF DanglingInv
<1> QED BY <1>1, <1>2, DanglingInit, TypeInit, TypeStep, MailboxStep, DanglingStep, PTL
        DEF Spec
=============================================================================
