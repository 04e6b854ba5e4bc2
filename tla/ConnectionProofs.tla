-------------------------- MODULE ConnectionProofs --------------------------
(***************************************************************************)
(* What a step of the server or of its clients does to one connection, and *)
(* from it: how often a connection is answered, and that the poll of a     *)
(* client that keeps one poll at a time is never forgotten.                *)
(***************************************************************************)
EXTENDS PresenceProofs

-----------------------------------------------------------------------------
(* The things that can happen to a connection in one step.                 *)

Same(c) ==
  /\ remote'[c] = remote[c] /\ req'[c] = req[c] /\ wrote'[c] = wrote[c]
  /\ read'[c] = read[c] /\ out'[c] = out[c]

Opened(c) ==
  /\ remote[c] = "none" /\ remote'[c] = "up"
  /\ req'[c] = req[c] /\ wrote'[c] = wrote[c]
  /\ read'[c] = read[c] /\ out'[c] = out[c]

Written(c) ==
  /\ remote[c] = "up" /\ wrote'[c] \in Nat \ {0} /\ wrote'[c] > wrote[c]
  /\ IF wrote[c] = 0 THEN req'[c] \in Requests /\ Allowed(req'[c])
                     ELSE req'[c] = req[c]
  /\ remote'[c] = remote[c] /\ read'[c] = read[c] /\ out'[c] = out[c]
  /\ \A d \in Conns \ {c} : Same(d)

HungUp(c) ==
  /\ remote[c] = "up" /\ remote'[c] = "gone" /\ out'[c] = <<>>
  /\ req'[c] = req[c] /\ wrote'[c] = wrote[c] /\ read'[c] = read[c]

Closed(c) ==
  /\ remote'[c] = "none" /\ req'[c] = NoRequest /\ wrote'[c] = 0
  /\ read'[c] = 0 /\ out'[c] = <<>>

(* c is sent one response more, if the client is still there to get it.    *)
SentOne(c) ==
  IF remote[c] = "up" THEN \E x \in Response : out'[c] = Append(out[c], x)
                      ELSE out'[c] = out[c]

(* A response addressed to m is sent on its parked poll.                   *)
Delivered(c, m) ==
  /\ member[m].waiting = c
  /\ SentOne(c)
  /\ remote'[c] = remote[c] /\ req'[c] = req[c] /\ wrote'[c] = wrote[c]
  /\ read'[c] = read[c]

(* The server reads all of c and answers its request, parks it (a poll of  *)
(* a member), or finds no request in it.                                   *)
ReadAll(c) ==
  /\ c \in Held /\ Serving(c) /\ ~AtEof(c) /\ c \notin ready'
  /\ remote'[c] = remote[c] /\ req'[c] = req[c] /\ wrote'[c] = wrote[c]
  /\ read'[c] = wrote[c]

Answered(c) == ReadAll(c) /\ RequestComplete(c) /\ SentOne(c)

Parked(c) ==
  /\ ReadAll(c) /\ RequestComplete(c)
  /\ req[c].path = "/wait" /\ req[c].peer \in Members
  /\ member'[req[c].peer].waiting = c
  /\ out'[c] = out[c]

Swallowed(c) == ReadAll(c) /\ ~RequestComplete(c) /\ out'[c] = out[c]

ConnectionStep(c) ==
  \/ Same(c) \/ Opened(c) \/ Written(c) \/ HungUp(c) \/ Closed(c)
  \/ \E m \in Members : Delivered(c, m)
  \/ Answered(c) \/ Parked(c) \/ Swallowed(c)

(* A Send on c is one response more.                                       *)
LEMMA SendOne ==
  ASSUME TypeInv, NEW c \in Conns, NEW sent \in [Conns -> Seq(Response)],
         NEW x \in Response, sent[c] = out[c], out'[c] = Send(sent, c, x)[c]
  PROVE  SentOne(c)
BY DEF Send, SentOne

(* A broadcast reaches the parked polls of its recipients and nothing else.*)
LEMMA SentToDelivers ==
  ASSUME TypeInv, NEW item, Items(item), DOMAIN item \subseteq Members,
         NEW c \in Conns, out'[c] = SentTo(item)[c],
         remote'[c] = remote[c], req'[c] = req[c], wrote'[c] = wrote[c],
         read'[c] = read[c]
  PROVE  Same(c) \/ \E m \in Members : Delivered(c, m)
<1>1. CASE \A m \in DOMAIN item : member[m].waiting # c
  <2>1. SentTo(item)[c] = out[c]
    BY <1>1 DEF SentTo
  <2> QED BY <2>1 DEF Same
<1>2. ASSUME NEW m \in DOMAIN item, member[m].waiting = c
      PROVE  Delivered(c, m)
  <2> DEFINE n == CHOOSE n \in DOMAIN item : member[n].waiting = c
  <2>1. n \in DOMAIN item
    BY <1>2
  <2>2. item[n] \in Response
    BY <2>1 DEF Items
  <2>3. SentTo(item)[c] = IF remote[c] = "up" THEN Append(out[c], item[n]) ELSE out[c]
    BY <1>2 DEF SentTo
  <2> HIDE DEF n
  <2> QED BY <1>2, <2>2, <2>3 DEF Delivered, SentOne
<1> QED BY <1>1, <1>2

(* What the handler of c does to c and to the other connections.           *)
LEMMA ServedSteps ==
  ASSUME TypeInv, NEW c \in Conns, Requested(c), Served(c)
  PROVE  /\ ReadAll(c) /\ RequestComplete(c)
         /\ \A d \in Conns \ {c} :
              /\ remote'[d] = remote[d] /\ req'[d] = req[d]
              /\ wrote'[d] = wrote[d] /\ read'[d] = read[d]
<1>1. read' = [read EXCEPT ![c] = wrote[c]] /\ read \in [Conns -> Nat]
  BY DEF Served, Recv, TypeInv, TypeOK, SocketTypeOK
<1>2. c \in Held
  BY DEF Requested, Serving, At, Held
<1> QED BY <1>1, <1>2 DEF Requested, Served, ReadAll

LEMMA HandleConnection ==
  ASSUME TypeInv, DanglingInv, MailboxInv, NEW c \in Conns, Handle(c),
         NEW d \in Conns
  PROVE  ConnectionStep(d)
<1> SUFFICES ASSUME Requested(c) PROVE ConnectionStep(d)
  BY DEF Handle, HandleWait, HandleSignIn, HandleOrphan, HandleForward,
         HandleUntargeted, HandleBrowserRequest, HandleQuit
<1> DEFINE m == Lookup(req[c])
<1>a. /\ SocketTypeOK /\ ChannelTypeOK
      /\ member \in [Ids -> ChannelMember] /\ out \in [Conns -> Seq(Response)]
      /\ read \in [Conns -> Nat] /\ wrote \in [Conns -> Nat]
      /\ lastId \in Nat
  BY ChannelAssumption DEF TypeInv, TypeOK, ChannelTypeOK, SocketTypeOK
<1>b. m # 0 => m \in Members /\ m \in Ids /\ m = req[c].peer
  BY <1>a, LookupType DEF Lookup
<1>c. \A p \in Members : member[p].waiting # c
  BY RequestNotParked
<1>d. /\ Reply("200 OK", "") \in Response
      /\ Reply("500 Error", "Peer most likely gone.") \in Response
      /\ Reply("500 Sorry", "Sorry, not yet implemented") \in Response
      /\ Reply("200 OK", "Quitting...") \in Response
      /\ Reply("200 OK", "Server shutting down") \in Response
  BY ReplyType DEF Statuses, Texts
(* Nothing is parked on c: a broadcast leaves it alone.                    *)
<1>e. ASSUME NEW item, DOMAIN item \subseteq Members
      PROVE  SentTo(item)[c] = out[c]
  BY <1>e, <1>c DEF SentTo
(* An answer on c alone.                                                   *)
<1>f. ASSUME Served(c), NEW x \in Response, out' = Send(out, c, x)
      PROVE  ConnectionStep(d)
  <2>1. CASE d = c
    <3>1. Answered(c)
      BY <1>f, <1>a, ServedSteps, SendOne DEF Answered
    <3> QED BY <2>1, <3>1 DEF ConnectionStep
  <2>2. CASE d # c
    <3>1. out'[d] = out[d]
      BY <1>f, <2>2, SendElsewhere
    <3> QED BY <1>f, <2>2, <3>1, ServedSteps DEF Same, ConnectionStep
  <2> QED BY <2>1, <2>2
(* A broadcast, and an answer on c.                                        *)
<1>g. ASSUME Served(c), NEW item, Items(item), DOMAIN item \subseteq Members,
             NEW x \in Response, out' = Send(SentTo(item), c, x)
      PROVE  ConnectionStep(d)
  <2>0. SentTo(item) \in [Conns -> Seq(Response)]
    BY <1>g, <1>a, SentToType
  <2>1. CASE d = c
    <3>1. Answered(c)
      BY <1>e, <1>g, <2>0, ServedSteps, SendOne DEF Answered
    <3> QED BY <2>1, <3>1 DEF ConnectionStep
  <2>2. CASE d # c
    <3>1. out'[d] = SentTo(item)[d]
      BY <1>g, <2>2, SendElsewhere
    <3>2. /\ remote'[d] = remote[d] /\ req'[d] = req[d]
          /\ wrote'[d] = wrote[d] /\ read'[d] = read[d]
      BY <1>g, <2>2, ServedSteps
    <3> QED BY <1>g, <3>1, <3>2, SentToDelivers DEF ConnectionStep
  <2> QED BY <2>1, <2>2
<1>1. CASE HandleWait(c)
  <2>1. /\ m \in Members /\ m \in Ids /\ m = req[c].peer /\ Served(c)
        /\ member' = [member EXCEPT ![m] = SetWaitingSocket(@, c)]
        /\ req[c].path = "/wait"
    BY <1>1, <1>b DEF HandleWait, LookedUp
  <2>2. CASE member[m].queue # <<>>
    <3>1. Head(member[m].queue) \in Response
      <4>1. member[m].queue \in Seq(Response)
        BY <2>1, <1>a DEF ChannelMember
      <4> QED BY <2>2, <4>1
    <3>2. out' = Send(out, c, Head(member[m].queue))
      BY <1>1, <2>2 DEF HandleWait
    <3> QED BY <2>1, <3>1, <3>2, <1>f
  <2>3. CASE member[m].queue = <<>>
    <3>1. out' = out
      BY <1>1, <2>3 DEF HandleWait
    <3>2. member'[m].waiting = c
      <4>1. member[m] \in ChannelMember /\ member'[m] = [member[m] EXCEPT !.waiting = c]
        BY <2>1, <2>3, <1>a DEF SetWaitingSocket
      <4> QED BY <4>1 DEF ChannelMember
    <3>3. CASE d = c
      <4>1. Parked(c)
        BY <2>1, <3>1, <3>2, ServedSteps DEF Parked
      <4> QED BY <3>3, <4>1 DEF ConnectionStep
    <3>4. CASE d # c
      BY <2>1, <3>1, <3>4, ServedSteps DEF Same, ConnectionStep
    <3> QED BY <3>3, <3>4
  <2> QED BY <2>2, <2>3
<1>2. CASE HandleSignIn(c)
  <2> DEFINE item == BroadcastChangedState(lastId + 1, TRUE)
             added == BuildResponseForNewMember(lastId + 1)
  <2>1. Items(item) /\ DOMAIN item \subseteq Members
    <3>1. DOMAIN item \subseteq Members
      BY DEF BroadcastChangedState
    <3>2. lastId + 1 \in Nat
      BY <1>a
    <3>3. Items(item)
      BY <1>a, <3>2, BroadcastType
    <3> QED BY <3>1, <3>3
  <2>2. added \in Response
    BY <1>a, RosterType
  <2>3. Served(c) /\ out' = Send(SentTo(item), c, added)
    BY <1>2 DEF HandleSignIn, AddMember
  <2> HIDE DEF item, added
  <2> QED BY <2>1, <2>2, <2>3, <1>g
<1>3. CASE HandleOrphan(c)
  BY <1>3, <1>d, <1>f DEF HandleOrphan
<1>4. CASE HandleForward(c)
  <2> DEFINE peer == IsTargetedRequest(req[c])
             mail == Mail(m, req[c].body)
             item == [p \in {peer} |-> mail]
  <2>1. /\ m \in Ids /\ m \in Nat /\ Served(c) /\ peer \in Members /\ peer \in Ids
    <3>1. m \in Ids /\ Served(c) /\ peer \in Members /\ peer \in Ids
      BY <1>4, <1>a, <1>b, LookupType DEF HandleForward
    <3> QED BY <3>1, ChannelAssumption DEF Ids
  <2>2. mail \in Response
    BY <2>1, MailType, RequestedType
  <2>3. CASE peer = m
    <3>1. out' = Send(out, c, mail)
      BY <1>4, <2>3 DEF HandleForward
    <3> HIDE DEF mail
    <3> QED BY <2>1, <2>2, <3>1, <1>f
  <2>4. CASE peer # m
    <3>1. out' = Send(SentTo(item), c, Reply("200 OK", ""))
      BY <1>4, <2>4 DEF HandleForward
    <3>2. Items(item) /\ DOMAIN item \subseteq Members
      <4> HIDE DEF mail
      <4> QED BY <2>1, <2>2 DEF Items
    <3> HIDE DEF item
    <3> QED BY <2>1, <3>1, <3>2, <1>d, <1>g
  <2> QED BY <2>3, <2>4
<1>5. CASE HandleUntargeted(c)
  BY <1>5, <1>d, <1>f DEF HandleUntargeted
<1>6. CASE HandleBrowserRequest(c)
  BY <1>6, <1>d, <1>f DEF HandleBrowserRequest
<1>7. CASE HandleQuit(c)
  <2> DEFINE sent == Send(SentTo(ShuttingDown), c, Reply("200 OK", "Quitting..."))
             reads == [read EXCEPT ![c] = wrote[c]]
  <2>1. /\ CloseSockets(backlog, reads, sent) /\ ready' = ready \ {c, Listener}
    BY <1>7 DEF HandleQuit
  <2>2. Items(ShuttingDown) /\ DOMAIN ShuttingDown \subseteq Members
    BY <1>a, <1>d, MembersAreIds DEF Items, ShuttingDown
  <2>3. c \in Held /\ c \notin backlog
    <3>1. c \in Held
      BY DEF Requested, Serving, At, Held
    <3> QED BY <3>1 DEF DanglingInv, HeldOnce
  <2> HIDE DEF sent, reads
  <2>4. CASE d \in backlog
    BY <2>1, <2>4 DEF CloseSockets, Closed, ConnectionStep
  <2>5. CASE d \notin backlog
    <3>1. /\ remote'[d] = remote[d] /\ req'[d] = req[d] /\ wrote'[d] = wrote[d]
          /\ read'[d] = reads[d] /\ out'[d] = sent[d]
      BY <2>1, <2>5 DEF CloseSockets
    <3>2. CASE d = c
      <4>1. read'[c] = wrote[c]
        BY <3>1, <3>2, <1>a DEF reads
      <4>2. SentOne(c)
        BY <3>1, <3>2, <2>2, <1>a, <1>d, <1>e, SentToType, SendOne DEF sent
      <4>3. Answered(c)
        BY <2>1, <2>3, <3>1, <3>2, <4>1, <4>2 DEF Answered, ReadAll, Requested
      <4> QED BY <3>2, <4>3 DEF ConnectionStep
    <3>3. CASE d # c
      <4>1. read'[d] = read[d]
        BY <3>1, <3>3, <1>a DEF reads
      <4>2. out'[d] = SentTo(ShuttingDown)[d]
        <5>1. sent[d] = SentTo(ShuttingDown)[d]
          BY <3>3, SendElsewhere DEF sent
        <5> QED BY <3>1, <5>1
      <4> QED BY <2>2, <3>1, <4>1, <4>2, SentToDelivers DEF ConnectionStep
    <3> QED BY <3>2, <3>3
  <2> QED BY <2>4, <2>5
<1> QED BY <1>1, <1>2, <1>3, <1>4, <1>5, <1>6, <1>7 DEF Handle
LEMMA NextConnection ==
  ASSUME TypeInv, DanglingInv, MailboxInv, [Next]_vars, NEW d \in Conns
  PROVE  ConnectionStep(d)
<1>a. /\ SocketTypeOK /\ ChannelTypeOK /\ remote \in [Conns -> {"none", "up", "gone"}]
      /\ read \in [Conns -> Nat] /\ wrote \in [Conns -> Nat]
      /\ out \in [Conns -> Seq(Response)] /\ req \in [Conns -> Requests \cup {NoRequest}]
  BY DEF TypeInv, TypeOK, SocketTypeOK
<1>b. UNCHANGED socketVars => ConnectionStep(d)
  BY DEF socketVars, Same, ConnectionStep
<1>1. ASSUME NEW c \in Conns, ClientConnects(c) PROVE ConnectionStep(d)
  <2>1. Connect(c)
    BY <1>1 DEF ClientConnects
  <2> QED BY <2>1, <1>a DEF Connect, Opened, Same, ConnectionStep
<1>2. ASSUME NEW c \in Conns, ClientWrites(c) PROVE ConnectionStep(d)
  <2>1. ASSUME NEW r \in Requests, NEW n \in Levels, Allowed(r), Write(c, r, n)
        PROVE  ConnectionStep(d)
    <3>1. n \in Nat \ {0}
      BY ConnsAssumption DEF Part, Whole
    <3>2. CASE d = c
      <4>1. \A e \in Conns \ {c} : Same(e)
        BY <2>1, <1>a DEF Write, Same
      <4>2. req'[c] = r /\ Allowed(r)
        BY <2>1, <1>a DEF Write
      <4>3. Written(c)
        BY <2>1, <3>1, <4>1, <4>2, <1>a DEF Write, Written
      <4> QED BY <3>2, <4>3 DEF ConnectionStep
    <3>3. CASE d # c
      BY <2>1, <3>3, <1>a DEF Write, Same, ConnectionStep
    <3> QED BY <3>2, <3>3
  <2>2. ASSUME NEW n \in Levels, WriteMore(c, n) PROVE ConnectionStep(d)
    <3>1. n \in Nat \ {0}
      BY ConnsAssumption DEF Part, Whole
    <3>2. CASE d = c
      <4>1. \A e \in Conns \ {c} : Same(e)
        BY <2>2, <1>a DEF WriteMore, Same
      <4>2. Written(c)
        BY <2>2, <3>1, <4>1, <1>a DEF WriteMore, Written
      <4> QED BY <3>2, <4>2 DEF ConnectionStep
    <3>3. CASE d # c
      BY <2>2, <3>3, <1>a DEF WriteMore, Same, ConnectionStep
    <3> QED BY <3>2, <3>3
  <2> QED BY <1>2, <2>1, <2>2 DEF ClientWrites
<1>3. ASSUME NEW c \in Conns, ClientHangsUp(c) PROVE ConnectionStep(d)
  <2>1. Hangup(c)
    BY <1>3 DEF ClientHangsUp
  <2> QED BY <2>1, <1>a DEF Hangup, HungUp, Same, ConnectionStep
<1>4. ASSUME NEW c \in Conns, ReadOn(c) PROVE ConnectionStep(d)
  <2>1. /\ Serving(c) /\ ~AtEof(c) /\ ~RequestComplete(c) /\ Served(c) /\ out' = out
    BY <1>4 DEF ReadOn
  <2>2. read' = [read EXCEPT ![c] = wrote[c]] /\ c \in Held
    BY <2>1 DEF Served, Recv, Serving, At, Held
  <2>3. CASE d = c
    <3>1. Swallowed(c)
      BY <2>1, <2>2, <1>a DEF Swallowed, ReadAll, Served
    <3> QED BY <2>3, <3>1 DEF ConnectionStep
  <2>4. CASE d # c
    BY <2>1, <2>2, <2>4, <1>a DEF Served, Same, ConnectionStep
  <2> QED BY <2>3, <2>4
<1>5. ASSUME NEW c \in Conns, Handle(c) PROVE ConnectionStep(d)
  BY <1>5, HandleConnection
(* The others are told that a member is gone.                              *)
<1>c. ASSUME NEW k \in DOMAIN members, EraseMember(k),
             UNCHANGED <<remote, req, wrote, read>>
      PROVE  ConnectionStep(d)
  <2> DEFINE item == BroadcastChangedState(members[k], FALSE)
  <2>1. members[k] \in Nat
    BY <1>a, ChannelAssumption DEF ChannelTypeOK
  <2>2. Items(item)
    BY <2>1, <1>a, BroadcastType
  <2>3. DOMAIN item \subseteq Members
    BY DEF BroadcastChangedState
  <2>4. out' = SentTo(item)
    BY <1>c DEF EraseMember
  <2> HIDE DEF item
  <2> QED BY <1>c, <2>2, <2>3, <2>4, SentToDelivers DEF ConnectionStep
<1>6. ASSUME NEW c \in Conns, NEW k \in DOMAIN members, CloseFor(c, k)
      PROVE  ConnectionStep(d)
  <2>1. CASE member[members[k]].connected
    BY <1>6, <2>1 DEF CloseFor, Same, ConnectionStep
  <2>2. CASE ~member[members[k]].connected
    BY <1>6, <2>2, <1>c DEF CloseFor
  <2> QED BY <2>1, <2>2
<1>7. ASSUME NEW k \in DOMAIN members, CheckForTimeout(k) PROVE ConnectionStep(d)
  BY <1>7, <1>c DEF CheckForTimeout
(* Descriptors are closed.                                                 *)
<1>d. ASSUME NEW S \in SUBSET Conns, CloseSockets(S, read, out)
      PROVE  ConnectionStep(d)
  <2>1. CASE d \in S
    BY <1>d, <2>1 DEF CloseSockets, Closed, ConnectionStep
  <2>2. CASE d \notin S
    BY <1>d, <2>2 DEF CloseSockets, Same, ConnectionStep
  <2> QED BY <2>1, <2>2
<1>8. ASSUME NEW c \in Conns, NEW n \in DOMAIN sockets, DeleteSocket(c, n)
      PROVE  ConnectionStep(d)
  BY <1>8, <1>d DEF DeleteSocket
<1>9. ASSUME NEW c \in Conns, Accept(c) PROVE ConnectionStep(d)
  <2>1. CASE Len(sockets) >= MaxConnections
    BY <1>9, <2>1, <1>d DEF Accept
  <2>2. CASE ~(Len(sockets) >= MaxConnections)
    BY <1>9, <2>2 DEF Accept, Same, ConnectionStep
  <2> QED BY <2>1, <2>2
<1>10. CASE Leave
  BY <1>10, <1>d DEF Leave
<1>11. CASE \/ Select \/ SelectFails \/ EndServing \/ EndTimeouts
            \/ AcceptNothing \/ AcceptsNull \/ Tick
  BY <1>11, <1>b DEF Select, SelectFails, EndServing, EndTimeouts, AcceptNothing,
                     AcceptsNull, Tick
<1>12. ASSUME NEW c \in Conns, BeginClosing(c) PROVE ConnectionStep(d)
  BY <1>12, <1>b DEF BeginClosing
<1>13. CASE UNCHANGED vars
  BY <1>13, <1>b DEF vars
<1>14. CASE ServerStep
  BY <1>14, <1>4, <1>5, <1>6, <1>7, <1>8, <1>9, <1>10, <1>11, <1>12
     DEF ServerStep, Serve, Close
<1>15. CASE Environment
  BY <1>15, <1>1, <1>2, <1>3, <1>11 DEF Environment
<1> QED BY <1>13, <1>14, <1>15 DEF Next, Stopped

-----------------------------------------------------------------------------
(* The round only serves what select reported, and only bytes or an end of *)
(* file are reported; a socket is closed only at its end of file.          *)

ReadyInv ==
  /\ \A c \in Held : c \in ready => Readable(c)
  /\ pc = "closing" => \A c \in Held, n \in DOMAIN sockets :
                         At(c, n) => remote[c] = "gone"

LEMMA ReadyStep ==
  ASSUME TypeInv, DanglingInv, MailboxInv, ReadyInv, [Next]_vars
  PROVE  ReadyInv'
<1>a. /\ SocketTypeOK /\ sockets \in Seq(Conns) /\ Held \subseteq Conns
      /\ read \in [Conns -> Nat] /\ wrote \in [Conns -> Nat]
  BY HeldAreConns DEF TypeInv, TypeOK, SocketTypeOK
<1>b. \A d \in Conns : ConnectionStep(d)
  BY NextConnection
(* What select reported stays so until the connection is read or closed.   *)
<1>c. ASSUME NEW d \in Held, Readable(d), read'[d] = read[d], remote'[d] # "none"
      PROVE  Readable(d)'
  <2>1. remote[d] # "none" /\ d \in Conns /\ read[d] \in Nat /\ wrote[d] \in Nat
    BY <1>a DEF DanglingInv, HeldOnce
  <2>2. ConnectionStep(d)
    BY <2>1, <1>b
  <2>3. /\ remote[d] = "gone" => remote'[d] = "gone"
        /\ wrote'[d] \in Nat /\ wrote'[d] >= wrote[d]
    BY <2>1, <2>2, <1>c DEF ConnectionStep, Same, Opened, Written, HungUp, Closed,
       Delivered, Answered, Parked, Swallowed, ReadAll
  <2> QED BY <2>1, <2>3, <1>c DEF Readable
(* Steps of the others, and of the loop while it tells the members.        *)
<1>d. ASSUME UNCHANGED <<pc, sockets, ready, read>>,
             \A d \in Held : remote'[d] = remote[d] \/ remote'[d] = "gone"
      PROVE  ReadyInv'
  <2>1. Held' = Held /\ \A d \in Held : remote'[d] # "none"
    BY <1>a, <1>d DEF Held, DanglingInv, HeldOnce
  <2>2. \A d \in Held : d \in ready => Readable(d)'
    BY <1>c, <1>d, <2>1 DEF ReadyInv
  <2>3. \A c, n : At(c, n)' => At(c, n)
    BY <1>d DEF At
  <2> QED BY <1>d, <2>1, <2>2, <2>3 DEF ReadyInv
(* Steps after which the round serves no connection it did not serve, and  *)
(* those it still serves are untouched.                                    *)
<1>e. ASSUME pc' # "closing", Held' \subseteq Held, ready' \subseteq ready,
             \A d \in Held' : d \in ready' => read'[d] = read[d] /\ remote'[d] # "none"
      PROVE  ReadyInv'
  <2>1. ASSUME NEW d \in Held', d \in ready' PROVE Readable(d)'
    BY <1>c, <1>e, <2>1 DEF ReadyInv
  <2> QED BY <1>e, <2>1 DEF ReadyInv
<1>1. ASSUME NEW c \in Conns, ClientConnects(c) \/ ClientWrites(c) \/ ClientHangsUp(c)
      PROVE  ReadyInv'
  <2>1. UNCHANGED <<pc, sockets, ready, read>>
    BY <1>1 DEF ClientConnects, ClientWrites, ClientHangsUp, loopVars, Connect,
                Write, WriteMore, Hangup
  <2>2. \A d \in Held : remote'[d] = remote[d] \/ remote'[d] = "gone"
    BY <1>1, <1>a DEF ClientConnects, ClientWrites, ClientHangsUp, Connect,
                      Write, WriteMore, Hangup, SocketTypeOK, DanglingInv, HeldOnce
  <2> QED BY <1>d, <2>1, <2>2
<1>2. CASE \/ Tick \/ UNCHANGED vars
  BY <1>2, <1>d DEF Tick, vars, socketVars, loopVars
<1>3. ASSUME NEW c \in Conns, NEW k \in DOMAIN members, CloseFor(c, k)
      PROVE  ReadyInv'
  BY <1>3, <1>d DEF CloseFor
<1>4. ASSUME NEW k \in DOMAIN members, CheckForTimeout(k) PROVE ReadyInv'
  BY <1>4, <1>d DEF CheckForTimeout
<1>5. CASE Select
  <2>1. /\ UNCHANGED <<socketVars, sockets>> /\ pc' = "serve"
        /\ ready' \subseteq {c \in Held : Readable(c)} \cup {Listener}
    BY <1>5 DEF Select
  <2>2. Held' = Held /\ Listener \notin Held
    BY <2>1, <1>a, ConnsAssumption DEF Held
  <2>3. \A c \in Held : Readable(c) => Readable(c)'
    BY <2>1 DEF Readable, socketVars
  <2> QED BY <2>1, <2>2, <2>3 DEF ReadyInv
<1>6. CASE SelectFails \/ EndServing \/ EndTimeouts
  <2>1. UNCHANGED <<socketVars, sockets, ready>> /\ pc' # "closing"
    BY <1>6 DEF SelectFails, EndServing, EndTimeouts
  <2>2. Held' = Held /\ \A d \in Held' : read'[d] = read[d] /\ remote'[d] # "none"
    BY <2>1 DEF Held, socketVars, DanglingInv, HeldOnce
  <2> QED BY <1>e, <2>1, <2>2
<1>7. ASSUME ready' = {}, pc' # "closing" PROVE ReadyInv'
  BY <1>7 DEF ReadyInv
<1>8. CASE AcceptNothing \/ AcceptsNull \/ Leave
  BY <1>7, <1>8 DEF AcceptNothing, AcceptsNull, Leave, NextRound
<1>9. ASSUME NEW c \in Conns, Accept(c) PROVE ReadyInv'
  BY <1>7, <1>9 DEF Accept, NextRound
<1>10. ASSUME NEW c \in Conns, BeginClosing(c) PROVE ReadyInv'
  <2>1. remote[c] = "gone" /\ UNCHANGED <<socketVars, sockets, ready>>
    BY <1>10 DEF BeginClosing, AtEof
  <2>2. PICK k \in DOMAIN sockets : At(c, k)
    BY <1>10 DEF BeginClosing, Serving
  <2>3. \A d, n : At(d, n) => d = c
    BY <2>2, AtOne
  <2>4. \A d, n : At(d, n)' => At(d, n)
    BY <2>1 DEF At
  <2>5. \A d \in Held' : d \in ready' => Readable(d)'
    BY <2>1 DEF ReadyInv, Held, Readable, socketVars
  <2> QED BY <2>1, <2>3, <2>4, <2>5 DEF ReadyInv, socketVars
<1>11. ASSUME NEW c \in Conns, ReadOn(c) \/ Handle(c) PROVE ReadyInv'
  <2>1. /\ Serving(c) /\ pc' = pc /\ sockets' = sockets
        /\ ready' \subseteq ready \ {c}
    BY <1>11 DEF ReadOn, Handle, HandleWait, HandleSignIn, HandleOrphan,
       HandleForward, HandleUntargeted, HandleBrowserRequest, HandleQuit,
       Requested, Served
  <2>2. pc = "serve" /\ Held' = Held
    BY <2>1 DEF Serving, Held
  <2>3. ASSUME NEW d \in Held, d # c
        PROVE  read'[d] = read[d] /\ remote'[d] # "none"
    <3>1. d \in Conns /\ remote[d] # "none" /\ d \notin backlog
      BY <1>a DEF DanglingInv, HeldOnce
    <3>2. CASE Served(c)
      BY <2>3, <3>1, <3>2, <1>a DEF Served, Recv
    <3>3. CASE HandleQuit(c)
      <4> DEFINE sent == Send(SentTo(ShuttingDown), c, Reply("200 OK", "Quitting..."))
                 reads == [read EXCEPT ![c] = wrote[c]]
      <4>1. CloseSockets(backlog, reads, sent)
        BY <3>3 DEF HandleQuit
      <4>2. reads[d] = read[d]
        BY <2>3, <3>1, <1>a
      <4> HIDE DEF sent, reads
      <4> QED BY <3>1, <4>1, <4>2 DEF CloseSockets
    <3> QED BY <1>11, <3>2, <3>3 DEF ReadOn, Handle, HandleWait, HandleSignIn,
         HandleOrphan, HandleForward, HandleUntargeted, HandleBrowserRequest
  <2> QED BY <1>e, <2>1, <2>2, <2>3
<1>12. ASSUME NEW c \in Conns, NEW n \in DOMAIN sockets, DeleteSocket(c, n)
       PROVE  ReadyInv'
  <2>1. /\ sockets' = RemoveAt(sockets, n) /\ c = sockets[n] /\ pc' # "closing"
        /\ CloseSockets({c}, read, out)
        /\ ready' = ready \ {sockets[k] : k \in DOMAIN sockets \cap {n, n + 1}}
    BY <1>12 DEF DeleteSocket, At
  <2>2. ready' \subseteq ready \ {c}
    <3>1. n \in DOMAIN sockets \cap {n, n + 1}
      OBVIOUS
    <3> QED BY <2>1, <3>1
  <2>3. Held' \subseteq Held
    <3>1. n \in 1 .. Len(sockets) /\ Once(sockets)
      BY <1>a DEF DanglingInv, HeldOnce, Once
    <3>2. Elements(RemoveAt(sockets, n)) = Elements(sockets) \ {sockets[n]}
      BY <3>1, <1>a, RemoveOnce
    <3> QED BY <2>1, <3>2 DEF Elements, Held
  <2>4. \A d \in Held \ {c} : read'[d] = read[d] /\ remote'[d] # "none"
    BY <2>1, <1>a DEF CloseSockets, DanglingInv, HeldOnce
  <2> QED BY <1>e, <2>1, <2>2, <2>3, <2>4
<1>13. CASE ServerStep
  BY <1>13, <1>3, <1>4, <1>5, <1>6, <1>8, <1>9, <1>10, <1>11, <1>12
     DEF ServerStep, Serve, Close
<1>14. CASE Environment
  BY <1>14, <1>1, <1>2 DEF Environment
<1> QED BY <1>2, <1>13, <1>14 DEF Next, Stopped

LEMMA ReadyInit == Init => ReadyInv
BY DEF Init, ReadyInv

(* What the loop reads is there to be read.                                *)
LEMMA ReadMore ==
  ASSUME TypeInv, DanglingInv, ReadyInv, NEW c \in Conns, ReadAll(c)
  PROVE  read[c] < wrote[c] /\ read[c] \in Nat /\ wrote[c] \in Nat
<1>1. read[c] \in Nat /\ wrote[c] \in Nat /\ read[c] <= wrote[c]
  BY DEF TypeInv, TypeOK, SocketTypeOK, DanglingInv, ReadWritten
<1>2. Readable(c) /\ ~AtEof(c)
  BY DEF ReadAll, Serving, At, ReadyInv
<1>3. read[c] # wrote[c]
  BY <1>1, <1>2 DEF Readable, AtEof
<1> QED BY <1>1, <1>3

-----------------------------------------------------------------------------
(* How often a connection is answered: each response on a POST belongs to  *)
(* one read of it, and there is one read for every segment at the most.    *)

LEMMA AnswerStep ==
  ASSUME TypeInv, DanglingInv, MailboxInv, ReadyInv, AnsweredOnce, [Next]_vars
  PROVE  AnsweredOnce'
<1> DEFINE Fine(c) == out[c] # <<>> => Len(out[c]) <= Occasions(c)
<1> SUFFICES ASSUME NEW c \in Conns PROVE Fine(c)'
  BY DEF AnsweredOnce
<1>a. /\ read[c] \in Nat /\ wrote[c] \in Nat /\ read[c] <= wrote[c]
      /\ out[c] \in Seq(Response) /\ (read[c] < Whole => out[c] = <<>>)
      /\ wrote[c] > 0 => req[c] \in Requests
  BY DEF TypeInv, TypeOK, SocketTypeOK, RequestsWritten, DanglingInv, ReadWritten
<1>b. Fine(c) /\ ConnectionStep(c)
  BY NextConnection DEF AnsweredOnce
<1>c. SentOne(c) => Len(out'[c]) <= Len(out[c]) + 1
  BY <1>a DEF SentOne
<1>d. out'[c] = <<>> => Fine(c)'
  OBVIOUS
<1>e. out[c] = <<>> => Len(out[c]) = 0
  OBVIOUS
<1>f. read'[c] = read[c] /\ req'[c] = req[c] => Occasions(c)' = Occasions(c)
  BY DEF Occasions, ParseContentLengthAndType
<1>1. CASE Same(c) \/ Opened(c)
  BY <1>1, <1>b, <1>f DEF Same, Opened
<1>2. CASE Written(c)
  <2>1. CASE wrote[c] = 0
    BY <1>2, <2>1, <1>a, <1>d DEF Written, Whole
  <2>2. CASE req'[c] = req[c]
    BY <1>2, <2>2, <1>b, <1>f DEF Written
  <2> QED BY <1>2, <2>1, <2>2 DEF Written
<1>3. CASE HungUp(c) \/ Closed(c)
  BY <1>3, <1>d DEF HungUp, Closed
<1>4. ASSUME NEW m \in Members, Delivered(c, m) PROVE Fine(c)'
  <2>1. out[c] = <<>> /\ Polling(c, m) /\ read[c] >= Whole
    BY <1>4 DEF Delivered, DanglingInv, NoDanglingWait
  <2>2. req[c].method = "GET"
    BY <2>1, <1>a, RequestsAssumption DEF Polling, Whole
  <2>3. Len(out'[c]) <= 1 /\ req'[c] = req[c] /\ Len(out'[c]) \in Nat
    BY <1>4, <2>1, <1>a, <1>c, <1>e DEF Delivered, SentOne
  <2>4. Occasions(c)' = 1
    BY <2>2, <2>3 DEF Occasions
  <2> QED BY <2>3, <2>4
<1>5. CASE Answered(c)
  <2>1. /\ read[c] < wrote[c] /\ RequestComplete(c)
        /\ read'[c] = wrote[c] /\ req'[c] = req[c] /\ SentOne(c)
    BY <1>5, ReadMore DEF Answered, ReadAll
  <2>2. req[c] \in Requests /\ Len(out[c]) \in Nat /\ Len(out'[c]) \in Nat
    BY <2>1, <1>a DEF SentOne
  <2>3. CASE read[c] < Whole
    <3>1. Len(out'[c]) <= 1
      BY <2>2, <2>3, <2>1, <1>a, <1>c, <1>e
    <3>2. wrote[c] >= Whole /\ (req[c].method = "POST" => ParseContentLengthAndType(c))
      BY <2>1, <2>3, <1>a DEF RequestComplete, Whole
    <3>3. Occasions(c)' >= 1 /\ Occasions(c)' \in Int
      BY <2>1, <3>2, <1>a DEF Occasions, ParseContentLengthAndType, Part, Whole
    <3> QED BY <2>2, <3>1, <3>3
  <2>4. CASE ~(read[c] < Whole)
    <3>1. read[c] >= Whole /\ req[c].method = "POST"
      BY <2>1, <2>4, <1>a DEF RequestComplete, Whole
    <3>2. /\ Occasions(c)' >= Occasions(c) + 1 /\ Occasions(c)' >= 1
          /\ Occasions(c) \in Int /\ Occasions(c)' \in Int
      BY <2>1, <3>1, <1>a DEF Occasions, ParseContentLengthAndType, Part, Whole
    <3>3. CASE out[c] = <<>>
      BY <2>1, <2>2, <3>2, <3>3, <1>c, <1>e
    <3>4. CASE out[c] # <<>>
      BY <2>1, <2>2, <3>2, <3>4, <1>b, <1>c
    <3> QED BY <3>3, <3>4
  <2> QED BY <2>3, <2>4
<1>6. CASE Parked(c)
  <2>1. /\ read[c] < wrote[c] /\ RequestComplete(c)
        /\ req[c].path = "/wait" /\ out'[c] = out[c]
    BY <1>6, ReadMore DEF Parked
  <2>2. req[c].method = "GET"
    BY <2>1, <1>a, RequestsAssumption
  <2>3. out[c] = <<>>
    BY <2>1, <2>2, <1>a DEF RequestComplete
  <2> QED BY <2>1, <2>3, <1>d
<1>7. CASE Swallowed(c)
  <2>1. /\ read[c] < wrote[c] /\ out'[c] = out[c]
        /\ read'[c] = wrote[c] /\ req'[c] = req[c]
    BY <1>7, ReadMore DEF Swallowed, ReadAll
  <2>2. /\ Occasions(c)' >= Occasions(c)
        /\ Occasions(c) \in Int /\ Occasions(c)' \in Int /\ Len(out[c]) \in Nat
    BY <2>1, <1>a DEF Occasions, ParseContentLengthAndType, Part, Whole
  <2> QED BY <2>1, <2>2, <1>b
<1> QED BY <1>1, <1>2, <1>3, <1>4, <1>5, <1>6, <1>7, <1>b DEF ConnectionStep

(* The conjunction of what is known of the connections.                    *)
ConnectionInv == TypeInv /\ MailboxInv /\ DanglingInv /\ ReadyInv /\ AnsweredOnce

LEMMA ConnectionInit == Init => ConnectionInv
<1> SUFFICES ASSUME Init PROVE ConnectionInv
  OBVIOUS
<1>1. MailboxInv
  BY NoMemberOrderly DEF Init, ChannelInit, MailboxInv
<1>2. AnsweredOnce
  BY DEF Init, SocketInit, AnsweredOnce
<1> QED BY <1>1, <1>2, TypeInit, ReadyInit, DanglingInit DEF ConnectionInv

LEMMA ConnectionInvStep == ConnectionInv /\ [Next]_vars => ConnectionInv'
BY TypeStep, MailboxStep, DanglingStep, ReadyStep, AnswerStep DEF ConnectionInv

(* However many stray bytes follow a request, no connection carries more   *)
(* responses than the server had occasions to act on its request: one, or  *)
(* for a POST one per segment from the one that completed it.  No          *)
(* broadcast, late poll or reused slot adds another.                       *)
THEOREM AnsweredOnceCorrect == Spec => []AnsweredOnce
<1>1. ConnectionInv => AnsweredOnce
  BY DEF ConnectionInv
<1> QED BY <1>1, ConnectionInit, ConnectionInvStep, PTL DEF Spec
-----------------------------------------------------------------------------
(* The poll of a client that keeps one at a time.  The inductive invariant *)
(* says where a poll can be when it is neither answered nor unread: parked *)
(* by its member, or its member is gone for good.  Only a second poll of   *)
(* the same member could take its place, and of two polls of one member    *)
(* one is closed and read to the end.                                      *)

FreeClean == \A c \in Conns : remote[c] = "none" => req[c] = NoRequest

OneLive ==
  \A c, d \in Conns, m \in Ids :
    /\ c # d /\ Polling(c, m) /\ Polling(d, m)
    /\ remote[c] = "up"
    => remote[d] # "up" /\ read[d] = wrote[d]

Remembered ==
  \A c \in Conns, m \in Ids :
    /\ Polling(c, m) /\ read[c] >= Whole
    /\ remote[c] = "up" /\ out[c] = <<>>
    => m <= lastId /\ (m \in Members => member[m].waiting = c)

PollInv == FreeClean /\ OneLive /\ Remembered

(* A broadcast to m reaches the poll it has parked.                        *)
LEMMA SentToReaches ==
  ASSUME TypeInv, DanglingInv, NEW item, Items(item), DOMAIN item \subseteq Members,
         NEW m \in DOMAIN item, NEW c \in Conns,
         member[m].waiting = c, remote[c] = "up"
  PROVE  SentTo(item)[c] # out[c]
<1> DEFINE n == CHOOSE n \in DOMAIN item : member[n].waiting = c
<1>1. n \in DOMAIN item
  OBVIOUS
<1>2. item[n] \in Response
  BY <1>1 DEF Items
<1>3. SentTo(item)[c] = Append(out[c], item[n])
  BY DEF SentTo
<1>4. out[c] \in Seq(Response)
  BY DEF TypeInv, TypeOK, SocketTypeOK
<1>5. out[c] = <<>>
  BY DEF DanglingInv, NoDanglingWait
<1> HIDE DEF n
<1> QED BY <1>2, <1>3, <1>4, <1>5, AppendNotEmpty

(* Whoever leaves is not a member any more, and the others are told.       *)
LEMMA EraseMemberReaches ==
  ASSUME TypeInv, DanglingInv, Once(members),
         NEW k \in DOMAIN members, EraseMember(k),
         NEW m \in Members, m \in Members', NEW c \in Conns,
         member[m].waiting = c, remote[c] = "up"
  PROVE  out'[c] # out[c]
<1> DEFINE item == BroadcastChangedState(members[k], FALSE)
<1>a. /\ members \in Seq(Ids) /\ Members \subseteq Ids
      /\ k \in 1 .. Len(members)
  BY ChannelAssumption, MembersAreIds DEF TypeInv, TypeOK, ChannelTypeOK, Ids
<1>1. members' = RemoveAt(members, k) /\ out' = SentTo(item)
  BY DEF EraseMember
<1>2. Elements(RemoveAt(members, k)) = Elements(members) \ {members[k]}
  BY <1>a, RemoveOnce
<1>3. m # members[k]
  BY <1>1, <1>2 DEF Members, Elements
<1>4. m \in DOMAIN item /\ DOMAIN item \subseteq Members
  BY <1>3 DEF BroadcastChangedState
<1>5. Items(item)
  <2>1. ChannelTypeOK /\ members[k] \in Nat
    BY <1>a, ChannelAssumption DEF TypeInv, TypeOK, Ids
  <2> QED BY <2>1, BroadcastType
<1> HIDE DEF item
<1> QED BY <1>1, <1>4, <1>5, SentToReaches

(* A parked poll stays parked until it is answered, unless another poll of *)
(* the same member takes its place.                                        *)
LEMMA WaitingStep ==
  ASSUME ConnectionInv, Once(members), [Next]_vars,
         NEW m \in Members, m \in Members', NEW c \in Conns,
         member[m].waiting = c, remote[c] = "up", out'[c] = out[c]
  PROVE  \/ member'[m].waiting = c
         \/ \E d \in Conns \ {c} : Requested(d) /\ Polling(d, m)
<1> USE DEF ConnectionInv
<1>a. /\ SocketTypeOK /\ ChannelTypeOK
      /\ member \in [Ids -> ChannelMember] /\ members \in Seq(Ids)
      /\ lastId \in Nat /\ m \in Ids /\ m \in Nat /\ Members \subseteq 1 .. lastId
  BY ChannelAssumption, MembersAreIds DEF TypeInv, TypeOK, ChannelTypeOK, Ids
<1>b. UNCHANGED channelVars => member'[m].waiting = c
  BY DEF channelVars
<1>c. members' # <<>>
  <2>1. DOMAIN <<>> = {}
    OBVIOUS
  <2> QED BY <2>1 DEF Members
<1>1. ASSUME NEW d \in Conns, Handle(d)
      PROVE  \/ member'[m].waiting = c
             \/ \E e \in Conns \ {c} : Requested(e) /\ Polling(e, m)
  <2> DEFINE p == Lookup(req[d])
  <2>a. Requested(d)
    BY <1>1 DEF Handle, HandleWait, HandleSignIn, HandleOrphan, HandleForward,
         HandleUntargeted, HandleBrowserRequest, HandleQuit
  <2>b. d # c
    BY <2>a, RequestNotParked
  <2>c. p # 0 => p \in Members /\ p \in Ids /\ p = req[d].peer
    BY <1>a, LookupType DEF Lookup
  <2>1. CASE HandleWait(d)
    <3>1. /\ p \in Ids /\ p = req[d].peer /\ req[d].path = "/wait"
          /\ member' = [member EXCEPT ![p] = SetWaitingSocket(@, d)]
      BY <2>1, <2>c DEF HandleWait, LookedUp
    <3>2. CASE p = m
      <4>1. Polling(d, m)
        BY <2>a, <3>1, <3>2, RequestedType, ConnsAssumption DEF Polling
      <4> QED BY <2>a, <2>b, <4>1
    <3>3. CASE p # m
      BY <3>1, <3>3, <1>a
    <3> QED BY <3>2, <3>3
  <2>2. CASE HandleSignIn(d)
    <3> DEFINE new == lastId + 1
               item == BroadcastChangedState(new, TRUE)
               added == BuildResponseForNewMember(new)
    <3>1. out' = Send(SentTo(item), d, added)
      BY <2>2 DEF HandleSignIn, AddMember
    <3>2. m \in DOMAIN item /\ DOMAIN item \subseteq Members
      BY <1>a DEF BroadcastChangedState
    <3>3. Items(item)
      <4>1. new \in Nat
        BY <1>a
      <4> HIDE DEF new
      <4> QED BY <4>1, <1>a, BroadcastType
    <3> HIDE DEF item, added
    <3>4. out'[c] = SentTo(item)[c]
      BY <3>1, <2>b, SendElsewhere
    <3> QED BY <3>2, <3>3, <3>4, SentToReaches
  <2>3. CASE HandleOrphan(d) \/ HandleBrowserRequest(d)
    BY <2>3, <1>b DEF HandleOrphan, HandleBrowserRequest
  <2>4. CASE HandleForward(d)
    <3> DEFINE peer == IsTargetedRequest(req[d])
               mail == Mail(p, req[d].body)
               item == [q \in {peer} |-> mail]
               ok == Reply("200 OK", "")
    <3>1. /\ p \in Ids /\ p \in Nat /\ peer \in Members /\ peer \in Ids
          /\ req[d].path # "/wait"
      <4>1. p \in Ids /\ peer \in Members /\ peer \in Ids /\ req[d].path # "/wait"
        BY <2>4, <2>c, <1>a, LookupType DEF HandleForward
      <4> QED BY <4>1, ChannelAssumption DEF Ids
    <3>2. LookedUp(p, d)[m].waiting = c
      BY <3>1, <1>a, LookedUpWaiting
    <3>3. CASE peer = p
      <4>1. member' = LookedUp(p, d)
        BY <2>4, <3>3 DEF HandleForward
      <4> QED BY <3>2, <4>1
    <3>4. CASE peer # p
      <4>1. /\ member' = Posted(LookedUp(p, d), item)
            /\ out' = Send(SentTo(item), d, ok)
        BY <2>4, <3>4 DEF HandleForward
      <4>2. mail \in Response
        BY <2>a, <3>1, MailType, RequestedType
      <4>3. DOMAIN item = {peer} /\ item[peer] = mail
        OBVIOUS
      <4> HIDE DEF mail, item, ok
      <4>4. CASE peer = m
        <5>1. out'[c] = SentTo(item)[c]
          BY <4>1, <2>b, SendElsewhere
        <5> QED BY <4>2, <4>3, <4>4, <5>1, <3>1, SentToReaches DEF Items
      <4>5. CASE peer # m
        <5>1. member'[m] = LookedUp(p, d)[m]
          BY <4>1, <4>3, <4>5, <1>a DEF Posted
        <5> QED BY <5>1, <3>2
      <4> QED BY <4>4, <4>5
    <3> QED BY <3>3, <3>4
  <2>5. CASE HandleUntargeted(d)
    <3>1. p \in Ids /\ req[d].path # "/wait" /\ member' = LookedUp(p, d)
      BY <2>5, <2>c DEF HandleUntargeted
    <3> QED BY <3>1, <1>a, LookedUpWaiting
  <2>6. CASE HandleQuit(d)
    BY <2>6, <1>c DEF HandleQuit, CloseAll
  <2> QED BY <1>1, <2>1, <2>2, <2>3, <2>4, <2>5, <2>6 DEF Handle
<1>2. CASE Tick
  <2>1. \/ member'[m] = member[m]
        \/ member'[m] = [member[m] EXCEPT !.idle = @ + 1]
    BY <1>2, <1>a DEF Tick
  <2> QED BY <1>a, <2>1 DEF ChannelMember
<1>3. ASSUME NEW d \in Conns, NEW k \in DOMAIN members, CloseFor(d, k)
      PROVE  member'[m].waiting = c
  <2>1. CASE member[members[k]].connected
    <3>1. member' = [member EXCEPT ![members[k]] = OnClosing(@, d)]
      BY <1>3, <2>1 DEF CloseFor
    <3>2. remote[d] = "gone"
      BY <1>3 DEF CloseFor, ReadyInv, Held, At
    <3> QED BY <3>1, <3>2, <1>a DEF OnClosing
  <2>2. CASE ~member[members[k]].connected
    BY <1>3, <2>2, EraseMemberReaches DEF CloseFor
  <2> QED BY <2>1, <2>2
<1>4. ASSUME NEW k \in DOMAIN members, CheckForTimeout(k)
      PROVE  member'[m].waiting = c
  BY <1>4, EraseMemberReaches DEF CheckForTimeout
<1>5. CASE Leave
  BY <1>5, <1>c DEF Leave, CloseAll
<1>6. CASE Select \/ SelectFails \/ EndServing \/ EndTimeouts \/ AcceptNothing
           \/ AcceptsNull
  BY <1>6, <1>b DEF Select, SelectFails, EndServing, EndTimeouts,
                    AcceptNothing, AcceptsNull
<1>7. ASSUME NEW d \in Conns,
             \/ BeginClosing(d) \/ ReadOn(d) \/ Accept(d)
             \/ \E n \in DOMAIN sockets : DeleteSocket(d, n)
             \/ ClientConnects(d) \/ ClientWrites(d) \/ ClientHangsUp(d)
      PROVE  member'[m].waiting = c
  BY <1>7, <1>b DEF BeginClosing, ReadOn, Accept, DeleteSocket, ClientConnects,
                    ClientWrites, ClientHangsUp
<1>8. CASE UNCHANGED vars
  BY <1>8, <1>b DEF vars
<1>9. CASE ServerStep
  BY <1>9, <1>1, <1>3, <1>4, <1>5, <1>6, <1>7 DEF ServerStep, Serve, Close
<1>10. CASE Environment
  BY <1>10, <1>2, <1>7 DEF Environment
<1> QED BY <1>8, <1>9, <1>10 DEF Next, Stopped
(* Ids are given out once: who was created and is not a member any more    *)
(* never becomes one again.                                                *)
LEMMA IdsGrow ==
  ASSUME TypeInv, Once(members), [Next]_vars
  PROVE  /\ lastId' >= lastId
         /\ \A m \in Members' : m <= lastId => m \in Members
<1>a. members \in Seq(Ids) /\ lastId \in Nat
  BY ChannelAssumption DEF TypeInv, TypeOK, ChannelTypeOK, Ids
<1>1. CASE \/ Stays \/ \E m \in Members : Answers(m)
           \/ \E m, peer \in Members, body \in Bodies \cup {NoBody} :
                Forwards(m, peer, body)
  BY <1>1, <1>a DEF Stays, Answers, Forwards, Members
<1>2. ASSUME NEW new \in Ids, Joins(new)
      PROVE  lastId' >= lastId /\ \A m \in Members' : m <= lastId => m \in Members
  <2>1. lastId' = lastId + 1 /\ members' = Append(members, lastId + 1)
    BY <1>2 DEF Joins
  <2>2. Members' \subseteq Members \cup {lastId + 1}
    BY <2>1, <1>a DEF Members
  <2> QED BY <2>1, <2>2, <1>a
<1>3. ASSUME NEW k \in DOMAIN members, Departs(k)
      PROVE  lastId' >= lastId /\ \A m \in Members' : m <= lastId => m \in Members
  <2>1. members' = RemoveAt(members, k) /\ lastId' = lastId
    BY <1>3 DEF Departs
  <2>2. Elements(RemoveAt(members, k)) = Elements(members) \ {members[k]}
    BY <1>a, RemoveOnce
  <2> QED BY <2>1, <2>2, <1>a DEF Members, Elements
<1>4. CASE CloseAll
  <2>1. lastId' = lastId /\ members' = <<>>
    BY <1>4 DEF CloseAll
  <2>2. DOMAIN <<>> = {}
    OBVIOUS
  <2> QED BY <2>1, <2>2, <1>a DEF Members
<1> QED BY <1>1, <1>2, <1>3, <1>4, NextChannel DEF ChannelStep

LEMMA PollStep ==
  ASSUME OnePoll, ConnectionInv, Once(members), PollInv, [Next]_vars
  PROVE  PollInv'
<1> USE DEF ConnectionInv
<1>a. ASSUME NEW c \in Conns
      PROVE  /\ read[c] \in Nat /\ wrote[c] \in Nat /\ read[c] <= wrote[c]
             /\ out[c] \in Seq(Response)
             /\ ConnectionStep(c)
             /\ remote[c] \in {"none", "up", "gone"}
             /\ remote[c] = "none" => req[c] = NoRequest
             /\ wrote[c] > 0 => req[c] \in Requests
  BY NextConnection DEF TypeInv, TypeOK, SocketTypeOK, RequestsWritten,
     DanglingInv, ReadWritten, PollInv, FreeClean
<1>b. ASSUME NEW c \in Conns, SentOne(c), remote[c] = "up" PROVE out'[c] # <<>>
  BY <1>a, <1>b, AppendNotEmpty DEF SentOne
<1>c. lastId \in Nat /\ lastId' \in Nat /\ Ids \subseteq Nat /\ Members \subseteq 1 .. lastId
  <2>1. lastId' \in 0 .. MaxId
    BY TypeStep DEF TypeInv, TypeOK, ChannelTypeOK
  <2> QED BY <2>1, MembersAreIds, ChannelAssumption
          DEF TypeInv, TypeOK, ChannelTypeOK, Ids
(* A connection the server reads is not the older of two polls.            *)
<1>d. ASSUME NEW d \in Conns, Requested(d) PROVE read[d] # wrote[d]
  <2>1. Readable(d) /\ ~AtEof(d)
    BY <1>d DEF Requested, Serving, At, ReadyInv, Held
  <2> QED BY <2>1, <1>a DEF Readable, AtEof
<1>1. FreeClean'
  <2> SUFFICES ASSUME NEW c \in Conns, remote'[c] = "none" PROVE req'[c] = NoRequest
    BY DEF FreeClean
  <2>1. \/ Closed(c)
        \/ remote[c] = "none" /\ req'[c] = req[c]
    BY <1>a DEF ConnectionStep, Same, Opened, Written, HungUp, Delivered,
                Answered, Parked, Swallowed, ReadAll
  <2> QED BY <2>1, <1>a DEF Closed
<1>2. OneLive'
  <2> SUFFICES ASSUME NEW c \in Conns, NEW d \in Conns, NEW m \in Ids, c # d,
                      Polling(c, m)', Polling(d, m)', remote'[c] = "up"
               PROVE  remote'[d] # "up" /\ read'[d] = wrote'[d]
    BY DEF OneLive
  <2>1. CASE Written(c) /\ wrote[c] = 0
    <3>1. req'[c].path = "/wait" /\ req'[c].peer = m /\ Same(d) /\ Allowed(req'[c])
      BY <2>1 DEF Written, Polling
    <3>2. Polling(d, m)
      BY <3>1 DEF Same, Polling
    <3> QED BY <3>1, <3>2 DEF Allowed, Same
  <2>2. CASE Written(d) /\ wrote[d] = 0
    <3>1. req'[d].path = "/wait" /\ req'[d].peer = m /\ Same(c) /\ Allowed(req'[d])
      BY <2>2 DEF Written, Polling
    <3>2. Polling(c, m)
      BY <3>1 DEF Same, Polling
    <3> QED BY <3>1, <3>2 DEF Allowed, Same
  <2>3. CASE ~(Written(c) /\ wrote[c] = 0) /\ ~(Written(d) /\ wrote[d] = 0)
    <3>1. ASSUME NEW e \in Conns, Polling(e, m)', ~(Written(e) /\ wrote[e] = 0)
          PROVE  Polling(e, m) /\ remote[e] # "none" /\ ~Opened(e) /\ ~Closed(e)
      <4>1. req'[e] # NoRequest /\ ~Closed(e)
        BY <3>1 DEF Polling, Closed
      <4>2. req'[e] = req[e]
        BY <3>1, <4>1, <1>a DEF ConnectionStep, Same, Opened, Written, HungUp,
           Delivered, Answered, Parked, Swallowed, ReadAll
      <4> QED BY <3>1, <4>1, <4>2, <1>a DEF Polling, Opened
    <3>2. Polling(c, m) /\ Polling(d, m) /\ ~Opened(c) /\ ~Closed(c)
          /\ ~Opened(d) /\ ~Closed(d)
      BY <2>3, <3>1
    <3>3. remote[c] = "up"
      BY <3>2, <1>a DEF ConnectionStep, Same, Written, HungUp,
         Delivered, Answered, Parked, Swallowed, ReadAll
    <3>4. remote[d] # "up" /\ read[d] = wrote[d]
      BY <3>2, <3>3 DEF PollInv, OneLive
    <3>5. ~ReadAll(d)
      BY <3>4, <1>a, ReadMore
    <3>6. Same(d) \/ \E n \in Members : Delivered(d, n)
      BY <3>2, <3>4, <3>5, <1>a DEF ConnectionStep, Written, HungUp,
         Answered, Parked, Swallowed
    <3> QED BY <3>4, <3>6 DEF Same, Delivered
  <2> QED BY <2>1, <2>2, <2>3
<1>3. Remembered'
  <2> SUFFICES ASSUME NEW c \in Conns, NEW m \in Ids, Polling(c, m)', read'[c] >= Whole,
                      remote'[c] = "up", out'[c] = <<>>
               PROVE  m <= lastId' /\ (m \in Members' => member'[m].waiting = c)
    BY DEF Remembered
  <2>a. lastId' >= lastId /\ \A n \in Members' : n <= lastId => n \in Members
    BY IdsGrow
(* The poll was read before, and nothing was sent on it.                   *)
  <2>b. ASSUME Polling(c, m), read[c] >= Whole, remote[c] = "up", out'[c] = out[c]
        PROVE  m <= lastId' /\ (m \in Members' => member'[m].waiting = c)
    <3>1. m <= lastId /\ (m \in Members => member[m].waiting = c)
      BY <2>b DEF PollInv, Remembered
    <3>2. ASSUME m \in Members' PROVE member'[m].waiting = c
      <4>1. m \in Members /\ member[m].waiting = c
        BY <3>1, <3>2, <2>a
      <4>2. ~\E d \in Conns \ {c} : Requested(d) /\ Polling(d, m)
        BY <2>b, <1>d DEF PollInv, OneLive
      <4> QED BY <2>b, <3>2, <4>1, <4>2, WaitingStep
    <3> QED BY <3>1, <3>2, <2>a, <1>c
  <2>1. CASE Same(c)
    BY <2>1, <2>b DEF Same, Polling
  <2>2. CASE Opened(c) \/ HungUp(c) \/ Closed(c)
    BY <2>2, <1>a DEF Opened, HungUp, Closed, Polling
  <2>3. CASE Written(c)
    <3>1. read'[c] = read[c] /\ remote[c] = "up" /\ out'[c] = out[c]
      BY <2>3 DEF Written
    <3>2. wrote[c] # 0
      BY <3>1, <1>a DEF Whole
    <3>3. req'[c] = req[c]
      BY <2>3, <3>2 DEF Written
    <3> QED BY <3>1, <3>3, <2>b DEF Polling
  <2>4. ASSUME NEW n \in Members, Delivered(c, n) PROVE FALSE
    BY <2>4, <1>b DEF Delivered
  <2>5. CASE Answered(c)
    BY <2>5, <1>b DEF Answered, ReadAll
  <2>6. CASE Parked(c)
    <3>1. m = req[c].peer
      BY <2>6 DEF Parked, ReadAll, Polling
    <3> QED BY <2>6, <3>1, <2>a, <1>c DEF Parked
  <2>7. CASE Swallowed(c)
    <3>1. /\ req'[c] = req[c] /\ remote[c] = "up" /\ out'[c] = out[c]
          /\ read'[c] = wrote[c] /\ ~RequestComplete(c) /\ Polling(c, m)
      BY <2>7 DEF Swallowed, ReadAll, Polling
    <3>2. req[c] \in Requests /\ wrote[c] >= Whole
      BY <3>1, <1>a DEF Whole
    <3>3. req[c].method = "GET"
      BY <3>1, <3>2, RequestsAssumption DEF Polling
    <3>4. read[c] >= Whole
      BY <3>1, <3>2, <3>3, <1>a DEF RequestComplete, ParseMethodAndPath, Whole
    <3> QED BY <3>1, <3>4, <2>b
  <2> QED BY <2>1, <2>2, <2>3, <2>4, <2>5, <2>6, <2>7, <1>a DEF ConnectionStep
<1> QED BY <1>1, <1>2, <1>3 DEF PollInv

(* A client that closes its poll before it polls again is not forgotten:   *)
(* while its member exists, a poll that was read and not answered is the   *)
(* one the next response goes to.                                          *)
THEOREM PollRemembered == OnePoll => (Spec => []PollNotForgotten)
<1> SUFFICES ASSUME OnePoll PROVE Spec => []PollNotForgotten
  OBVIOUS
<1> DEFINE Inv == ConnectionInv /\ PresenceInv /\ PollInv
<1>1. Init => Inv
  <2> SUFFICES ASSUME Init PROVE PollInv
    BY ConnectionInit, PresenceInit
  <2> QED BY DEF Init, SocketInit, PollInv, FreeClean, OneLive, Remembered, Polling
<1>2. Inv /\ [Next]_vars => Inv'
  BY ConnectionInvStep, PresenceStep, PollStep DEF ConnectionInv, PresenceInv
<1>3. Inv => PollNotForgotten
  <2> SUFFICES ASSUME Inv PROVE PollNotForgotten
    OBVIOUS
  <2>1. Held \subseteq Conns /\ Members \subseteq Ids
    BY HeldAreConns, MembersAreIds DEF ConnectionInv, TypeInv, TypeOK
  <2> QED BY <2>1 DEF PollInv, Remembered, PollNotForgotten
<1> QED BY <1>1, <1>2, <1>3, PTL DEF Spec
=============================================================================
