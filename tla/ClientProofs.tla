---------------------------- MODULE ClientProofs ----------------------------
(***************************************************************************)
(* Theorems about ClientSession, for every bound and every set of faults.  *)
(***************************************************************************)
EXTENDS ClientSession, TLAPS

(* What every callback preserves, of the client alone: only a connected    *)
(* client polls, a client without an id is closed, resolving or signing    *)
(* in, a closed or resolving one has no connection, and the request of a   *)
(* client without an id is a sign-in.                                      *)
Polls(c) == c.sock["hanging"] # "closed" => c.state = "CONNECTED"
HasId(c) == c.id = NoId => c.state \in {"NOT_CONNECTED", "RESOLVING", "SIGNING_IN"}
Detached(c) == c.state \in {"NOT_CONNECTED", "RESOLVING"} => c.sock["control"] = "closed"
Asking(c) == c.id = NoId /\ c.sock["control"] = "connecting"
               => c.onconnect.path = "/sign_in"

ClientInv(c) == c \in Clients /\ Polls(c) /\ HasId(c) /\ Detached(c) /\ Asking(c)

(* Of the control connection of a client without an id: it carries a       *)
(* sign-in, whose answer brings an id, or is lost.                         *)
Unnamed(c, w) ==
  c.id = NoId /\ c.sock["control"] = "connected" =>
    /\ w["control"].ask.path \in {"/sign_in", "none"}
    /\ w["control"].answer.status = "200" => w["control"].answer.pragma \in Ids

Inv == TypeOK /\ ClientInv(client) /\ Unnamed(client, wire)

-----------------------------------------------------------------------------
LEMMA IdsFacts == NoId \notin Ids /\ Ids \subseteq Nat
BY ClientAssumption DEF Ids, NoId

LEMMA AskFacts ==
  /\ NoAsk \in Asks
  /\ Ask("/sign_in", NoId, NoId) \in Asks
  /\ \A i \in Ids \cup {NoId} : Ask("/sign_out", i, NoId) \in Asks /\ Ask("/wait", i, NoId) \in Asks
  /\ \A i, k \in Ids \cup {NoId} : Ask("/message", i, k) \in Asks
BY DEF NoAsk, Asks, Ask

LEMMA CloseInv ==
  ASSUME NEW c \in Clients
  PROVE  ClientInv(Close(c))
BY AskFacts DEF Close, ClientInv, Clients, Polls, HasId, Detached, Asking, Sockets, States

LEMMA QuitInv ==
  ASSUME NEW c, ClientInv(c)
  PROVE  ClientInv(Quit(c))
BY DEF Quit, ClientInv, Clients, Polls, HasId, Detached, Asking

LEMMA RejectedInv ==
  ASSUME NEW c \in Clients
  PROVE  ClientInv(Rejected(c))
BY CloseInv, QuitInv DEF Rejected

LEMMA PollInv ==
  ASSUME NEW c, ClientInv(c), c.state = "CONNECTED", NEW ok \in BOOLEAN
  PROVE  ClientInv(Poll(c, ok))
BY DEF Poll, ClientInv, Clients, Polls, HasId, Detached, Asking, Sockets

LEMMA ShutInv ==
  ASSUME NEW c, ClientInv(c), NEW s \in Sockets
  PROVE  ClientInv([c EXCEPT !.sock[s] = "closed"])
BY DEF ClientInv, Clients, Polls, HasId, Detached, Asking, Sockets

LEMMA DoConnectInv ==
  ASSUME NEW c \in Clients, NEW ok \in BOOLEAN
  PROVE  ClientInv(DoConnect(c, ok))
<1> DEFINE asked == [c EXCEPT !.sock = [s \in Sockets |-> "closed"],
                              !.onconnect = Ask("/sign_in", NoId, NoId)]
<1>1. asked \in Clients
  BY AskFacts DEF Clients, Sockets
<1>2. CASE ok
  <2>1. DoConnect(c, ok) = [[asked EXCEPT !.sock["control"] = "connecting"]
                              EXCEPT !.state = "SIGNING_IN"]
    BY <1>2 DEF DoConnect, ConnectControlSocket
  <2>2. asked.sock["hanging"] = "closed" /\ asked.onconnect.path = "/sign_in"
    BY DEF Ask, Sockets, Clients
  <2> DEFINE tried == [asked EXCEPT !.sock["control"] = "connecting"]
  <2> HIDE DEF asked
  <2>3. /\ tried \in Clients /\ tried.sock["hanging"] = "closed"
        /\ tried.onconnect.path = "/sign_in"
    BY <1>1, <2>2 DEF Clients, Sockets
  <2> HIDE DEF tried
  <2>4. DoConnect(c, ok) = [tried EXCEPT !.state = "SIGNING_IN"]
    BY <2>1 DEF tried
  <2> QED
    BY <2>3, <2>4 DEF ClientInv, Clients, Polls, HasId, Detached, Asking, States
<1>3. CASE ~ok
  <2>1. DoConnect(c, ok) = Quit(Close(asked))
    BY <1>3 DEF DoConnect, ConnectControlSocket
  <2> QED
    BY <1>1, <2>1, CloseInv, QuitInv
<1> QED
  BY <1>2, <1>3

LEMMA ConnectInv ==
  ASSUME NEW named \in BOOLEAN, NEW ok \in BOOLEAN
  PROVE  ClientInv(Connect(NewClient, named, ok))
<1>1. NewClient \in Clients /\ NewClient.state = "NOT_CONNECTED"
  BY AskFacts, ClientAssumption DEF NewClient, Clients, States, Sockets
<1>2. CASE named
  BY <1>1, <1>2 DEF Connect, NewClient, ClientInv, Clients, Polls, HasId, Detached,
                    Asking, States, Sockets
<1>3. CASE ~named
  BY <1>1, <1>3, DoConnectInv DEF Connect
<1> QED
  BY <1>2, <1>3

LEMMA ResolveInv ==
  ASSUME NEW c, ClientInv(c), c.state = "RESOLVING",
         NEW resolved \in BOOLEAN, NEW ok \in BOOLEAN
  PROVE  ClientInv(OnResolveResult(c, resolved, ok))
<1>1. CASE resolved
  BY <1>1, DoConnectInv DEF OnResolveResult, ClientInv
<1>2. CASE ~resolved
  BY <1>2 DEF OnResolveResult, Quit, ClientInv, Clients, Polls, HasId, Detached,
              Asking, States, Sockets
<1> QED
  BY <1>1, <1>2

LEMMA SendToPeerInv ==
  ASSUME NEW c, ClientInv(c), NEW to \in Ids, NEW ok \in BOOLEAN
  PROVE  ClientInv(SendToPeer(c, to, ok))
<1> DEFINE asked == [c EXCEPT !.onconnect = Ask("/message", c.id, to)]
<1>1. asked \in Clients
  BY AskFacts DEF ClientInv, Clients
<1>2. CASE c.state # "CONNECTED" \/ c.id = NoId
  BY <1>2 DEF SendToPeer
<1>3. CASE ~(c.state # "CONNECTED" \/ c.id = NoId) /\ ok
  <2>1. SendToPeer(c, to, ok) = [asked EXCEPT !.sock["control"] = "connecting"]
    BY <1>3 DEF SendToPeer, ConnectControlSocket
  <2>2. /\ asked.sock = c.sock /\ asked.state = "CONNECTED"
        /\ asked.id # NoId
    BY <1>3 DEF ClientInv, Clients
  <2>3. Polls(asked) /\ HasId(asked) /\ Detached(asked)
    BY <2>2 DEF Polls, HasId, Detached
  <2> HIDE DEF asked
  <2> QED
    BY <1>1, <2>1, <2>2, <2>3 DEF ClientInv, Clients, Polls, HasId, Detached, Asking, Sockets
<1>4. CASE ~(c.state # "CONNECTED" \/ c.id = NoId) /\ ~ok
  BY <1>1, <1>4, CloseInv DEF SendToPeer, ConnectControlSocket
<1> QED
  BY <1>2, <1>3, <1>4

(* A client that has an id may sign out in any state of its sockets.       *)
LEMMA SignOutInv ==
  ASSUME NEW c, ClientInv(c), c.id # NoId, NEW ok \in BOOLEAN
  PROVE  ClientInv(SignOut(c, ok))
<1> DEFINE quiet == [c EXCEPT !.sock["hanging"] = "closed"]
           asked == [quiet EXCEPT !.state = "SIGNING_OUT",
                                  !.onconnect = Ask("/sign_out", c.id, NoId)]
<1>1. quiet \in Clients /\ asked \in Clients
  BY AskFacts DEF ClientInv, Clients, Sockets, States
<1>2. CASE c.state \in {"NOT_CONNECTED", "SIGNING_OUT"}
  BY <1>2 DEF SignOut
<1>3. CASE c.state \notin {"NOT_CONNECTED", "SIGNING_OUT"} /\ c.sock["control"] # "closed"
  <2>1. SignOut(c, ok) = [quiet EXCEPT !.state = "SIGNING_OUT_WAITING"]
    BY <1>3 DEF SignOut
  <2> QED
    BY <1>1, <2>1 DEF ClientInv, Clients, Polls, HasId, Detached, Asking, Sockets, States
<1>4. CASE c.state \notin {"NOT_CONNECTED", "SIGNING_OUT"} /\ c.sock["control"] = "closed"
  <2>1. SignOut(c, ok) = ConnectControlSocket(asked, ok)
    BY <1>4 DEF SignOut
  <2>2. CASE ok
    <3>1. SignOut(c, ok) = [asked EXCEPT !.sock["control"] = "connecting"]
      BY <2>1, <2>2 DEF ConnectControlSocket
    <3>2. /\ asked.sock["hanging"] = "closed" /\ asked.state = "SIGNING_OUT"
          /\ asked.id # NoId
      BY <1>1 DEF ClientInv, Clients, Sockets
    <3> HIDE DEF asked
    <3> QED
      BY <1>1, <3>1, <3>2 DEF ClientInv, Clients, Polls, HasId, Detached, Asking, Sockets
  <2>3. CASE ~ok
    BY <1>1, <2>1, <2>3, CloseInv DEF ConnectControlSocket
  <2> QED
    BY <2>2, <2>3
<1> QED
  BY <1>2, <1>3, <1>4

LEMMA OnConnectInv ==
  ASSUME NEW c, ClientInv(c), NEW s \in Sockets, c.sock[s] = "connecting"
  PROVE  ClientInv(OnConnect(c, s))
BY AskFacts DEF OnConnect, ClientInv, Clients, Polls, HasId, Detached, Asking, Sockets

(* Bound: one more delayed reconnection is allowed when control is refused.*)
LEMMA OnCloseInv ==
  ASSUME NEW c, ClientInv(c), NEW s \in Sockets, NEW refused \in BOOLEAN,
         refused /\ s = "control" => c.retries < MaxRetries, NEW ok \in BOOLEAN
  PROVE  ClientInv(OnClose(c, s, refused, ok))
<1> DEFINE shut == [c EXCEPT !.sock[s] = "closed"]
<1>1. ClientInv(shut) /\ shut.retries = c.retries
  BY ShutInv DEF ClientInv, Clients
<1>2. CASE refused /\ s = "control"
  <2>1. OnClose(c, s, refused, ok) = [shut EXCEPT !.retries = @ + 1]
    BY <1>2 DEF OnClose
  <2>2. shut.retries + 1 \in 0 .. MaxRetries
    BY <1>1, <1>2, ClientAssumption DEF ClientInv, Clients
  <2> QED
    BY <1>1, <2>1, <2>2 DEF ClientInv, Clients, Polls, HasId, Detached, Asking
<1>3. CASE refused /\ s = "hanging"
  BY <1>1, <1>3, RejectedInv DEF OnClose, Rejected, ClientInv
<1>4. CASE ~refused /\ s = "hanging" /\ shut.state = "CONNECTED"
  <2>1. OnClose(c, s, refused, ok) = Poll(shut, ok)
    BY <1>4 DEF OnClose
  <2> QED
    BY <1>1, <1>4, <2>1, PollInv
<1>5. CASE ~refused /\ ~(s = "hanging" /\ shut.state = "CONNECTED")
  BY <1>1, <1>5 DEF OnClose
<1> QED
  BY <1>2, <1>3, <1>4, <1>5 DEF Sockets

(* ReadIntoBuffer leaves the id, the peers and the state alone.            *)
LEMMA ReadFacts ==
  ASSUME NEW c, ClientInv(c), NEW s \in Sockets, NEW ok \in BOOLEAN
  PROVE  LET read == ReadIntoBuffer(c, s, ok)
         IN /\ ClientInv(read)
            /\ read.id = c.id /\ read.state = c.state /\ read.peers = c.peers
            /\ s = "control" => read.sock["control"] = "closed"
<1>1. ClientInv(ReadIntoBuffer(c, s, ok))
  BY OnCloseInv DEF ReadIntoBuffer
<1> QED
  BY <1>1 DEF ReadIntoBuffer, OnClose, Poll, ClientInv, Clients, Sockets

LEMMA StartPollingInv ==
  ASSUME NEW c, ClientInv(c), c.state = "SIGNING_IN" => c.id # NoId,
         NEW ok \in BOOLEAN
  PROVE  ClientInv(StartPolling(c, ok))
<1>1. CASE c.state = "SIGNING_IN"
  <2> DEFINE joined == [c EXCEPT !.state = "CONNECTED"]
  <2>1. ClientInv(joined) /\ joined.state = "CONNECTED"
    BY <1>1 DEF ClientInv, Clients, Polls, HasId, Detached, Asking, States
  <2> QED
    BY <1>1, <2>1, PollInv DEF StartPolling
<1>2. CASE c.state # "SIGNING_IN"
  BY <1>2 DEF StartPolling
<1> QED
  BY <1>1, <1>2

LEMMA AnswerFacts ==
  ASSUME NEW a \in Answers
  PROVE  a.joined \subseteq Ids /\ a.left \subseteq Ids /\ a.pragma \in Ids \cup {NoId}
BY DEF Answers

(* More peers change nothing but peers_.                                   *)
LEMMA PeersInv ==
  ASSUME NEW c, ClientInv(c), NEW P \in SUBSET Ids
  PROVE  /\ ClientInv([c EXCEPT !.peers = P])
         /\ [c EXCEPT !.peers = P].id = c.id
         /\ [c EXCEPT !.peers = P].state = c.state
BY DEF ClientInv, Clients, Polls, HasId, Detached, Asking

(* Nothing of the client is known to depend on the id, once it has one.    *)
LEMMA NamedInv ==
  ASSUME NEW c, ClientInv(c), NEW i \in Ids, NEW P \in SUBSET Ids
  PROVE  /\ ClientInv([c EXCEPT !.id = i, !.peers = P])
         /\ [c EXCEPT !.id = i, !.peers = P].id = i
BY IdsFacts DEF ClientInv, Clients, Polls, HasId, Detached, Asking

(* The control socket after a callback: no callback but OnConnect connects *)
(* it, and none but the reading of a response takes the id of a client     *)
(* whose control socket stays connected.                                   *)

Unconnected(c) == c.sock["control"] # "connected"

LEMMA SignOutControl ==
  ASSUME NEW c \in Clients, Unconnected(c), NEW ok \in BOOLEAN
  PROVE  Unconnected(SignOut(c, ok))
BY DEF SignOut, ConnectControlSocket, Close, Unconnected, Clients, Sockets

(* An answer that gives a nameless client its id.                          *)
LEMMA FirstResponseInv ==
  ASSUME NEW c, ClientInv(c), NEW a \in Answers, a.pragma \in Ids,
         NEW giveUp \in BOOLEAN, NEW ok \in BOOLEAN
  PROVE  LET first == FirstResponse(c, a, giveUp, ok)
         IN /\ ClientInv(first)
            /\ first.state = "SIGNING_IN" => first.id # NoId
            /\ Unconnected(c) => Unconnected(first)
<1> DEFINE listed == a.joined \ {a.pragma}
           later == {k \in listed : \E i \in listed : i < k}
           known == c.peers \cup listed
           named == [c EXCEPT !.id = a.pragma, !.peers = known]
           out == SignOut(named, ok)
           first == FirstResponse(c, a, giveUp, ok)
<1>1. later \subseteq Ids /\ known \in SUBSET Ids
  BY AnswerFacts DEF ClientInv, Clients
<1>2. first = IF giveUp /\ listed # {} THEN [out EXCEPT !.peers = @ \cup later] ELSE named
  <2>1. named = [c EXCEPT !.id = a.pragma, !.peers = @ \cup listed]
    BY DEF ClientInv, Clients
  <2> QED
    BY <2>1 DEF FirstResponse
<1> HIDE DEF listed, later, known, first
<1>3. /\ ClientInv(named) /\ named.id # NoId
      /\ Unconnected(c) => Unconnected(named)
  <2>1. ClientInv(named) /\ named.id = a.pragma
    BY <1>1, NamedInv
  <2>2. named.sock = c.sock
    BY DEF ClientInv, Clients
  <2> HIDE DEF named
  <2> QED
    BY <2>1, <2>2, IdsFacts DEF Unconnected
<1> HIDE DEF named
<1>4. /\ ClientInv(out) /\ out.state # "SIGNING_IN"
      /\ Unconnected(c) => Unconnected(out)
  <2>1. named \in Clients
    BY <1>3 DEF ClientInv
  <2>2. named.state = "NOT_CONNECTED" \/ named.state = "SIGNING_OUT"
          \/ out.state \in {"NOT_CONNECTED", "SIGNING_OUT", "SIGNING_OUT_WAITING"}
    BY <1>3, <2>1 DEF SignOut, ConnectControlSocket, Close, Clients
  <2>3. named.state \in {"NOT_CONNECTED", "SIGNING_OUT"} => out = named
    BY DEF SignOut
  <2> HIDE DEF out
  <2>4. ClientInv(out) /\ (Unconnected(c) => Unconnected(out))
    BY <1>3, <2>1, SignOutInv, SignOutControl DEF out
  <2> QED
    BY <2>2, <2>3, <2>4
<1> HIDE DEF out
<1>5. CASE giveUp /\ listed # {}
  <2> DEFINE all == out.peers \cup later
  <2>1. all \in SUBSET Ids
    BY <1>1, <1>4 DEF ClientInv, Clients
  <2>2. first = [out EXCEPT !.peers = all]
    BY <1>2, <1>4, <1>5 DEF ClientInv, Clients
  <2> HIDE DEF all
  <2>3. ClientInv(first) /\ first.state = out.state /\ first.sock = out.sock
    BY <1>4, <2>1, <2>2, PeersInv DEF ClientInv, Clients
  <2> QED
    BY <1>4, <2>3 DEF Unconnected, first
<1>6. CASE ~(giveUp /\ listed # {})
  BY <1>2, <1>3, <1>6 DEF first
<1> QED
  BY <1>5, <1>6 DEF first

LEMMA OnReadInv ==
  ASSUME NEW c, ClientInv(c), NEW a \in Answers,
         c.id = NoId /\ a.status = "200" => a.pragma \in Ids,
         NEW giveUp \in BOOLEAN, NEW ok \in BOOLEAN
  PROVE  ClientInv(OnRead(c, a, giveUp, ok))
<1> DEFINE read == ReadIntoBuffer(c, "control", ok)
<1>1. ClientInv(read) /\ read \in Clients /\ read.id = c.id
  BY ReadFacts DEF ClientInv, Sockets
<1> HIDE DEF read
<1>2. CASE a.status # "200"
  BY <1>1, <1>2, RejectedInv DEF OnRead, read
<1>3. CASE a.status = "200" /\ read.id = NoId
  <2>1. OnRead(c, a, giveUp, ok) = StartPolling(FirstResponse(read, a, giveUp, ok), ok)
    BY <1>3 DEF OnRead, read
  <2>2. a.pragma \in Ids
    BY <1>1, <1>3
  <2>3. LET first == FirstResponse(read, a, giveUp, ok)
        IN ClientInv(first) /\ (first.state = "SIGNING_IN" => first.id # NoId)
    BY <1>1, <2>2, FirstResponseInv
  <2> QED
    BY <2>1, <2>3, StartPollingInv
<1>4. CASE a.status = "200" /\ read.id # NoId /\ read.state = "SIGNING_OUT"
  BY <1>1, <1>4, RejectedInv DEF OnRead, Rejected, read
<1>5. CASE a.status = "200" /\ read.id # NoId /\ read.state = "SIGNING_OUT_WAITING"
  BY <1>1, <1>5, SignOutInv DEF OnRead, read
<1>6. CASE /\ a.status = "200" /\ read.id # NoId
           /\ read.state \notin {"SIGNING_OUT", "SIGNING_OUT_WAITING"}
  BY <1>1, <1>6, StartPollingInv DEF OnRead, read
<1> QED
  BY <1>2, <1>3, <1>4, <1>5, <1>6

LEMMA NotifiedInv ==
  ASSUME NEW c, ClientInv(c), c.id # NoId, NEW a \in Answers,
         NEW giveUp \in BOOLEAN, NEW ok \in BOOLEAN
  PROVE  ClientInv(Notified(c, a, giveUp, ok))
<1> DEFINE knows == IF c.id = a.pragma
                    THEN [c EXCEPT !.peers = (@ \cup a.joined) \ a.left] ELSE c
<1>1. (c.peers \cup a.joined) \ a.left \subseteq Ids
  BY AnswerFacts DEF ClientInv, Clients
<1>2. ClientInv(knows) /\ knows.id # NoId
  BY <1>1, PeersInv
<1> HIDE DEF knows
<1> QED
  BY <1>2, SignOutInv DEF Notified, knows

(* Only a connected client has an answer to its poll.                      *)
LEMMA OnHangingGetReadInv ==
  ASSUME NEW c, ClientInv(c), c.sock["hanging"] = "connected", NEW a \in Answers,
         NEW giveUp \in BOOLEAN, NEW ok \in BOOLEAN
  PROVE  ClientInv(OnHangingGetRead(c, a, giveUp, ok))
<1> DEFINE read == ReadIntoBuffer(c, "hanging", ok)
           told == IF a.status = "200" THEN Notified(read, a, giveUp, ok)
                                       ELSE Rejected(read)
<1>1. c.id # NoId
  BY DEF ClientInv, Polls, HasId
<1>2. ClientInv(read) /\ read \in Clients /\ read.id # NoId
  BY <1>1, ReadFacts DEF ClientInv, Sockets
<1> HIDE DEF read
<1>3. ClientInv(told)
  BY <1>2, NotifiedInv, RejectedInv
<1> HIDE DEF told
<1>4. OnHangingGetRead(c, a, giveUp, ok) =
        IF told.sock["hanging"] = "closed" /\ told.state = "CONNECTED"
        THEN Poll(told, ok) ELSE told
  BY DEF OnHangingGetRead, told, read
<1> QED
  BY <1>3, <1>4, PollInv

LEMMA DoConnectControl ==
  ASSUME NEW c \in Clients, NEW ok \in BOOLEAN
  PROVE  Unconnected(DoConnect(c, ok))
BY DEF DoConnect, ConnectControlSocket, Quit, Close, Unconnected, Clients, Sockets

LEMMA OnReadControl ==
  ASSUME NEW c, ClientInv(c), NEW a \in Answers,
         c.id = NoId /\ a.status = "200" => a.pragma \in Ids,
         NEW giveUp \in BOOLEAN, NEW ok \in BOOLEAN
  PROVE  Unconnected(OnRead(c, a, giveUp, ok))
<1> DEFINE read == ReadIntoBuffer(c, "control", ok)
           first == FirstResponse(read, a, giveUp, ok)
<1>1. ClientInv(read) /\ read \in Clients /\ Unconnected(read) /\ read.id = c.id
  BY ReadFacts DEF ClientInv, Sockets, Unconnected
<1> HIDE DEF read
<1>2. Unconnected(Rejected(read)) /\ Unconnected(SignOut(read, ok))
  BY <1>1, SignOutControl DEF Rejected, Quit, Close, Unconnected, Sockets, Clients
<1>3. \A d \in Clients : Unconnected(d) => Unconnected(StartPolling(d, ok))
  BY DEF StartPolling, Poll, Unconnected, Clients, Sockets
<1>4. read.id = NoId /\ a.status = "200" => first \in Clients /\ Unconnected(first)
  BY <1>1, FirstResponseInv DEF ClientInv
<1> QED
  BY <1>1, <1>2, <1>3, <1>4 DEF OnRead, Rejected, read

(* A client that was connected does not start to sign in again.            *)
LEMMA OnHangingGetReadState ==
  ASSUME NEW c, ClientInv(c), c.sock["hanging"] = "connected", NEW a \in Answers,
         NEW giveUp \in BOOLEAN, NEW ok \in BOOLEAN
  PROVE  OnHangingGetRead(c, a, giveUp, ok).state # "SIGNING_IN"
<1> DEFINE read == ReadIntoBuffer(c, "hanging", ok)
<1>1. read \in Clients /\ read.state = "CONNECTED"
  BY ReadFacts DEF ClientInv, Sockets, Polls
<1> HIDE DEF read
<1>2. Rejected(read).state # "SIGNING_IN"
  BY <1>1 DEF Rejected, Quit, Close, Clients
<1>3. \A d \in Clients : d.state = "CONNECTED" => SignOut(d, ok).state # "SIGNING_IN"
  BY DEF SignOut, ConnectControlSocket, Close, Clients
<1>4. Notified(read, a, giveUp, ok).state # "SIGNING_IN"
  <2> DEFINE knows == IF read.id = a.pragma
                      THEN [read EXCEPT !.peers = (@ \cup a.joined) \ a.left] ELSE read
  <2>1. knows \in Clients /\ knows.state = "CONNECTED"
    BY <1>1, AnswerFacts DEF Clients
  <2> HIDE DEF knows
  <2> QED
    BY <1>3, <2>1 DEF Notified, knows
<1>5. \A d : d.state # "SIGNING_IN" => Poll(d, ok).state # "SIGNING_IN"
  BY DEF Poll
<1> QED
  BY <1>2, <1>4, <1>5 DEF OnHangingGetRead, read

-----------------------------------------------------------------------------
(* The session.                                                            *)

Wires == [Sockets -> [ask : Asks, answer : Answers, lost : BOOLEAN]]

ServerTypeOK ==
  /\ up \in BOOLEAN /\ lastId \in 0 .. MaxId
  /\ members \subseteq 1 .. lastId /\ mine \subseteq 1 .. lastId
  /\ box \in [Ids -> Seq(Answers)]
  /\ dead \subseteq Ids \cup {NoId} /\ missed \subseteq Ids
  /\ crashes \in 0 .. MaxCrashes

LEMMA TypeParts == TypeOK <=> client \in Clients /\ wire \in Wires /\ ServerTypeOK
BY DEF TypeOK, Wires, ServerTypeOK

LEMMA ChoiceFacts ==
  Outcomes \subseteq BOOLEAN /\ GivesUp \subseteq BOOLEAN /\ Resolves \subseteq BOOLEAN
BY DEF Outcomes, GivesUp, Resolves

LEMMA AnswerTypes ==
  /\ NoAnswer \in Answers /\ Answer("500", NoId, {}, {}) \in Answers
  /\ Answer("200", NoId, {}, {}) \in Answers
  /\ \A i \in Ids, J, L \in SUBSET Ids : Answer("200", i, J, L) \in Answers
BY DEF NoAnswer, Answer, Answers

LEMMA IdleFacts ==
  Idle \in [ask : Asks, answer : Answers, lost : BOOLEAN]
BY AskFacts, AnswerTypes DEF Idle, Carries

LEMMA GoneFacts ==
  /\ Gone \in [ask : Asks, answer : Answers, lost : BOOLEAN]
  /\ Gone.ask = NoAsk /\ Gone.ask.path = "none" /\ Gone.answer = NoAnswer /\ Gone.lost
  /\ Gone.answer.status = "none"
BY IdleFacts DEF Gone, Idle, Carries, NoAsk, Ask, NoAnswer, Answer

(* A callback: its result is a good client, which is connected and without *)
(* an id only if it was so before.                                         *)
LEMMA BecomesInv ==
  ASSUME Inv, NEW c, ClientInv(c), Becomes(c),
         c.id = NoId => Unconnected(c) \/ (client.id = NoId /\ ~Unconnected(client))
  PROVE  Inv'
<1>1. client' = c /\ client' \in Clients
  BY DEF Becomes, ClientInv
<1>2. wire' \in Wires
  BY TypeParts, IdleFacts DEF Becomes, Inv, Wires
<1>3. ServerTypeOK'
  BY TypeParts DEF Becomes, Inv, serverVars, ServerTypeOK
<1>4. TypeOK'
  BY <1>1, <1>2, <1>3 DEF TypeOK, Wires, ServerTypeOK
<1>5. Unnamed(client', wire')
  BY <1>1 DEF Becomes, Inv, Unnamed, Unconnected, Sockets
<1> QED
  BY <1>1, <1>4, <1>5 DEF Inv

LEMMA ClientStepInv ==
  ASSUME Inv, ClientStep
  PROVE  Inv'
<1>1. client \in Clients /\ ClientInv(client) /\ wire \in Wires
  BY TypeParts DEF Inv
<1>2. \A s \in Sockets : wire[s].answer \in Answers
  BY <1>1 DEF Wires
<1>3. CASE Resolved
  <2>1. PICK resolved \in BOOLEAN, ok \in BOOLEAN :
          Becomes(OnResolveResult(client, resolved, ok))
    BY <1>3, ChoiceFacts DEF Resolved
  <2>2. Unconnected(OnResolveResult(client, resolved, ok))
    <3>1. Unconnected(client)
      BY <1>1, <1>3 DEF Resolved, ClientInv, Detached, Unconnected
    <3> QED
      BY <1>1, <3>1, DoConnectControl DEF OnResolveResult, Quit, Unconnected, Clients
  <2> QED
    BY <1>1, <1>3, <2>1, <2>2, ResolveInv, BecomesInv DEF Resolved
<1>4. CASE ReadsControl
  <2>1. PICK giveUp \in BOOLEAN, ok \in BOOLEAN :
          Becomes(OnRead(client, wire["control"].answer, giveUp, ok))
    BY <1>4, ChoiceFacts DEF ReadsControl
  <2>2. client.id = NoId /\ wire["control"].answer.status = "200"
          => wire["control"].answer.pragma \in Ids
    BY <1>4 DEF ReadsControl, Answered, Inv, Unnamed
  <2>3. /\ ClientInv(OnRead(client, wire["control"].answer, giveUp, ok))
        /\ Unconnected(OnRead(client, wire["control"].answer, giveUp, ok))
    BY <1>1, <1>2, <2>2, OnReadInv, OnReadControl DEF Sockets
  <2> QED
    BY <2>1, <2>3, BecomesInv
<1>5. CASE ReadsHanging
  <2>1. PICK giveUp \in BOOLEAN, ok \in BOOLEAN :
          Becomes(OnHangingGetRead(client, wire["hanging"].answer, giveUp, ok))
    BY <1>5, ChoiceFacts DEF ReadsHanging
  <2> DEFINE c == OnHangingGetRead(client, wire["hanging"].answer, giveUp, ok)
  <2>2. ClientInv(c) /\ c.state # "SIGNING_IN"
    BY <1>1, <1>2, <1>5, OnHangingGetReadInv, OnHangingGetReadState
    DEF ReadsHanging, Answered, Sockets
  <2> HIDE DEF c
  <2>3. c.id = NoId => Unconnected(c)
    BY <2>2 DEF ClientInv, HasId, Detached, Unconnected
  <2> QED
    BY <2>1, <2>2, <2>3, BecomesInv DEF c
<1>6. CASE Retries
  <2>1. PICK ok \in BOOLEAN : Becomes(DoConnect([client EXCEPT !.retries = @ - 1], ok))
    BY <1>6, ChoiceFacts DEF Retries
  <2>2. client.retries - 1 \in 0 .. MaxRetries
    BY <1>1, <1>6, ClientAssumption DEF Retries, Clients
  <2>3. [client EXCEPT !.retries = @ - 1] \in Clients
    BY <1>1, <2>2 DEF Clients
  <2> QED
    BY <2>1, <2>3, DoConnectInv, DoConnectControl, BecomesInv
<1>7. CASE Sends
  <2>1. PICK to \in client.peers, ok \in BOOLEAN : Becomes(SendToPeer(client, to, ok))
    BY <1>7, ChoiceFacts DEF Sends
  <2>2. to \in Ids
    BY <1>1, <2>1 DEF Clients
  <2>3. client.sock["control"] = "closed"
    BY <1>7 DEF Sends, IsSendingMessage
  <2>4. Unconnected(SendToPeer(client, to, ok))
    BY <1>1, <2>3 DEF SendToPeer, ConnectControlSocket, Close, Unconnected, Clients, Sockets
  <2> QED
    BY <1>1, <2>1, <2>2, <2>4, SendToPeerInv, BecomesInv
<1>8. CASE Stops
  <2>1. ClientInv(Quit(client)) /\ Quit(client).id = client.id
          /\ Quit(client).sock = client.sock
    BY <1>1, QuitInv DEF Quit, Clients
  <2> QED
    BY <1>8, <2>1, BecomesInv DEF Stops, Unconnected
<1>9. ASSUME NEW s \in Sockets, Connected(s)
      PROVE  Inv'
  <2>1. client' = OnConnect(client, s) /\ ClientInv(client')
    BY <1>1, <1>9, OnConnectInv DEF Connected
  <2>2. Sent(client, s) \in Asks
    BY <1>1, AskFacts DEF Sent, Clients
  <2>3. wire' \in Wires
    BY <1>1, <1>9, <2>2, AnswerTypes DEF Connected, Carries, Wires
  <2>4. ServerTypeOK'
    BY <1>9, TypeParts DEF Connected, Inv, serverVars, ServerTypeOK
  <2>5. TypeOK'
    BY <2>1, <2>3, <2>4 DEF ClientInv, TypeOK, Wires, ServerTypeOK
  <2>6. Unnamed(client', wire')
    <3>1. client'.id = client.id
      BY <1>1, <2>1 DEF OnConnect, Clients
    <3>2. CASE s = "control"
      <4>1. wire'["control"] = Carries(client.onconnect, NoAnswer)
        BY <1>1, <1>9, <3>2 DEF Connected, Sent, Wires
      <4>2. client.id = NoId => client.onconnect.path = "/sign_in"
        BY <1>1, <1>9, <3>2 DEF Connected, ClientInv, Asking
      <4> QED
        BY <3>1, <4>1, <4>2 DEF Unnamed, Carries, NoAnswer, Answer
    <3>3. CASE s = "hanging"
      <4>1. wire'["control"] = wire["control"]
        BY <1>1, <1>9, <3>3 DEF Connected, Wires, Sockets
      <4>2. client'.sock["control"] = client.sock["control"]
        BY <1>1, <2>1, <3>3 DEF OnConnect, Clients, Sockets
      <4> QED
        BY <3>1, <4>1, <4>2 DEF Unnamed, Inv
    <3> QED
      BY <3>2, <3>3 DEF Sockets
  <2> QED
    BY <2>1, <2>5, <2>6 DEF Inv
<1>10. ASSUME NEW s \in Sockets, Refused(s)
       PROVE  Inv'
  <2>1. PICK ok \in BOOLEAN : Becomes(OnClose(client, s, TRUE, ok))
    BY <1>10, ChoiceFacts DEF Refused
  <2>2. ClientInv(OnClose(client, s, TRUE, ok))
    BY <1>1, <1>10, OnCloseInv DEF Refused
  <2>3. Unconnected(OnClose(client, s, TRUE, ok))
    BY <1>1 DEF OnClose, Quit, Close, Unconnected, Clients, Sockets
  <2> QED
    BY <2>1, <2>2, <2>3, BecomesInv
<1>11. ASSUME NEW s \in Sockets, Noticed(s)
       PROVE  Inv'
  <2>1. PICK ok \in BOOLEAN : Becomes(OnClose(client, s, FALSE, ok))
    BY <1>11, ChoiceFacts DEF Noticed
  <2> DEFINE c == OnClose(client, s, FALSE, ok)
  <2>2. ClientInv(c)
    BY <1>1, OnCloseInv
  <2>3. c.id = client.id /\ (Unconnected(client) => Unconnected(c))
    BY <1>1 DEF OnClose, Poll, Unconnected, Clients, Sockets
  <2> QED
    BY <2>1, <2>2, <2>3, BecomesInv
<1> QED
  BY <1>3, <1>4, <1>5, <1>6, <1>7, <1>8, <1>9, <1>10, <1>11 DEF ClientStep

(* A step of the server or the network leaves the client alone.            *)
LEMMA RemoteInv ==
  ASSUME Inv, UNCHANGED client, wire' \in Wires, ServerTypeOK', Unnamed(client, wire')
  PROVE  Inv'
BY TypeParts DEF Inv, TypeOK, Wires, ServerTypeOK

LEMMA SameControl ==
  ASSUME Inv, wire'["control"] = wire["control"] \/ wire'["control"].ask = wire["control"].ask
                \/ wire'["control"] = Gone,
         wire'["control"].answer \in {wire["control"].answer, NoAnswer}
  PROVE  Unnamed(client, wire')
BY GoneFacts DEF Inv, Unnamed, NoAnswer, Answer

(* A response reaches the client, unless its connection is lost.           *)
LEMMA Answers200Facts ==
  ASSUME wire \in Wires, NEW s \in Sockets, NEW a \in Answers, Answers200(s, a)
  PROVE  /\ wire' \in Wires
         /\ wire[s].lost => wire'[s] = Gone
         /\ ~wire[s].lost => /\ wire'[s].ask = wire[s].ask /\ wire'[s].answer = a
                             /\ ~wire'[s].lost
         /\ \A t \in Sockets \ {s} : wire'[t] = wire[t]
<1>1. wire[s] \in [ask : Asks, answer : Answers, lost : BOOLEAN]
  BY DEF Wires
<1> DEFINE w == [wire[s] EXCEPT !.answer = a]
           x == IF wire[s].lost THEN Gone ELSE w
<1>2. /\ w \in [ask : Asks, answer : Answers, lost : BOOLEAN]
      /\ w.ask = wire[s].ask /\ w.answer = a /\ w.lost = wire[s].lost
  BY <1>1
<1>3. wire' = [wire EXCEPT ![s] = x]
  BY DEF Answers200, Responds
<1> HIDE DEF w
<1>4. x \in [ask : Asks, answer : Answers, lost : BOOLEAN]
  BY <1>2, GoneFacts
<1> HIDE DEF x
<1>5. wire' \in Wires /\ wire'[s] = x /\ \A t \in Sockets \ {s} : wire'[t] = wire[t]
  BY <1>3, <1>4 DEF Wires
<1> QED BY <1>2, <1>5 DEF x

LEMMA RejectsFacts ==
  ASSUME wire \in Wires, NEW s \in Sockets, Rejects(s)
  PROVE  /\ wire' \in Wires
         /\ wire'[s].answer.status # "200"
         /\ wire[s].lost => wire'[s] = Gone
         /\ ~wire[s].lost => wire'[s].ask = wire[s].ask /\ ~wire'[s].lost
         /\ \A t \in Sockets \ {s} : wire'[t] = wire[t]
<1> DEFINE a == Answer("500", NoId, {}, {})
<1>1. a \in Answers /\ a.status = "500" /\ Answers200(s, a)
  BY AnswerTypes DEF Rejects, Answers200, Answer
<1> HIDE DEF a
<1> QED BY <1>1, Answers200Facts, GoneFacts

(* The mailboxes stay mailboxes.                                           *)
LEMMA ToldType ==
  ASSUME ServerTypeOK, NEW who, NEW J \in SUBSET Ids, NEW L \in SUBSET Ids
  PROVE  Told(who, J, L) \in [Ids -> Seq(Answers)]
BY AnswerTypes DEF Told, ServerTypeOK

LEMMA AdmitType ==
  ASSUME ServerTypeOK, NEW isMine \in BOOLEAN, Admit(lastId + 1, isMine)
  PROVE  /\ lastId' = lastId + 1 /\ lastId' \in Ids
         /\ members' \subseteq 1 .. lastId' /\ mine' \subseteq 1 .. lastId'
         /\ box' \in [Ids -> Seq(Answers)]
<1> DEFINE new == lastId + 1
           told == Told(members, {new}, {})
<1>1. new \in Ids /\ lastId' = new
  BY DEF Admit
<1>2. told \in [Ids -> Seq(Answers)]
  BY <1>1, ToldType
<1>3. box' = [told EXCEPT ![new] = <<>>]
  BY DEF Admit
<1> HIDE DEF told
<1>4. box' \in [Ids -> Seq(Answers)]
  <2>1. <<>> \in Seq(Answers)
    OBVIOUS
  <2> HIDE DEF new
  <2> QED
    BY <1>2, <1>3, <2>1
<1>5. 1 .. lastId \subseteq 1 .. new /\ new \in 1 .. new
  BY ClientAssumption DEF ServerTypeOK
<1>6. members' \subseteq 1 .. new /\ mine' \subseteq 1 .. new
  BY <1>5 DEF Admit, ServerTypeOK
<1> QED
  BY <1>1, <1>4, <1>6

LEMMA DismissType ==
  ASSUME ServerTypeOK, NEW m \in Ids, Dismiss(m)
  PROVE  members' \subseteq 1 .. lastId /\ box' \in [Ids -> Seq(Answers)]
<1> DEFINE told == Told(members \ {m}, {}, {m})
<1>1. told \in [Ids -> Seq(Answers)]
  BY ToldType
<1>2. box' = [told EXCEPT ![m] = <<>>] /\ members' = members \ {m}
  BY DEF Dismiss
<1> HIDE DEF told
<1>3. <<>> \in Seq(Answers)
  OBVIOUS
<1>4. box' \in [Ids -> Seq(Answers)]
  BY <1>1, <1>2, <1>3
<1>5. members' \subseteq 1 .. lastId
  BY <1>2 DEF ServerTypeOK
<1> QED
  BY <1>4, <1>5

LEMMA MembersAreIds ==
  ASSUME ServerTypeOK
  PROVE  members \subseteq Ids
BY ClientAssumption DEF ServerTypeOK, Ids

(* The request on the control connection is a sign-in for a client without *)
(* an id, so other answers reach only a client that has one.               *)
LEMMA OtherPath ==
  ASSUME Inv, NEW path, Pending("control", path), path \notin {"/sign_in", "none"}
  PROVE  client.id # NoId
BY DEF Inv, Unnamed, Pending

LEMMA ServerStepInv ==
  ASSUME Inv, ServerStep
  PROVE  Inv'
<1>1. wire \in Wires /\ ServerTypeOK
  BY TypeParts DEF Inv
<1>2. CASE ServesSignIn
  <2>1. ServerTypeOK' /\ lastId' \in Ids /\ members' \subseteq Ids
    <3>1. /\ lastId' = lastId + 1 /\ lastId' \in Ids
          /\ members' \subseteq 1 .. lastId' /\ mine' \subseteq 1 .. lastId'
          /\ box' \in [Ids -> Seq(Answers)]
      BY <1>1, <1>2, AdmitType DEF ServesSignIn
    <3>2. lastId' \in 0 .. MaxId /\ 1 .. lastId' \subseteq Ids
      BY <3>1, ClientAssumption DEF Ids
    <3> QED
      BY <1>1, <1>2, <3>1, <3>2 DEF ServesSignIn, ServerTypeOK
  <2>2. Answer("200", lastId', members', {}) \in Answers
    BY <2>1, AnswerTypes
  <2>3. /\ wire' \in Wires
        /\ \/ wire'["control"] = Gone
           \/ /\ wire'["control"].ask = wire["control"].ask
              /\ wire'["control"].answer = Answer("200", lastId', members', {})
    BY <1>1, <1>2, <2>2, Answers200Facts DEF ServesSignIn, Sockets
  <2>4. Unnamed(client, wire')
    BY <2>1, <2>3, GoneFacts DEF Inv, Unnamed, Answer
  <2> QED
    BY <1>2, <2>1, <2>3, <2>4, RemoteInv DEF ServesSignIn
<1>3. CASE ServesSignOut
  <2> DEFINE id == wire["control"].ask.id
  <2>1. Unnamed(client, wire')
    BY <1>3, OtherPath DEF ServesSignOut, Unnamed
  <2>2. CASE id \in members
    <3>1. Dismiss(id) /\ Answers200("control", Answer("200", NoId, {}, {}))
      BY <1>3, <2>2 DEF ServesSignOut
    <3>2. members' \subseteq 1 .. lastId /\ box' \in [Ids -> Seq(Answers)]
      BY <1>1, <2>2, <3>1, DismissType, MembersAreIds
    <3>3. wire' \in Wires
      BY <1>1, <3>1, Answers200Facts, AnswerTypes DEF Sockets
    <3>4. ServerTypeOK'
      BY <1>1, <1>3, <3>2 DEF ServesSignOut, ServerTypeOK
    <3> QED
      BY <1>3, <2>1, <3>3, <3>4, RemoteInv DEF ServesSignOut
  <2>3. CASE id \notin members
    <3>1. wire' \in Wires
      BY <1>1, <1>3, <2>3, RejectsFacts DEF ServesSignOut, Sockets
    <3>2. ServerTypeOK'
      BY <1>1, <1>3, <2>3 DEF ServesSignOut, ServerTypeOK
    <3> QED
      BY <1>3, <2>1, <3>1, <3>2, RemoteInv DEF ServesSignOut
  <2> QED
    BY <2>2, <2>3
<1>4. CASE ServesMessage
  <2>1. Unnamed(client, wire')
    BY <1>4, OtherPath DEF ServesMessage, Unnamed
  <2>2. wire' \in Wires
    BY <1>1, <1>4, Answers200Facts, RejectsFacts, AnswerTypes DEF ServesMessage, Sockets
  <2>3. ServerTypeOK'
    BY <1>1, <1>4 DEF ServesMessage, serverVars, ServerTypeOK
  <2> QED
    BY <1>4, <2>1, <2>2, <2>3, RemoteInv DEF ServesMessage
<1>5. CASE ServesWait
  <2> DEFINE id == wire["hanging"].ask.id
  <2>1. CASE id \notin members
    <3>1. wire' \in Wires /\ wire'["control"] = wire["control"]
      BY <1>1, <1>5, <2>1, RejectsFacts DEF ServesWait, Sockets
    <3>2. ServerTypeOK'
      BY <1>1, <1>5, <2>1 DEF ServesWait, ServerTypeOK
    <3> QED
      BY <1>5, <3>1, <3>2, SameControl, RemoteInv DEF ServesWait
  <2>2. CASE id \in members
    <3>1. /\ box[id] # <<>> /\ Answers200("hanging", Head(box[id]))
          /\ box' = [box EXCEPT ![id] = Tail(@)]
      BY <1>5, <2>2 DEF ServesWait
    <3>2. id \in Ids /\ box[id] \in Seq(Answers)
      BY <1>1, <2>2, MembersAreIds DEF ServerTypeOK
    <3>3. Head(box[id]) \in Answers /\ Tail(box[id]) \in Seq(Answers)
      BY <3>1, <3>2
    <3>4. wire' \in Wires /\ wire'["control"] = wire["control"]
      BY <1>1, <3>1, <3>3, Answers200Facts DEF Sockets
    <3>5. ServerTypeOK'
      BY <1>1, <1>5, <3>1, <3>3 DEF ServesWait, ServerTypeOK
    <3> QED
      BY <1>5, <3>4, <3>5, SameControl, RemoteInv DEF ServesWait
  <2> QED
    BY <2>1, <2>2
<1>6. CASE OtherJoins
  <2>1. ServerTypeOK'
    <3>1. /\ lastId' = lastId + 1 /\ lastId' \in Ids
          /\ members' \subseteq 1 .. lastId' /\ mine' \subseteq 1 .. lastId'
          /\ box' \in [Ids -> Seq(Answers)]
      BY <1>1, <1>6, AdmitType DEF OtherJoins
    <3>2. lastId' \in 0 .. MaxId
      BY <3>1 DEF Ids
    <3> QED
      BY <1>1, <1>6, <3>1, <3>2 DEF OtherJoins, ServerTypeOK
  <2> QED
    BY <1>1, <1>6, <2>1, SameControl, RemoteInv DEF OtherJoins
<1>7. ASSUME NEW m \in Ids, OtherLeaves(m)
      PROVE  Inv'
  <2>1. ServerTypeOK'
    BY <1>1, <1>7, DismissType DEF OtherLeaves, ServerTypeOK
  <2> QED
    BY <1>1, <1>7, <2>1, SameControl, RemoteInv DEF OtherLeaves
<1>8. ASSUME NEW from \in Ids, NEW to \in Ids, OtherSends(from, to)
      PROVE  Inv'
  <2>1. Answer("200", from, {}, {}) \in Answers
    BY AnswerTypes
  <2>2. box' \in [Ids -> Seq(Answers)]
    BY <1>1, <1>8, <2>1 DEF OtherSends, ServerTypeOK
  <2>3. ServerTypeOK'
    BY <1>1, <1>8, <2>2 DEF OtherSends, ServerTypeOK
  <2> QED
    BY <1>1, <1>8, <2>3, SameControl, RemoteInv DEF OtherSends
<1>9. ASSUME NEW m \in Ids, ServesDead(m)
      PROVE  Inv'
  <2>1. box[m] \in Seq(Answers) /\ box[m] # <<>>
    BY <1>1, <1>9 DEF ServesDead, ServerTypeOK
  <2>2. Head(box[m]) \in Answers /\ Tail(box[m]) \in Seq(Answers)
    BY <2>1
  <2>3. missed' \subseteq Ids
    BY <1>1, <1>9, <2>2, AnswerFacts DEF ServesDead, Misses, ServerTypeOK
  <2>4. ServerTypeOK'
    BY <1>1, <1>9, <2>2, <2>3 DEF ServesDead, ServerTypeOK
  <2> QED
    BY <1>1, <1>9, <2>4, SameControl, RemoteInv DEF ServesDead
<1> QED
  BY <1>2, <1>3, <1>4, <1>5, <1>6, <1>7, <1>8, <1>9 DEF ServerStep

LEMMA DropsWire ==
  ASSUME wire \in Wires, NEW s \in Sockets, Drops(s)
  PROVE  /\ wire' \in Wires
         /\ wire'[s] = Gone \/ (s = "control" /\ wire'[s].ask = wire[s].ask
                                 /\ wire'[s].answer = wire[s].answer)
         /\ \A t \in Sockets \ {s} : wire'[t] = wire[t]
<1> DEFINE w == [wire[s] EXCEPT !.lost = TRUE]
           x == IF s = "hanging" \/ wire[s].answer # NoAnswer THEN Gone ELSE w
<1>1. /\ w \in [ask : Asks, answer : Answers, lost : BOOLEAN]
      /\ w.ask = wire[s].ask /\ w.answer = wire[s].answer
  BY DEF Wires
<1>2. wire' = [wire EXCEPT ![s] = x]
  BY DEF Drops
<1> HIDE DEF w
<1>3. x \in [ask : Asks, answer : Answers, lost : BOOLEAN]
  BY <1>1, GoneFacts
<1>4. x = Gone \/ (s = "control" /\ x = w)
  BY DEF Sockets
<1> HIDE DEF x
<1>5. wire' \in Wires /\ wire'[s] = x /\ \A t \in Sockets \ {s} : wire'[t] = wire[t]
  BY <1>2, <1>3 DEF Wires
<1> QED BY <1>1, <1>4, <1>5

LEMMA FaultStepInv ==
  ASSUME Inv, FaultStep
  PROVE  Inv'
<1>1. wire \in Wires /\ ServerTypeOK
  BY TypeParts DEF Inv
<1>2. [m \in Ids |-> <<>>] \in [Ids -> Seq(Answers)]
  OBVIOUS
<1>3. CASE ShutsDown
  <2>1. wire' \in Wires /\ wire'["control"] = wire["control"]
    BY <1>1, <1>3, Answers200Facts, AnswerTypes DEF ShutsDown, Sockets
  <2>2. ServerTypeOK'
    BY <1>1, <1>2, <1>3 DEF ShutsDown, ServerTypeOK
  <2> QED
    BY <1>3, <2>1, <2>2, SameControl, RemoteInv DEF ShutsDown
<1>4. CASE Crashes
  <2>1. /\ wire' \in Wires
        /\ wire'["control"] \in {wire["control"], Gone}
    BY <1>1, <1>4, GoneFacts DEF Crashes, Wires, Sockets
  <2>a. wire'["control"].answer \in {wire["control"].answer, NoAnswer}
    BY <2>1, GoneFacts
  <2>2. ServerTypeOK'
    <3>1. crashes' \in 0 .. MaxCrashes
      BY <1>1, <1>4, SessionAssumption DEF Crashes, ServerTypeOK
    <3>2. lastId' \in 0 .. MaxId /\ members' \subseteq 1 .. lastId' /\ mine' \subseteq 1 .. lastId'
      BY <1>4, ClientAssumption DEF Crashes
    <3>3. box' \in [Ids -> Seq(Answers)]
      BY <1>2, <1>4 DEF Crashes
    <3>4. dead' = {} /\ missed' = Ids /\ up' \in BOOLEAN
      BY <1>4 DEF Crashes
    <3> HIDE DEF Ids
    <3> QED
      BY <3>1, <3>2, <3>3, <3>4 DEF ServerTypeOK
  <2> QED
    BY <1>4, <2>1, <2>a, <2>2, SameControl, RemoteInv DEF Crashes
<1>5. CASE Restarts
  <2>1. ServerTypeOK'
    BY <1>1, <1>5 DEF Restarts, ServerTypeOK
  <2> QED
    BY <1>1, <1>5, <2>1, SameControl, RemoteInv DEF Restarts
<1>6. ASSUME NEW m \in Ids, Evicts(m)
      PROVE  Inv'
  <2>1. ServerTypeOK'
    BY <1>1, <1>6, DismissType DEF Evicts, ServerTypeOK
  <2> QED
    BY <1>1, <1>6, <2>1, SameControl, RemoteInv DEF Evicts
<1>7. ASSUME NEW s \in Sockets, Drops(s)
      PROVE  Inv'
  <2>1. /\ wire' \in Wires
        /\ wire'["control"] = Gone \/ wire'["control"].ask = wire["control"].ask
        /\ wire'["control"].answer \in {wire["control"].answer, NoAnswer}
    <3>1. CASE s = "control"
      BY <1>1, <1>7, <3>1, DropsWire, GoneFacts
    <3>2. CASE s = "hanging"
      <4>1. "control" \in Sockets \ {s}
        BY <3>2 DEF Sockets
      <4> QED BY <1>1, <1>7, <4>1, DropsWire
    <3> QED BY <3>1, <3>2 DEF Sockets
  <2>2. missed' \subseteq Ids /\ dead' \subseteq Ids \cup {NoId}
    <3>1. wire[s].answer \in Answers /\ wire[s].ask.id \in Ids \cup {NoId}
      BY <1>1 DEF Wires, Asks
    <3> QED BY <1>1, <1>7, <3>1, AnswerFacts DEF Drops, Misses, ServerTypeOK
  <2>3. ServerTypeOK'
    BY <1>1, <1>7, <2>2 DEF Drops, ServerTypeOK
  <2> QED
    BY <1>7, <2>1, <2>3, SameControl, RemoteInv DEF Drops
<1> QED
  BY <1>3, <1>4, <1>5, <1>6, <1>7 DEF FaultStep

-----------------------------------------------------------------------------
LEMMA InitInv == Init => Inv
<1> SUFFICES ASSUME Init
             PROVE  Inv
  OBVIOUS
<1>1. PICK named \in BOOLEAN, ok \in BOOLEAN : client = Connect(NewClient, named, ok)
  BY ChoiceFacts DEF Init
<1>2. ClientInv(client)
  BY <1>1, ConnectInv
<1>3. wire \in Wires
  BY IdleFacts DEF Init, Wires
<1>4. ServerTypeOK
  BY ClientAssumption, SessionAssumption DEF Init, ServerTypeOK
<1>5. Unnamed(client, wire)
  <2>1. NewClient \in Clients /\ Unconnected(NewClient)
    BY AskFacts, ClientAssumption DEF NewClient, Clients, States, Sockets, Unconnected
  <2>2. Unconnected(client)
    BY <1>1, <2>1, DoConnectControl DEF Connect, Quit, Unconnected, Clients
  <2> QED
    BY <2>2 DEF Unnamed, Unconnected
<1> QED
  BY <1>2, <1>3, <1>4, <1>5, TypeParts DEF Inv, ClientInv

LEMMA NextInv == Inv /\ [Next]_vars => Inv'
<1> SUFFICES ASSUME Inv, [Next]_vars
             PROVE  Inv'
  OBVIOUS
<1>1. CASE Over \/ UNCHANGED vars
  BY <1>1 DEF Over, vars, serverVars, Inv, TypeOK, Unnamed
<1> QED
  BY <1>1, ClientStepInv, ServerStepInv, FaultStepInv DEF Next

LEMMA Invariance == Spec => []Inv
BY InitInv, NextInv, PTL DEF Spec

(* The client, its connections and the server's state are well typed in    *)
(* every reachable state, whatever fails.                                  *)
THEOREM SessionTypeCorrect == Spec => []TypeOK
<1>1. Inv => TypeOK
  BY DEF Inv
<1> QED
  BY <1>1, Invariance, PTL

(* No callback of the client leaves a poll under way that its state does   *)
(* not know of: the DCHECK at peer_connection_client.cc:379 holds.         *)
THEOREM PollsCorrect == Spec => []PollsWhileConnected
<1>1. Inv => PollsWhileConnected
  BY DEF Inv, ClientInv, Polls, PollsWhileConnected
<1> QED
  BY <1>1, Invariance, PTL

(* The first response finds the client signing in: the DCHECK at           *)
(* peer_connection_client.cc:343 holds.                                    *)
THEOREM FirstResponseCorrect == Spec => []FirstResponseSigningIn
<1>1. Inv => FirstResponseSigningIn
  BY DEF Inv, ClientInv, HasId, Detached, FirstResponseSigningIn
<1> QED
  BY <1>1, Invariance, PTL

-----------------------------------------------------------------------------
(* Nobody closes a running client behind its application's back, as long   *)
(* as connect(2) starts whenever it is called.                             *)

Aware(c) == c.running => c.state # "NOT_CONNECTED"

LEMMA DoConnectAware ==
  ASSUME NEW c \in Clients
  PROVE  Aware(DoConnect(c, TRUE))
BY DEF DoConnect, ConnectControlSocket, Aware, Clients

LEMMA SignOutAware ==
  ASSUME NEW c \in Clients, Aware(c)
  PROVE  Aware(SignOut(c, TRUE))
BY DEF SignOut, ConnectControlSocket, Aware, Clients

LEMMA OnCloseAware ==
  ASSUME NEW c \in Clients, Aware(c), NEW s \in Sockets, NEW refused \in BOOLEAN
  PROVE  Aware(OnClose(c, s, refused, TRUE))
BY DEF OnClose, Poll, Close, Quit, Aware, Clients, Sockets

LEMMA RejectedAware ==
  ASSUME NEW c \in Clients
  PROVE  Aware(Rejected(c))
BY DEF Rejected, Quit, Close, Aware, Clients

LEMMA StartPollingAware ==
  ASSUME NEW c \in Clients, Aware(c)
  PROVE  Aware(StartPolling(c, TRUE))
BY DEF StartPolling, Poll, Aware, Clients

LEMMA FirstResponseAware ==
  ASSUME NEW c, ClientInv(c), Aware(c), NEW a \in Answers, a.pragma \in Ids,
         NEW giveUp \in BOOLEAN
  PROVE  Aware(FirstResponse(c, a, giveUp, TRUE))
<1> DEFINE listed == a.joined \ {a.pragma}
           later == {k \in listed : \E i \in listed : i < k}
           known == c.peers \cup listed
           named == [c EXCEPT !.id = a.pragma, !.peers = @ \cup listed]
           out == SignOut(named, TRUE)
<1>1. FirstResponse(c, a, giveUp, TRUE) =
        IF giveUp /\ listed # {} THEN [out EXCEPT !.peers = @ \cup later] ELSE named
  BY DEF FirstResponse
<1> HIDE DEF later
<1>2. known \in SUBSET Ids
  BY AnswerFacts DEF ClientInv, Clients
<1>3. named = [c EXCEPT !.id = a.pragma, !.peers = known]
  BY DEF ClientInv, Clients
<1>4. ClientInv([c EXCEPT !.id = a.pragma, !.peers = known])
      /\ [c EXCEPT !.id = a.pragma, !.peers = known].id = a.pragma
  BY <1>2, NamedInv
<1>5. ClientInv(named) /\ named.id # NoId /\ named \in Clients
  BY <1>3, <1>4, IdsFacts DEF ClientInv
<1>6. Aware(named)
  BY DEF Aware, ClientInv, Clients
<1> HIDE DEF named, listed
<1>7. out \in Clients /\ Aware(out)
  BY <1>5, <1>6, SignOutInv, SignOutAware DEF ClientInv
<1> HIDE DEF out
<1>8. Aware([out EXCEPT !.peers = @ \cup later])
  BY <1>7 DEF Aware, Clients
<1> QED
  BY <1>1, <1>6, <1>8

LEMMA OnReadAware ==
  ASSUME NEW c, ClientInv(c), Aware(c), NEW a \in Answers,
         c.id = NoId /\ a.status = "200" => a.pragma \in Ids, NEW giveUp \in BOOLEAN
  PROVE  Aware(OnRead(c, a, giveUp, TRUE))
<1> DEFINE read == ReadIntoBuffer(c, "control", TRUE)
           first == FirstResponse(read, a, giveUp, TRUE)
<1>1. ClientInv(read) /\ read \in Clients /\ read.id = c.id
  BY ReadFacts DEF ClientInv, Sockets
<1>2. Aware(read)
  BY OnCloseAware DEF ReadIntoBuffer, ClientInv, Sockets
<1> HIDE DEF read
<1>3. CASE a.status # "200"
  BY <1>1, <1>3, RejectedAware DEF OnRead, read
<1>4. CASE a.status = "200" /\ read.id = NoId
  <2>1. OnRead(c, a, giveUp, TRUE) = StartPolling(first, TRUE)
    BY <1>4 DEF OnRead, read
  <2>2. a.pragma \in Ids
    BY <1>1, <1>4
  <2>3. ClientInv(first) /\ Aware(first)
    BY <1>1, <1>2, <2>2, FirstResponseInv, FirstResponseAware
  <2> HIDE DEF first
  <2> QED
    BY <2>1, <2>3, StartPollingAware DEF ClientInv
<1>5. CASE a.status = "200" /\ read.id # NoId /\ read.state = "SIGNING_OUT"
  BY <1>1, <1>5, RejectedAware DEF OnRead, Rejected, read
<1>6. CASE a.status = "200" /\ read.id # NoId /\ read.state = "SIGNING_OUT_WAITING"
  BY <1>1, <1>2, <1>6, SignOutAware DEF OnRead, read
<1>7. CASE /\ a.status = "200" /\ read.id # NoId
           /\ read.state \notin {"SIGNING_OUT", "SIGNING_OUT_WAITING"}
  BY <1>1, <1>2, <1>7, StartPollingAware DEF OnRead, read
<1> QED
  BY <1>3, <1>4, <1>5, <1>6, <1>7

LEMMA OnHangingGetReadAware ==
  ASSUME NEW c, ClientInv(c), Aware(c), c.sock["hanging"] = "connected",
         NEW a \in Answers, NEW giveUp \in BOOLEAN
  PROVE  Aware(OnHangingGetRead(c, a, giveUp, TRUE))
<1> DEFINE read == ReadIntoBuffer(c, "hanging", TRUE)
           knows == IF read.id = a.pragma
                    THEN [read EXCEPT !.peers = (@ \cup a.joined) \ a.left] ELSE read
           told == IF a.status = "200" THEN Notified(read, a, giveUp, TRUE)
                                       ELSE Rejected(read)
<1>1. c.id # NoId
  BY DEF ClientInv, Polls, HasId
<1>2. ClientInv(read) /\ read \in Clients /\ read.id # NoId
  BY <1>1, ReadFacts DEF ClientInv, Sockets
<1>3. Aware(read)
  BY OnCloseAware DEF ReadIntoBuffer, ClientInv, Sockets
<1> HIDE DEF read
<1>4. (read.peers \cup a.joined) \ a.left \in SUBSET Ids
  BY <1>2, AnswerFacts DEF Clients
<1>5. knows \in Clients /\ Aware(knows)
  BY <1>2, <1>3, <1>4 DEF Clients, Aware
<1>6. Notified(read, a, giveUp, TRUE) = SignOut(knows, TRUE)
        \/ Notified(read, a, giveUp, TRUE) = knows
  BY DEF Notified
<1> HIDE DEF knows
<1>7. Aware(told)
  BY <1>2, <1>5, <1>6, SignOutAware, RejectedAware
<1>8. ClientInv(told)
  BY <1>2, NotifiedInv, RejectedInv
<1> HIDE DEF told
<1>9. OnHangingGetRead(c, a, giveUp, TRUE) =
        IF told.sock["hanging"] = "closed" /\ told.state = "CONNECTED"
        THEN Poll(told, TRUE) ELSE told
  BY DEF OnHangingGetRead, told, read
<1>10. Aware(Poll(told, TRUE))
  BY <1>7, <1>8 DEF Poll, Aware, ClientInv, Clients
<1> QED
  BY <1>7, <1>9, <1>10

LEMMA StepAware ==
  ASSUME "connect" \notin Faults, Inv, ClosedMeansTold, ClientStep
  PROVE  Aware(client')
<1>1. client \in Clients /\ ClientInv(client) /\ Aware(client) /\ wire \in Wires
  BY TypeParts DEF Inv, Aware, ClosedMeansTold
<1>2. Outcomes = {TRUE}
  BY DEF Outcomes
<1>3. \A s \in Sockets : wire[s].answer \in Answers
  BY <1>1 DEF Wires
<1>4. CASE Resolved
  <2>1. PICK resolved \in BOOLEAN : client' = OnResolveResult(client, resolved, TRUE)
    BY <1>2, <1>4, ChoiceFacts DEF Resolved, Becomes
  <2>2. CASE resolved
    BY <1>1, <2>1, <2>2, DoConnectAware DEF OnResolveResult
  <2>3. CASE ~resolved
    BY <1>1, <2>1, <2>3 DEF OnResolveResult, Quit, Aware, Clients
  <2> QED
    BY <2>2, <2>3
<1>5. CASE ReadsControl
  <2>1. PICK giveUp \in BOOLEAN :
          client' = OnRead(client, wire["control"].answer, giveUp, TRUE)
    BY <1>2, <1>5, ChoiceFacts DEF ReadsControl, Becomes
  <2>2. client.id = NoId /\ wire["control"].answer.status = "200"
          => wire["control"].answer.pragma \in Ids
    BY <1>5 DEF ReadsControl, Answered, Inv, Unnamed
  <2> QED
    BY <1>1, <1>3, <2>1, <2>2, OnReadAware DEF Sockets
<1>6. CASE ReadsHanging
  <2>1. PICK giveUp \in BOOLEAN :
          client' = OnHangingGetRead(client, wire["hanging"].answer, giveUp, TRUE)
    BY <1>2, <1>6, ChoiceFacts DEF ReadsHanging, Becomes
  <2> QED
    BY <1>1, <1>3, <1>6, <2>1, OnHangingGetReadAware DEF ReadsHanging, Answered, Sockets
<1>7. CASE Retries
  <2>1. client' = DoConnect([client EXCEPT !.retries = @ - 1], TRUE)
    BY <1>2, <1>7 DEF Retries, Becomes
  <2>2. client.retries - 1 \in 0 .. MaxRetries
    BY <1>1, <1>7, ClientAssumption DEF Retries, Clients
  <2>3. [client EXCEPT !.retries = @ - 1] \in Clients
    BY <1>1, <2>2 DEF Clients
  <2> QED
    BY <2>1, <2>3, DoConnectAware
<1>8. CASE Sends
  <2>1. PICK to \in client.peers : client' = SendToPeer(client, to, TRUE)
    BY <1>2, <1>8 DEF Sends, Becomes
  <2> QED
    BY <1>1, <2>1 DEF SendToPeer, ConnectControlSocket, Aware, Clients
<1>9. CASE Stops
  BY <1>1, <1>9 DEF Stops, Becomes, Quit, Aware, Clients
<1>10. ASSUME NEW s \in Sockets, Connected(s)
       PROVE  Aware(client')
  BY <1>1, <1>10 DEF Connected, OnConnect, Aware, Clients
<1>11. ASSUME NEW s \in Sockets, Refused(s) \/ Noticed(s)
       PROVE  Aware(client')
  <2>1. PICK refused \in BOOLEAN : client' = OnClose(client, s, refused, TRUE)
    BY <1>2, <1>11 DEF Refused, Noticed, Becomes
  <2> QED
    BY <1>1, <2>1, OnCloseAware
<1> QED
  BY <1>4, <1>5, <1>6, <1>7, <1>8, <1>9, <1>10, <1>11 DEF ClientStep

(* Every path on which a running client closes calls the application back, *)
(* unless connect(2) fails at once, whatever else does.                    *)
THEOREM ClosedCorrect ==
  ASSUME "connect" \notin Faults
  PROVE  Spec => []ClosedMeansTold
<1>1. Init => ClosedMeansTold
  <2> SUFFICES ASSUME Init
               PROVE  Aware(client)
    BY DEF Aware, ClosedMeansTold
  <2>1. PICK named \in BOOLEAN : client = Connect(NewClient, named, TRUE)
    BY DEF Init, Outcomes
  <2>2. NewClient \in Clients
    BY AskFacts, ClientAssumption DEF NewClient, Clients, States, Sockets
  <2> QED
    BY <2>1, <2>2, DoConnectAware DEF Connect, Quit, Aware, NewClient
<1>2. Inv /\ ClosedMeansTold /\ [Next]_vars => ClosedMeansTold'
  <2> SUFFICES ASSUME Inv, ClosedMeansTold, [Next]_vars
               PROVE  ClosedMeansTold'
    OBVIOUS
  <2>1. CASE ClientStep
    BY <2>1, StepAware DEF Aware, ClosedMeansTold
  <2>2. CASE ServerStep \/ FaultStep \/ Over \/ UNCHANGED vars
    <3>1. UNCHANGED client
      BY <2>2 DEF ServerStep, FaultStep, Over, vars, ServesSignIn, ServesSignOut,
                  ServesMessage, ServesWait, OtherJoins, OtherLeaves, OtherSends, ServesDead,
                  ShutsDown, Crashes, Restarts, Evicts, Drops
    <3> QED
      BY <3>1 DEF ClosedMeansTold
  <2> QED
    BY <2>1, <2>2 DEF Next
<1> QED
  BY <1>1, <1>2, Invariance, PTL DEF Spec
-----------------------------------------------------------------------------
(* What the client knows of the peers.                                     *)

(* The server has been stopped after it had admitted somebody; until it    *)
(* crashes nothing connects to it any more.                                *)
Vanished == ~up /\ lastId > 0

(* A connection carries something while it is established only; a poll     *)
(* asks for the notifications to its client, or is lost.                   *)
WireInv ==
  /\ client.sock["hanging"] # "connected" => wire["hanging"] = Idle
  /\ client.sock["hanging"] = "connected" /\ ~wire["hanging"].lost
       => wire["hanging"].ask = Ask("/wait", client.id, NoId)
  /\ wire["hanging"].lost => wire["hanging"] = Gone

(* Delayed reconnections are left of a sign-in that was refused, or there  *)
(* is no server to reconnect to.                                           *)
RetriesInv ==
  client.retries > 0 =>
    Vanished \/ (client.state = "SIGNING_IN" /\ client.sock["control"] = "closed" /\ client.retries = 1)

(* Who signs in does not know anybody.                                     *)
FreshInv ==
  /\ client.state = "RESOLVING" => client.id = NoId /\ client.peers = {}
  /\ client.state = "SIGNING_IN" =>
       \/ client.id = NoId /\ client.peers = {}
       \/ Vanished /\ client.sock["control"] # "connected"

Genuine(news) == \A i \in DOMAIN news : news[i].status = "200"

MailInv == \A m \in Ids : Genuine(box[m])

(* The response to the sign-in and what follows it.                        *)
AssignedInv ==
  client.state = "SIGNING_IN" /\ client.sock["control"] = "connected" /\ wire["control"].answer.status = "200" =>
    LET a == wire["control"].answer
    IN /\ a.pragma \in mine
       /\ a.pragma \in members =>
            After(a.joined \ {a.pragma}, a.pragma, box[a.pragma]) \ missed
              = (members \ {a.pragma}) \ missed

KnownInv ==
  /\ client.id # NoId => client.id \in mine
  /\ client.state = "CONNECTED" /\ client.id \in members =>
       After(client.peers, client.id, Coming) \ missed = (members \ {client.id}) \ missed

FollowInv ==
  crashes = 0 => WireInv /\ RetriesInv /\ FreshInv /\ MailInv /\ AssignedInv /\ KnownInv

-----------------------------------------------------------------------------
(* News.                                                                   *)

LEMMA AfterNone ==
  ASSUME NEW known \in SUBSET Ids, NEW m
  PROVE  After(known, m, <<>>) = known
BY DEF After

(* Whom a client with id m that knows of some knows of after one answer.   *)
Learns(known, m, a) ==
  IF a.pragma = m THEN (known \cup a.joined) \ a.left ELSE known

(* One more item at the end.                                               *)
LEMMA AfterMore ==
  ASSUME NEW known \in SUBSET Ids, NEW m, NEW news \in Seq(Answers), NEW a \in Answers
  PROVE  After(known, m, Append(news, a)) = Learns(After(known, m, news), m, a)
<1> DEFINE n == Len(news)
           more == Append(news, a)
           C(q, k, i) == q[i].pragma = m /\ k \in q[i].joined
           L(q, k, i) == q[i].pragma = m /\ k \in q[i].left
<1>1. /\ n \in Nat /\ DOMAIN news = 1 .. n /\ DOMAIN more = 1 .. n + 1
      /\ more[n + 1] = a /\ \A i \in 1 .. n : more[i] = news[i]
  OBVIOUS
<1>2. \A k : k \in After(known, m, news) <=>
        /\ k \in Ids
        /\ \/ k \in known /\ \A i \in 1 .. n : ~L(news, k, i)
           \/ \E i \in 1 .. n : C(news, k, i) /\ \A j \in 1 .. n : L(news, k, j) => j < i
  BY <1>1 DEF After
<1>3. \A k : k \in After(known, m, more) <=>
        /\ k \in Ids
        /\ \/ k \in known /\ \A i \in 1 .. n + 1 : ~L(more, k, i)
           \/ \E i \in 1 .. n + 1 : C(more, k, i) /\ \A j \in 1 .. n + 1 : L(more, k, j) => j < i
  BY <1>1 DEF After
<1>4. \A k : /\ L(more, k, n + 1) <=> a.pragma = m /\ k \in a.left
             /\ C(more, k, n + 1) <=> a.pragma = m /\ k \in a.joined
             /\ \A i \in 1 .. n : /\ L(more, k, i) <=> L(news, k, i)
                                  /\ C(more, k, i) <=> C(news, k, i)
  BY <1>1
<1>5. a.joined \subseteq Ids
  BY AnswerFacts
<1> HIDE DEF C, L, n, more
<1>6. \A i : i \in 1 .. n + 1 <=> i \in 1 .. n \/ i = n + 1
  BY <1>1
<1>7. \A i \in 1 .. n : i < n + 1 /\ ~(n + 1 < i) /\ i # n + 1
  BY <1>1
<1>8. ~(n + 1 < n + 1)
  BY <1>1
<1>9. ASSUME NEW k \in Ids
      PROVE  k \in After(known, m, more) <=>
               k \in IF a.pragma = m THEN (After(known, m, news) \cup a.joined) \ a.left
                                     ELSE After(known, m, news)
  <2>1. CASE a.pragma = m /\ k \in a.left
    BY <1>3, <1>4, <1>6, <1>7, <1>8, <2>1
  <2>2. CASE a.pragma = m /\ k \notin a.left /\ k \in a.joined
    BY <1>3, <1>4, <1>6, <1>7, <1>8, <2>2
  <2>3. CASE a.pragma = m /\ k \notin a.left /\ k \notin a.joined
    BY <1>2, <1>3, <1>4, <1>6, <1>7, <1>8, <2>3
  <2>4. CASE a.pragma # m
    BY <1>2, <1>3, <1>4, <1>6, <1>7, <1>8, <2>4
  <2> QED BY <2>1, <2>2, <2>3, <2>4
<1>10. \A k : k \notin Ids => /\ k \notin After(known, m, more) /\ k \notin After(known, m, news)
                              /\ k \notin a.joined
  BY <1>2, <1>3, <1>5
<1> QED BY <1>9, <1>10 DEF more, Learns

(* The first item is read.                                                 *)
LEMMA AfterFirst ==
  ASSUME NEW known \in SUBSET Ids, NEW m, NEW news \in Seq(Answers), NEW a \in Answers
  PROVE  After(known, m, <<a>> \o news) = After(Learns(known, m, a), m, news)
<1> DEFINE n == Len(news)
           more == <<a>> \o news
           knows == IF a.pragma = m THEN (known \cup a.joined) \ a.left ELSE known
           C(q, k, i) == q[i].pragma = m /\ k \in q[i].joined
           L(q, k, i) == q[i].pragma = m /\ k \in q[i].left
<1>1. /\ n \in Nat /\ DOMAIN news = 1 .. n /\ DOMAIN more = 1 .. n + 1
      /\ more[1] = a /\ \A i \in 1 .. n : more[i + 1] = news[i]
  OBVIOUS
<1>2. \A k : k \in After(knows, m, news) <=>
        /\ k \in Ids
        /\ \/ k \in knows /\ \A i \in 1 .. n : ~L(news, k, i)
           \/ \E i \in 1 .. n : C(news, k, i) /\ \A j \in 1 .. n : L(news, k, j) => j < i
  BY <1>1 DEF After
<1>3. \A k : k \in After(known, m, more) <=>
        /\ k \in Ids
        /\ \/ k \in known /\ \A i \in 1 .. n + 1 : ~L(more, k, i)
           \/ \E i \in 1 .. n + 1 : C(more, k, i) /\ \A j \in 1 .. n + 1 : L(more, k, j) => j < i
  BY <1>1 DEF After
<1>4. \A k : /\ L(more, k, 1) <=> a.pragma = m /\ k \in a.left
             /\ C(more, k, 1) <=> a.pragma = m /\ k \in a.joined
             /\ \A i \in 1 .. n : /\ L(more, k, i + 1) <=> L(news, k, i)
                                  /\ C(more, k, i + 1) <=> C(news, k, i)
  BY <1>1
<1>5. \A k : k \in knows <=> IF a.pragma = m THEN (k \in known \/ k \in a.joined) /\ k \notin a.left
                                             ELSE k \in known
  OBVIOUS
<1> HIDE DEF C, L, n, more, knows
<1>6. \A i : i \in 1 .. n + 1 <=> i = 1 \/ \E j \in 1 .. n : i = j + 1
  <2>1. ASSUME NEW i \in 1 .. n + 1, i # 1 PROVE i - 1 \in 1 .. n /\ i = (i - 1) + 1
    BY <1>1, <2>1
  <2>2. \A j \in 1 .. n : j + 1 \in 1 .. n + 1
    BY <1>1
  <2>3. 1 \in 1 .. n + 1
    BY <1>1
  <2> QED BY <2>1, <2>2, <2>3
<1>7. \A i, j \in 1 .. n : (i + 1 < j + 1 <=> i < j) /\ ~(i + 1 < 1) /\ 1 < i + 1
  BY <1>1
<1>8. ASSUME NEW k \in Ids
      PROVE  /\ (\A i \in 1 .. n + 1 : ~L(more, k, i)) <=>
                  ~L(more, k, 1) /\ \A i \in 1 .. n : ~L(news, k, i)
             /\ (\E i \in 1 .. n + 1 : C(more, k, i) /\ \A j \in 1 .. n + 1 : L(more, k, j) => j < i) <=>
                  \/ C(more, k, 1) /\ ~L(more, k, 1) /\ \A i \in 1 .. n : ~L(news, k, i)
                  \/ \E i \in 1 .. n : C(news, k, i) /\ \A j \in 1 .. n : L(news, k, j) => j < i
  <2>1. (\A i \in 1 .. n + 1 : ~L(more, k, i)) <=> ~L(more, k, 1) /\ \A i \in 1 .. n : ~L(news, k, i)
    BY <1>4, <1>6
  <2>2. (\A j \in 1 .. n + 1 : L(more, k, j) => j < 1) <=>
          ~L(more, k, 1) /\ \A i \in 1 .. n : ~L(news, k, i)
    BY <1>4, <1>6, <1>7
  <2>3. ASSUME NEW i \in 1 .. n
        PROVE  (\A j \in 1 .. n + 1 : L(more, k, j) => j < i + 1) <=>
                 \A j \in 1 .. n : L(news, k, j) => j < i
    <3>1. \A j \in 1 .. n : j + 1 \in 1 .. n + 1 /\ (L(more, k, j + 1) <=> L(news, k, j))
                                                  /\ (j + 1 < i + 1 <=> j < i)
      BY <1>4, <1>6, <1>7
    <3>2. ASSUME \A j \in 1 .. n : L(news, k, j) => j < i, NEW j \in 1 .. n + 1, L(more, k, j)
          PROVE  j < i + 1
      <4>1. CASE j = 1
        BY <1>7, <4>1
      <4>2. CASE j # 1
        <5>1. PICK l \in 1 .. n : j = l + 1
          BY <1>6, <4>2
        <5> QED BY <3>1, <3>2, <5>1
      <4> QED BY <4>1, <4>2
    <3> QED BY <3>1, <3>2
  <2>4. (\E i \in 1 .. n + 1 : C(more, k, i) /\ \A j \in 1 .. n + 1 : L(more, k, j) => j < i) <=>
          \/ C(more, k, 1) /\ \A j \in 1 .. n + 1 : L(more, k, j) => j < 1
          \/ \E i \in 1 .. n : C(news, k, i) /\ \A j \in 1 .. n + 1 : L(more, k, j) => j < i + 1
    BY <1>4, <1>6
  <2> QED BY <2>1, <2>2, <2>3, <2>4
<1>9. ASSUME NEW k \in Ids
      PROVE  k \in After(known, m, more) <=> k \in After(knows, m, news)
  BY <1>2, <1>3, <1>4, <1>5, <1>8
<1>10. \A k : k \notin Ids => k \notin After(known, m, more) /\ k \notin After(knows, m, news)
  BY <1>2, <1>3
<1>11. knows = Learns(known, m, a)
  BY DEF knows, Learns
<1> QED BY <1>9, <1>10, <1>11 DEF more

(* News of some members do not change what is known of the others, nor do  *)
(* news that are lost.                                                     *)
LEMMA AfterAlike ==
  ASSUME NEW known, NEW knows, NEW m, NEW news, NEW X, known \ X = knows \ X
  PROVE  After(known, m, news) \ X = After(knows, m, news) \ X
BY DEF After

LEMMA AfterLoss ==
  ASSUME NEW known \in SUBSET Ids, NEW m, NEW news \in Seq(Answers), NEW a \in Answers,
         NEW X, a.joined \subseteq X, a.left \subseteq X
  PROVE  After(known, m, <<a>> \o news) \ X = After(known, m, news) \ X
<1> DEFINE knows == Learns(known, m, a)
<1>1. After(known, m, <<a>> \o news) = After(knows, m, news)
  BY AfterFirst
<1>2. knows \ X = known \ X
  BY DEF Learns
<1> HIDE DEF knows
<1> QED BY <1>1, <1>2, AfterAlike

-----------------------------------------------------------------------------
(* Callbacks that bring the client no news.                                *)

Quiet(c, d, w) ==
  /\ d.state = "CONNECTED" =>
       /\ c.state = "CONNECTED" /\ d.peers = c.peers
       /\ c.sock["hanging"] = "connected" /\ d.sock["hanging"] # "connected"
            => w["hanging"].answer = NoAnswer
  /\ d.sock["hanging"] = "connected" => c.sock["hanging"] = "connected"
  /\ d.id \in {c.id, NoId}
  /\ d.state = "SIGNING_IN" /\ d.sock["control"] = "connected"
       => c.state = "SIGNING_IN" /\ c.sock["control"] = "connected"

LEMMA ComingFacts ==
  ASSUME Inv, client.id # NoId
  PROVE  /\ box[client.id] \in Seq(Answers) /\ Coming \in Seq(Answers)
         /\ wire["hanging"].answer \in Answers
         /\ Coming = IF wire["hanging"].answer = NoAnswer THEN box[client.id]
                     ELSE <<wire["hanging"].answer>> \o box[client.id]
<1> DEFINE a == wire["hanging"].answer
           q == box[client.id]
<1>1. a \in Answers /\ q \in Seq(Answers)
  BY TypeParts DEF Inv, ServerTypeOK, ClientInv, Clients, Wires, Sockets
<1>2. Coming = (IF a = NoAnswer THEN <<>> ELSE <<a>>) \o q
  BY DEF Coming
<1> HIDE DEF a, q
<1>3. <<>> \o q = q /\ <<a>> \o q \in Seq(Answers)
  BY <1>1
<1>4. Coming = IF a = NoAnswer THEN q ELSE <<a>> \o q
  BY <1>2, <1>3
<1> QED BY <1>1, <1>3, <1>4 DEF a, q

LEMMA QuietFollow ==
  ASSUME Inv, Inv', WireInv, MailInv, AssignedInv, KnownInv, NEW c, Becomes(c), Quiet(client, c, wire)
  PROVE  WireInv' /\ MailInv' /\ AssignedInv' /\ KnownInv'
<1>1. /\ client' = c /\ UNCHANGED <<up, lastId, members, mine, box, missed>>
      /\ \A s \in Sockets : wire'[s] = IF c.sock[s] = "connected" THEN wire[s] ELSE Idle
      /\ "hanging" \in Sockets /\ "control" \in Sockets
  BY DEF Becomes, serverVars, Sockets
<1>2. Idle.answer = NoAnswer /\ ~Idle.lost /\ NoAnswer.status # "200"
  BY DEF Idle, Carries, NoAnswer, Answer
<1>3. c.sock["hanging"] = "connected" => c.state = "CONNECTED"
  BY <1>1 DEF Inv, ClientInv, Polls
<1>4. c.state = "CONNECTED" => c.id # NoId /\ c.id = client.id /\ client.id # NoId
  BY <1>1 DEF Inv, ClientInv, HasId, Quiet
<1>5. WireInv'
  BY <1>1, <1>2, <1>3, <1>4 DEF WireInv, Quiet
<1>6. MailInv'
  BY <1>1 DEF MailInv, Genuine
<1>7. AssignedInv'
  BY <1>1, <1>2 DEF AssignedInv, Quiet
<1>8. ASSUME c.state = "CONNECTED" PROVE Coming' = Coming
  <2>1. wire'["hanging"].answer = wire["hanging"].answer
    BY <1>1, <1>2, <1>8 DEF Quiet, WireInv
  <2> QED BY <1>1, <1>4, <1>8, <2>1 DEF Coming
<1>9. KnownInv'
  BY <1>1, <1>4, <1>8 DEF KnownInv, Quiet
<1> QED BY <1>5, <1>6, <1>7, <1>9

LEMMA DoConnectFacts ==
  ASSUME NEW c \in Clients, NEW ok \in BOOLEAN
  PROVE  LET d == DoConnect(c, ok)
         IN /\ d.sock["hanging"] = "closed" /\ d.sock["control"] # "connected"
            /\ d.retries = c.retries
            /\ ok => d.state = "SIGNING_IN" /\ d.id = c.id /\ d.peers = c.peers
            /\ ~ok => d.state = "NOT_CONNECTED" /\ d.id = NoId
BY DEF DoConnect, ConnectControlSocket, Quit, Close, Clients, Sockets

LEMMA OnCloseRefused ==
  ASSUME NEW c \in Clients, NEW s \in Sockets, NEW ok \in BOOLEAN
  PROVE  LET d == OnClose(c, s, TRUE, ok)
         IN /\ s = "control" =>
                 /\ d.state = c.state /\ d.id = c.id /\ d.peers = c.peers
                 /\ d.sock["control"] = "closed" /\ d.sock["hanging"] = c.sock["hanging"]
                 /\ d.retries = c.retries + 1
            /\ s = "hanging" =>
                 /\ d.state = "NOT_CONNECTED" /\ d.id = NoId /\ d.retries = c.retries
                 /\ d.sock["control"] = "closed" /\ d.sock["hanging"] = "closed"
<1> DEFINE shut == [c EXCEPT !.sock[s] = "closed"]
<1>1. CASE s = "control"
  <2>1. OnClose(c, s, TRUE, ok) = [shut EXCEPT !.retries = @ + 1]
    BY <1>1 DEF OnClose
  <2> QED BY <1>1, <2>1 DEF Clients, Sockets
<1>2. CASE s = "hanging"
  <2>1. OnClose(c, s, TRUE, ok) = Quit(Close(shut))
    BY <1>2 DEF OnClose
  <2>2. shut \in Clients /\ shut.retries = c.retries
    BY DEF Clients
  <2> HIDE DEF shut
  <2>3. Close(shut) \in Clients
    BY <2>2, CloseInv DEF ClientInv
  <2>4. /\ Close(shut).state = "NOT_CONNECTED" /\ Close(shut).id = NoId
        /\ Close(shut).retries = c.retries
        /\ Close(shut).sock = [t \in Sockets |-> "closed"]
    BY <2>2 DEF Close, Clients
  <2> DEFINE d == Quit(Close(shut))
  <2>5. d.state = "NOT_CONNECTED" /\ d.id = NoId /\ d.retries = c.retries
    BY <2>3, <2>4 DEF Quit, Clients
  <2>6. d.sock = [t \in Sockets |-> "closed"]
    BY <2>3, <2>4 DEF Quit, Clients
  <2>7. d.sock["control"] = "closed" /\ d.sock["hanging"] = "closed"
    BY <2>6 DEF Sockets
  <2> HIDE DEF d
  <2> QED BY <1>2, <2>1, <2>5, <2>7 DEF d
<1> QED BY <1>1, <1>2 DEF Sockets

LEMMA OnCloseShut ==
  ASSUME NEW c \in Clients, NEW s \in Sockets, NEW ok \in BOOLEAN
  PROVE  LET d == OnClose(c, s, FALSE, ok)
         IN /\ d.state = c.state /\ d.id = c.id /\ d.peers = c.peers /\ d.retries = c.retries
            /\ d.sock[s] # "connected" /\ (s = "control" => d.sock[s] = "closed")
            /\ s = "control" => d.sock["hanging"] = c.sock["hanging"]
            /\ s = "hanging" => d.sock["control"] = c.sock["control"]
<1> DEFINE shut == [c EXCEPT !.sock[s] = "closed"]
<1>1. CASE s = "hanging" /\ shut.state = "CONNECTED"
  <2>1. OnClose(c, s, FALSE, ok) = Poll(shut, ok)
    BY <1>1 DEF OnClose
  <2> QED BY <1>1, <2>1 DEF Poll, Clients, Sockets
<1>2. CASE ~(s = "hanging" /\ shut.state = "CONNECTED")
  <2>1. OnClose(c, s, FALSE, ok) = shut
    BY <1>2 DEF OnClose
  <2> QED BY <2>1 DEF Clients, Sockets
<1> QED BY <1>1, <1>2

LEMMA SendToPeerFacts ==
  ASSUME NEW c \in Clients, NEW to, NEW ok \in BOOLEAN, c.state = "CONNECTED"
  PROVE  LET d == SendToPeer(c, to, ok)
         IN /\ d.retries = c.retries
            /\ \/ /\ d.state = "CONNECTED" /\ d.id = c.id /\ d.peers = c.peers
                  /\ d.sock["hanging"] = c.sock["hanging"]
               \/ /\ d.state = "NOT_CONNECTED" /\ d.id = NoId
                  /\ d.sock["hanging"] = "closed"
BY DEF SendToPeer, ConnectControlSocket, Close, Clients, Sockets

LEMMA SignOutFacts ==
  ASSUME NEW c \in Clients, NEW ok \in BOOLEAN
  PROVE  LET d == SignOut(c, ok)
         IN /\ d.retries = c.retries /\ d.id \in {c.id, NoId}
            /\ c.state \notin {"NOT_CONNECTED", "SIGNING_OUT"} =>
                 /\ d.state \in {"NOT_CONNECTED", "SIGNING_OUT", "SIGNING_OUT_WAITING"}
                 /\ d.sock["hanging"] = "closed"
            /\ c.state \in {"NOT_CONNECTED", "SIGNING_OUT"} => d = c
BY DEF SignOut, ConnectControlSocket, Close, Clients, Sockets

LEMMA RejectedFacts ==
  ASSUME NEW c \in Clients
  PROVE  LET d == Rejected(c)
         IN /\ d.retries = c.retries /\ d.id = NoId /\ d.state = "NOT_CONNECTED"
            /\ \A s \in Sockets : d.sock[s] = "closed"
BY DEF Rejected, Quit, Close, Clients, Sockets

(* RetriesInv and FreshInv of a client.                                    *)
Calm(c) ==
  /\ c.retries > 0 =>
       Vanished \/ (c.state = "SIGNING_IN" /\ c.sock["control"] = "closed" /\ c.retries = 1)
  /\ c.state = "RESOLVING" => c.id = NoId /\ c.peers = {}
  /\ c.state = "SIGNING_IN" =>
       \/ c.id = NoId /\ c.peers = {}
       \/ Vanished /\ c.sock["control"] # "connected"

LEMMA CalmFacts == RetriesInv /\ FreshInv <=> Calm(client)
BY DEF RetriesInv, FreshInv, Calm

LEMMA CalmStays ==
  ASSUME NEW c, Calm(c), client' = c, UNCHANGED <<up, lastId>>
  PROVE  RetriesInv' /\ FreshInv'
BY DEF RetriesInv, FreshInv, Calm, Vanished

LEMMA QuietStep ==
  ASSUME Inv, Inv', FollowInv, crashes = 0, NEW c, Becomes(c), Quiet(client, c, wire), Calm(c)
  PROVE  FollowInv'
<1>1. WireInv /\ MailInv /\ AssignedInv /\ KnownInv
  BY DEF FollowInv
<1>2. client' = c /\ UNCHANGED <<up, lastId>>
  BY DEF Becomes, serverVars
<1>3. RetriesInv' /\ FreshInv'
  BY <1>2, CalmStays
<1>4. WireInv' /\ MailInv' /\ AssignedInv' /\ KnownInv'
  BY <1>1, QuietFollow
<1> QED BY <1>3, <1>4 DEF FollowInv

(* A client that has an id is not the first one.                           *)
LEMMA NamedFacts ==
  ASSUME Inv, FollowInv, crashes = 0
  PROVE  /\ client.id # NoId => lastId > 0
         /\ client \in Clients /\ ClientInv(client) /\ Calm(client)
         /\ client.retries \in Nat /\ client.retries >= 0
         /\ client.state \in {"CONNECTED", "SIGNING_OUT_WAITING", "SIGNING_OUT"} => client.id # NoId
<1>1. client \in Clients /\ ClientInv(client) /\ client.retries \in Nat
  BY DEF Inv, TypeOK, Clients
<1>2. lastId \in Nat /\ mine \subseteq 1 .. lastId
  BY DEF Inv, TypeOK
<1>3. client.id # NoId => client.id \in mine
  BY DEF FollowInv, KnownInv
<1>4. ASSUME client.id # NoId PROVE lastId > 0
  <2>1. PICK i \in 1 .. lastId : i = client.id
    BY <1>2, <1>3, <1>4
  <2> QED BY <1>2, <2>1
<1>5. Calm(client)
  BY CalmFacts DEF FollowInv
<1> QED BY <1>1, <1>4, <1>5 DEF ClientInv, HasId

LEMMA ResolvedFollow ==
  ASSUME Inv, Inv', FollowInv, crashes = 0, Resolved
  PROVE  FollowInv'
<1>1. PICK resolved \in BOOLEAN, ok \in BOOLEAN : Becomes(OnResolveResult(client, resolved, ok))
  BY ChoiceFacts DEF Resolved
<1>2. client.state = "RESOLVING" /\ client \in Clients /\ Calm(client) /\ client.sock["hanging"] = "closed"
      /\ client.id = NoId /\ client.peers = {}
  BY NamedFacts DEF Resolved, ClientInv, Polls, Calm
<1> DEFINE d == OnResolveResult(client, resolved, ok)
<1>3. CASE resolved
  <2>1. d = DoConnect(client, ok)
    BY <1>3 DEF OnResolveResult
  <2> HIDE DEF d
  <2>2. /\ d.sock["hanging"] = "closed" /\ d.sock["control"] # "connected"
        /\ d.retries = client.retries
        /\ ok => d.state = "SIGNING_IN" /\ d.id = client.id /\ d.peers = client.peers
        /\ ~ok => d.state = "NOT_CONNECTED" /\ d.id = NoId
    BY <1>2, <2>1, DoConnectFacts
  <2>3. Calm(d) /\ Quiet(client, d, wire)
    BY <1>2, <2>2 DEF Calm, Quiet
  <2> QED BY <1>1, <2>3, QuietStep DEF d
<1>4. CASE ~resolved
  <2>1. d = [Quit(client) EXCEPT !.state = "NOT_CONNECTED"]
    BY <1>4 DEF OnResolveResult
  <2> HIDE DEF d
  <2>2. d.retries = client.retries /\ d.state = "NOT_CONNECTED" /\ d.id = client.id
        /\ d.sock = client.sock
    BY <1>2, <2>1 DEF Quit, Clients
  <2>3. Calm(d) /\ Quiet(client, d, wire)
    BY <1>2, <2>2 DEF Calm, Quiet
  <2> QED BY <1>1, <2>3, QuietStep DEF d
<1> QED BY <1>3, <1>4

LEMMA RetriesFollow ==
  ASSUME Inv, Inv', FollowInv, crashes = 0, Retries
  PROVE  FollowInv'
<1> DEFINE c == [client EXCEPT !.retries = @ - 1]
<1>1. PICK ok \in BOOLEAN : Becomes(DoConnect(c, ok))
  BY ChoiceFacts DEF Retries
<1>2. client \in Clients /\ Calm(client) /\ client.retries > 0
  BY NamedFacts DEF Retries
<1>3. /\ c \in Clients /\ c.id = client.id /\ c.peers = client.peers /\ c.state = client.state
      /\ c.retries = client.retries - 1
  BY <1>2, ClientAssumption DEF Clients
<1> HIDE DEF c
<1> DEFINE d == DoConnect(c, ok)
<1>4. /\ d.sock["hanging"] = "closed" /\ d.sock["control"] # "connected"
      /\ d.retries = client.retries - 1
      /\ ok => d.state = "SIGNING_IN" /\ d.id = client.id /\ d.peers = client.peers
      /\ ~ok => d.state = "NOT_CONNECTED" /\ d.id = NoId
  BY <1>3, DoConnectFacts
<1> HIDE DEF d
<1>5. Vanished \/ (client.state = "SIGNING_IN" /\ client.retries = 1)
  BY <1>2 DEF Calm
<1>6. Calm(d)
  <2>1. CASE Vanished
    BY <1>4, <2>1 DEF Calm
  <2>2. CASE ~Vanished
    <3>1. d.retries = 0 /\ client.id = NoId /\ client.peers = {}
      BY <1>2, <1>4, <1>5, <2>2 DEF Calm
    <3> QED BY <1>4, <3>1 DEF Calm
  <2> QED BY <2>1, <2>2
<1>7. Quiet(client, d, wire)
  BY <1>4 DEF Quiet
<1> QED BY <1>1, <1>6, <1>7, QuietStep DEF d

LEMMA SendsFollow ==
  ASSUME Inv, Inv', FollowInv, crashes = 0, Sends
  PROVE  FollowInv'
<1>1. PICK to \in client.peers, ok \in BOOLEAN : Becomes(SendToPeer(client, to, ok))
  BY ChoiceFacts DEF Sends
<1>2. client \in Clients /\ Calm(client) /\ client.state = "CONNECTED"
  BY NamedFacts DEF Sends
<1> DEFINE d == SendToPeer(client, to, ok)
<1>3. /\ d.retries = client.retries
      /\ \/ /\ d.state = "CONNECTED" /\ d.id = client.id /\ d.peers = client.peers
            /\ d.sock["hanging"] = client.sock["hanging"]
         \/ /\ d.state = "NOT_CONNECTED" /\ d.id = NoId
            /\ d.sock["hanging"] = "closed"
  BY <1>2, SendToPeerFacts
<1> HIDE DEF d
<1>4. Calm(d) /\ Quiet(client, d, wire)
  BY <1>2, <1>3 DEF Calm, Quiet
<1> QED BY <1>1, <1>4, QuietStep DEF d

LEMMA StopsFollow ==
  ASSUME Inv, Inv', FollowInv, crashes = 0, Stops
  PROVE  FollowInv'
<1> DEFINE d == Quit(client)
<1>1. client \in Clients /\ Calm(client) /\ Becomes(d)
  BY NamedFacts DEF Stops
<1>2. /\ d.retries = client.retries /\ d.state = client.state /\ d.id = client.id
      /\ d.peers = client.peers /\ d.sock = client.sock
  BY <1>1 DEF Quit, Clients
<1> HIDE DEF d
<1>3. Calm(d) /\ Quiet(client, d, wire)
  BY <1>1, <1>2 DEF Calm, Quiet
<1> QED BY <1>1, <1>3, QuietStep DEF d

LEMMA RefusedFollow ==
  ASSUME Inv, Inv', FollowInv, crashes = 0, NEW s \in Sockets, Refused(s)
  PROVE  FollowInv'
<1>1. PICK ok \in BOOLEAN : Becomes(OnClose(client, s, TRUE, ok))
  BY ChoiceFacts DEF Refused
<1>2. /\ client \in Clients /\ Calm(client) /\ ClientInv(client) /\ client.retries \in Nat
      /\ client.sock[s] = "connecting" /\ ~up /\ (client.id # NoId => lastId > 0)
      /\ client.state \in States
  BY NamedFacts DEF Refused, Clients
<1> DEFINE d == OnClose(client, s, TRUE, ok)
<1>3. /\ s = "control" =>
           /\ d.state = client.state /\ d.id = client.id /\ d.peers = client.peers
           /\ d.sock["control"] = "closed" /\ d.sock["hanging"] = client.sock["hanging"]
           /\ d.retries = client.retries + 1
      /\ s = "hanging" =>
           /\ d.state = "NOT_CONNECTED" /\ d.id = NoId /\ d.retries = client.retries
           /\ d.sock["control"] = "closed" /\ d.sock["hanging"] = "closed"
  BY <1>2, OnCloseRefused
<1> HIDE DEF d
<1>4. Quiet(client, d, wire)
  BY <1>2, <1>3 DEF Quiet, Sockets
<1>5. CASE s = "hanging"
  <2>1. client.retries > 0 => Vanished
    BY <1>2, <1>5 DEF Calm, ClientInv, Polls
  <2> QED BY <1>1, <1>3, <1>4, <1>5, <2>1, QuietStep DEF Calm, d
<1>6. CASE s = "control"
  <2>1. client.state \notin {"NOT_CONNECTED", "RESOLVING"}
    BY <1>2, <1>6 DEF ClientInv, Detached
  <2>2. Vanished \/ client.retries = 0
    BY <1>2, <1>6 DEF Calm
  <2>3. Vanished \/ client.state = "SIGNING_IN"
    BY <1>2, <2>1 DEF ClientInv, HasId, Vanished
  <2>4. Calm(d)
    BY <1>2, <1>3, <1>6, <2>1, <2>2, <2>3 DEF Calm
  <2> QED BY <1>1, <1>4, <2>4, QuietStep DEF d
<1> QED BY <1>5, <1>6 DEF Sockets

LEMMA NoticedFollow ==
  ASSUME Inv, Inv', FollowInv, crashes = 0, NEW s \in Sockets, Noticed(s)
  PROVE  FollowInv'
<1>1. PICK ok \in BOOLEAN : Becomes(OnClose(client, s, FALSE, ok))
  BY ChoiceFacts DEF Noticed
<1>2. /\ client \in Clients /\ Calm(client) /\ client.retries \in Nat
      /\ client.sock[s] = "connected" /\ wire[s].lost
      /\ wire["hanging"].lost => wire["hanging"].answer = NoAnswer
  BY NamedFacts, GoneFacts DEF Noticed, FollowInv, WireInv
<1> DEFINE d == OnClose(client, s, FALSE, ok)
<1>3. /\ d.state = client.state /\ d.id = client.id /\ d.peers = client.peers
      /\ d.retries = client.retries
      /\ d.sock[s] # "connected" /\ (s = "control" => d.sock[s] = "closed")
      /\ s = "control" => d.sock["hanging"] = client.sock["hanging"]
      /\ s = "hanging" => d.sock["control"] = client.sock["control"]
  <2> client \in Clients
    BY <1>2
  <2> QED BY OnCloseShut
<1> HIDE DEF d
<1>4. Quiet(client, d, wire)
  BY <1>2, <1>3 DEF Quiet, Sockets
<1>5. d.sock["control"] = "closed" \/ d.sock["control"] = client.sock["control"]
  BY <1>3 DEF Sockets
<1>6. Calm(d)
  BY <1>2, <1>3, <1>5 DEF Calm
<1> QED BY <1>1, <1>4, <1>6, QuietStep DEF d

LEMMA ConnectedFollow ==
  ASSUME Inv, Inv', FollowInv, crashes = 0, NEW s \in Sockets, Connected(s)
  PROVE  FollowInv'
<1>1. /\ client \in Clients /\ Calm(client) /\ client.sock[s] = "connecting" /\ ~Vanished /\ ~Vanished'
      /\ WireInv /\ MailInv /\ AssignedInv /\ KnownInv
      /\ client' = OnConnect(client, s)
      /\ wire' = [wire EXCEPT ![s] = Carries(Sent(client, s), NoAnswer)]
      /\ UNCHANGED <<up, lastId, members, mine, box, missed, crashes>>
  BY NamedFacts DEF Connected, serverVars, Vanished, FollowInv
<1>2. wire \in Wires
  BY TypeParts DEF Inv
<1>3. /\ client'.state = client.state /\ client'.id = client.id /\ client'.peers = client.peers
      /\ client'.retries = client.retries
      /\ \A t \in Sockets : client'.sock[t] = IF t = s THEN "connected" ELSE client.sock[t]
  BY <1>1 DEF OnConnect, Clients, Sockets
<1>4. \A t \in Sockets : wire'[t] = IF t = s THEN Carries(Sent(client, s), NoAnswer) ELSE wire[t]
  BY <1>1, <1>2 DEF Wires
<1>5. "hanging" \in Sockets /\ "control" \in Sockets /\ (s = "hanging" \/ s = "control")
  BY DEF Sockets
<1>6. /\ Carries(Sent(client, s), NoAnswer).answer = NoAnswer
      /\ ~Carries(Sent(client, s), NoAnswer).lost
      /\ s = "hanging" => Carries(Sent(client, s), NoAnswer).ask = Ask("/wait", client.id, NoId)
      /\ Idle.answer = NoAnswer /\ NoAnswer.status # "200"
  BY <1>5 DEF Carries, Sent, Idle, NoAnswer, Answer
<1>7. WireInv'
  BY <1>1, <1>3, <1>4, <1>5, <1>6 DEF WireInv
<1>8. RetriesInv' /\ FreshInv'
  BY <1>1, <1>3, <1>5 DEF RetriesInv, FreshInv, Calm
<1>9. MailInv'
  BY <1>1 DEF MailInv, Genuine
<1>10. AssignedInv'
  BY <1>1, <1>3, <1>4, <1>5, <1>6 DEF AssignedInv
<1>11. wire'["hanging"].answer = wire["hanging"].answer
  BY <1>1, <1>4, <1>5, <1>6 DEF WireInv
<1>12. Coming' = Coming
  <2>1. box' = box /\ client'.id = client.id
    BY <1>1, <1>3
  <2> QED BY <1>11, <2>1 DEF Coming
<1>13. KnownInv'
  BY <1>1, <1>3, <1>12 DEF KnownInv
<1> QED BY <1>7, <1>8, <1>9, <1>10, <1>13 DEF FollowInv

(* A callback that leaves the client signing out or closed.                *)
LEMMA LeavesFollow ==
  ASSUME Inv, Inv', FollowInv, crashes = 0, NEW d, Becomes(d),
         d.state \in {"NOT_CONNECTED", "SIGNING_OUT", "SIGNING_OUT_WAITING"},
         d.id = NoId \/ d.id \in mine, d.retries = client.retries, client.retries > 0 => Vanished
  PROVE  FollowInv'
<1>1. /\ client' = d /\ UNCHANGED <<up, lastId, members, mine, box, missed, crashes>>
      /\ \A s \in Sockets : wire'[s] = IF d.sock[s] = "connected" THEN wire[s] ELSE Idle
      /\ "hanging" \in Sockets
  BY DEF Becomes, serverVars, Sockets
<1>2. d.sock["hanging"] = "closed"
  BY <1>1 DEF Inv, ClientInv, Polls
<1>3. wire'["hanging"] = Idle /\ ~Idle.lost
  BY <1>1, <1>2 DEF Idle, Carries
<1>4. WireInv'
  BY <1>1, <1>2, <1>3 DEF WireInv
<1>5. Vanished' = Vanished
  BY <1>1 DEF Vanished
<1>6. RetriesInv' /\ FreshInv'
  BY <1>1, <1>5 DEF RetriesInv, FreshInv
<1>7. MailInv'
  BY <1>1 DEF FollowInv, MailInv, Genuine
<1>8. AssignedInv' /\ KnownInv'
  BY <1>1 DEF AssignedInv, KnownInv
<1> QED BY <1>4, <1>6, <1>7, <1>8 DEF FollowInv

LEMMA ReadsControlFollow ==
  ASSUME Inv, Inv', FollowInv, crashes = 0, ReadsControl
  PROVE  FollowInv'
<1>1. PICK giveUp \in BOOLEAN, ok \in BOOLEAN :
        Becomes(OnRead(client, wire["control"].answer, giveUp, ok))
  BY ChoiceFacts DEF ReadsControl
<1> DEFINE a == wire["control"].answer
           read == ReadIntoBuffer(client, "control", ok)
           d == OnRead(client, a, giveUp, ok)
<1>2. /\ client \in Clients /\ Calm(client) /\ ClientInv(client) /\ client.state \in States
      /\ client.sock["control"] = "connected"
      /\ client.state \in {"CONNECTED", "SIGNING_OUT_WAITING", "SIGNING_OUT"} => client.id # NoId
      /\ client.id # NoId => client.id \in mine
  BY NamedFacts DEF ReadsControl, Answered, Clients, FollowInv, KnownInv
<1>3. /\ read \in Clients
      /\ read.state = client.state /\ read.id = client.id /\ read.peers = client.peers
      /\ read.retries = client.retries /\ read.sock["control"] = "closed"
      /\ read.sock["hanging"] = client.sock["hanging"]
  <2>1. "control" \in Sockets
    BY DEF Sockets
  <2>2. read = OnClose(client, "control", FALSE, ok)
    BY DEF ReadIntoBuffer
  <2>3. read \in Clients
    BY <1>2, <2>1, ReadFacts DEF ClientInv
  <2>4. client \in Clients
    BY <1>2
  <2> HIDE DEF read
  <2> QED BY <2>1, <2>2, <2>3, <2>4, OnCloseShut
<1>4. client.retries > 0 => Vanished
  BY <1>2 DEF Calm
<1>5. d = IF a.status # "200" THEN Rejected(read)
          ELSE IF read.id = NoId THEN StartPolling(FirstResponse(read, a, giveUp, ok), ok)
          ELSE IF read.state = "SIGNING_OUT" THEN Quit(Close(read))
          ELSE IF read.state = "SIGNING_OUT_WAITING" THEN SignOut(read, ok)
          ELSE StartPolling(read, ok)
  BY DEF OnRead
<1>6. Becomes(d)
  BY <1>1
<1>7. a \in Answers
  BY TypeParts DEF Inv, Wires, Sockets
<1>8. AssignedInv /\ MailInv
  BY DEF FollowInv
<1>9. a = wire["control"].answer
  OBVIOUS
<1> HIDE DEF read, d, a
<1>10. CASE a.status # "200" \/ (client.id # NoId /\ client.state = "SIGNING_OUT")
  <2>1. d = Rejected(read)
    BY <1>3, <1>5, <1>10 DEF Rejected
  <2>2. d.retries = client.retries /\ d.id = NoId /\ d.state = "NOT_CONNECTED"
    BY <1>3, <2>1, RejectedFacts
  <2> QED BY <1>4, <1>6, <2>2, LeavesFollow
<1>11. CASE a.status = "200" /\ client.id # NoId /\ client.state = "SIGNING_OUT_WAITING"
  <2>1. d = SignOut(read, ok)
    BY <1>3, <1>5, <1>11
  <2>2. /\ d.retries = client.retries /\ d.id \in {client.id, NoId}
        /\ d.state \in {"NOT_CONNECTED", "SIGNING_OUT", "SIGNING_OUT_WAITING"}
    BY <1>3, <1>11, <2>1, SignOutFacts
  <2> QED BY <1>2, <1>4, <1>6, <2>2, LeavesFollow
<1>12. CASE a.status = "200" /\ client.id # NoId /\ client.state \notin {"SIGNING_OUT", "SIGNING_OUT_WAITING"}
  <2>1. client.state = "CONNECTED"
    BY <1>2, <1>12 DEF ClientInv, Detached, Calm, States
  <2>2. d = read
    BY <1>3, <1>5, <1>12, <2>1 DEF StartPolling
  <2>3. Quiet(client, d, wire) /\ Calm(d)
    BY <1>2, <1>3, <2>1, <2>2 DEF Quiet, Calm
  <2> QED BY <1>6, <2>3, QuietStep
<1>13. CASE a.status = "200" /\ client.id = NoId
  <2>1. client.state = "SIGNING_IN" /\ client.peers = {}
    BY <1>2, <1>13 DEF ClientInv, HasId, Detached, Calm
  <2>2. a.pragma \in mine /\ a.pragma \in Ids
        /\ (a.pragma \in members =>
              After(a.joined \ {a.pragma}, a.pragma, box[a.pragma]) \ missed
                = (members \ {a.pragma}) \ missed)
    BY <1>2, <1>8, <1>9, <1>13, <2>1 DEF AssignedInv, Inv, Unnamed
  <2>a. d = StartPolling(FirstResponse(read, a, giveUp, ok), ok)
    BY <1>3, <1>5, <1>13
  <2> DEFINE listed == a.joined \ {a.pragma}
             later == {k \in listed : \E i \in listed : i < k}
             named == [read EXCEPT !.id = a.pragma, !.peers = @ \cup listed]
             out == SignOut(named, ok)
             first == FirstResponse(read, a, giveUp, ok)
  <2>3. /\ listed \subseteq Ids
        /\ named \in Clients /\ named.id = a.pragma /\ named.peers = listed
        /\ named.state = "SIGNING_IN" /\ named.retries = client.retries
        /\ named.sock = read.sock
    <3>1. listed \subseteq Ids
      BY <1>7, AnswerFacts
    <3> HIDE DEF listed
    <3>2. read.peers = {} /\ {} \cup listed = listed
      BY <1>3, <2>1
    <3>3. named \in Clients
      BY <1>3, <2>2, <3>1, <3>2 DEF Clients
    <3> QED BY <1>3, <2>1, <3>1, <3>2, <3>3 DEF Clients
  <2>4. first = IF giveUp /\ listed # {} THEN [out EXCEPT !.peers = @ \cup later] ELSE named
    BY DEF FirstResponse
  <2>5. CASE giveUp /\ listed # {}
    <3>1. /\ out.retries = client.retries /\ out.id \in {a.pragma, NoId} /\ out \in Clients
          /\ out.state \in {"NOT_CONNECTED", "SIGNING_OUT", "SIGNING_OUT_WAITING"}
      <4> HIDE DEF named, listed
      <4>1. out.retries = named.retries /\ out.id \in {named.id, NoId}
            /\ out.state \in {"NOT_CONNECTED", "SIGNING_OUT", "SIGNING_OUT_WAITING"}
        BY <2>3, SignOutFacts
      <4>2. ClientInv(named)
        BY <1>2, <1>3, <2>1, <2>2, <2>3, IdsFacts DEF ClientInv, Polls, HasId, Detached, Asking
      <4>3. out \in Clients
        BY <2>2, <2>3, <4>2, IdsFacts, SignOutInv DEF ClientInv
      <4> QED BY <2>3, <4>1, <4>3
    <3>2. first = [out EXCEPT !.peers = @ \cup later]
      BY <2>4, <2>5
    <3> HIDE DEF out, later, first
    <3>3. first.retries = out.retries /\ first.id = out.id /\ first.state = out.state
      BY <3>1, <3>2 DEF Clients
    <3>4. d = first
      BY <2>a, <3>1, <3>3 DEF StartPolling, first
    <3> QED BY <1>4, <1>6, <2>2, <3>1, <3>3, <3>4, LeavesFollow
  <2>6. CASE ~(giveUp /\ listed # {})
    <3>1. first = named
      BY <2>4, <2>6
    <3> HIDE DEF named, first
    <3>2. d = Poll([named EXCEPT !.state = "CONNECTED"], ok)
      BY <2>3, <2>a, <3>1 DEF StartPolling, first
    <3>3. /\ d.state = "CONNECTED" /\ d.id = a.pragma /\ d.peers = listed
          /\ d.retries = client.retries /\ d.sock["hanging"] # "connected"
      <4> HIDE DEF listed
      <4> QED BY <2>3, <3>2 DEF Poll, Clients, Sockets
    <3>4. /\ client' = d /\ UNCHANGED <<up, lastId, members, mine, box, missed, crashes>>
          /\ \A s \in Sockets : wire'[s] = IF d.sock[s] = "connected" THEN wire[s] ELSE Idle
          /\ "hanging" \in Sockets
      BY <1>6 DEF Becomes, serverVars, Sockets
    <3> HIDE DEF listed
    <3>5. wire'["hanging"] = Idle /\ ~Idle.lost /\ Idle.answer = NoAnswer
      BY <3>3, <3>4 DEF Idle, Carries
    <3>6. WireInv'
      BY <3>3, <3>4, <3>5 DEF WireInv
    <3>7. Vanished' = Vanished
      BY <3>4 DEF Vanished
    <3>8. RetriesInv' /\ FreshInv'
      BY <1>4, <3>3, <3>4, <3>7 DEF RetriesInv, FreshInv
    <3>9. MailInv'
      BY <1>8, <3>4 DEF MailInv, Genuine
    <3>10. AssignedInv'
      BY <3>3, <3>4 DEF AssignedInv
    <3>11. client'.id # NoId
      BY <2>2, <3>3, <3>4, IdsFacts
    <3>12. box'[client'.id] \in Seq(Answers)
      BY <2>2, <3>3, <3>4, TypeParts DEF Inv, ServerTypeOK
    <3>13. Coming' = box[a.pragma]
      <4>1. Coming' = <<>> \o box'[client'.id]
        BY <3>5 DEF Coming
      <4> QED BY <3>3, <3>4, <3>12, <4>1
    <3>14. KnownInv'
      BY <2>2, <3>3, <3>4, <3>13 DEF KnownInv, listed
    <3> QED BY <3>6, <3>8, <3>9, <3>10, <3>14 DEF FollowInv
  <2> QED BY <2>5, <2>6
<1> QED BY <1>10, <1>11, <1>12, <1>13

(* The answer of the poll is taken, and the client polls again.            *)
LEMMA ReadsHangingFollow ==
  ASSUME Inv, Inv', FollowInv, crashes = 0, ReadsHanging
  PROVE  FollowInv'
<1>1. PICK giveUp \in BOOLEAN, ok \in BOOLEAN :
        Becomes(OnHangingGetRead(client, wire["hanging"].answer, giveUp, ok))
  BY ChoiceFacts DEF ReadsHanging
<1> DEFINE a == wire["hanging"].answer
           read == ReadIntoBuffer(client, "hanging", ok)
           knows == IF read.id = a.pragma
                    THEN [read EXCEPT !.peers = (@ \cup a.joined) \ a.left] ELSE read
           told == IF a.status = "200" THEN Notified(read, a, giveUp, ok) ELSE Rejected(read)
           d == OnHangingGetRead(client, a, giveUp, ok)
<1>2. /\ client \in Clients /\ Calm(client) /\ ClientInv(client)
      /\ client.sock["hanging"] = "connected" /\ a # NoAnswer
      /\ client.state = "CONNECTED" /\ client.id # NoId /\ client.id \in mine
  <2>1. client \in Clients /\ Calm(client) /\ ClientInv(client)
        /\ client.sock["hanging"] = "connected" /\ a # NoAnswer
    BY NamedFacts DEF ReadsHanging, Answered
  <2>2. client.state = "CONNECTED" /\ client.id # NoId
    BY <2>1, NamedFacts DEF ClientInv, Polls
  <2> QED BY <2>1, <2>2 DEF FollowInv, KnownInv
<1>3. /\ read \in Clients
      /\ read.state = "CONNECTED" /\ read.id = client.id /\ read.peers = client.peers
      /\ read.retries = client.retries /\ read.sock["hanging"] # "connected"
  <2>1. "hanging" \in Sockets
    BY DEF Sockets
  <2>2. read = OnClose(client, "hanging", FALSE, ok)
    BY DEF ReadIntoBuffer
  <2>3. read \in Clients
    BY <1>2, <2>1, ReadFacts DEF ClientInv
  <2>4. client \in Clients
    BY <1>2
  <2> HIDE DEF read
  <2>5. /\ read.state = client.state /\ read.id = client.id /\ read.peers = client.peers
        /\ read.retries = client.retries /\ read.sock["hanging"] # "connected"
    BY <2>1, <2>2, <2>4, OnCloseShut
  <2> QED BY <1>2, <2>3, <2>5
<1>4. client.retries > 0 => Vanished
  BY <1>2 DEF Calm
<1>5. d = IF told.sock["hanging"] = "closed" /\ told.state = "CONNECTED" THEN Poll(told, ok) ELSE told
  BY DEF OnHangingGetRead
<1>6. Becomes(d)
  BY <1>1
<1>7. a \in Answers /\ a = wire["hanging"].answer
  BY TypeParts DEF Inv, Wires, Sockets
<1>8. told = IF a.status = "200" THEN Notified(read, a, giveUp, ok) ELSE Rejected(read)
  OBVIOUS
<1>9. Notified(read, a, giveUp, ok) =
        IF giveUp /\ (a.joined # {} \/ read.id # a.pragma) THEN SignOut(knows, ok) ELSE knows
  BY DEF Notified
<1>10. /\ knows \in Clients /\ knows.state = "CONNECTED" /\ knows.id = client.id
       /\ knows.retries = client.retries /\ knows.sock = read.sock
       /\ knows.peers = IF a.pragma = client.id THEN (client.peers \cup a.joined) \ a.left
                        ELSE client.peers
  <2> HIDE DEF read, a
  <2>1. (read.peers \cup a.joined) \ a.left \in SUBSET Ids
    BY <1>3, <1>7, AnswerFacts DEF Clients
  <2> QED BY <1>3, <2>1 DEF Clients
<1> HIDE DEF read, d, a, knows, told
<1>11. CASE a.status # "200"
  <2>1. told = Rejected(read)
    BY <1>8, <1>11
  <2>2. told.retries = client.retries /\ told.id = NoId /\ told.state = "NOT_CONNECTED"
    BY <1>3, <2>1, RejectedFacts
  <2>3. d = told
    BY <1>5, <2>2
  <2> QED BY <1>4, <1>6, <2>2, <2>3, LeavesFollow
<1>12. CASE a.status = "200" /\ told = SignOut(knows, ok)
  <2>1. /\ told.retries = client.retries /\ told.id \in {client.id, NoId}
        /\ told.state \in {"NOT_CONNECTED", "SIGNING_OUT", "SIGNING_OUT_WAITING"}
    BY <1>10, <1>12, SignOutFacts
  <2>2. d = told
    BY <1>5, <2>1
  <2> QED BY <1>2, <1>4, <1>6, <2>1, <2>2, LeavesFollow
<1>13. CASE a.status = "200" /\ told = knows
  <2>1. /\ d.state = "CONNECTED" /\ d.id = client.id /\ d.peers = knows.peers
        /\ d.retries = client.retries /\ d.sock["hanging"] # "connected"
    <3>1. CASE d = told
      BY <1>3, <1>10, <1>13, <3>1
    <3>2. CASE d = Poll(told, ok)
      BY <1>10, <1>13, <3>2 DEF Poll, Clients, Sockets
    <3> QED BY <1>5, <3>1, <3>2
  <2>2. /\ client' = d /\ UNCHANGED <<up, lastId, members, mine, box, missed, crashes>>
        /\ \A s \in Sockets : wire'[s] = IF d.sock[s] = "connected" THEN wire[s] ELSE Idle
        /\ "hanging" \in Sockets
    BY <1>6 DEF Becomes, serverVars, Sockets
  <2>3. wire'["hanging"] = Idle /\ ~Idle.lost /\ Idle.answer = NoAnswer
    BY <2>1, <2>2 DEF Idle, Carries
  <2>4. WireInv'
    BY <2>1, <2>2, <2>3 DEF WireInv
  <2>5. Vanished' = Vanished
    BY <2>2 DEF Vanished
  <2>6. RetriesInv' /\ FreshInv'
    BY <1>4, <2>1, <2>2, <2>5 DEF RetriesInv, FreshInv
  <2>7. MailInv'
    BY <2>2 DEF FollowInv, MailInv, Genuine
  <2>8. AssignedInv'
    BY <2>1, <2>2 DEF AssignedInv
  <2>9. /\ box[client.id] \in Seq(Answers) /\ Coming = <<a>> \o box[client.id]
        /\ client.peers \in SUBSET Ids
    BY <1>2, <1>7, ComingFacts DEF Clients
  <2>10. Coming' = box[client.id]
    <3>1. Coming' = <<>> \o box'[client'.id]
      BY <2>3 DEF Coming
    <3>2. box'[client'.id] = box[client.id]
      BY <2>1, <2>2
    <3> QED BY <2>9, <3>1, <3>2
  <2>11. After(client.peers, client.id, Coming) = After(knows.peers, client.id, box[client.id])
    <3>1. client.peers \in SUBSET Ids /\ box[client.id] \in Seq(Answers) /\ a \in Answers
      BY <1>7, <2>9
    <3>2. After(client.peers, client.id, <<a>> \o box[client.id]) =
            After(Learns(client.peers, client.id, a), client.id, box[client.id])
      BY <3>1, AfterFirst
    <3>3. knows.peers = Learns(client.peers, client.id, a)
      BY <1>10 DEF Learns
    <3> QED BY <2>9, <3>2, <3>3
  <2>12. KnownInv'
    BY <1>2, <2>1, <2>2, <2>10, <2>11 DEF FollowInv, KnownInv
  <2> QED BY <2>4, <2>6, <2>7, <2>8, <2>12 DEF FollowInv
<1>14. a.status = "200" => told = SignOut(knows, ok) \/ told = knows
  BY <1>8, <1>9
<1> QED BY <1>11, <1>12, <1>13, <1>14

-----------------------------------------------------------------------------
(* What the server does while the client waits.                            *)

(* A member's mailbox gets the news of a change of the membership.         *)
Delivers(m) ==
  /\ m \in members
  /\ \/ box'[m] = box[m] /\ members' \ {m} = members \ {m}
     \/ \E a \in Answers :
          /\ box'[m] = Append(box[m], a)
          /\ members' \ {m} = IF a.pragma = m THEN ((members \ {m}) \cup a.joined) \ a.left
                              ELSE members \ {m}

LEMMA AfterNews ==
  ASSUME NEW known \in SUBSET Ids, NEW m, NEW news \in Seq(Answers), NEW a \in Answers,
         NEW before
  PROVE  After(known, m, news) \ missed = before \ missed =>
           After(known, m, Append(news, a)) \ missed =
             (IF a.pragma = m THEN (before \cup a.joined) \ a.left ELSE before) \ missed
<1> DEFINE known2 == After(known, m, news)
<1>1. After(known, m, Append(news, a)) = Learns(known2, m, a)
  BY AfterMore
<1> HIDE DEF known2
<1>2. known2 \ missed = before \ missed =>
        After(known, m, Append(news, a)) \ missed =
          (IF a.pragma = m THEN (before \cup a.joined) \ a.left ELSE before) \ missed
  BY <1>1 DEF Learns
<1> QED BY <1>2 DEF known2

LEMMA DeliversAfter ==
  ASSUME NEW known \in SUBSET Ids, NEW m, Delivers(m), NEW pre \in Seq(Answers),
         box[m] \in Seq(Answers), After(known, m, pre \o box[m]) \ missed = (members \ {m}) \ missed
  PROVE  After(known, m, pre \o box'[m]) \ missed = (members' \ {m}) \ missed
<1>1. CASE box'[m] = box[m] /\ members' \ {m} = members \ {m}
  BY <1>1
<1>2. ASSUME NEW a \in Answers, box'[m] = Append(box[m], a),
             members' \ {m} = IF a.pragma = m THEN ((members \ {m}) \cup a.joined) \ a.left
                              ELSE members \ {m}
      PROVE  After(known, m, pre \o box'[m]) \ missed = (members' \ {m}) \ missed
  <2> DEFINE q == pre \o box[m]
             before == members \ {m}
  <2>1. pre \o Append(box[m], a) = Append(q, a) /\ q \in Seq(Answers)
    OBVIOUS
  <2>2. After(known, m, q) \ missed = before \ missed
    OBVIOUS
  <2>3. members' \ {m} = IF a.pragma = m THEN (before \cup a.joined) \ a.left ELSE before
    BY <1>2
  <2> HIDE DEF q, before
  <2>4. After(known, m, Append(q, a)) \ missed = (members' \ {m}) \ missed
    BY <2>1, <2>2, <2>3, AfterNews
  <2> QED BY <1>2, <2>1, <2>4
<1> QED BY <1>1, <1>2 DEF Delivers

(* The client and its poll are left alone; its control connection does not *)
(* get the answer of a sign-in.                                            *)
LEMMA DeliversFollow ==
  ASSUME Inv, Inv', AssignedInv, KnownInv, UNCHANGED <<client, missed>>, mine \subseteq mine',
         wire'["hanging"].answer = wire["hanging"].answer,
         \A m \in mine : m \in members' => Delivers(m)
  PROVE  /\ KnownInv'
         /\ (wire'["control"].answer = wire["control"].answer
              \/ wire'["control"].answer.status # "200"
              \/ ~(client.state = "SIGNING_IN" /\ client.sock["control"] = "connected"))
              => AssignedInv'
<1> DEFINE m == client.id
           a == wire["hanging"].answer
           c == wire["control"].answer
<1>1. client \in Clients /\ box \in [Ids -> Seq(Answers)] /\ mine \subseteq Ids /\ client.peers \in SUBSET Ids
      /\ a \in Answers /\ c \in Answers
  <2>1. client \in Clients /\ wire \in Wires /\ ServerTypeOK
    BY TypeParts DEF Inv
  <2>2. mine \subseteq Ids
    BY <2>1, ClientAssumption DEF ServerTypeOK, Ids
  <2> QED BY <2>1, <2>2 DEF ServerTypeOK, Clients, Wires, Sockets
<1>2. ASSUME client.state = "CONNECTED", m \in members'
      PROVE  After(client.peers, m, Coming') \ missed = (members' \ {m}) \ missed
  <2>1. PICK pre \in Seq(Answers) : pre = IF a = NoAnswer THEN <<>> ELSE <<a>>
    <3> HIDE DEF a
    <3>1. <<>> \in Seq(Answers) /\ <<a>> \in Seq(Answers)
      BY <1>1
    <3> QED BY <3>1
  <2>2. m \in mine /\ Delivers(m)
    BY <1>2 DEF KnownInv, Inv, ClientInv, HasId
  <2>3. Coming = pre \o box[m] /\ Coming' = pre \o box'[m]
    <3>1. Coming = (IF a = NoAnswer THEN <<>> ELSE <<a>>) \o box[m]
      BY DEF Coming
    <3>2. Coming' = (IF a = NoAnswer THEN <<>> ELSE <<a>>) \o box'[m]
      BY DEF Coming
    <3> QED BY <2>1, <3>1, <3>2
  <2>4. After(client.peers, m, pre \o box[m]) \ missed = (members \ {m}) \ missed
    BY <1>2, <2>2, <2>3 DEF KnownInv, Delivers
  <2> QED BY <1>1, <2>2, <2>3, <2>4, DeliversAfter
<1>3. KnownInv'
  BY <1>2 DEF KnownInv
<1>4. ASSUME client.state = "SIGNING_IN", client.sock["control"] = "connected", c.status = "200",
             wire'["control"].answer = c
      PROVE  /\ c.pragma \in mine'
             /\ c.pragma \in members' =>
                  After(c.joined \ {c.pragma}, c.pragma, box'[c.pragma]) \ missed
                    = (members' \ {c.pragma}) \ missed
  <2> DEFINE k == c.pragma
  <2>1. /\ k \in mine
        /\ k \in members => After(c.joined \ {k}, k, box[k]) \ missed = (members \ {k}) \ missed
    BY <1>4 DEF AssignedInv
  <2>2. c.joined \ {k} \in SUBSET Ids
    BY <1>1, AnswerFacts
  <2>3. ASSUME k \in members'
        PROVE  After(c.joined \ {k}, k, box'[k]) \ missed = (members' \ {k}) \ missed
    <3>1. Delivers(k) /\ k \in members
      BY <2>1, <2>3 DEF Delivers
    <3>2. box[k] \in Seq(Answers) /\ <<>> \in Seq(Answers)
      BY <1>1, <2>1
    <3>3. box'[k] \in Seq(Answers)
      <4>1. box' \in [Ids -> Seq(Answers)]
        BY DEF Inv, TypeOK
      <4>2. k \in Ids
        BY <1>1, <2>1
      <4> QED BY <4>1, <4>2
    <3> HIDE DEF k, c
    <3>4. <<>> \o box[k] = box[k] /\ <<>> \o box'[k] = box'[k]
      BY <3>2, <3>3
    <3> DEFINE others == c.joined \ {k}
    <3>5. others \in SUBSET Ids /\ After(others, k, box[k]) \ missed = (members \ {k}) \ missed
      BY <2>1, <2>2, <3>1
    <3> HIDE DEF others
    <3>6. After(others, k, <<>> \o box[k]) \ missed = (members \ {k}) \ missed
      BY <3>4, <3>5
    <3>7. After(others, k, <<>> \o box'[k]) \ missed = (members' \ {k}) \ missed
      BY <3>1, <3>2, <3>5, <3>6, DeliversAfter
    <3> QED BY <3>4, <3>7 DEF others
  <2> QED BY <2>1, <2>3
<1>5. ASSUME wire'["control"].answer = c \/ wire'["control"].answer.status # "200"
             \/ ~(client.state = "SIGNING_IN" /\ client.sock["control"] = "connected")
      PROVE  AssignedInv'
  BY <1>4, <1>5 DEF AssignedInv
<1> QED BY <1>3, <1>5

LEMMA RemoteFollow ==
  ASSUME FollowInv, crashes = 0, UNCHANGED client, Vanished => Vanished',
         WireInv', MailInv', AssignedInv', KnownInv'
  PROVE  FollowInv'
BY DEF FollowInv, RetriesInv, FreshInv

LEMMA WireStays ==
  ASSUME WireInv, UNCHANGED client, wire'["hanging"] = wire["hanging"]
  PROVE  WireInv'
BY DEF WireInv

LEMMA ToldFacts ==
  ASSUME NEW who, NEW J \in SUBSET Ids, NEW L \in SUBSET Ids, NEW m \in Ids
  PROVE  Told(who, J, L)[m] = IF m \in who /\ m \in members /\ (m \in mine \/ m = client.id)
                              THEN Append(box[m], Answer("200", m, J, L)) ELSE box[m]
BY DEF Told, Kept

LEMMA MailGrows ==
  ASSUME NEW news \in Seq(Answers), Genuine(news), NEW a \in Answers, a.status = "200"
  PROVE  Genuine(Append(news, a))
BY DEF Genuine

LEMMA ToldMail ==
  ASSUME ServerTypeOK, MailInv, NEW who, NEW J \in SUBSET Ids, NEW L \in SUBSET Ids, NEW m \in Ids
  PROVE  Genuine(Told(who, J, L)[m])
<1> DEFINE a == Answer("200", m, J, L)
<1>1. a \in Answers /\ a.status = "200"
  BY DEF Answer, Answers
<1>2. box[m] \in Seq(Answers) /\ Genuine(box[m])
  BY DEF ServerTypeOK, MailInv
<1>3. Told(who, J, L)[m] = Append(box[m], a) \/ Told(who, J, L)[m] = box[m]
  <2>1. Told(who, J, L)[m] = IF m \in who /\ m \in members /\ (m \in mine \/ m = client.id)
                             THEN Append(box[m], Answer("200", m, J, L)) ELSE box[m]
    BY ToldFacts
  <2> QED BY <2>1
<1> HIDE DEF a
<1> QED BY <1>1, <1>2, <1>3, MailGrows

LEMMA AdmitFollow ==
  ASSUME ServerTypeOK, MailInv, NEW isMine \in BOOLEAN, Admit(lastId + 1, isMine)
  PROVE  /\ lastId' = lastId + 1 /\ lastId' \notin mine /\ lastId' \in members' /\ lastId' \in Ids
         /\ mine \subseteq mine' /\ (isMine => lastId' \in mine')
         /\ box'[lastId'] = <<>> /\ MailInv'
         /\ \A m \in mine : m \in members' => Delivers(m)
<1> DEFINE new == lastId + 1
           told == Told(members, {new}, {})
<1>1. /\ new \in Ids /\ lastId' = new /\ members' = members \cup {new}
      /\ mine' = IF isMine THEN mine \cup {new} ELSE mine
      /\ box' = [told EXCEPT ![new] = <<>>]
  BY DEF Admit
<1>2. /\ told \in [Ids -> Seq(Answers)] /\ {new} \in SUBSET Ids
      /\ mine \subseteq Ids /\ box \in [Ids -> Seq(Answers)] /\ members \subseteq Ids
  <2>1. {new} \in SUBSET Ids /\ {} \in SUBSET Ids
    BY <1>1
  <2>2. told \in [Ids -> Seq(Answers)]
    BY <2>1, ToldType
  <2>3. mine \subseteq Ids /\ members \subseteq Ids
    BY ClientAssumption DEF ServerTypeOK, Ids
  <2> QED BY <2>1, <2>2, <2>3 DEF ServerTypeOK
<1>3. new \notin mine /\ new \notin members
  BY DEF ServerTypeOK
<1>4. \A m \in Ids : Genuine(told[m])
  BY <1>2, ToldMail
<1>5. \A m \in Ids : told[m] = IF m \in members /\ (m \in mine \/ m = client.id)
                               THEN Append(box[m], Answer("200", m, {new}, {})) ELSE box[m]
  <2>1. {new} \in SUBSET Ids /\ {} \in SUBSET Ids
    BY <1>1
  <2> HIDE DEF new
  <2> QED BY <2>1, ToldFacts
<1> HIDE DEF told
<1>6. \A m \in Ids : box'[m] = IF m = new THEN <<>> ELSE told[m]
  BY <1>1, <1>2
<1> HIDE DEF new
<1>7. MailInv'
  <2>1. Genuine(<<>>)
    BY DEF Genuine
  <2>2. \A m \in Ids : Genuine(box'[m])
    BY <1>4, <1>6, <2>1
  <2> QED BY <2>2 DEF MailInv, Genuine
<1>8. ASSUME NEW m \in mine, m \in members' PROVE Delivers(m)
  <2>1. m \in members /\ m # new /\ m \in Ids
    BY <1>1, <1>2, <1>3, <1>8
  <2> DEFINE a == Answer("200", m, {new}, {})
  <2>2. a \in Answers /\ a.pragma = m /\ a.joined = {new} /\ a.left = {}
    BY <1>2, <2>1 DEF Answer, Answers
  <2>3. box'[m] = Append(box[m], a)
    BY <1>5, <1>6, <2>1
  <2> HIDE DEF a
  <2>4. members' \ {m} = ((members \ {m}) \cup a.joined) \ a.left
    BY <1>1, <2>1, <2>2
  <2> QED BY <2>1, <2>2, <2>3, <2>4 DEF Delivers
<1> QED BY <1>1, <1>3, <1>6, <1>7, <1>8 DEF new

LEMMA DismissFollow ==
  ASSUME ServerTypeOK, MailInv, NEW x \in Ids, Dismiss(x)
  PROVE  MailInv' /\ \A m \in mine : m \in members' => Delivers(m)
<1> DEFINE told == Told(members \ {x}, {}, {x})
<1>1. box' = [told EXCEPT ![x] = <<>>] /\ members' = members \ {x}
  BY DEF Dismiss
<1>2. /\ told \in [Ids -> Seq(Answers)] /\ {x} \in SUBSET Ids /\ {} \in SUBSET Ids
      /\ mine \subseteq Ids /\ box \in [Ids -> Seq(Answers)]
  <2>1. {x} \in SUBSET Ids /\ {} \in SUBSET Ids
    OBVIOUS
  <2>2. told \in [Ids -> Seq(Answers)]
    BY <2>1, ToldType
  <2>3. mine \subseteq Ids /\ box \in [Ids -> Seq(Answers)]
    BY ClientAssumption DEF ServerTypeOK, Ids
  <2> QED BY <2>1, <2>2, <2>3
<1>4. \A m \in Ids : Genuine(told[m])
  BY <1>2, ToldMail
<1>5. \A m \in Ids : told[m] = IF m \in members \ {x} /\ m \in members /\ (m \in mine \/ m = client.id)
                               THEN Append(box[m], Answer("200", m, {}, {x})) ELSE box[m]
  <2> DEFINE rest == members \ {x}
  <2> HIDE DEF rest
  <2>1. {x} \in SUBSET Ids /\ {} \in SUBSET Ids
    BY <1>2
  <2>2. \A m \in Ids : Told(rest, {}, {x})[m] =
          IF m \in rest /\ m \in members /\ (m \in mine \/ m = client.id)
          THEN Append(box[m], Answer("200", m, {}, {x})) ELSE box[m]
    BY <2>1, ToldFacts
  <2> QED BY <2>2 DEF rest
<1> HIDE DEF told
<1>6. \A m \in Ids : box'[m] = IF m = x THEN <<>> ELSE told[m]
  BY <1>1, <1>2
<1>7. MailInv'
  <2>1. Genuine(<<>>)
    BY DEF Genuine
  <2>2. \A m \in Ids : Genuine(box'[m])
    BY <1>4, <1>6, <2>1
  <2> QED BY <2>2 DEF MailInv, Genuine
<1>8. ASSUME NEW m \in mine, m \in members' PROVE Delivers(m)
  <2>1. m \in members /\ m # x /\ m \in Ids
    BY <1>1, <1>2, <1>8
  <2> DEFINE a == Answer("200", m, {}, {x})
  <2>2. a \in Answers /\ a.pragma = m /\ a.joined = {} /\ a.left = {x}
    BY <1>2, <2>1 DEF Answer, Answers
  <2>3. box'[m] = Append(box[m], a)
    BY <1>5, <1>6, <2>1
  <2> HIDE DEF a
  <2>4. members' \ {m} = ((members \ {m}) \cup a.joined) \ a.left
    BY <1>1, <2>1, <2>2
  <2> QED BY <2>1, <2>2, <2>3, <2>4 DEF Delivers
<1> QED BY <1>7, <1>8

LEMMA ServedFacts ==
  ASSUME Inv, FollowInv, crashes = 0
  PROVE  /\ ServerTypeOK /\ wire \in Wires /\ "control" \in Sockets /\ "hanging" \in Sockets
         /\ "hanging" \in Sockets \ {"control"} /\ "control" \in Sockets \ {"hanging"}
         /\ WireInv /\ MailInv /\ AssignedInv /\ KnownInv
BY TypeParts DEF Inv, FollowInv, Sockets

LEMMA ServesSignInFollow ==
  ASSUME Inv, Inv', FollowInv, crashes = 0, ServesSignIn
  PROVE  FollowInv'
<1> DEFINE a == Answer("200", lastId', members', {})
<1>1. Pending("control", "/sign_in") /\ Admit(lastId + 1, TRUE) /\ Answers200("control", a)
      /\ UNCHANGED <<client, up, missed, crashes>>
  BY DEF ServesSignIn
<1>2. /\ lastId' = lastId + 1 /\ lastId' \notin mine /\ lastId' \in members' /\ lastId' \in Ids
      /\ mine \subseteq mine' /\ lastId' \in mine'
      /\ box'[lastId'] = <<>> /\ MailInv'
      /\ \A m \in mine : m \in members' => Delivers(m)
  BY <1>1, ServedFacts, AdmitFollow
<1>3. members' \subseteq Ids
  BY MembersAreIds, ClientAssumption DEF Inv, TypeOK, Ids
<1>4. a \in Answers /\ a.pragma = lastId' /\ a.joined = members'
  BY <1>2, <1>3 DEF Answer, Answers
<1>5. /\ wire'["control"].answer = a \/ wire'["control"].answer.status # "200"
      /\ wire'["hanging"] = wire["hanging"]
  <2> HIDE DEF a
  <2> QED BY <1>1, <1>4, ServedFacts, Answers200Facts, GoneFacts
<1> HIDE DEF a
<1>6. WireInv'
  BY <1>1, <1>5, ServedFacts, WireStays
<1>7. KnownInv'
  BY <1>1, <1>2, <1>5, ServedFacts, DeliversFollow
<1>8. After(members' \ {lastId'}, lastId', <<>>) = members' \ {lastId'}
  BY <1>3, AfterNone
<1>9. AssignedInv'
  BY <1>2, <1>4, <1>5, <1>8 DEF AssignedInv
<1>10. Vanished => Vanished'
  BY <1>1, <1>2 DEF Vanished, Inv, TypeOK
<1> QED BY <1>1, <1>2, <1>6, <1>7, <1>9, <1>10, RemoteFollow

(* An answer that is not that of a sign-in.                                *)
LEMMA OtherAnswer ==
  ASSUME Inv, FollowInv, crashes = 0, NEW path, Pending("control", path), path \notin {"/sign_in", "none"}
  PROVE  client.state # "SIGNING_IN"
<1>1. client.id # NoId /\ client.sock["control"] = "connected"
  BY OtherPath DEF Pending
<1> QED BY <1>1 DEF FollowInv, FreshInv

LEMMA ServesSignOutFollow ==
  ASSUME Inv, Inv', FollowInv, crashes = 0, ServesSignOut
  PROVE  FollowInv'
<1> DEFINE id == wire["control"].ask.id
           a == Answer("200", NoId, {}, {})
<1>1. /\ Pending("control", "/sign_out")
      /\ UNCHANGED <<client, up, lastId, mine, missed, crashes>>
      /\ \/ id \in members /\ Dismiss(id) /\ Answers200("control", a)
         \/ Rejects("control") /\ UNCHANGED <<members, box>>
  BY DEF ServesSignOut
<1>2. client.state # "SIGNING_IN"
  BY <1>1, OtherAnswer
<1>3. wire'["hanging"] = wire["hanging"]
  BY <1>1, ServedFacts, Answers200Facts, RejectsFacts, AnswerTypes
<1>4. MailInv' /\ \A m \in mine : m \in members' => Delivers(m)
  <2>1. CASE id \in members /\ Dismiss(id)
    BY <2>1, ServedFacts, MembersAreIds, DismissFollow
  <2>2. CASE UNCHANGED <<members, box>>
    BY <2>2, ServedFacts DEF Delivers, MailInv, Genuine
  <2> QED BY <1>1, <2>1, <2>2
<1>5. mine \subseteq mine' /\ (Vanished => Vanished')
  BY <1>1 DEF Vanished
<1>6. WireInv'
  BY <1>1, <1>3, ServedFacts, WireStays
<1>7. KnownInv' /\ AssignedInv'
  BY <1>1, <1>2, <1>3, <1>4, <1>5, ServedFacts, DeliversFollow
<1> QED BY <1>1, <1>4, <1>5, <1>6, <1>7, RemoteFollow

(* Nothing but the connections changes.                                    *)
LEMMA WiresFollow ==
  ASSUME Inv, Inv', FollowInv, crashes = 0, UNCHANGED <<client, serverVars>>, WireInv',
         wire'["hanging"].answer = wire["hanging"].answer,
         wire'["control"].answer = wire["control"].answer \/ client.state # "SIGNING_IN"
  PROVE  FollowInv'
<1>1. UNCHANGED <<client, up, lastId, members, mine, box, missed, crashes>>
  BY DEF serverVars
<1>2. MailInv' /\ mine \subseteq mine' /\ (Vanished => Vanished')
  BY <1>1, ServedFacts DEF MailInv, Genuine, Vanished
<1>3. \A m \in mine : m \in members' => Delivers(m)
  BY <1>1 DEF Delivers
<1>4. KnownInv' /\ AssignedInv'
  BY <1>1, <1>2, <1>3, ServedFacts, DeliversFollow
<1> QED BY <1>1, <1>2, <1>4, RemoteFollow

LEMMA ServesMessageFollow ==
  ASSUME Inv, Inv', FollowInv, crashes = 0, ServesMessage
  PROVE  FollowInv'
<1>1. /\ Pending("control", "/message") /\ UNCHANGED <<client, serverVars>>
      /\ Answers200("control", Answer("200", NoId, {}, {})) \/ Rejects("control")
  BY DEF ServesMessage
<1>2. client.state # "SIGNING_IN"
  BY <1>1, OtherAnswer
<1>3. wire'["hanging"] = wire["hanging"]
  BY <1>1, ServedFacts, Answers200Facts, RejectsFacts, AnswerTypes
<1>4. WireInv'
  BY <1>1, <1>3, ServedFacts, WireStays
<1> QED BY <1>1, <1>2, <1>3, <1>4, WiresFollow

LEMMA ServesWaitFollow ==
  ASSUME Inv, Inv', FollowInv, crashes = 0, ServesWait
  PROVE  FollowInv'
<1> DEFINE id == wire["hanging"].ask.id
<1>1. /\ client.sock["hanging"] = "connected"
      /\ wire["hanging"].answer = NoAnswer /\ wire["hanging"].ask.path = "/wait"
      /\ UNCHANGED <<client, up, lastId, members, mine, missed, crashes>>
      /\ \/ id \notin members /\ Rejects("hanging") /\ UNCHANGED box
         \/ /\ id \in members /\ box[id] # <<>> /\ Answers200("hanging", Head(box[id]))
            /\ box' = [box EXCEPT ![id] = Tail(@)]
  BY DEF ServesWait, Pending
<1>0. ~wire["hanging"].lost
  BY <1>1, ServedFacts, GoneFacts DEF WireInv
<1>2. client.state = "CONNECTED" /\ id = client.id
  BY <1>0, <1>1, ServedFacts DEF Inv, ClientInv, Polls, WireInv, Ask
<1>3. (Vanished => Vanished') /\ MailInv /\ KnownInv
  BY <1>1, ServedFacts DEF Vanished
<1>4. AssignedInv'
  BY <1>1, <1>2 DEF AssignedInv
<1> HIDE DEF id
<1>5. CASE id \notin members /\ Rejects("hanging") /\ UNCHANGED box
  <2>1. wire'["hanging"].ask = wire["hanging"].ask
    BY <1>0, <1>5, ServedFacts, RejectsFacts
  <2>2. ~wire'["hanging"].lost
    BY <1>0, <1>5, ServedFacts, RejectsFacts
  <2>3. WireInv'
    BY <1>0, <1>1, <2>1, <2>2, ServedFacts DEF WireInv
  <2>4. KnownInv' /\ MailInv'
    BY <1>1, <1>2, <1>3, <1>5 DEF KnownInv, MailInv, Genuine
  <2> QED BY <1>1, <1>3, <1>4, <2>3, <2>4, RemoteFollow
<1>6. CASE /\ id \in members /\ box[id] # <<>> /\ Answers200("hanging", Head(box[id]))
           /\ box' = [box EXCEPT ![id] = Tail(@)]
  <2> DEFINE q == box[id]
             a == Head(q)
  <2>1. id \in Ids /\ q \in Seq(Answers) /\ q # <<>> /\ box \in [Ids -> Seq(Answers)]
    BY <1>6, ServedFacts, MembersAreIds DEF ServerTypeOK
  <2>2. Genuine(q)
    BY <1>3, <2>1 DEF MailInv
  <2>3. box'[id] = Tail(q) /\ \A m \in Ids : m # id => box'[m] = box[m]
    BY <1>6, <2>1
  <2>c. Answers200("hanging", a)
    BY <1>6
  <2> HIDE DEF q
  <2>4. /\ a \in Answers /\ a = q[1] /\ 1 \in DOMAIN q /\ Tail(q) \in Seq(Answers)
        /\ q = <<a>> \o Tail(q)
        /\ \A i \in DOMAIN Tail(q) : i + 1 \in DOMAIN q /\ Tail(q)[i] = q[i + 1]
    BY <2>1
  <2>5. a.status = "200" /\ a # NoAnswer /\ Genuine(Tail(q))
    BY <2>2, <2>4 DEF Genuine, NoAnswer, Answer
  <2> HIDE DEF a
  <2>6. wire'["hanging"].ask = wire["hanging"].ask /\ wire'["hanging"].answer = a
    BY <1>0, <2>4, <2>c, ServedFacts, Answers200Facts
  <2>7. ~wire'["hanging"].lost
    BY <1>0, <2>4, <2>c, ServedFacts, Answers200Facts
  <2>8. WireInv'
    BY <1>0, <1>1, <2>6, <2>7, ServedFacts DEF WireInv
  <2>9. MailInv'
    <3>1. ASSUME NEW m \in Ids PROVE Genuine(box'[m])
      <4>1. CASE m = id
        BY <2>3, <2>5, <4>1
      <4>2. CASE m # id
        BY <1>3, <2>3, <4>2 DEF MailInv
      <4> QED BY <4>1, <4>2
    <3> QED BY <3>1 DEF MailInv, Genuine
  <2>10. Coming = q
    <3>1. Coming = <<>> \o box[client.id]
      BY <1>1 DEF Coming
    <3>2. <<>> \o q = q
      BY <2>1
    <3> QED BY <1>2, <3>1, <3>2 DEF q
  <2>11. Coming' = <<a>> \o Tail(q)
    <3>1. wire'["hanging"].answer # NoAnswer /\ box'[client'.id] = Tail(q)
      BY <1>1, <1>2, <2>3, <2>5, <2>6
    <3>2. Coming' = <<wire'["hanging"].answer>> \o box'[client'.id]
      BY <3>1 DEF Coming
    <3> QED BY <2>6, <3>1, <3>2
  <2>12. Coming' = Coming
    BY <2>4, <2>10, <2>11
  <2>13. KnownInv'
    BY <1>1, <1>3, <2>12 DEF KnownInv
  <2> QED BY <1>1, <1>3, <1>4, <2>8, <2>9, <2>13, RemoteFollow
<1> QED BY <1>1, <1>5, <1>6

(* A mailbox loses its head to a poll that is lost: what that told of is   *)
(* missed, and nobody else is.                                             *)
LEMMA LosesHead ==
  ASSUME NEW known \in SUBSET Ids, NEW m \in Ids, NEW pre \in {<<>>} \cup {<<b>> : b \in Answers},
         box[m] \in Seq(Answers), box[m] # <<>>, missed \subseteq missed',
         Head(box[m]).joined \subseteq missed', Head(box[m]).left \subseteq missed',
         After(known, m, pre \o box[m]) \ missed = (members \ {m}) \ missed
  PROVE  After(known, m, pre \o Tail(box[m])) \ missed' = (members \ {m}) \ missed'
<1> DEFINE X == missed'
           q == box[m]
           a == Head(q)
           rest == Tail(q)
<1>1. a \in Answers /\ rest \in Seq(Answers) /\ q = <<a>> \o rest
  OBVIOUS
<1>2. After(known, m, pre \o q) \ X = (members \ {m}) \ X
  OBVIOUS
<1>3. a.joined \subseteq X /\ a.left \subseteq X
  OBVIOUS
<1> HIDE DEF X, q, a, rest
<1>4. After(known, m, pre \o (<<a>> \o rest)) \ X = After(known, m, pre \o rest) \ X
  <2>1. CASE pre = <<>>
    <3>1. <<>> \o rest = rest /\ <<>> \o (<<a>> \o rest) = <<a>> \o rest
      BY <1>1
    <3>2. After(known, m, <<a>> \o rest) \ X = After(known, m, rest) \ X
      BY <1>1, <1>3, AfterLoss
    <3> QED BY <2>1, <3>1, <3>2
  <2>2. ASSUME NEW b \in Answers, pre = <<b>>
        PROVE  After(known, m, pre \o (<<a>> \o rest)) \ X = After(known, m, pre \o rest) \ X
    <3> DEFINE more == <<a>> \o rest
    <3>1. more \in Seq(Answers)
      BY <1>1
    <3>2. \A knows \in SUBSET Ids : After(knows, m, more) \ X = After(knows, m, rest) \ X
      BY <1>1, <1>3, AfterLoss
    <3> HIDE DEF more
    <3>3. After(known, m, <<b>> \o more) \ X = After(known, m, <<b>> \o rest) \ X
      <4> DEFINE knows == Learns(known, m, b)
      <4>1. knows \in SUBSET Ids
        BY <2>2, AnswerFacts DEF Learns
      <4>2. After(known, m, <<b>> \o more) = After(knows, m, more)
        BY <2>2, <3>1, AfterFirst
      <4>3. After(known, m, <<b>> \o rest) = After(knows, m, rest)
        BY <1>1, <2>2, AfterFirst
      <4> HIDE DEF knows
      <4> QED BY <3>2, <4>1, <4>2, <4>3
    <3> QED BY <2>2, <3>3 DEF more
  <2> QED BY <2>1, <2>2
<1>5. After(known, m, pre \o rest) \ X = (members \ {m}) \ X
  BY <1>1, <1>2, <1>4
<1> QED BY <1>5 DEF rest, q, X

LEMMA OtherJoinsFollow ==
  ASSUME Inv, Inv', FollowInv, crashes = 0, OtherJoins
  PROVE  FollowInv'
<1>1. Admit(lastId + 1, FALSE) /\ up /\ UNCHANGED <<client, wire, up, missed, crashes>>
  BY DEF OtherJoins
<1>2. mine \subseteq mine' /\ MailInv' /\ \A m \in mine : m \in members' => Delivers(m)
  BY <1>1, ServedFacts, AdmitFollow
<1>3. WireInv' /\ (Vanished => Vanished')
  BY <1>1, ServedFacts, WireStays DEF Vanished
<1>4. KnownInv' /\ AssignedInv'
  BY <1>1, <1>2, ServedFacts, DeliversFollow
<1> QED BY <1>1, <1>2, <1>3, <1>4, RemoteFollow

LEMMA LeavesChannelFollow ==
  ASSUME Inv, Inv', FollowInv, crashes = 0, NEW m \in Ids, OtherLeaves(m) \/ Evicts(m)
  PROVE  FollowInv'
<1>1. Dismiss(m) /\ UNCHANGED <<client, wire, up, lastId, mine, missed, crashes>>
  BY DEF OtherLeaves, Evicts
<1>2. mine \subseteq mine' /\ MailInv' /\ \A k \in mine : k \in members' => Delivers(k)
  BY <1>1, ServedFacts, DismissFollow
<1>3. WireInv' /\ (Vanished => Vanished')
  BY <1>1, ServedFacts, WireStays DEF Vanished
<1>4. KnownInv' /\ AssignedInv'
  BY <1>1, <1>2, ServedFacts, DeliversFollow
<1> QED BY <1>1, <1>2, <1>3, <1>4, RemoteFollow

LEMMA OtherSendsFollow ==
  ASSUME Inv, Inv', FollowInv, crashes = 0, NEW from \in Ids, NEW to \in Ids, OtherSends(from, to)
  PROVE  FollowInv'
<1> DEFINE a == Answer("200", from, {}, {})
<1>1. /\ UNCHANGED <<client, wire, up, lastId, members, mine, missed, crashes>> /\ from # to
      /\ box' = [box EXCEPT ![to] = Append(@, a)]
  BY DEF OtherSends
<1>2. a \in Answers /\ a.status = "200" /\ a.pragma = from
  BY DEF Answer, Answers
<1> HIDE DEF a
<1>3. box \in [Ids -> Seq(Answers)] /\ mine \subseteq Ids
  BY ServedFacts, ClientAssumption DEF ServerTypeOK, Ids
<1>4. \A m \in Ids : box'[m] = IF m = to THEN Append(box[m], a) ELSE box[m]
  BY <1>1, <1>3
<1>5. MailInv'
  <2>1. ASSUME NEW m \in Ids PROVE Genuine(box'[m])
    <3>1. Genuine(box[m]) /\ box[m] \in Seq(Answers)
      BY <1>3, ServedFacts DEF MailInv
    <3> QED BY <1>2, <1>4, <3>1, MailGrows
  <2> QED BY <2>1 DEF MailInv, Genuine
<1>6. ASSUME NEW m \in mine, m \in members' PROVE Delivers(m)
  <2>1. m \in Ids /\ m \in members /\ members' = members
    BY <1>1, <1>3, <1>6
  <2>2. CASE m = to
    <3>1. box'[m] = Append(box[m], a) /\ a.pragma # m
      BY <1>1, <1>2, <1>4, <2>1, <2>2
    <3> QED BY <1>2, <2>1, <3>1 DEF Delivers
  <2>3. CASE m # to
    BY <1>4, <2>1, <2>3 DEF Delivers
  <2> QED BY <2>2, <2>3
<1>7. WireInv' /\ (Vanished => Vanished') /\ mine \subseteq mine'
  BY <1>1, ServedFacts, WireStays DEF Vanished
<1>8. KnownInv' /\ AssignedInv'
  BY <1>1, <1>6, <1>7, ServedFacts, DeliversFollow
<1> QED BY <1>1, <1>5, <1>7, <1>8, RemoteFollow

(* The answer of a sign-in and what follows it, with more members missed.  *)
LEMMA AssignedMissed ==
  ASSUME AssignedInv, UNCHANGED <<client, members, mine, box>>, missed \subseteq missed',
         wire'["control"] = wire["control"] \/ wire'["control"].answer \in {wire["control"].answer, NoAnswer}
  PROVE  AssignedInv'
BY DEF AssignedInv, NoAnswer, Answer

LEMMA ServesDeadFollow ==
  ASSUME Inv, Inv', FollowInv, crashes = 0, NEW m \in Ids, ServesDead(m)
  PROVE  FollowInv'
<1> DEFINE a == Head(box[m])
<1>1. /\ m \in members /\ box[m] # <<>> /\ box' = [box EXCEPT ![m] = Tail(@)]
      /\ missed' = missed \cup a.joined \cup a.left
      /\ UNCHANGED <<client, wire, up, lastId, members, mine, crashes>>
  BY DEF ServesDead, Misses
<1>2. /\ missed \subseteq missed' /\ a.joined \subseteq missed' /\ a.left \subseteq missed'
  BY <1>1
<1> HIDE DEF a
<1>3. /\ box \in [Ids -> Seq(Answers)] /\ box[m] \in Seq(Answers)
      /\ box'[m] = Tail(box[m]) /\ \A k \in Ids : k # m => box'[k] = box[k]
  BY <1>1, ServedFacts DEF ServerTypeOK
<1>4. MailInv'
  <2>1. Genuine(box'[m])
    <3>1. Genuine(box[m])
      BY ServedFacts DEF MailInv
    <3> DEFINE q == box[m]
    <3>2. \A i \in DOMAIN Tail(q) : i + 1 \in DOMAIN q /\ Tail(q)[i] = q[i + 1]
      BY <1>1, <1>3
    <3> QED BY <1>3, <3>1, <3>2 DEF Genuine
  <2>2. \A k \in Ids : Genuine(box'[k])
    BY <1>3, <2>1, ServedFacts DEF MailInv, Genuine
  <2> QED BY <2>2 DEF MailInv, Genuine
<1>5. WireInv' /\ (Vanished => Vanished')
  BY <1>1, ServedFacts, WireStays DEF Vanished
<1>6. ASSUME NEW known \in SUBSET Ids, NEW k \in Ids, NEW pre \in {<<>>} \cup {<<b>> : b \in Answers},
             After(known, k, pre \o box[k]) \ missed = (members \ {k}) \ missed
      PROVE  After(known, k, pre \o box'[k]) \ missed' = (members \ {k}) \ missed'
  <2>1. CASE k = m
    <3>1. /\ Head(box[m]).joined \subseteq missed' /\ Head(box[m]).left \subseteq missed'
          /\ After(known, m, pre \o box[m]) \ missed = (members \ {m}) \ missed
      BY <1>2, <1>6, <2>1 DEF a
    <3>2. After(known, m, pre \o Tail(box[m])) \ missed' = (members \ {m}) \ missed'
      BY <1>1, <1>2, <1>3, <3>1, LosesHead
    <3> QED BY <1>3, <2>1, <3>2
  <2>2. CASE k # m
    BY <1>2, <1>3, <1>6, <2>2
  <2> QED BY <2>1, <2>2
<1>7. KnownInv'
  <2> SUFFICES ASSUME client.state = "CONNECTED", client.id \in members
               PROVE  After(client.peers, client.id, Coming') \ missed' = (members \ {client.id}) \ missed'
    BY <1>1, ServedFacts DEF KnownInv
  <2> DEFINE b == wire["hanging"].answer
             pre == IF b = NoAnswer THEN <<>> ELSE <<b>>
  <2>1. client.peers \in SUBSET Ids /\ client.id \in Ids /\ b \in Answers
    BY ServedFacts, MembersAreIds DEF Inv, TypeOK, Clients, Wires
  <2>2. Coming = pre \o box[client.id] /\ Coming' = pre \o box'[client.id]
    BY <1>1 DEF Coming
  <2> HIDE DEF b
  <2>3. pre \in {<<>>} \cup {<<c>> : c \in Answers}
    BY <2>1
  <2> HIDE DEF pre
  <2>4. After(client.peers, client.id, pre \o box[client.id]) \ missed = (members \ {client.id}) \ missed
    BY <2>2, ServedFacts DEF KnownInv
  <2> QED BY <1>6, <2>1, <2>2, <2>3, <2>4
<1>8. AssignedInv'
  <2> DEFINE c == wire["control"].answer
             k == c.pragma
             known == c.joined \ {k}
  <2> SUFFICES ASSUME client.state = "SIGNING_IN", client.sock["control"] = "connected",
                      c.status = "200"
               PROVE  /\ k \in mine
                      /\ k \in members => After(known, k, box'[k]) \ missed' = (members \ {k}) \ missed'
    BY <1>1 DEF AssignedInv
  <2>1. k \in mine /\ (k \in members => After(known, k, box[k]) \ missed = (members \ {k}) \ missed)
    BY ServedFacts DEF AssignedInv
  <2>2. known \in SUBSET Ids /\ k \in Ids
    <3>1. c \in Answers
      BY ServedFacts DEF Wires
    <3>2. k \in Ids
      BY <2>1, ServedFacts, ClientAssumption DEF ServerTypeOK, Ids
    <3> HIDE DEF c
    <3> QED BY <3>1, <3>2, AnswerFacts
  <2> HIDE DEF known, k
  <2>3. ASSUME k \in members PROVE After(known, k, box'[k]) \ missed' = (members \ {k}) \ missed'
    <3>1. box[k] \in Seq(Answers) /\ box'[k] \in Seq(Answers)
      BY <1>1, <1>3, <2>2
    <3>2. <<>> \o box[k] = box[k] /\ <<>> \o box'[k] = box'[k]
      BY <3>1
    <3>3. After(known, k, <<>> \o box[k]) \ missed = (members \ {k}) \ missed
      BY <2>1, <2>3, <3>2
    <3>4. After(known, k, <<>> \o box'[k]) \ missed' = (members \ {k}) \ missed'
      BY <1>6, <2>2, <3>3
    <3> QED BY <3>2, <3>4
  <2> QED BY <2>1, <2>3
<1> QED BY <1>1, <1>4, <1>5, <1>7, <1>8, RemoteFollow

(* With its connection the client loses the answer that is on its way.     *)
LEMMA DropsFollow ==
  ASSUME Inv, Inv', FollowInv, crashes = 0, NEW s \in Sockets, Drops(s)
  PROVE  FollowInv'
<1>1. /\ client.sock[s] = "connected" /\ ~wire[s].lost
      /\ UNCHANGED <<client, up, lastId, members, mine, box, crashes>>
      /\ wire'[s] = Gone \/ (s = "control" /\ wire'[s].ask = wire[s].ask
                              /\ wire'[s].answer = wire[s].answer)
      /\ \A t \in Sockets \ {s} : wire'[t] = wire[t]
  BY ServedFacts, DropsWire DEF Drops
<1>2. MailInv' /\ (Vanished => Vanished')
  BY <1>1, ServedFacts DEF MailInv, Genuine, Vanished
<1>3. CASE s = "control"
  <2>1. missed' = missed /\ wire'["hanging"] = wire["hanging"]
    BY <1>1, <1>3, ServedFacts DEF Drops
  <2>2. wire'["control"].answer \in {wire["control"].answer, NoAnswer}
    BY <1>1, <1>3, GoneFacts
  <2>3. WireInv' /\ AssignedInv'
    BY <1>1, <2>1, <2>2, ServedFacts, WireStays, AssignedMissed
  <2>4. Coming' = Coming
    BY <1>1, <2>1 DEF Coming
  <2>5. KnownInv'
    BY <1>1, <2>1, <2>4, ServedFacts DEF KnownInv
  <2> QED BY <1>1, <1>2, <2>3, <2>5, RemoteFollow
<1>4. CASE s = "hanging"
  <2> DEFINE a == wire["hanging"].answer
             q == box[client.id]
  <2>1. /\ missed' = missed \cup a.joined \cup a.left
        /\ wire'["hanging"] = Gone /\ wire'["control"] = wire["control"]
    BY <1>1, <1>4, ServedFacts DEF Drops, Misses
  <2>2. WireInv' /\ AssignedInv'
    BY <1>1, <1>4, <2>1, ServedFacts, GoneFacts, AssignedMissed DEF WireInv
  <2>3. KnownInv'
    <3> SUFFICES ASSUME client.state = "CONNECTED", client.id \in members
                 PROVE  After(client.peers, client.id, Coming') \ missed' = (members \ {client.id}) \ missed'
      BY <1>1, ServedFacts DEF KnownInv
    <3>1. client.peers \in SUBSET Ids /\ client.id \in Ids /\ client.id # NoId /\ a \in Answers
      <4>1. client.peers \in SUBSET Ids
        BY DEF Inv, TypeOK, Clients
      <4>2. client.id \in Ids /\ client.id # NoId
        BY ServedFacts, MembersAreIds, IdsFacts
      <4>3. a \in Answers
        BY ServedFacts DEF Wires
      <4> HIDE DEF a
      <4> QED BY <4>1, <4>2, <4>3
    <3>2. q \in Seq(Answers) /\ Coming = IF a = NoAnswer THEN q ELSE <<a>> \o q
      BY <3>1, ComingFacts
    <3>3. Coming' = q
      <4>1. Coming' = <<>> \o box'[client'.id]
        BY <2>1, GoneFacts DEF Coming
      <4> QED BY <1>1, <3>2, <4>1
    <3>4. After(client.peers, client.id, Coming) \ missed = (members \ {client.id}) \ missed
      BY ServedFacts DEF KnownInv
    <3> DEFINE X == missed'
    <3>5. missed \subseteq X /\ a.joined \subseteq X /\ a.left \subseteq X
      BY <2>1
    <3> HIDE DEF a, q, X
    <3>6. After(client.peers, client.id, Coming) \ X = After(client.peers, client.id, q) \ X
      <4>1. CASE a = NoAnswer
        BY <3>2, <4>1
      <4>2. CASE a # NoAnswer
        BY <3>1, <3>2, <3>5, <4>2, AfterLoss
      <4> QED BY <4>1, <4>2
    <3>7. After(client.peers, client.id, q) \ X = (members \ {client.id}) \ X
      BY <3>4, <3>5, <3>6
    <3> QED BY <3>3, <3>7 DEF X
  <2> QED BY <1>1, <1>2, <2>2, <2>3, RemoteFollow
<1> QED BY <1>3, <1>4 DEF Sockets

LEMMA ShutsDownFollow ==
  ASSUME Inv, Inv', FollowInv, crashes = 0, ShutsDown
  PROVE  FollowInv'
<1> DEFINE a == Answer("200", NoId, {}, {})
<1>1. /\ up /\ ~up' /\ members' = {} /\ box' = [m \in Ids |-> <<>>]
      /\ UNCHANGED <<client, lastId, mine, missed, crashes>>
      /\ \/ Pending("hanging", "/wait") /\ Answers200("hanging", a)
         \/ UNCHANGED wire
  BY DEF ShutsDown
<1>2. a \in Answers
  BY AnswerTypes
<1> HIDE DEF a
<1>3. WireInv' /\ wire'["control"] = wire["control"]
  <2>1. CASE UNCHANGED wire
    BY <1>1, <2>1, ServedFacts, WireStays
  <2>2. CASE Pending("hanging", "/wait") /\ Answers200("hanging", a)
    <3>1. ~wire["hanging"].lost
      BY <2>2, ServedFacts, GoneFacts DEF WireInv, Pending
    <3>2. /\ wire'["hanging"].ask = wire["hanging"].ask /\ ~wire'["hanging"].lost
          /\ wire'["control"] = wire["control"]
      BY <1>2, <2>2, <3>1, ServedFacts, Answers200Facts
    <3> QED BY <1>1, <2>2, <3>1, <3>2, ServedFacts DEF WireInv, Pending
  <2> QED BY <1>1, <2>1, <2>2
<1>4. MailInv'
  BY <1>1 DEF MailInv, Genuine
<1>5. KnownInv' /\ AssignedInv'
  BY <1>1, <1>3, ServedFacts DEF KnownInv, AssignedInv
<1>6. Vanished => Vanished'
  BY <1>1 DEF Vanished
<1> QED BY <1>1, <1>3, <1>4, <1>5, <1>6, RemoteFollow

LEMMA RestartsFollow ==
  ASSUME Inv, Inv', FollowInv, crashes = 0, Restarts
  PROVE  FollowInv'
<1>1. lastId = 0 /\ UNCHANGED <<client, wire, lastId, members, mine, box, missed, crashes>>
  BY DEF Restarts
<1>2. mine \subseteq mine' /\ MailInv' /\ ~Vanished /\ \A m \in mine : m \in members' => Delivers(m)
  BY <1>1, ServedFacts DEF Vanished, MailInv, Genuine, Delivers
<1>3. WireInv' /\ KnownInv' /\ AssignedInv'
  BY <1>1, <1>2, ServedFacts, WireStays, DeliversFollow
<1> QED BY <1>1, <1>2, <1>3, RemoteFollow

LEMMA FollowInit == Init => FollowInv
<1> SUFFICES ASSUME Init PROVE FollowInv
  OBVIOUS
<1>1. PICK named \in BOOLEAN, ok \in BOOLEAN : client = Connect(NewClient, named, ok)
  BY ChoiceFacts DEF Init
<1>2. NewClient \in Clients /\ NewClient.state = "NOT_CONNECTED" /\ NewClient.id = NoId
      /\ NewClient.retries = 0 /\ NewClient.peers = {}
      /\ \A s \in Sockets : NewClient.sock[s] = "closed"
  BY AskFacts, ClientAssumption DEF NewClient, Clients, States, Sockets
<1>3. /\ client.sock["hanging"] = "closed" /\ client.sock["control"] # "connected"
      /\ client.retries = 0 /\ client.id = NoId
      /\ client.state \in {"RESOLVING", "SIGNING_IN", "NOT_CONNECTED"}
      /\ client.state # "NOT_CONNECTED" => client.peers = {}
  <2>1. CASE named
    <3>1. client = [NewClient EXCEPT !.state = "RESOLVING"]
      BY <1>1, <1>2, <2>1 DEF Connect
    <3> QED BY <1>2, <3>1 DEF Clients, Sockets
  <2>2. CASE ~named
    <3>1. client = DoConnect(NewClient, ok)
      BY <1>1, <1>2, <2>2 DEF Connect
    <3> QED BY <1>2, <3>1, DoConnectFacts
  <2> QED BY <2>1, <2>2
<1>4. /\ wire["hanging"] = Idle /\ ~Idle.lost
      /\ \A m \in Ids : box[m] = <<>>
  BY DEF Init, Idle, Carries, Sockets
<1>5. WireInv /\ RetriesInv /\ FreshInv
  BY <1>3, <1>4 DEF WireInv, RetriesInv, FreshInv
<1>6. MailInv /\ AssignedInv /\ KnownInv
  BY <1>3, <1>4 DEF MailInv, Genuine, AssignedInv, KnownInv
<1> QED BY <1>5, <1>6 DEF FollowInv

LEMMA FollowNext ==
  ASSUME Inv, Inv', FollowInv, [Next]_vars
  PROVE  FollowInv'
<1> SUFFICES ASSUME crashes' = 0 PROVE FollowInv'
  BY DEF FollowInv
<1>1. CASE Crashes
  BY <1>1 DEF Crashes, Inv, TypeOK
<1>2. CASE UNCHANGED vars
  <2>1. crashes = 0 /\ UNCHANGED <<client, serverVars>> /\ UNCHANGED wire
    BY <1>2 DEF vars, serverVars
  <2>2. WireInv'
    BY <2>1, ServedFacts, WireStays
  <2> QED BY <2>1, <2>2, WiresFollow
<1>3. CASE ClientStep
  <2>1. crashes = 0
    BY <1>3 DEF ClientStep, Resolved, ReadsControl, ReadsHanging, Retries, Sends, Stops,
                Connected, Refused, Noticed, Becomes, serverVars
  <2> QED
    BY <1>3, <2>1, ResolvedFollow, ReadsControlFollow, ReadsHangingFollow, RetriesFollow,
       SendsFollow, StopsFollow, ConnectedFollow, RefusedFollow, NoticedFollow DEF ClientStep
<1>4. CASE ServerStep
  <2>1. crashes = 0
    BY <1>4 DEF ServerStep, ServesSignIn, ServesSignOut, ServesMessage, ServesWait, OtherJoins,
                OtherLeaves, OtherSends, ServesDead, serverVars
  <2> QED
    BY <1>4, <2>1, ServesSignInFollow, ServesSignOutFollow, ServesMessageFollow, ServesWaitFollow,
       OtherJoinsFollow, LeavesChannelFollow, OtherSendsFollow, ServesDeadFollow DEF ServerStep
<1>5. CASE FaultStep /\ ~Crashes
  <2>1. crashes = 0
    BY <1>5 DEF FaultStep, ShutsDown, Restarts, Evicts, Drops, serverVars
  <2> QED
    BY <1>5, <2>1, ShutsDownFollow, RestartsFollow, LeavesChannelFollow, DropsFollow DEF FaultStep
<1> QED BY <1>1, <1>2, <1>3, <1>4, <1>5 DEF Next, Over

(* As long as the server has not crashed, a client that is signed in and   *)
(* has read its mailbox knows of every member of the channel and of nobody *)
(* else, except of those a notification told of that the server gave to a  *)
(* lost connection: whatever connections, sends and sign-outs fail,        *)
(* nothing else is left out, read twice or read in the wrong order between *)
(* the response to the sign-in and the polls.                              *)
THEOREM PeersFollowCorrect == Spec => []PeersFollowMembers
<1>1. Init => FollowInv
  BY FollowInit
<1>2. Inv /\ FollowInv /\ [Next]_vars => FollowInv'
  BY NextInv, FollowNext
<1>3. FollowInv => PeersFollowMembers
  <2>1. (members \ {client.id}) \ missed = members \ (missed \cup {client.id})
    OBVIOUS
  <2> QED BY <2>1 DEF FollowInv, KnownInv, PeersFollowMembers
<1> QED BY <1>1, <1>2, <1>3, Invariance, PTL DEF Spec
=============================================================================
