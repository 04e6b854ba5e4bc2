--------------------------- MODULE ClientSession ----------------------------
(***************************************************************************)
(* One PeerConnectionClient, driven by an application, against a signaling *)
(* server that does what Channel promises: it admits members, tells those  *)
(* in the room of arrivals and departures, forwards messages, and hands a  *)
(* mailbox out in order to whoever polls with its number.  The server and  *)
(* the network may fail as Faults says.                                    *)
(***************************************************************************)
EXTENDS PeerConnectionClient, Sequences

CONSTANTS
  Faults,       \* what may go wrong: a subset of the names below
  MaxCrashes,   \* bound: crashes of the server
  MaxBox        \* bound: messages wait in a mailbox shorter than this

ASSUME SessionAssumption ==
  /\ Faults \subseteq {"giveup",     \* the application fails and signs out
                       "connect",    \* connect(2) fails at once
                       "resolve",    \* the server's name does not resolve
                       "drop",       \* the connection of a poll is lost
                       "cut",        \* that of another request is
                       "evict",      \* the server takes the client for silent
                       "shutdown",   \* a browser stops the server
                       "crash"}      \* the server dies, and may be restarted
  /\ MaxCrashes \in Nat /\ MaxBox \in Nat

VARIABLES
  client,    \* the PeerConnectionClient
  wire,      \* wire[s]: what the connection of socket s carries
  up,        \* the server listens
  lastId,    \* s_member_id_
  members,   \* who is in the channel
  mine,      \* the ids this server has assigned to this client
  box,       \* box[m]: what waits for member m
  dead,      \* members whose poll was lost before it was answered
  missed,    \* history: the members a lost notification spoke of
  crashes    \* bound

serverVars == <<up, lastId, members, mine, box, dead, missed, crashes>>
vars == <<client, wire, serverVars>>

(* lost: the other end is gone, and the client has not noticed.            *)
Carries(ask, answer) == [ask |-> ask, answer |-> answer, lost |-> FALSE]
Idle == Carries(NoAsk, NoAnswer)
Gone == [Idle EXCEPT !.lost = TRUE]

TypeOK ==
  /\ client \in Clients
  /\ wire \in [Sockets -> [ask : Asks, answer : Answers, lost : BOOLEAN]]
  /\ up \in BOOLEAN /\ lastId \in 0 .. MaxId
  /\ members \subseteq 1 .. lastId /\ mine \subseteq 1 .. lastId
  /\ box \in [Ids -> Seq(Answers)]
  /\ dead \subseteq Ids \cup {NoId} /\ missed \subseteq Ids
  /\ crashes \in 0 .. MaxCrashes

Outcomes == IF "connect" \in Faults THEN BOOLEAN ELSE {TRUE}
GivesUp == IF "giveup" \in Faults THEN BOOLEAN ELSE {FALSE}
Resolves == IF "resolve" \in Faults THEN BOOLEAN ELSE {TRUE}

(* main() connects before it runs the loop; no server is known yet.        *)
Init ==
  /\ \E named \in BOOLEAN, ok \in Outcomes : client = Connect(NewClient, named, ok)
  /\ wire = [s \in Sockets |-> Idle]
  /\ up = TRUE /\ lastId = 0 /\ members = {} /\ mine = {} /\ crashes = 0
  /\ dead = {} /\ missed = {}
  /\ box = [m \in Ids |-> <<>>]

-----------------------------------------------------------------------------
(* The client's thread runs one callback at a time.                        *)

(* A connection that the callback closes is gone, with what it carried.    *)
Becomes(c) ==
  /\ client' = c
  /\ wire' = [s \in Sockets |-> IF c.sock[s] = "connected" THEN wire[s] ELSE Idle]
  /\ UNCHANGED serverVars

Resolved ==
  /\ client.running /\ client.state = "RESOLVING"
  /\ \E resolved \in Resolves, ok \in Outcomes :
       Becomes(OnResolveResult(client, resolved, ok))

Connected(s) ==
  /\ client.running /\ client.sock[s] = "connecting" /\ up
  /\ client' = OnConnect(client, s)
  /\ wire' = [wire EXCEPT ![s] = Carries(Sent(client, s), NoAnswer)]
  /\ UNCHANGED serverVars

(* Bound: MaxRetries delayed reconnections.                                *)
Refused(s) ==
  /\ client.running /\ client.sock[s] = "connecting" /\ ~up
  /\ s = "control" => client.retries < MaxRetries
  /\ \E ok \in Outcomes : Becomes(OnClose(client, s, TRUE, ok))

Noticed(s) ==
  /\ client.running /\ client.sock[s] = "connected" /\ wire[s].lost
  /\ \E ok \in Outcomes : Becomes(OnClose(client, s, FALSE, ok))

Answered(s) == client.sock[s] = "connected" /\ wire[s].answer # NoAnswer

ReadsControl ==
  /\ client.running /\ Answered("control")
  /\ \E giveUp \in GivesUp, ok \in Outcomes :
       Becomes(OnRead(client, wire["control"].answer, giveUp, ok))

ReadsHanging ==
  /\ client.running /\ Answered("hanging")
  /\ \E giveUp \in GivesUp, ok \in Outcomes :
       Becomes(OnHangingGetRead(client, wire["hanging"].answer, giveUp, ok))

(* The task of OnClose, two seconds later.                                 *)
Retries ==
  /\ client.running /\ client.retries > 0
  /\ \E ok \in Outcomes :
       Becomes(DoConnect([client EXCEPT !.retries = @ - 1], ok))

(* SendMessage of the applications, to a peer they know of, once           *)
(* IsSendingMessage denies.                                                *)
Sends ==
  /\ client.running /\ client.state = "CONNECTED" /\ ~IsSendingMessage(client)
  /\ \E to \in client.peers, ok \in Outcomes : Becomes(SendToPeer(client, to, ok))

(* The applications stop by themselves when their peer or the media        *)
(* connection goes, and on SIGINT and SIGTERM.                             *)
Stops ==
  /\ client.running
  /\ Becomes(Quit(client))

Over == ~client.running /\ UNCHANGED vars

-----------------------------------------------------------------------------
(* The server.                                                             *)

(* Mailboxes that this client does not read are not kept.                  *)
Kept == members \cap (mine \cup {client.id})

(* Put a notification about each of them into the mailboxes of who.        *)
Told(who, joined, left) ==
  [m \in Ids |-> IF m \in who \cap Kept
                 THEN Append(box[m], Answer("200", m, joined, left)) ELSE box[m]]

Admit(new, isMine) ==
  /\ new = lastId + 1 /\ new \in Ids
  /\ lastId' = new /\ members' = members \cup {new}
  /\ mine' = IF isMine THEN mine \cup {new} ELSE mine
  /\ box' = [Told(members, {new}, {}) EXCEPT ![new] = <<>>]

Dismiss(m) ==
  /\ members' = members \ {m}
  /\ box' = [Told(members \ {m}, {}, {m}) EXCEPT ![m] = <<>>]

(* A request that has reached the server and waits for its answer: the     *)
(* server serves it whether or not its connection still exists.            *)
Pending(s, path) ==
  /\ client.running /\ client.sock[s] = "connected"
  /\ wire[s].answer = NoAnswer /\ wire[s].ask.path = path

(* Whether a response arrives is not looked at: on a lost connection it is *)
(* gone.                                                                   *)
Responds(s, a) ==
  wire' = [wire EXCEPT ![s] = IF @.lost THEN Gone ELSE [@ EXCEPT !.answer = a]]

Answers200(s, a) == Responds(s, a)
Rejects(s) == Responds(s, Answer("500", NoId, {}, {}))

(* A response that does not arrive, and the members it told of.            *)
Misses(a) == missed' = missed \cup a.joined \cup a.left

ServesSignIn ==
  /\ Pending("control", "/sign_in")
  /\ Admit(lastId + 1, TRUE)
  /\ Answers200("control", Answer("200", lastId', members', {}))
  /\ UNCHANGED <<client, up, dead, missed, crashes>>

(* The departure of a member is announced when its connection closes.      *)
ServesSignOut ==
  /\ Pending("control", "/sign_out")
  /\ LET id == wire["control"].ask.id
     IN IF id \in members
        THEN Dismiss(id) /\ Answers200("control", Answer("200", NoId, {}, {}))
        ELSE Rejects("control") /\ UNCHANGED <<members, box>>
  /\ UNCHANGED <<client, up, lastId, mine, dead, missed, crashes>>

ServesMessage ==
  /\ Pending("control", "/message")
  /\ IF {wire["control"].ask.id, wire["control"].ask.to} \subseteq members
     THEN Answers200("control", Answer("200", NoId, {}, {}))
     ELSE Rejects("control")
  /\ UNCHANGED <<client, serverVars>>

(* A poll is answered from the mailbox, and parked while that is empty.    *)
ServesWait ==
  /\ Pending("hanging", "/wait")
  /\ LET id == wire["hanging"].ask.id
     IN IF id \notin members THEN Rejects("hanging") /\ UNCHANGED box
        ELSE /\ box[id] # <<>>
             /\ Answers200("hanging", Head(box[id]))
             /\ box' = [box EXCEPT ![id] = Tail(@)]
  /\ UNCHANGED <<client, up, lastId, members, mine, dead, missed, crashes>>

(* The server may come to answer a poll that is lost at any later time: it *)
(* is parked, or still unread.  What it was to tell is gone.               *)
ServesDead(m) ==
  /\ client.running /\ m \in dead \cap members /\ box[m] # <<>>
  /\ Misses(Head(box[m]))
  /\ box' = [box EXCEPT ![m] = Tail(@)]
  /\ UNCHANGED <<client, wire, up, lastId, members, mine, dead, crashes>>

(* Bound: a number is left for the client.                                 *)
OtherJoins ==
  /\ client.running /\ up
  /\ mine = {} => lastId + 1 < MaxId
  /\ Admit(lastId + 1, FALSE)
  /\ UNCHANGED <<client, wire, up, dead, missed, crashes>>

OtherLeaves(m) ==
  /\ client.running /\ m \in members \ mine
  /\ Dismiss(m)
  /\ UNCHANGED <<client, wire, up, lastId, mine, dead, missed, crashes>>

(* Another member sends a message.                                         *)
OtherSends(from, to) ==
  /\ client.running /\ from \in members \ mine /\ to \in Kept \ {from}
  /\ Len(box[to]) < MaxBox
  /\ box' = [box EXCEPT ![to] = Append(@, Answer("200", from, {}, {}))]
  /\ UNCHANGED <<client, wire, up, lastId, members, mine, dead, missed, crashes>>

-----------------------------------------------------------------------------
(* Faults.                                                                 *)

Evicts(m) ==
  /\ client.running /\ "evict" \in Faults /\ m \in members \cap mine
  /\ Dismiss(m)
  /\ UNCHANGED <<client, wire, up, lastId, mine, dead, missed, crashes>>

(* A connection is lost, with a response that is on its way.  A poll leaves *)
(* the server its other end; another request may still be served until the *)
(* client notices.                                                         *)
Drops(s) ==
  /\ client.running /\ (IF s = "hanging" THEN "drop" ELSE "cut") \in Faults
  /\ client.sock[s] = "connected" /\ ~wire[s].lost
  /\ wire' = [wire EXCEPT ![s] =
       IF s = "hanging" \/ @.answer # NoAnswer THEN Gone ELSE [@ EXCEPT !.lost = TRUE]]
  /\ IF s = "hanging" THEN Misses(wire[s].answer) ELSE UNCHANGED missed
  /\ dead' = IF s = "hanging" /\ wire[s].answer = NoAnswer
             THEN dead \cup {wire[s].ask.id} ELSE dead
  /\ UNCHANGED <<client, up, lastId, members, mine, box, crashes>>

(* The farewell goes to the poll that is parked at that moment.            *)
ShutsDown ==
  /\ client.running /\ "shutdown" \in Faults /\ up
  /\ up' = FALSE /\ members' = {} /\ box' = [m \in Ids |-> <<>>] /\ dead' = {}
  /\ IF Pending("hanging", "/wait") /\ wire["hanging"].ask.id \in members
     THEN Answers200("hanging", Answer("200", NoId, {}, {}))
     ELSE UNCHANGED wire
  /\ UNCHANGED <<client, lastId, mine, missed, crashes>>

(* Answers already sent still arrive.  Polls and notifications are lost.   *)
Crashes ==
  /\ client.running /\ "crash" \in Faults /\ up /\ crashes < MaxCrashes
  /\ up' = FALSE /\ crashes' = crashes + 1
  /\ members' = {} /\ mine' = {} /\ lastId' = 0 /\ box' = [m \in Ids |-> <<>>]
  /\ wire' = [s \in Sockets |->
       IF client.sock[s] = "connected" /\ wire[s].answer = NoAnswer
       THEN Gone ELSE wire[s]]
  /\ dead' = {} /\ missed' = Ids
  /\ UNCHANGED client

Restarts ==
  /\ client.running /\ "crash" \in Faults /\ ~up
  /\ lastId = 0 /\ members = {}
  /\ up' = TRUE
  /\ UNCHANGED <<client, wire, lastId, members, mine, box, dead, missed, crashes>>

ClientStep ==
  \/ Resolved \/ ReadsControl \/ ReadsHanging \/ Retries \/ Sends \/ Stops
  \/ \E s \in Sockets : Connected(s) \/ Refused(s) \/ Noticed(s)

ServerStep ==
  \/ ServesSignIn \/ ServesSignOut \/ ServesMessage \/ ServesWait \/ OtherJoins
  \/ \E m \in Ids : OtherLeaves(m) \/ ServesDead(m)
  \/ \E from, to \in Ids : OtherSends(from, to)

FaultStep ==
  \/ ShutsDown \/ Crashes \/ Restarts
  \/ \E m \in Ids : Evicts(m)
  \/ \E s \in Sockets : Drops(s)

Next == ClientStep \/ ServerStep \/ FaultStep \/ Over

Spec == Init /\ [][Next]_vars

(* The thread's loop handles every event and its delayed reconnections, the*)
(* network connects, and the server serves what it has read.  A poll may be*)
(* lost before it is served, and its answer after that, but not every one: *)
(* hence strong fairness of ServesWait and ReadsHanging.  Nothing else is  *)
(* fair: the application need not send, others need not come or go, the    *)
(* server need not come back.                                              *)
FairSpec ==
  /\ Spec
  /\ WF_vars(Resolved) /\ WF_vars(Retries) /\ WF_vars(ReadsControl) /\ SF_vars(ReadsHanging)
  /\ \A s \in Sockets :
       WF_vars(Connected(s)) /\ WF_vars(Refused(s)) /\ WF_vars(Noticed(s))
  /\ WF_vars(ServesSignIn) /\ WF_vars(ServesSignOut)
  /\ WF_vars(ServesMessage) /\ SF_vars(ServesWait)

-----------------------------------------------------------------------------
(* Properties.                                                             *)

(* Only a client that is CONNECTED has a hanging GET under way             *)
(* (OnRead asserts that there is none when it starts the first one,        *)
(* peer_connection_client.cc:379): no callback leaves a poll behind that   *)
(* would bring notifications to a client that is signing out or closed.    *)
PollsWhileConnected ==
  client.sock["hanging"] # "closed" => client.state = "CONNECTED"

(* The response that gives the client its id arrives while it signs in     *)
(* (peer_connection_client.cc:343), whatever closed, failed or was retried *)
(* before.                                                                 *)
FirstResponseSigningIn ==
  client.id = NoId /\ client.sock["control"] = "connected"
    => client.state = "SIGNING_IN"

(* A client whose thread runs is never closed behind the application's     *)
(* back: every path to NOT_CONNECTED calls OnDisconnected or               *)
(* OnServerConnectionFailure.                                              *)
ClosedMeansTold == client.running => client.state # "NOT_CONNECTED"

(* What is on its way to the client: the answer of its poll, its mailbox.  *)
Coming ==
  LET a == wire["hanging"].answer
  IN (IF a = NoAnswer THEN <<>> ELSE <<a>>) \o box[client.id]

(* Whom a client with id m that knows of some will know of after the news, *)
(* the last of which counts.                                               *)
After(known, m, news) ==
  LET comes(k) == {i \in DOMAIN news : news[i].pragma = m /\ k \in news[i].joined}
      leaves(k) == {i \in DOMAIN news : news[i].pragma = m /\ k \in news[i].left}
  IN {k \in Ids : \/ k \in known /\ leaves(k) = {}
                  \/ \E i \in comes(k) : \A j \in leaves(k) : j < i}

(* peers_ is the membership of the channel, but for what is on its way and *)
(* for the members a lost notification spoke of: between the sign-in and   *)
(* the polls that follow nothing is left out, read twice or read in the    *)
(* wrong order, and a notification that the server gives to a poll whose   *)
(* connection is lost (peer_channel.cc:136-142) misleads the client about  *)
(* nobody else.                                                            *)
PeersFollowMembers ==
  client.state = "CONNECTED" /\ client.id \in mine \cap members /\ crashes = 0
    => After(client.peers, client.id, Coming) \ missed = members \ (missed \cup {client.id})

(* The id that a sign-in's response assigns is the client's from then on   *)
(* (the comment at peer_connection_client.cc:342).                         *)
SigningIn == client.state = "SIGNING_IN" /\ client'.state = "CONNECTED"
StoresAssignedId == [][SigningIn => client'.id = wire["control"].answer.pragma]_vars

(* A client that starts to sign in gets an answer and is CONNECTED, or is  *)
(* stopped; of a server that has gone it asks for ever.                    *)
SignInConcludes ==
  client.state \in {"RESOLVING", "SIGNING_IN"}
    ~> (client.state = "CONNECTED" \/ ~client.running \/ ~up \/ crashes > 0)

(* A sign-out is carried out even when it has to wait for a message that   *)
(* is under way, and ends in OnDisconnected unless the server goes.        *)
SignOutConcludes ==
  client.state \in {"SIGNING_OUT", "SIGNING_OUT_WAITING"}
    ~> (~client.running \/ ~up \/ crashes > 0)

(* The client ends up knowing exactly the members of the channel, but for  *)
(* those a lost notification spoke of; one that the server left behind     *)
(* finds that out.                                                         *)
PeersConverge ==
  <>[](client.running /\ client.state = "CONNECTED" /\ crashes = 0
         => client.peers \ missed = members \ (missed \cup {client.id}))
=============================================================================
