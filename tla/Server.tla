------------------------------- MODULE Server -------------------------------
(***************************************************************************)
(* The signaling server: the select loop of server/main.cc over the        *)
(* connections of DataSocket and the members of PeerChannel.               *)
(*                                                                         *)
(* One round of the loop is: select; one step per ready socket, in order,  *)
(* with one step per affected member while a socket is being closed; one   *)
(* step per member that timed out; accept.  The three loops that erase the *)
(* element they stand on and then increment pass over the one after it.    *)
(***************************************************************************)
EXTENDS PeerChannel

CONSTANTS
  MaxConnections,   \* kMaxConnections
  Faults,           \* system calls that may fail: a subset of {"select", "accept"}
  Windows,          \* bound: where in a round clients and the clock may step
  OnePoll           \* a client polls again only after closing a poll that was read

ASSUME ServerAssumption ==
  /\ MaxConnections \in Nat \ {0}
  /\ Faults \subseteq {"select", "accept"}
  /\ Windows \subseteq {"select", "serve", "closing", "timeout", "accept"}
  /\ OnePoll \in BOOLEAN

VARIABLES
  pc,         \* where the loop stands
  j,          \* the iterator's position in members_
  sockets,    \* the vector of accepted connections
  ready,      \* what the round still has to serve: connections, and Listener
  listening,  \* listener.valid()
  quit,
  mailed      \* bound: POST requests already written; a member writes one

loopVars == <<pc, j, sockets, ready, listening, quit>>
vars == <<socketVars, channelVars, loopVars, mailed>>

Held == {sockets[k] : k \in DOMAIN sockets}

(* The client's system calls run in parallel with the server's round.  The *)
(* readiness of every socket is fixed by select, and a client step between *)
(* two server steps has the effect of one before or after the round, except*)
(* that a response is lost to a client that closed in between: the large   *)
(* instances let clients step only at "select", a small one everywhere.    *)
Running == pc \in Windows

TypeOK ==
  /\ SocketTypeOK
  /\ ChannelTypeOK
  /\ pc \in {"select", "serve", "closing", "timeout", "accept",
             "exit", "halted", "crashed"}
  /\ j \in Nat \ {0}
  /\ sockets \in Seq(Conns)
  /\ ready \subseteq Conns \cup {Listener}
  /\ listening \in BOOLEAN /\ quit \in BOOLEAN
  /\ mailed \subseteq Requests

Init ==
  /\ SocketInit
  /\ ChannelInit
  /\ pc = "select" /\ j = 1
  /\ sockets = <<>> /\ ready = {}
  /\ listening = TRUE /\ quit = FALSE
  /\ mailed = {}

-----------------------------------------------------------------------------
(* The remote ends and the clock, which run while the server does.         *)

(* Bound: a member writes one POST, and no more sign-ins than MaxId.       *)
PendingSignIns ==
  {c \in Conns : wrote[c] > 0 /\ req[c].path = "/sign_in" /\ read[c] < Whole}

Polling(c, m) == req[c] # NoRequest /\ req[c].path = "/wait" /\ req[c].peer = m

Allowed(r) ==
  /\ r.method = "POST" => \A x \in mailed : x.peer # r.peer
  /\ OnePoll /\ r.path = "/wait" =>
       \A c \in Conns : Polling(c, r.peer) =>
         remote[c] # "up" /\ read[c] = wrote[c]
  /\ r.path = "/sign_in" => lastId + Cardinality(PendingSignIns) < MaxId

ClientConnects(c) ==
  /\ Running /\ listening
  /\ Connect(c)
  /\ UNCHANGED <<channelVars, loopVars, mailed>>

ClientWrites(c) ==
  /\ Running
  /\ \/ \E r \in Requests, n \in Levels :
          /\ Allowed(r)
          /\ Write(c, r, n)
          /\ mailed' = IF r.method = "POST" THEN mailed \cup {r} ELSE mailed
     \/ \E n \in Levels : WriteMore(c, n) /\ UNCHANGED mailed
  /\ UNCHANGED <<channelVars, loopVars>>

ClientHangsUp(c) ==
  /\ Running
  /\ Hangup(c)
  /\ UNCHANGED <<channelVars, loopVars, mailed>>

(* time(nullptr) advances for every member; idle stops one tick beyond the *)
(* timeout.                                                                *)
Tick ==
  /\ Running
  /\ \E m \in Members : member[m].idle <= Timeout
  /\ member' = [m \in Ids |->
       IF m \in Members /\ member[m].idle <= Timeout
       THEN [member[m] EXCEPT !.idle = @ + 1] ELSE member[m]]
  /\ UNCHANGED <<socketVars, members, lastId, loopVars, mailed>>

-----------------------------------------------------------------------------
(* select (main.cc:100-113)                                                *)

(* Mutant: the last socket is left out of the set select watches.          *)
SelectButLast ==
  /\ pc = "select"
  /\ pc' = "serve"
  /\ ready' = {sockets[k] : k \in {n \in 1 .. Len(sockets) - 1 : Readable(sockets[n])}}
                \cup (IF listening /\ backlog # {} THEN {Listener} ELSE {})
  /\ UNCHANGED <<socketVars, channelVars, j, sockets, listening, quit, mailed>>

Select ==
  /\ pc = "select"
  /\ pc' = "serve"
  /\ ready' = {c \in Held : Readable(c)}
                \cup (IF listening /\ backlog # {} THEN {Listener} ELSE {})
  /\ UNCHANGED <<socketVars, channelVars, j, sockets, listening, quit, mailed>>

SelectFails ==
  /\ pc = "select" /\ "select" \in Faults
  /\ pc' = "exit"
  /\ UNCHANGED <<socketVars, channelVars, j, sockets, ready, listening,
                 quit, mailed>>

-----------------------------------------------------------------------------
(* The loop over sockets (main.cc:115-170)                                 *)

(* The iterator stands on c, at position k: sockets that FD_ISSET denies   *)
(* are left alone and passed.                                              *)
At(c, k) ==
  /\ k \in DOMAIN sockets /\ c = sockets[k] /\ c \in ready
  /\ \A h \in 1 .. k - 1 : sockets[h] \notin ready

Serving(c) == pc = "serve" /\ \E k \in DOMAIN sockets : At(c, k)

(* The rest of a handler's step: everything is read, on to the next socket.*)
Served(c) ==
  /\ Recv(c)
  /\ ready' = ready \ {c}
  /\ UNCHANGED <<remote, backlog, req, wrote, pc, j, sockets, mailed>>

(* recv fails or returns 0: socket_done.                                   *)
BeginClosing(c) ==
  /\ Serving(c) /\ AtEof(c)
  /\ pc' = "closing" /\ j' = 1
  /\ UNCHANGED <<socketVars, channelVars, sockets, ready, listening,
                 quit, mailed>>

(* Bytes that complete no request: the socket is kept.                     *)
ReadOn(c) ==
  /\ Serving(c) /\ ~AtEof(c) /\ ~RequestComplete(c)
  /\ Served(c)
  /\ UNCHANGED <<channelVars, out, listening, quit>>

Requested(c) == Serving(c) /\ ~AtEof(c) /\ RequestComplete(c)

(* A poll by a member: SetWaitingSocket, inside Lookup.                    *)
HandleWait(c) ==
  LET m == Lookup(req[c]) IN
  /\ Requested(c) /\ m # 0 /\ req[c].path = "/wait"
  /\ member' = LookedUp(m, c)
  /\ out' = IF member[m].queue # <<>>
            THEN Send(out, c, Head(member[m].queue)) ELSE out
  /\ Served(c)
  /\ UNCHANGED <<members, lastId, listening, quit>>

HandleSignIn(c) ==
  /\ Requested(c)
  /\ Lookup(req[c]) = 0 /\ IsPeerConnection(req[c]) /\ req[c].path = "/sign_in"
  /\ AddMember(c)
  /\ Served(c)
  /\ UNCHANGED <<listening, quit>>

(* "No member found for": a POST that names no member.                     *)
HandleOrphan(c) ==
  /\ Requested(c)
  /\ Lookup(req[c]) = 0 /\ IsPeerConnection(req[c]) /\ req[c].path # "/sign_in"
  /\ out' = Send(out, c, Reply("500 Error", "Peer most likely gone."))
  /\ Served(c)
  /\ UNCHANGED <<channelVars, listening, quit>>

(* ForwardRequestToPeer: to oneself it is the answer; to another member it *)
(* is queued there and acknowledged here.                                  *)
HandleForward(c) ==
  LET m == Lookup(req[c])
      peer == IsTargetedRequest(req[c])
      mail == Mail(m, req[c].body)
      item == [p \in {peer} |-> mail]
  IN /\ Requested(c) /\ m # 0 /\ req[c].path # "/wait" /\ peer # 0
     /\ IF peer = m
        THEN /\ member' = LookedUp(m, c)
             /\ out' = Send(out, c, mail)
        ELSE /\ member' = Posted(LookedUp(m, c), item)
             /\ out' = Send(SentTo(item), c, Reply("200 OK", ""))
     /\ Served(c)
     /\ UNCHANGED <<members, lastId, listening, quit>>

(* A request by a member with no (living) target.                          *)
HandleUntargeted(c) ==
  LET m == Lookup(req[c]) IN
  /\ Requested(c) /\ m # 0 /\ req[c].path # "/wait"
  /\ IsTargetedRequest(req[c]) = 0
  /\ member' = LookedUp(m, c)
  /\ out' = Send(out, c, IF req[c].path = "/sign_out" THEN Reply("200 OK", "")
                         ELSE Reply("500 Error", "Peer most likely gone."))
  /\ Served(c)
  /\ UNCHANGED <<members, lastId, listening, quit>>

(* HandleBrowserRequest when the path is not "/quit": *quit is assigned.   *)
HandleBrowserRequest(c) ==
  /\ Requested(c)
  /\ Lookup(req[c]) = 0 /\ ~IsPeerConnection(req[c]) /\ req[c].path # "/quit"
  /\ quit' = FALSE
  /\ out' = Send(out, c, IF req[c].method = "OPTIONS" THEN Reply("200 OK", "")
                         ELSE Reply("500 Sorry", "Sorry, not yet implemented"))
  /\ Served(c)
  /\ UNCHANGED <<channelVars, listening>>

(* Mutant: DeleteAll comes before the last response.                       *)
ShuttingNobodyDown == [m \in {} |-> Reply("200 OK", "Server shutting down")]

(* CloseAll: a last response for every member, then DeleteAll.             *)
ShuttingDown == [m \in Members |-> Reply("200 OK", "Server shutting down")]

CloseAll ==
  /\ members' = <<>>
  /\ member' = [m \in Ids |-> NoMember]
  /\ UNCHANGED lastId

(* "/quit": answered, the listener is closed (what is in its backlog is    *)
(* reset) and the members are dismissed.                                   *)
HandleQuit(c) ==
  LET sent == Send(SentTo(ShuttingDown), c, Reply("200 OK", "Quitting..."))
  IN /\ Requested(c)
     /\ Lookup(req[c]) = 0 /\ ~IsPeerConnection(req[c]) /\ req[c].path = "/quit"
     /\ quit' = TRUE /\ listening' = FALSE
     /\ CloseAll
     /\ CloseSockets(backlog, [read EXCEPT ![c] = wrote[c]], sent)
     /\ ready' = ready \ {c, Listener}
     /\ UNCHANGED <<pc, j, sockets, mailed>>

EndServing ==
  /\ pc = "serve" /\ Held \cap ready = {}
  /\ pc' = "timeout" /\ j' = 1
  /\ UNCHANGED <<socketVars, channelVars, sockets, ready, listening,
                 quit, mailed>>

-----------------------------------------------------------------------------
(* PeerChannel::OnClosing and the end of a socket (main.cc:160-169)        *)

(* Mutant: only the member that waits on the closing socket is looked at.  *)
AffectedByWait(c, k) == member[members[k]].waiting = c

(* OnClosing for the member at position k, the next one it changes: one    *)
(* that waits on c, or one that had signed out and now leaves.             *)
Affected(c, k) ==
  member[members[k]].waiting = c \/ ~member[members[k]].connected

CloseFor(c, k) ==
  /\ pc = "closing" /\ \E n \in DOMAIN sockets : At(c, n)
  /\ j <= k /\ Affected(c, k) /\ \A h \in j .. k - 1 : ~Affected(c, h)
  /\ IF member[members[k]].connected
     THEN /\ member' = [member EXCEPT ![members[k]] = OnClosing(@, c)]
          /\ UNCHANGED <<members, lastId, out>>
     ELSE EraseMember(k)
  /\ j' = k + 1
  /\ UNCHANGED <<remote, backlog, req, wrote, read, pc, sockets, ready,
                 listening, quit, mailed>>

(* The socket is deleted and erased; the loop's increment then passes over *)
(* the one that took its position.                                         *)
DeleteSocket(c, n) ==
  /\ pc = "closing" /\ At(c, n)
  /\ \A k \in j .. Len(members) : ~Affected(c, k)
  /\ sockets' = RemoveAt(sockets, n)
  /\ ready' = ready \ {sockets[k] : k \in DOMAIN sockets \cap {n, n + 1}}
  /\ CloseSockets({c}, read, out)
  /\ pc' = "serve" /\ j' = 1
  /\ UNCHANGED <<channelVars, listening, quit, mailed>>

-----------------------------------------------------------------------------
(* CheckForTimeout and accept (main.cc:172-183)                            *)

(* The next member that timed out leaves.                                  *)
CheckForTimeout(k) ==
  /\ pc = "timeout" /\ j <= k
  /\ TimedOut(member[members[k]])
  /\ \A h \in j .. k - 1 : ~TimedOut(member[members[h]])
  /\ EraseMember(k)
  /\ j' = k + 1
  /\ UNCHANGED <<remote, backlog, req, wrote, read, pc, sockets, ready,
                 listening, quit, mailed>>

EndTimeouts ==
  /\ pc = "timeout"
  /\ \A k \in j .. Len(members) : ~TimedOut(member[members[k]])
  /\ pc' = "accept" /\ j' = 1
  /\ UNCHANGED <<socketVars, channelVars, sockets, ready, listening,
                 quit, mailed>>

(* Mutant: the loop condition does not look at quit.                       *)
AlwaysNextRound == "select"

NextRound == IF quit THEN "exit" ELSE "select"

(* The listener is ready.  Once it has been closed, FD_ISSET is evaluated  *)
(* for descriptor -1, which is undefined: the test may come out either way.*)
Accept(c) ==
  /\ pc = "accept" /\ listening /\ Listener \in ready /\ c \in backlog
  /\ IF Len(sockets) >= MaxConnections
     THEN CloseSockets({c}, read, out) /\ UNCHANGED sockets
     ELSE /\ sockets' = Append(sockets, c)
          /\ backlog' = backlog \ {c}
          /\ UNCHANGED <<remote, req, wrote, read, out>>
  /\ pc' = NextRound /\ ready' = {}
  /\ UNCHANGED <<channelVars, j, listening, quit, mailed>>

AcceptNothing ==
  /\ pc = "accept" /\ (listening => Listener \notin ready)
  /\ pc' = NextRound /\ ready' = {}
  /\ UNCHANGED <<socketVars, channelVars, j, sockets, listening, quit, mailed>>

(* Accept() returns nullptr, which is pushed: the next round dereferences  *)
(* it, unless the loop ends here or the limit makes "delete s" drop it.    *)
AcceptsNull ==
  /\ pc = "accept"
  /\ \/ listening /\ Listener \in ready /\ "accept" \in Faults
     \/ ~listening
  /\ pc' = IF quit \/ Len(sockets) >= MaxConnections THEN NextRound ELSE "crashed"
  /\ ready' = {}
  /\ UNCHANGED <<socketVars, channelVars, j, sockets, listening, quit, mailed>>

(* After the loop: every socket is deleted, and the destructors of the     *)
(* listener and of the channel run.                                        *)
Leave ==
  /\ pc = "exit" /\ pc' = "halted"
  /\ sockets' = <<>> /\ ready' = {} /\ listening' = FALSE
  /\ CloseAll
  /\ CloseSockets(Conns, read, out)
  /\ UNCHANGED <<j, quit, mailed>>

Stopped == pc \in {"halted", "crashed"} /\ UNCHANGED vars

-----------------------------------------------------------------------------
Handle(c) ==
  \/ HandleWait(c) \/ HandleSignIn(c) \/ HandleOrphan(c) \/ HandleForward(c)
  \/ HandleUntargeted(c) \/ HandleBrowserRequest(c) \/ HandleQuit(c)

Serve(c) == BeginClosing(c) \/ ReadOn(c) \/ Handle(c)

Close(c) ==
  \/ \E k \in DOMAIN members : CloseFor(c, k)
  \/ \E n \in DOMAIN sockets : DeleteSocket(c, n)

ServerStep ==
  \/ Select \/ SelectFails
  \/ \E c \in Conns : Serve(c) \/ Close(c) \/ Accept(c)
  \/ \E k \in DOMAIN members : CheckForTimeout(k)
  \/ EndServing \/ EndTimeouts
  \/ AcceptNothing \/ AcceptsNull \/ Leave

Environment ==
  \/ \E c \in Conns : ClientConnects(c) \/ ClientWrites(c) \/ ClientHangsUp(c)
  \/ Tick

Next == ServerStep \/ Environment \/ Stopped

Spec == Init /\ [][Next]_vars

(* The loop never stops taking steps (select returns within 10 seconds),   *)
(* time passes, and a client that has its answer closes the connection, as *)
(* "Connection: close" asks and PeerConnectionClient::ReadIntoBuffer does. *)
FairSpec ==
  /\ Spec
  /\ WF_vars(ServerStep)
  /\ WF_vars(Tick)
  /\ \A c \in Conns : WF_vars(out[c] # <<>> /\ ClientHangsUp(c))

-----------------------------------------------------------------------------
(* Safety                                                                  *)

(* A parked poll and a non-empty queue never coexist: the DCHECKs of       *)
(* QueueResponse (peer_channel.cc:134) and SetWaitingSocket (:156), which  *)
(* a release build does not evaluate.                                      *)
WaitingMeansDrained ==
  \A m \in Members : member[m].waiting # NoConn => member[m].queue = <<>>

(* waiting_socket_ is a bare pointer: it always designates a connection    *)
(* the loop still holds, carrying this member's own poll, unanswered.      *)
NoDanglingWait ==
  \A m \in Members, c \in Conns : member[m].waiting = c =>
    /\ c \in Held
    /\ Polling(c, m) /\ read[c] >= Whole
    /\ out[c] = <<>>

(* A client that keeps one poll at a time (OnePoll) is never forgotten:    *)
(* while its member exists, its unanswered poll is the parked one, even    *)
(* when the close of an older poll is noticed after the new one is parked. *)
PollNotForgotten ==
  \A m \in Members, c \in Held :
    /\ Polling(c, m) /\ read[c] >= Whole
    /\ remote[c] = "up" /\ out[c] = <<>>
    => member[m].waiting = c

(* How often the server may have acted on what it has read on c: once; on  *)
(* a POST once when it was complete, if it announced its body, and once    *)
(* more for every segment read after it (data_socket.cc:105-111).          *)
Occasions(c) ==
  IF req[c].method # "POST" THEN 1
  ELSE read[c] - (IF ParseContentLengthAndType(c) THEN Part ELSE Whole)

(* "Connection: close" is sent with every response: no connection carries  *)
(* a second one, whatever its client writes and whoever else has something *)
(* to say to a parked poll, except a POST, which is never answered more    *)
(* often than it was acted on.                                             *)
AnsweredOnce ==
  \A c \in Conns : out[c] # <<>> => Len(out[c]) <= Occasions(c)

(* Nothing addressed to a member is lost by the server, repeated or        *)
(* overtaken: what it was sent, then what is queued, is what was posted.   *)
FifoMailbox ==
  \A m \in Members : member[m].posted = member[m].handed \o member[m].queue

(* What the responses addressed to m say of the channel, as the client     *)
(* reads them: every entry of the list it got at sign-in is a peer (the    *)
(* "connected" field is not looked at there), then the last notice counts. *)
Says(x, k, up) == \E e \in Range(x.entries) : e.id = k /\ e.up = up

Told(m) ==
  LET posted == member[m].posted
  IN {k \in Ids : \E p \in DOMAIN posted :
        /\ Says(posted[p], k, TRUE) \/ (p = 1 /\ Says(posted[p], k, FALSE))
        /\ \A q \in DOMAIN posted : q > p => ~Says(posted[q], k, FALSE)}

(* Whoever reads its whole mailbox knows exactly the other members, also   *)
(* when two members leave in one pass or one leaves as another arrives.    *)
PresenceConsistent ==
  \A m \in Members : Told(m) \ {m} = Members \ {m}

(* A signed-out member stays until some socket closes, and one pass of     *)
(* OnClosing may pass over the second of two: each is still covered by a   *)
(* sign-out connection of its own whose close is yet to come.              *)
SignOutConns ==
  {c \in Held : read[c] >= Whole /\ req[c].path = "/sign_out"}

LeaversCovered ==
  Cardinality({m \in Members : ~member[m].connected}) <= Cardinality(SignOutConns)

-----------------------------------------------------------------------------
(* Liveness                                                                *)

(* A member that signs out leaves the channel, whatever the erasing loop   *)
(* passes over.                                                            *)
SignedOutLeaves ==
  \A m \in Ids : (m \in Members /\ ~member[m].connected) ~> (m \notin Members)

(* A member that stops polling is evicted (CheckForTimeout), although the  *)
(* loop may pass over it in any one round.                                 *)
SilentLeaves ==
  \A m \in Ids :
    (m \in Members /\ member[m].waiting = NoConn)
      ~> (m \notin Members \/ member[m].waiting # NoConn)

(* A complete request on an accepted connection is read, although a socket *)
(* erased before it makes the round pass over it.                          *)
RequestRead ==
  \A c \in Conns :
    (c \in Held /\ wrote[c] >= Whole /\ read[c] < Whole /\ Running)
      ~> (read[c] >= Whole \/ c \notin Held)

(* After "/quit" the server halts, unless a browser takes the quit back.   *)
QuitStops == quit ~> (pc = "halted" \/ ~quit)

(* Whoever polls when the server quits has its poll answered.              *)
PollsReleasedAtQuit ==
  [][quit' /\ listening /\ ~listening' =>
       \A m \in Members, c \in Held :
         member[m].waiting = c /\ remote[c] = "up" => out'[c] # <<>>]_vars

-----------------------------------------------------------------------------
(* What the code says of itself and does not do                            *)

(* BuildResponseForNewMember lists connected members only: the DCHECK of   *)
(* peer_channel.cc:356.                                                    *)
ListsOnlyConnected ==
  [][lastId' > lastId => \A m \in Members : member[m].connected]_vars

(* Having answered "Quitting..." (main.cc:54-55) and closed the listener,  *)
(* the server does not begin another round.                                *)
QuitEndsTheLoop == pc = "select" => listening
=============================================================================
