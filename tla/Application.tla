---------------------------- MODULE Application -----------------------------
(***************************************************************************)
(* The thread of a sender or receiver (webrtc_sender/main.cc,              *)
(* webrtc_receiver/main.cc): the observer callbacks, SendMessage, which    *)
(* runs the message loop again while the client is sending, and the loop   *)
(* itself with HeadlessSocketServer::Wait.                                 *)
(*                                                                         *)
(* Both programs have the same shape.  A call begins when the sender is    *)
(* told of a peer, or the receiver gets an offer; WebRTC then posts the    *)
(* session description, and, once that is set, candidate after candidate.  *)
(***************************************************************************)
EXTENDS Naturals, SequencesExt

CONSTANTS
  Candidates,   \* bound: ICE candidates of a call
  IceUp,        \* the task that reports the ICE connection as connected,
  IceGone       \* and as disconnected

ASSUME ApplicationAssumption ==
  Candidates \in Nat /\ IceUp # IceGone /\ {IceUp, IceGone} \cap 0 .. Candidates = {}

Description == 0
Messages == 0 .. Candidates
Tasks == Messages \cup {IceUp, IceGone}

VARIABLES
  connected,    \* the client's state_ is CONNECTED
  busy,         \* the client's control socket is not closed
  peer,         \* peer_id_ # -1
  described,    \* the local description is set
  gathered,     \* candidates that WebRTC has posted
  tasks,        \* tasks posted to the thread
  stack,        \* calls of SendMessage that wait in their loop, innermost last
  polling,      \* stats_polling_active_
  queries,      \* delayed tasks that will query the statistics
  reports,      \* queries whose report has not been delivered
  sent,         \* history: the messages the client has taken
  interrupted,  \* g_interrupted
  quitting,     \* Thread::IsQuitting()
  ended         \* Thread::Run() has returned

callVars == <<peer, described, gathered>>
statsVars == <<polling, queries, reports>>
loopVars == <<interrupted, quitting, ended>>
vars == <<connected, busy, callVars, statsVars, tasks, stack, sent, loopVars>>

TypeOK ==
  /\ connected \in BOOLEAN /\ busy \in BOOLEAN
  /\ peer \in BOOLEAN /\ described \in BOOLEAN /\ gathered \in 0 .. Candidates
  /\ tasks \in Seq(Tasks)
  /\ polling \in BOOLEAN /\ queries \in Nat /\ reports \in Nat
  /\ stack \in Seq(Messages) /\ sent \in Seq(Messages)
  /\ interrupted \in BOOLEAN /\ quitting \in BOOLEAN /\ ended \in BOOLEAN

(* The client has just signed in.                                          *)
Init ==
  /\ connected = TRUE /\ busy = FALSE
  /\ peer = FALSE /\ described = FALSE /\ gathered = 0
  /\ polling = FALSE /\ queries = 0 /\ reports = 0
  /\ tasks = <<>> /\ stack = <<>> /\ sent = <<>>
  /\ interrupted = FALSE /\ quitting = FALSE /\ ended = FALSE

-----------------------------------------------------------------------------
IsSendingMessage == connected /\ busy

(* SendToPeer, which refuses unless signed in and given a peer.            *)
SendToPeer(m) ==
  IF connected /\ peer THEN sent' = Append(sent, m) /\ busy' = TRUE
                       ELSE UNCHANGED <<sent, busy>>

(* Mutants: the client is not asked whether it is sending; a message that  *)
(* finds it sending is given up; messages are processed before the client  *)
(* is first asked, as do-while would.                                      *)
SendMessageAtOnce(m) == SendToPeer(m) /\ UNCHANGED stack

SendMessageOrNot(m) ==
  IF peer /\ ~IsSendingMessage THEN SendToPeer(m) /\ UNCHANGED stack
                               ELSE UNCHANGED <<sent, busy, stack>>

SendMessageWaits(m) ==
  /\ stack' = IF peer THEN Append(stack, m) ELSE stack
  /\ UNCHANGED <<sent, busy>>

SendMessage(m) ==
  \/ peer /\ IsSendingMessage
     /\ stack' = Append(stack, m) /\ UNCHANGED <<sent, busy>>
  \/ peer /\ ~IsSendingMessage /\ SendToPeer(m) /\ UNCHANGED stack
  \/ ~peer /\ UNCHANGED <<sent, busy, stack>>

(* Mutant: the change of the ICE connection is handled as a candidate.     *)
SendsTask ==
  /\ ~ended /\ tasks # <<>>
  /\ tasks' = Tail(tasks)
  /\ SendMessage(Head(tasks))
  /\ described' = (described \/ (peer /\ Head(tasks) = Description))
  /\ UNCHANGED <<connected, peer, gathered, statsVars, loopVars>>

(* Mutant: whether the polling is active is not looked at.                 *)
StartStatsPollingAgain ==
  polling' = TRUE /\ queries' = queries + 1 /\ UNCHANGED reports

(* The sender logs its statistics every five seconds from then on.         *)
StartStatsPolling ==
  /\ polling' = TRUE
  /\ queries' = IF polling THEN queries ELSE queries + 1
  /\ UNCHANGED reports

DeletePeerConnection == peer' = FALSE /\ polling' = FALSE /\ UNCHANGED <<queries, reports>>

(* The loop, outermost or nested, runs the oldest task, even after Quit:   *)
(* OnSuccess sets the description and sends it, OnIceCandidate sends the   *)
(* candidate, OnIceConnectionChange starts to poll the statistics, or      *)
(* deletes the peer connection and quits.  A deleted connection reports    *)
(* nothing.                                                                *)
RunsTask ==
  /\ ~ended /\ tasks # <<>>
  /\ tasks' = Tail(tasks)
  /\ \/ /\ Head(tasks) \in Messages
        /\ SendMessage(Head(tasks))
        /\ described' = (described \/ (peer /\ Head(tasks) = Description))
        /\ UNCHANGED <<peer, statsVars, quitting>>
     \/ /\ Head(tasks) = IceUp
        /\ IF peer THEN StartStatsPolling ELSE UNCHANGED statsVars
        /\ UNCHANGED <<peer, described, stack, sent, busy, quitting>>
     \/ /\ Head(tasks) = IceGone
        /\ DeletePeerConnection /\ quitting' = TRUE
        /\ UNCHANGED <<described, stack, sent, busy>>
  /\ UNCHANGED <<connected, gathered, interrupted, ended>>

(* Mutants: SendMessage forgets its message when it may send again; it     *)
(* goes on until the client takes the message.                             *)
ReturnsEmptyHanded ==
  /\ stack # <<>> /\ ~IsSendingMessage
  /\ stack' = Front(stack)
  /\ UNCHANGED <<connected, busy, callVars, statsVars, tasks, sent, loopVars>>

ReturnsOnceSent ==
  /\ stack # <<>> /\ ~IsSendingMessage /\ connected /\ peer
  /\ stack' = Front(stack)
  /\ SendToPeer(Last(stack))
  /\ UNCHANGED <<connected, callVars, statsVars, tasks, loopVars>>

(* ProcessMessages(10) returns to the innermost SendMessage, which finds   *)
(* that the client is no longer sending.                                   *)
Returns ==
  /\ stack # <<>> /\ ~IsSendingMessage
  /\ stack' = Front(stack)
  /\ SendToPeer(Last(stack))
  /\ UNCHANGED <<connected, callVars, statsVars, tasks, loopVars>>

(* It finds that nothing has changed, and calls it again.                  *)
Spins == stack # <<>> /\ UNCHANGED vars

(* A query is due: the chain ends if the polling has stopped.              *)
QueryStats ==
  /\ ~ended /\ queries > 0
  /\ queries' = queries - 1
  /\ reports' = IF peer /\ polling THEN reports + 1 ELSE reports
  /\ UNCHANGED <<connected, busy, callVars, polling, tasks, stack, sent, loopVars>>

OnStatsDelivered ==
  /\ ~ended /\ reports > 0
  /\ reports' = reports - 1
  /\ queries' = IF polling THEN queries + 1 ELSE queries
  /\ UNCHANGED <<connected, busy, callVars, polling, tasks, stack, sent, loopVars>>

(* Run returns once it has quit and no task is left.                       *)
Ends ==
  /\ ~ended /\ quitting /\ tasks = <<>> /\ stack = <<>>
  /\ ended' = TRUE
  /\ UNCHANGED <<connected, busy, callVars, statsVars, tasks, stack, sent,
                 interrupted, quitting>>

-----------------------------------------------------------------------------
(* Wait: reached only when no task is left and the thread has not quit.    *)

Waiting == ~ended /\ tasks = <<>> /\ ~quitting

SeesInterrupt ==
  /\ Waiting /\ interrupted
  /\ quitting' = TRUE
  /\ UNCHANGED <<connected, busy, callVars, statsVars, tasks, stack, sent,
                 interrupted, ended>>

ProcessesIo == Waiting /\ ~interrupted

(* The answer to a message has been read, or its connection has closed.    *)
ControlCloses ==
  /\ ProcessesIo /\ busy
  /\ busy' = FALSE
  /\ UNCHANGED <<connected, callVars, statsVars, tasks, stack, sent, loopVars>>

(* OnPeerConnected or OnMessageFromPeer: the description is asked for, or  *)
(* the peer connection fails and the client signs out.                     *)
CallBegins ==
  /\ ProcessesIo /\ connected /\ ~peer /\ ~described
  /\ peer' = TRUE
  /\ \/ tasks' = Append(tasks, Description) /\ UNCHANGED <<connected, busy>>
     \/ connected' = FALSE /\ busy' = TRUE /\ UNCHANGED tasks
  /\ UNCHANGED <<described, gathered, statsVars, stack, sent, loopVars>>

PeerLeaves ==
  /\ ProcessesIo /\ connected /\ peer
  /\ DeletePeerConnection /\ quitting' = TRUE
  /\ UNCHANGED <<connected, busy, described, gathered, tasks, stack, sent,
                 interrupted, ended>>

(* The client has closed both sockets and calls OnDisconnected.            *)
Disconnects ==
  /\ ProcessesIo
  /\ connected' = FALSE /\ busy' = FALSE
  /\ DeletePeerConnection /\ quitting' = TRUE
  /\ UNCHANGED <<described, gathered, tasks, stack, sent, interrupted, ended>>

-----------------------------------------------------------------------------
(* WebRTC's threads, and the user.                                         *)

(* PostTask, which a thread that has quit ignores.                         *)
Gathers ==
  /\ ~quitting /\ peer /\ described /\ gathered < Candidates
  /\ gathered' = gathered + 1
  /\ tasks' = Append(tasks, gathered')
  /\ UNCHANGED <<connected, busy, peer, described, statsVars, stack, sent, loopVars>>

(* A connection may come up again and again, after new checks.             *)
IceChanges ==
  /\ ~quitting /\ peer /\ described
  /\ \E t \in {IceUp, IceGone} \ Range(tasks) : tasks' = Append(tasks, t)
  /\ UNCHANGED <<connected, busy, callVars, statsVars, stack, sent, loopVars>>

Interrupt ==
  /\ ~ended /\ ~interrupted
  /\ interrupted' = TRUE
  /\ UNCHANGED <<connected, busy, callVars, statsVars, tasks, stack, sent, quitting, ended>>

Over == ended /\ UNCHANGED vars

Next ==
  \/ RunsTask \/ Returns \/ Spins \/ Ends \/ SeesInterrupt
  \/ QueryStats \/ OnStatsDelivered
  \/ ControlCloses \/ CallBegins \/ PeerLeaves \/ Disconnects
  \/ Gathers \/ IceChanges \/ Interrupt \/ Over

Spec == Init /\ [][Next]_vars

(* The thread keeps running, and the server answers messages.  However     *)
(* often the ICE connection changes, the thread runs out of tasks between  *)
(* two changes and enters Wait, which looks at the interrupt and at every  *)
(* socket that is ready: hence strong fairness there.                      *)
FairSpec ==
  /\ Spec
  /\ WF_vars(RunsTask) /\ WF_vars(Returns) /\ WF_vars(Ends)
  /\ SF_vars(SeesInterrupt) /\ SF_vars(ControlCloses)

-----------------------------------------------------------------------------
(* Properties.                                                             *)

(* A message is given to the client only when its control socket is closed *)
(* (peer_connection_client.cc:168 and 231 assert it), however deep the     *)
(* loops are nested: otherwise connect(2) fails and the client closes.     *)
OneRequestAtATime == [][sent' # sent => ~busy]_vars

(* The peer gets the session description before any candidate, although    *)
(* nested loops send the newest waiting message first.                     *)
DescriptionFirst == sent # <<>> => sent[1] = Description

(* While the call is up each candidate is posted, waits or has been sent,  *)
(* and never twice: no return from a nested loop drops or repeats one.     *)
Times(m, s) == Cardinality({p \in DOMAIN s : s[p] = m})

EachCandidateOnce ==
  connected /\ peer => \A m \in 1 .. gathered :
    Times(m, tasks) + Times(m, stack) + Times(m, sent) = 1

(* The statistics are queried by one chain of tasks, however often the     *)
(* connection comes up, and it goes on while the polling is active         *)
(* (webrtc_sender/main.cc:360): a chain that is left of an earlier call    *)
(* would find the polling active again and go on beside the new one.       *)
OneStatsChain ==
  queries + reports <= 1 /\ (polling => queries + reports = 1)

(* A posted message is sent in the end unless the program stops: later     *)
(* candidates overtake it only finitely often.                             *)
EventuallySent ==
  \A m \in Messages :
    m \in Range(tasks) ~> (m \in Range(sent) \/ ~peer \/ ~connected \/ quitting)

(* OnDisconnected ends the program, however deep the loops are nested:     *)
(* the client has closed, so that every SendMessage returns.               *)
DisconnectionEnds == (quitting /\ ~connected) ~> ended

(* The program exits when its peer, or the connection to it, has gone      *)
(* ("Our peer disconnected. Exiting.", webrtc_sender/main.cc:183).         *)
PeerGoneEnds == (quitting /\ connected /\ ~peer) ~> ended
=============================================================================
