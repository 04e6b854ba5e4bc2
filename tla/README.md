# Verification of webrtc_demo: the signaling system

This directory holds TLA+ models of the signaling part of the repository, the
TLC configurations that check them on small instances, and proofs checked by
TLAPS that hold for every value of the constants.

## 1. Inventory

| Component | Source (`src/src/...`) | State it keeps | Operations |
|---|---|---|---|
| Select loop of the server | `server/main.cc` | the vector of accepted sockets, the `fd_set`, `quit`, the listener | one round: select, serve each ready socket, close, time out, accept |
| Channel and members | `server/peer_channel.{h,cc}` | `members_`; per member `waiting_socket_`, `connected_`, `timestamp_`, `queue_`; `s_member_id_` | `Lookup` (with its side effects), `AddMember`, `OnClosing`, `CheckForTimeout`, `CloseAll`, `QueueResponse`, `SetWaitingSocket`, `ForwardRequestToPeer` |
| HTTP connections of the server | `server/data_socket.{h,cc}` | descriptor, method, path, headers, body so far | `OnDataAvailable`, `Send`, `Close`, `Accept` |
| Signaling client | `client/peer_connection_client.{h,cc}` | `state_`, `my_id_`, `peers_`, two sockets and their buffers, `onconnect_data_` | `Connect`, `SignOut`, `SendToPeer`, socket and resolver callbacks |
| Sender and receiver applications | `webrtc_sender/main.cc`, `webrtc_receiver/main.cc` | `peer_id_`, the peer connection, `stats_polling_active_` | observer callbacks of the client and of WebRTC, `SendMessage` with its nested message loop |
| Interruptible socket server | `headless_common/headless_socket_server.{h,cc}` | `g_interrupted` | `SignalHandler`, `Wait` |
| Video sink | `headless_common/receiver_sink.{h,cc}` | the file, `header_written_`, last size | `OnFrame`, `WriteHeader` |
| JSON helpers, defaults, flags, build | `headless_common/signaling_helper.*`, `client/defaults.*`, `client/flag_defs.h`, `BUILD.gn` | none | conversions and constants |

How they interact. A client opens short HTTP connections to the server: one
carries `/sign_in`, `/message` or `/sign_out` (the control socket), another a
hanging `GET /wait` that the server parks (`waiting_socket_`) until it has
something to say to that member. The server runs one thread: everything it
does happens inside a round of the select loop, while clients connect, write
and close at any moment. The client runs on one WebRTC thread: its handlers
are callbacks of that thread's message loop, some of which re-enter the loop
(`SendMessage` of the applications) or each other (`ReadIntoBuffer` calls
`OnClose`). Above all that, programs call each other: a sender offers to the
first peer it hears of, a receiver answers the first offer it gets, and neither
signs out when it ends.

What is hard here, and where it bites, is listed in `PROJECT.json` under
`hazards`. In short: three loops erase the element they stand on and then
increment; a bare pointer to a connection is cleared by one of those loops;
old and new connections of one client are served in the order of the vector
and not in the order of time; stray bytes make the server act on a request
again; `quit` is an in/out parameter; the client keeps state across
connections that its `Close` forgets to reset; a program that has ended stays
in the channel and is called.

## 2. Modules

| Module | Role |
|---|---|
| `DataSocket` | connections: what the remote end did, how far the server has read, what was answered |
| `PeerChannel` | `ChannelMember` and `PeerChannel`: members and mailboxes; EXTENDS `DataSocket` |
| `Server` | the select loop, composing both; all server properties |
| `Channel` | the abstract channel: who is in the room, what was put in and taken out of each mailbox |
| `ServerChannel` | the refinement: the server implements `Channel` |
| `MCServer` | request sets for TLC |
| `ServerProofs` | theorems about the server: types, mailboxes, parked polls |
| `PresenceProofs` | what a step does to the members and their mailboxes, and the theorem that membership is told; EXTENDS `ServerProofs` |
| `ServerChannelProofs` | the refinement proved; EXTENDS `ServerChannel`, `PresenceProofs` |
| `ConnectionProofs` | what a step does to one connection, and the theorems on responses and polls; EXTENDS `PresenceProofs` |
| `LeaverProofs` | the counting argument for members that signed out; EXTENDS `ConnectionProofs` |
| `PeerConnectionClient` | the signaling client: one operator per method, from the client's record to its next record |
| `ClientSession` | one client, an application, a network and a server that may fail; EXTENDS `PeerConnectionClient` |
| `MCClient` | instances of the session for TLC |
| `ClientProofs` | theorems about the session |
| `Application` | the thread of a sender or receiver, with its nested message loops |
| `MCApplication` | instances of the application for TLC |
| `ApplicationProofs` | theorems about the application |
| `Y4mVideoSink` | the file the receiver writes: one header, then frames |
| `Signaling` | several senders and receivers that call each other; INSTANCEs `Channel`, EXTENDS `Y4mVideoSink` |
| `MCSignaling` | instances of the calls for TLC |
| `SignalingProofs` | theorems about the calls |

Four state machines, each over what the one below promises: `Server` is the
server down to its select loop and implements `Channel`; `ClientSession` is one
client against a server that behaves as `Channel` says; `Application` is the
thread above a client of which only `connected` and `busy` are left;
`Signaling` is many programs, whose client and thread are reduced to what these
models show of them, over an instance of `Channel`.

### DataSocket

A connection is a slot `c \in Conns`. `remote[c]` says whether the slot is
free, its client is up or has closed; `backlog` holds what the kernel has
completed and the server has not accepted. Bytes are abstracted to the
landmarks of the one request a client writes on a connection: nothing, `Part`,
`Whole`, and beyond it one more for every stray segment, as many as `Levels`
allows; `wrote[c]` and `read[c]` are the landmarks the client and the server
have reached. `RequestComplete` is what `OnDataAvailable` plus
`request_received()` say after a read: true once the request is whole, and
true *again* for every further read of a POST, and never for a request line
that `ParseMethodAndPath` rejects (method `INVALID`). A POST whose headers
`ParseContentLengthAndType` rejects (no body) is not reported when it is whole,
but is for every stray segment that follows; its `content_length_` is 0, so that
it is no request of a peer (`IsPeerConnection`) and, unless it names a member,
goes to `HandleBrowserRequest`. `out[c]` are the responses the
client can read. A request is a record with the method, path, `peer_id=`,
`to=` and a body; a response keeps the status, the `Pragma` id, the entries of
its body and its text. Headers, names and content types are left out.

`RequestsAssumption` says that `/wait` is a GET, which the code asserts
(`peer_channel.cc:154`), and that only POST requests have a body. A POST that
announces a length and no type, whose `content_length_` is then set although it
does not parse, is not among the requests.

### PeerChannel

`members` is the vector of ids; `member[m]` the object. `QueueResponse`,
`SetWaitingSocket`, `OnClosing`, `TimedOut` are functions from a member's
record to its new record, one per method. `posted` and `handed` are history:
everything addressed to a member and everything taken out of its mailbox. A
broadcast is a function from the members told to what they are told, applied
to all of them at once (`Posted`, `SentTo`): the loop in the code has no
effect on its own order, since no delivery is ever reported as failed
(`NotifyOfOtherMember` returns true), which is also why
`HandleDeliveryFailures` has nothing to do.

### Server

`pc` walks through a round: `select`, `serve`, `closing`, `timeout`, `accept`.
One step serves one ready socket, in the order of the vector: each `Handle...`
action is the whole branch of `main.cc:119-155`, with `Lookup`'s side effects
on the member. A socket at end of file is closed by `BeginClosing`, one
`CloseFor` per member that `PeerChannel::OnClosing` changes, and
`DeleteSocket`. The iterator that erases and then increments is `j' = k + 1`
after the element at `k` was erased, and, for sockets, the removal of two
positions from `ready`. `Accept`, `AcceptNothing` and `AcceptsNull` are the
end of the round; after a quit `FD_ISSET(-1)` is undefined and both outcomes
are steps. Remote ends (`ClientConnects`, `ClientWrites`, `ClientHangsUp`) and
the clock (`Tick`) interleave with the server where `Windows` allows.

### PeerConnectionClient

The record `Clients` holds `state_`, `my_id_`, the keys of `peers_`, the state
of the two sockets, `onconnect_data_` reduced to path and ids, the number of
delayed `DoConnect` tasks and whether the thread's loop still runs. Every
method and callback is an operator `Op(c, ...)` that returns the record after
it, all nested calls included: `OnRead` is `ReadIntoBuffer` (which closes the
socket and calls `OnClose`), then `ParseServerResponse`, then what follows in
the state the first two left. Two parameters stand for what the code cannot
know: `ok`, whether `connect(2)` starts, and `giveUp`, whether the
application, called back with a peer or a message, fails and signs out. Sizes,
header text and the entries' syntax are left out; a response is its status,
the `Pragma` number, and who it says joined or left.

### ClientSession

`wire[s]` is what the connection of socket `s` carries: the request, the
answer, and whether the connection is lost without the client having noticed.
`Becomes(c)` is every callback's effect: the client is `c`, and a connection
`c` no longer has is gone with its content. The server's side is reduced to
`lastId`, `members` and one mailbox `box[m]` for each number this client reads:
its actions serve a request in one step, as a round of `Server` does. Other
members join, leave and send. `Faults` enables an application that gives up
(`giveup`), `connect(2)` failing at once (`connect`), a name that does not
resolve (`resolve`), a hanging GET (`drop`) or a control connection (`cut`) that
is lost, an eviction, a shutdown by a browser, and a crash with a restart that
numbers members from 1 again (`s_member_id_` is a static of the process).

Nothing guarantees delivery. `Drops` takes with the connection an answer that is
on its way. A poll that is lost before it was answered stays at the server, parked
or unread (`dead`), and the server answers it whenever it comes to it: `ServesDead`
takes the head of the mailbox and sends it to nobody, as
`ChannelMember::QueueResponse` does (`peer_channel.cc:133-142`). `missed` is history:
the members that such lost notifications spoke of. The order of a poll that is
lost and one that is live is free, but for one case: that the lost poll is *read*
last and takes the place of the live one (hazard at `peer_channel.cc:162`), after
which the live one is never answered and the client is evicted. A control request
that is lost may still be served until the client notices; that it is served
later is, for the client, another member's joining or its own eviction.

The run `session` has all of them but `connect` and `cut`, with which
`ClosedMeansTold` and the two `Concludes` properties do not hold; the proofs
cover every set of faults.

### Application

`tasks` is the thread's queue, `stack` the calls of `SendMessage` that wait in
`ProcessMessages(10)`, each on top of the one whose loop dispatched it.
`RunsTask` runs the oldest task from whichever loop is innermost, as the
thread does even after `Quit`. `Returns` is the innermost call finding that
the client is no longer sending; `Spins` is it finding no change. Sockets are
processed in `Wait` only, which a thread that has quit, or still has tasks,
does not reach: `ControlCloses`, `CallBegins`, `PeerLeaves` and `Disconnects`
are guarded by `ProcessesIo`. Both programs share the module: they differ in
what begins a call (a peer that is announced, or its offer), and only the
sender polls statistics. `queries` counts the delayed tasks of
`ScheduleStatsQuery`, which nothing cancels, and `reports` the `GetStats` calls
whose callback is still to come: `QueryStats` and `OnStatsDelivered` each look
at `stats_polling_active_` again. `IceChanges` posts what WebRTC reports of the
connection, which may come up any number of times.

### Signaling and Y4mVideoSink

`prog[m]` is the program that was given the number `m`: its role, `peer_id_`,
the signaling state of its peer connection, whose description that holds, the
description it has asked WebRTC for, and the messages that wait in
`SendMessage`. Each callback of the two `main.cc` is an operator from that
record to the next one; where sender and receiver differ the operator says so
(`OnPeerConnected` concerns senders, the guard on strangers receivers).
`SetRemoteDescription` is WebRTC's rule for offers and answers, the one piece
of it that decides who is in a call with whom. A message is its kind: offer,
answer or candidate; what does not parse has no kind.

The channel is an instance of `Channel`, so that what `ServerChannel` shows of
the server is what the programs rely on. `Delivers` couples it to the programs:
a program that runs and has read its last response has a poll parked, which the
server answers at once; one that has ended, or is still busy with a response,
leaves its mailbox to fill. `inbox[m]` is that one response on its way. A
program that ends changes no shared state: it is the server's eviction, a
message refused with 500 or the next refused poll by which others learn of it.

`Quit(p, waits)` is `DeletePeerConnection` and `Thread::Quit`. If a `SendMessage`
waits at that moment (`Waits`: some message has not been sent), the program does
not end: it is "spinning", as module `Application` shows of its thread (run
`exit`). It reads and says nothing more, but its process and its connections
stay: the server may have a poll of it parked, so that it *may* be evicted (when
that poll is answered and no other follows), which `Progress` does not promise.
Where the client has closed first (`Exits`: a refused message, a refused poll, a
failed call that signs out), `IsSendingMessage` is false, every waiting
`SendMessage` returns, and the program is "over". Only its eviction is fair. `ShutsDown` answers the polls that are parked with the farewell.

`Y4mVideoSink` keeps what a reader of the file needs: the size in the header
and the number of bytes of each frame. `Streams` is a frame of a sender that
reaches the sink of the receiver it is in a call with. A program that was
interrupted and spins keeps its media path; what it streams then is as if it had
been interrupted later.

## 3. Runs

The runs of the first table use the module `MCServer`.

| Run | Question | Instance |
|---|---|---|
| `presence` | is everyone told who is in the channel; is a poll ever forgotten | 3 sign-ins, 2 connections that are reused, sign-outs, timeouts |
| `mail` | are mailboxes ordered and drained before a poll is parked; how many responses does a connection carry; is `Channel` implemented | 2 members, requests in segments and with up to two stray segments, a POST without a body, messages without target or sender, timeouts |
| `quit` | does `/quit` end the loop and answer parked polls | 3 connections, limit 2, failing select and accept |
| `liveness` | do leavers leave, are requests read; does a parked poll ever dangle | two leavers, one of whose sign-outs is also a message; client steps between any two server steps, fairness |
| `listing`, `retract` | expected violations, see section 6 | |

Those of the second use `MCClient` (the first two), `MCApplication` (the next
two) and `MCSignaling`.

| Run | Question | Instance |
|---|---|---|
| `session` | are sockets and state in step, does the client know who is in the channel, is the application told when it closes, do sign-in and sign-out conclude | 3 members, applications that give up, names that do not resolve, lost polls and notifications, evictions, a shutdown, a crash and a restart, fairness |
| `stale_id` | expected violation, see section 6 | a crash and a restart |
| `call` | what do nested loops do to the order and number of messages; how many chains of statistics are there | a description and 4 candidates, ICE up and down, fairness |
| `exit` | expected violation, see section 6 | the same, fairness |
| `signaling` | does every call find an answer, is the answer the right one, is the file readable, does the end of a program reach the others | 3 programs, at most 2 senders at a time, 2 frames, fairness |
| `farewell` | expected violation, see section 6 | 2 programs |

Bounds. `MaxId` bounds sign-ins, `Conns` the connections open at one time
(slots are reused, so the number of connections over time is not bounded), a
member writes one POST, and `idle` stops one tick after the timeout. Two
connections are the smallest number at which one socket's handler meets
another's parked poll, one socket is passed over by another's erasure, and an
old and a new poll of one client coexist; three ids are the smallest number at
which one of two leaving members is passed over while a third is told.
`Timeout = 0` ticks is enough: a tick is any time longer than the limit. Two
stray segments (`Levels` up to `Whole + 2`) make a POST be acted on three times,
or twice if it announces no body; the proofs are for any number of segments.

In the client's runs `MaxId` bounds the members of one life of the server:
three are the client, one that was there before and one that comes after. One delayed
reconnection (`MaxRetries`), one crash (`MaxCrashes`) and one message queued in
a mailbox (`MaxBox`) are enough for every pair of callbacks to meet; a
notification may follow any of them. `OtherJoins` leaves a number for the
client, without which its sign-in would be blocked by the bound. With
`Candidates = 4` up to four calls wait while a message is under way, so that an
inner call can take the turn of several outer ones.

Three programs (`People`) are the smallest number at which a receiver in a call
is called by another sender, two senders call one receiver at once, or a
receiver is called by one that comes after its first caller. `Rivals = 2`
leaves the third program a receiver as long as both senders run. A number is
used once, as `s_member_id_` only grows. Programs that spin do not count
against `Rivals`. Two frames are a header and a frame
that must agree with it, and every sender has another size. A refused
`InitializePeerConnection` and an interrupt are possible at every moment.

`Windows`. The readiness of every socket is fixed by `select`, and a read takes
all the client wrote, so a client step in the middle of a round has the effect
of one before or after it, except that a response is lost to a client that
closed in between. The large instances let clients step at `select` only;
`liveness` lets them step everywhere.

`OnePoll` restricts clients to polling again only after their previous poll
has been closed and read: this is what `PeerConnectionClient` does over a
single socket. Without it the code does forget polls: if two polls of one
member are parked in the opposite order, `SetWaitingSocket` overwrites the
live one. `PollNotForgotten` states exactly the restricted promise, and so says
nothing about that order (the hazard at `peer_channel.cc:162`).

Fairness (`FairSpec`). The loop keeps taking steps since select returns within
10 seconds (`WF(ServerStep)`); time passes (`WF(Tick)`); a client that has its
answer closes the connection (`Connection: close`, done by
`PeerConnectionClient::ReadIntoBuffer`). Nothing else is fair: a client may
never poll, never write, never close.

For the client: its thread handles every event, the network completes a
connection, the delayed reconnection runs, and the server serves what it has
read (the rounds of `Server` guarantee the latter, run `liveness`). A poll is
served, and its answer read, strongly fairly (`SF(ServesWait)`,
`SF(ReadsHanging)`): polls and answers may be lost again and again, but not each
one. Others need not come
or go, and the application need not send. For the application: its thread keeps
running, and the control connection closes in the end, again because the server
answers; but that close, and an interrupt, is only seen by a thread in `Wait`,
which each change of the ICE connection takes it out of. Hence strong fairness
for `SeesInterrupt` and `ControlCloses`: `Wait` looks at every ready socket and
at the flag whenever it is entered. For the calls one weak fairness condition
over all steps that nobody chooses (`WF(Progress)`) is enough, as everyone has
finitely much to say; the eviction of a program that spins is not among them, and
nobody need start, stop, stream or shut the server down.

Deadlock is checked in every run: the only states without a successor of their
own are the halted and the crashed server (`Stopped`), the client or program
whose loop has ended (`Over`), and a channel that is shut down and without
running programs (`Over` of `Signaling`), which stutter.

## 4. Properties

`PresenceConsistent` relates a member's mailbox to the membership: who reads
everything addressed to it, as the client does, knows exactly the other
members. `LeaversCovered` counts: there are never more signed-out members than
connections carrying a sign-out whose close is still to come, so the member
that a closing pass skips always gets another pass; `SignedOutLeaves` is its
liveness consequence. `NoDanglingWait` is the memory-safety property behind
`waiting_socket_`. `WaitingMeansDrained` and `FifoMailbox` are the DCHECKs of
`ChannelMember` and their consequence. `ImplementsChannel` is the refinement:
every server step is an arrival, a departure, a message, a hand-over, a
dismissal of the abstract channel, or invisible to it. `AnsweredOnce` bounds the
responses on a connection by the occasions for one (`Occasions`): one, and for a
POST one when it is complete and one for every segment read after it. A broadcast
to a parked poll or a second visit in one round must not add to them.

`PollsWhileConnected` and `FirstResponseSigningIn` are the two assertions of
the client that depend on all its callbacks: a poll that was started early by
the re-entrant `OnClose` must be undone by every way out, and no retry or
failure may leave a control connection to a client that expects something
else. `ClosedMeansTold` says that nobody closes the client silently; it is
checked and proved without the fault `connect`, with which `SendToPeer` and
`SignOut` do just that. `PeersFollowMembers` says what `peers_` will be after
what is still on its way to the client (`After`: of each member the last news
counts), and that this is the membership, but for the members that a lost
notification spoke of (`missed`); the code repeats none, so that the client may
think of those what it likes. `PeersConverge` is its liveness side; both are promises of one life of the server (`crashes = 0`),
since a client takes what it knows to the next one (section 6, `stale_id`).
`SignInConcludes` and `SignOutConcludes` end when the server goes, of which a
client asks for ever every two seconds, and are checked without lost control
connections: one that closes without an answer leaves the client waiting for
ever (`OnClose` only reports the message as sent).

`DescriptionFirst`, `EachCandidateOnce` and `EventuallySent` say what survives
the reversal of order in nested `SendMessage` calls; `OneRequestAtATime` is the
client's assertion seen from its caller; `DisconnectionEnds` holds where
`PeerGoneEnds` (section 6) does not, because a closed client is not sending.
`OneStatsChain` is about delayed tasks that nobody cancels: a second chain would
start if a query of an earlier call were still due when polling begins again;
it cannot, because whatever ends a call also quits the thread.

In `Signaling`, `AnswersAgree` relates two programs: a sender that holds an
answer is the one whose offer the receiver holds. It depends on the receiver
turning strangers away and on the order in which one mailbox is read.
`FileConsistent` is what that means for the file: frames of one size only.
`CandidateInTime` says that WebRTC never gets a candidate before the
description, although a receiver may have been called by someone else before.
`CallsConclude` and `PeerGoneTold` are the promises of the whole system: a call
gets its answer or its sender learns why not, and who has a peer that ended is
told of it and quits, although nobody signs out. Whether its process then ends is
not promised: one that is told while `SendMessage` waits spins (`PeerGoneEnds` of
`Application`, section 6), and who has a spinning peer may never learn of it.
`CallsConclude` leaves out two callers that the
code leaves waiting until someone ends: a sender that a busy receiver has turned
away, and two senders that call each other.

Each property has a mutant of the code that breaks it (`PROJECT.json`).

## 5. Proofs

Everything below holds for every value of the constants that the named
assumptions at the end of this section admit. A theorem `Spec => []P` is proved
from an inductive invariant that implies `P`; the invariants were first checked
by TLC on the instances of section 3.

### Server

`ServerProofs`, for every set of connections and requests, every `MaxId`,
timeout, connection limit, fault set and window:

* `TypeCorrect`: `Spec => []TypeOK`. The inductive invariant `TypeInv` adds
  that a connection carrying bytes carries those of a request.
* `MailboxCorrect` (and its half `FifoCorrect`): `Spec => [](WaitingMeansDrained /\ FifoMailbox)`. The
  invariant `MailboxInv` says of each member record that it is orderly;
  it is preserved by each of the four record operations, hence by each action.
* `NoDangling`: `Spec => []NoDanglingWait`. The argument needs three more
  facts, together `DanglingInv`: a connection is held once and is not in the
  backlog (`HeldOnce`), an unread request is unanswered (`ReadWritten`), and
  while a socket is closing no member behind the iterator waits on it
  (`ClosedBehind`). The interesting case is the erasing pass: a member that is
  passed over cannot be waiting, because the erasure has just sent every
  remaining member a notice (`EraseMemberUnparks`).

The modules after it reason about what a step does to the channel or to one
connection, whichever action it is.

`PresenceProofs`: each step leaves the mailboxes alone, hands out the head of
one, forwards a message, adds a member, erases one or closes all
(`ChannelStep`, lemma `NextChannel`).

* `PresenceCorrect`: `Spec => []PresenceConsistent`. `PresenceInv` adds that
  a member is in the vector once and that the first thing in a mailbox is the
  list of the sign-in (the client reads that one differently). What a reader knows
  (`Knows`) is followed response by response (`KnowsMore`, `NoticeSays`,
  `MailSays`, `RosterSays`).

`ServerChannelProofs`, the refinement under the mapping of `ServerChannel`:

* `ServerImplementsChannel`: `Spec => ImplementsChannel`, and
  `ServerRefinesChannel`: `Spec => Promised!Spec`. Initial states map to initial
  states (`InitMaps`); each kind of channel step maps to a step of `Channel` or
  a stutter (`StepMaps`). Of the server the types, `MailboxInv` and
  `PresenceInv` are needed: what is handed out is the next of what was posted.

`ConnectionProofs`: each step leaves a connection alone, opens it, writes to it,
closes it at either end, sends it one response, or reads it and answers, parks
or ignores its request (`ConnectionStep`).

* `AnsweredOnceCorrect`: `Spec => []AnsweredOnce`, for any number of stray
  segments. The property is inductive given two more: that a broadcast finds a
  parked poll unanswered is `NoDanglingWait`; that a round serves only what
  select reported, and select only what can be read, so that every answer to a
  POST follows a read of a further segment, is `ReadyInv`.
* `PollRemembered`: `OnePoll => (Spec => []PollNotForgotten)`. Without
  `OnePoll` the code forgets polls (section 3). `PollInv` adds that two polls of one
  member are never live at once (`OneLive`), so that `SetWaitingSocket` has
  nothing to overwrite.

`LeaverProofs`:

* `LeaversAreCovered`: `Spec => []LeaversCovered`. `LeaverInv` compares two
  finite cardinalities: the members that signed out and the sign-out
  connections that are charged with them (`Charged`). When a connection closes,
  the first leaver the pass meets pays for it; before that all members passed are
  connected. A sign-out that named nobody when it was read is charged only
  once its member exists, since a POST may be acted on again.

### Client

`ClientProofs`, for every set of faults and every bound:

* `SessionTypeCorrect`: `Spec => []TypeOK`.
* `PollsCorrect`: `Spec => []PollsWhileConnected`, and `FirstResponseCorrect`:
  `Spec => []FirstResponseSigningIn`. Neither is inductive. The invariant
  `ClientInv` adds that a client which is CONNECTED or signing out has an id
  (`HasId`), that a client before its sign-in or after its close has no
  control connection (`Detached`), and that a client without an id can only be
  about to send a sign-in (`Asking`). A lemma per operator says what it does to
  such a client, for any response; the client's actions follow from those. Of
  the server and the network one fact is needed (`Unnamed`): what the control
  connection of a client without an id carries is a sign-in, and an answer to
  it brings an id.
* `ClosedCorrect`: if `connect(2)` starts whenever it is called,
  `Spec => []ClosedMeansTold`. It is inductive relative to the invariant above:
  each operator, given a client that is aware of its state (`Aware`), leaves
  one behind.
* `PeersFollowCorrect`: `Spec => []PeersFollowMembers`. The invariant
  `FollowInv` has six parts, which hold until the server crashes. What the
  client knows followed by the news on its way is the membership, but for those
  missed (`KnownInv`); the
  same is true of the list in the response to a sign-in, before it is read
  (`AssignedInv`). For these to survive a retried sign-in, somebody who signs in
  must know nobody (`FreshInv`), and a delayed reconnection must not disturb a
  connected client: it is left of a sign-in that was refused, or the server has
  been stopped for good (`RetriesInv`). Lemmas say what one item more at either
  end of the news does (`AfterNone`, `AfterMore`, `AfterFirst`); a callback is
  quiet (`QuietStep`), takes the client out of the channel (`LeavesFollow`), or
  reads an answer; a step of the server delivers at most one item to a member
  (`Delivers`). Polls and answers may be lost at any moment: an item that
  vanishes from the news changes what they tell about nobody but the members it
  spoke of (`AfterLoss`), be it lost on its way (`DropsFollow`) or sent to a lost
  poll (`ServesDeadFollow`).

### Programs

`ApplicationProofs`, for any number of candidates and any depth of nesting:

* `CallTypeCorrect`: `Spec => []TypeOK`.
* `DescriptionSentFirst`: `Spec => []DescriptionFirst`. The invariant says
  that until the description is set nothing is sent, waits or is busy, and
  the only message that can be posted is the description, to a call that is
  up (`BeforeDescription`).
* `OneAtATime`: `Spec => OneRequestAtATime`, an action property that needs the
  same invariant's typing: a message is taken only from a connected client
  that is not sending.
* `StatsChainCorrect`: `Spec => []OneStatsChain`. The property is not inductive:
  a polling that begins must find no query left. The invariant `ChainInv` adds
  that a chain without polling belongs to a call that is over, and that a
  thread that has quit begins no other.
* `CandidatesOnce`: `Spec => []EachCandidateOnce`. `OnceInv` counts each
  candidate over the posted tasks, the waiting calls and what was sent: the sum
  does not change while a call moves it from one to the next.

`SignalingProofs`, for any number of programs, rivals and frames and any sizes:

* `CallsTypeCorrect`: `Spec => []TypeOK`. That a program has at most one
  response on its way follows from how the channel hands out: at most one item
  per step (`HandsOutOne`), and only to a program whose inbox is empty
  (`DeliversInv`).
* `FilesCorrect`: `Spec => []FileConsistent`. The invariant `FileInv` says that
  a receiver which holds a description holds that of its peer, and that a file
  with a header is of the size of the sender whose description the receiver
  holds, as long as it runs. A lemma per callback says that the program after it
  `Follows` from the one before: it knows its peer again, and keeps the
  description it holds, or it has quit, be it over or spinning.
* `AnswersAgreeCorrect`: `Spec => []AnswersAgree`, and `CandidatesInTime`:
  `Spec => []CandidateInTime`. Both need to know where every message of a call
  can be at any moment. `CallsInv` numbers what is ahead of a program: the
  response it has not read, then its mailbox (`Item`, `Ahead`), and says of the
  letters in it: of a sender there is at most one offer, which nobody has accepted
  while it waits (`OfferInv`); an answer comes from a receiver that has settled
  with the addressee, or ended (`AnswerInv`);
  a candidate has the description of its call before it in the same mailbox, or
  its reader has one or talks to another (`CandidateInv`). Three more parts
  say that nothing is addressed to programs that have not begun (`LineInv`),
  that letters are of the kind their writer's role allows (`NewsInv`), and that
  a program's fields fit together (`ProgramsInv`).

The theorems rest on the named assumptions of the modules
(`RequestsAssumption`, `ConnsAssumption`, `ChannelAssumption`,
`ServerAssumption`, `ClientAssumption`, `SessionAssumption`,
`ApplicationAssumption`, `SignalingAssumption`), which TLC evaluates in every run.

Every safety property that a passing run checks is proved. Only model-checked:
the liveness properties (`SignedOutLeaves`, `SilentLeaves`, `RequestRead`,
`PollsReleasedAtQuit`, `QuitStops`, `SignInConcludes`, `SignOutConcludes`,
`PeersConverge`, `EventuallySent`, `DisconnectionEnds`, `CallsConclude`,
`PeerGoneTold`), which need fairness and `ENABLED`, beyond the prover.

Three definitions were restated for the proofs: what a client will know is said
by the last news of each member and no longer by a fold (`After` of
`ClientSession`); a candidate is counted by `Cardinality` and no longer by the
length of a selection (`Times` of `Application`), both with the same meaning;
and the kind of an event is an `IF` chain, since the cases of its `CASE`
overlapped, which left a choice that the refinement cannot have (`Tells` of
`ServerChannel`).

## 6. Disagreements found

* `listing`: a newcomer can be listed a member that has signed out; the DCHECK
  at `peer_channel.cc:356` fails.
* `retract`: a browser request served after `/quit` in the same round takes
  the quit back (`main.cc:51`); the loop goes on with the listener closed.
* `stale_id`: a CONNECTED client whose request is refused signs in again two
  seconds later; if a new server listens by then, the id and the list in its
  response are ignored (`peer_connection_client.cc:341`), because nothing on
  that path resets `my_id_` and `peers_`.
* `exit`: when the peer or the ICE connection goes, or a signal arrives, while
  a `SendMessage` waits, the thread quits inside the nested loop, never
  processes a socket again, and the loop spins for ever
  (`webrtc_sender/main.cc:452`, `webrtc_receiver/main.cc:292`).
* `farewell`: the server's "Server shutting down" has no `Pragma` header, so that
  the client reports it as a message from peer -1
  (`peer_connection_client.cc:476-479`), which the assertion of a sender in a
  call excludes (`webrtc_sender/main.cc:190`). The offer of a second sender that
  calls a sender fails it too.

## 7. Not modelled, and the plan

Not modelled, and why:

* The text of HTTP headers, SDP and JSON, and responses that reach the client in
  several segments: the server writes each with one `send()`, of up to a few
  kilobytes when it forwards an SDP. With them stay the buffers that a half-read response would leave
  behind (`control_data_`, `notification_data_`).
* WebRTC itself (the media path, ICE, capture, encoding): outside the
  repository, apart from the rule for offers and answers.
* Descriptor numbers and `FD_SETSIZE`, SIGPIPE at a `send()` to a connection
  that was reset: whether the kernel knows of the reset is not in the model.
* Defaults, environment variables, command-line flags and build rules: no state.

Plan, the most important first:

1. `ClientSession` shown to implement the mailbox that `Signaling` assumes, and
   the client's part of `Channel`, as a refinement with a proof.
2. Responses in segments, with connections that break within one.
3. Safety halves of the liveness properties, as far as the provers reach: what
   must still hold while a sign-out, a call or a shutdown is under way.
