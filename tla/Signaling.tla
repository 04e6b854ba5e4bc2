----------------------------- MODULE Signaling ------------------------------
(***************************************************************************)
(* Calls between sender and receiver programs (webrtc_sender/main.cc,      *)
(* webrtc_receiver/main.cc) over the channel of the server.                *)
(*                                                                         *)
(* Programs sign in one after another and get ascending numbers.  A program*)
(* that ends does not sign out: it stays in the room, without reading its  *)
(* mailbox, until the server takes it for silent.  One that quits while    *)
(* SendMessage waits never ends (module Application): it spins, and its    *)
(* poll may stay parked.                                                   *)
(***************************************************************************)
EXTENDS Naturals, FiniteSetsExt, SequencesExt, Y4mVideoSink

CONSTANTS
  People,       \* the numbers that the server assigns
  Size,         \* Size[m]: width and height of the video that m would send
  Rivals,       \* bound: senders that run, and do not spin, at the same time
  MaxFrames     \* bound: frames in a file

ASSUME SignalingAssumption ==
  /\ People \subseteq Nat \ {0}
  /\ Size \in [People -> (Nat \X Nat) \ {NoSize}]
  /\ Rivals \in Nat /\ MaxFrames \in Nat

VARIABLES
  room, posted, handed,   \* the channel
  up,                     \* the server runs
  inbox,                  \* inbox[m]: responses on their way to m
  prog,                   \* prog[m]: the program
  sink                    \* sink[m]: its Y4mVideoSink

Texts == {"offer", "answer", "candidate"}

Room == INSTANCE Channel

roomVars == <<room, posted, handed>>
vars == <<roomVars, up, inbox, prog, sink>>

NoPeer == 0
Farewell == Room!Happened("closing", {})

(* sig: the signaling state of the peer connection, "none" without one;    *)
(* remote: whose description it holds; creating: the description that has  *)
(* been asked for; outbox: the messages that wait in SendMessage.          *)
Program == [role : {"none", "sender", "receiver"},
            state : {"off", "on", "spinning", "over"},
            peer : People \cup {NoPeer}, remote : People \cup {NoPeer},
            sig : {"none", "stable", "have-local-offer", "have-remote-offer"},
            creating : {"none", "offer", "answer"}, outbox : Seq(Texts)]

Sinks == [header : Nat \X Nat, frames : Seq(Nat)]

TypeOK ==
  /\ room \subseteq People /\ up \in BOOLEAN
  /\ posted \in [People -> Seq(Room!Event)] /\ handed \in [People -> Seq(Room!Event)]
  /\ inbox \in [People -> Seq(Room!Event)] /\ \A m \in People : Len(inbox[m]) <= 1
  /\ prog \in [People -> Program] /\ sink \in [People -> Sinks]

NewProgram(role, state) ==
  [role |-> role, state |-> state, peer |-> NoPeer, remote |-> NoPeer,
   sig |-> "none", creating |-> "none", outbox |-> <<>>]

Init ==
  /\ Room!Init /\ up = TRUE
  /\ inbox = [m \in People |-> <<>>]
  /\ prog = [m \in People |-> NewProgram("none", "off")]
  /\ sink = [m \in People |-> NewSink]

On(m) == prog[m].state = "on"

-----------------------------------------------------------------------------
(* The callbacks, as functions of a program.                               *)

(* DeletePeerConnection and Quit, upon which the loop reads no socket any  *)
(* more: a SendMessage that waits for the client goes on for ever.  What   *)
(* an interrupted program that spins still streams is as if it had been    *)
(* interrupted later.                                                      *)
Quit(p, waits) == NewProgram(p.role, IF waits THEN "spinning" ELSE "over")

(* The client has closed, or has nothing under way: no SendMessage waits.  *)
Exits(p) == Quit(p, FALSE)

(* InitializePeerConnection; if it fails the client signs out.             *)
Starts(p, who, ok) ==
  IF ok THEN [p EXCEPT !.peer = who, !.sig = "stable"] ELSE Exits(p)

(* StartCall: the tracks are added, and an offer is asked for.             *)
StartCall(p, who, ok) ==
  IF ok THEN [Starts(p, who, ok) EXCEPT !.creating = "offer"] ELSE Exits(p)

(* A receiver waits to be called.                                          *)
OnPeerConnected(p, who, ok) ==
  IF p.role = "sender" /\ p.peer = NoPeer THEN StartCall(p, who, ok) ELSE p

(* Mutants: the departure of the peer is only logged; the receiver waits   *)
(* for another call.                                                       *)
LogsDeparture(p, who, waits) == p

WaitsForAnother(p, who, waits) ==
  IF who # p.peer THEN p
  ELSE IF p.role = "sender" THEN Quit(p, waits) ELSE NewProgram("receiver", "on")

OnPeerDisconnected(p, who, waits) == IF who = p.peer THEN Quit(p, waits) ELSE p

(* SetRemoteDescription, which fails unless the signaling state allows it. *)
SetRemoteDescription(p, who, type) ==
  IF <<p.sig, type>> = <<"stable", "offer">>
  THEN [p EXCEPT !.sig = "have-remote-offer", !.remote = who]
  ELSE IF <<p.sig, type>> = <<"have-local-offer", "answer">>
  THEN [p EXCEPT !.sig = "stable", !.remote = who]
  ELSE p

(* Mutant: only offers are set.                                            *)
HandlesOffers(p, who, text) ==
  IF text = "offer" THEN [SetRemoteDescription(p, who, text) EXCEPT
                            !.creating = IF p.role = "receiver" THEN "answer" ELSE @]
  ELSE p

(* The parsed message: a candidate is added, a description is set, and the *)
(* receiver asks for the answer to an offer.  The farewell does not parse. *)
Handles(p, who, text) ==
  IF text = "offer" /\ p.role = "receiver"
  THEN [SetRemoteDescription(p, who, text) EXCEPT !.creating = "answer"]
  ELSE SetRemoteDescription(p, who, text)

(* Mutants: the receiver handles the messages of strangers, or takes the   *)
(* latest caller for its peer.                                             *)
OnMessageFromAnyone(p, who, text, ok) ==
  IF p.sig = "none"
  THEN IF ok THEN Handles(Starts(p, who, ok), who, text) ELSE Exits(p)
  ELSE Handles(p, who, text)

OnMessageFromLatest(p, who, text, ok) ==
  IF p.sig = "none"
  THEN IF ok THEN Handles(Starts(p, who, ok), who, text) ELSE Exits(p)
  ELSE Handles([p EXCEPT !.peer = IF p.role = "receiver" THEN who ELSE @], who, text)

(* The receiver turns strangers away, the sender asserts that there are    *)
(* none (webrtc_sender/main.cc:190).                                       *)
OnMessageFromPeer(p, who, text, ok) ==
  IF p.sig = "none"
  THEN IF ok THEN Handles(Starts(p, who, ok), who, text) ELSE Exits(p)
  ELSE IF p.role = "receiver" /\ who # p.peer THEN p
  ELSE Handles(p, who, text)

(* OnSuccess: the local description is set, or fails to be, and is sent;   *)
(* once set it makes WebRTC gather a candidate.                            *)
OnSuccess(p) ==
  LET set == \/ p.creating = "offer" /\ p.sig = "stable"
             \/ p.creating = "answer" /\ p.sig = "have-remote-offer"
  IN [p EXCEPT
        !.sig = IF ~set THEN @ ELSE IF p.creating = "offer" THEN "have-local-offer"
                                    ELSE "stable",
        !.outbox = @ \o IF set THEN <<p.creating, "candidate">> ELSE <<p.creating>>,
        !.creating = "none"]

(* What the client makes of a response; the farewell comes from peer -1.   *)
Hears(p, m, e, ok, waits) ==
  CASE e.kind = "welcome" -> IF e.who = {m} THEN p
                             ELSE OnPeerConnected(p, Min(e.who \ {m}), ok)
    [] e.kind = "joined"  -> OnPeerConnected(p, Min(e.who), ok)
    [] e.kind = "left"    -> OnPeerDisconnected(p, Min(e.who), waits)
    [] e.kind = "mail"    -> OnMessageFromPeer(p, Min(e.who), e.text, ok)
    [] e.kind = "closing" -> OnMessageFromPeer(p, NoPeer, e.text, ok)

-----------------------------------------------------------------------------
(* The channel.                                                            *)

(* Mutant: the next poll does not wait for the response to be read.        *)
PollsAhead(m) == On(m)'

(* A program that runs and has read what it was sent has its poll parked at*)
(* the server, which answers it as soon as there is something: a poll that *)
(* is on its way comes to the same as reading late.                        *)
Polls(m) == On(m)' /\ inbox[m] = <<>>

Delivers(gone) ==
  /\ \A m \in People \ gone :
       IF handed'[m] # handed[m] THEN Polls(m)
       ELSE ~(Polls(m) /\ m \in Room!Drained /\ posted'[m] # posted[m])
  /\ inbox' = [m \in People |-> IF m \in gone THEN <<>> ELSE
       inbox[m] \o SubSeq(handed'[m], Len(handed[m]) + 1, Len(handed'[m]))]

Running(role) == {m \in People : On(m) /\ prog[m].role = role}

(* The program is started and signs in.                                    *)
SignsIn(m) ==
  /\ up /\ prog[m].state = "off"
  /\ \A k \in People : k < m => prog[k].state # "off"
  /\ \E role \in {"sender", "receiver"} :
       /\ role = "sender" => Cardinality(Running(role)) < Rivals
       /\ prog' = [prog EXCEPT ![m] = NewProgram(role, "on")]
  /\ Room!Join(m) /\ Delivers({})
  /\ UNCHANGED <<up, sink>>

(* The server evicts a silent member, or it has signed out.  What it sends *)
(* to one that spins nobody reads: it counts as left in the mailbox.       *)
Evicted(m) ==
  /\ up /\ prog[m].state \in {"over", "spinning"}
  /\ UNCHANGED <<up, prog, sink>>
  /\ Room!Leave(m) /\ Delivers({m})

PollAnswered(m) ==
  /\ up /\ UNCHANGED <<up, prog, sink>>
  /\ Room!Take(m) /\ Delivers({})

(* A browser stops the server: those whose poll is parked are told.        *)
ShutsDown ==
  /\ up /\ up' = FALSE
  /\ Room!Dismiss
  /\ \E parked \in SUBSET {m \in Room!Drained : On(m) /\ inbox[m] = <<>>} :
       inbox' = [m \in People |-> IF m \in parked THEN <<Farewell>> ELSE inbox[m]]
  /\ UNCHANGED <<prog, sink>>

-----------------------------------------------------------------------------
(* The programs.                                                           *)

(* Whether a call of SendMessage may be waiting for its turn.              *)
Waits(m) == {waits \in BOOLEAN : waits => prog[m].outbox # <<>>}

Reads(m) ==
  /\ On(m) /\ inbox[m] # <<>>
  /\ inbox' = [inbox EXCEPT ![m] = Tail(@)]
  /\ \E ok \in BOOLEAN, waits \in Waits(m) :
       prog' = [prog EXCEPT ![m] = Hears(@, m, Head(inbox[m]), ok, waits)]
  /\ UNCHANGED <<roomVars, up, sink>>

Describes(m) ==
  /\ On(m) /\ prog[m].creating # "none"
  /\ prog' = [prog EXCEPT ![m] = OnSuccess(@)]
  /\ UNCHANGED <<roomVars, up, inbox, sink>>

(* SendToPeer: the server answers 500 if the peer has left, upon which the *)
(* client closes, what it was sent is lost, and the program ends.          *)
Speaks(m) ==
  /\ On(m) /\ up /\ prog[m].outbox # <<>>
  /\ \/ /\ prog[m].peer \in room
        /\ prog' = [prog EXCEPT ![m].outbox = Tail(@)]
        /\ Room!SendText(m, prog[m].peer, Head(prog[m].outbox)) /\ Delivers({})
     \/ /\ prog[m].peer \notin room
        /\ prog' = [prog EXCEPT ![m] = Exits(@)]
        /\ inbox' = [inbox EXCEPT ![m] = <<>>] /\ UNCHANGED roomVars
  /\ UNCHANGED <<up, sink>>

(* The user interrupts it, or its ICE connection ends: it reads no more of *)
(* what it was sent.                                                       *)
Stops(m) ==
  /\ On(m)
  /\ \E waits \in Waits(m) : prog' = [prog EXCEPT ![m] = Quit(@, waits)]
  /\ inbox' = [inbox EXCEPT ![m] = <<>>]
  /\ UNCHANGED <<roomVars, up, sink>>

(* The next poll is refused: OnDisconnected.                               *)
Disconnects(m) ==
  /\ On(m) /\ ~up /\ inbox[m] = <<>>
  /\ prog' = [prog EXCEPT ![m] = Exits(@)]
  /\ UNCHANGED <<roomVars, up, inbox, sink>>

(* The descriptions of both ends are set.                                  *)
InCall(s, r) ==
  /\ On(s) /\ prog[s].sig = "stable" /\ prog[s].remote = r
  /\ On(r) /\ prog[r].sig = "stable" /\ prog[r].remote = s

(* OnAddTrack has registered the sink; the sender keeps its resolution.    *)
Streams(s, r) ==
  /\ prog[s].role = "sender" /\ prog[r].role = "receiver" /\ InCall(s, r)
  /\ Len(sink[r].frames) < MaxFrames
  /\ sink' = [sink EXCEPT ![r] = OnFrame(@, Size[s])]
  /\ UNCHANGED <<roomVars, up, inbox, prog>>

Over == ~up /\ (\A m \in People : ~On(m)) /\ UNCHANGED vars

Progress ==
  \E m \in People :
    \/ (prog[m].state = "over" /\ Evicted(m)) \/ PollAnswered(m)
    \/ Reads(m) \/ Describes(m) \/ Speaks(m) \/ Disconnects(m)

Next ==
  \/ Progress \/ ShutsDown \/ Over
  \/ \E m \in People : SignsIn(m) \/ Stops(m) \/ Evicted(m)
  \/ \E s, r \in People : Streams(s, r)

Spec == Init /\ [][Next]_vars

(* The threads run, the server answers polls and requests and takes those  *)
(* who do not poll for silent after 30 seconds.  The poll of one that spins*)
(* may be parked for ever.  Nobody is kept waiting by others for ever, as  *)
(* each has finitely much to say.                                          *)
FairSpec == Spec /\ WF_vars(Progress)

-----------------------------------------------------------------------------
(* Properties.                                                             *)

(* Every frame of a file has the size that its header announces, which is  *)
(* written once (receiver_sink.cc:73): nobody but the one sender whose     *)
(* offer the receiver took first gets frames into it, whoever else calls.  *)
FileConsistent ==
  \A r \in People : \A i \in DOMAIN sink[r].frames :
    sink[r].frames[i] = Payload(sink[r].header)

(* A sender that holds the answer of a receiver is the one whose offer the *)
(* receiver holds, as long as both run: no answer meant for another sender *)
(* reaches it, and no receiver talks to two.                               *)
AnswersAgree ==
  \A s \in Running("sender"), r \in Running("receiver") :
    prog[s].remote = r => prog[r].remote = s /\ prog[r].sig = "stable"

(* AddIceCandidate fails before the remote description is set, and the     *)
(* programs drop the candidate then (webrtc_receiver/main.cc:164): between *)
(* a sender and a receiver none comes early.                               *)
Speaker(m) == Min(Head(inbox[m]).who)

CandidateInTime ==
  \A m \in People :
    /\ On(m) /\ inbox[m] # <<>> /\ Head(inbox[m]).text = "candidate"
    /\ prog[m].role # prog[Speaker(m)].role
    => prog[m].peer \notin {NoPeer, Speaker(m)} \/ prog[m].remote # NoPeer

(* In the end no sender waits for a receiver: its call has been answered,  *)
(* unless one of them ended, the receiver talks to another or a rival's    *)
(* offer came between the sender's call and its offer.                     *)
Concluded(s, r) ==
  prog[s].remote # NoPeer \/ prog[r].peer \notin {NoPeer, s}

CallsConclude ==
  <>[](\A s \in Running("sender"), r \in Running("receiver") :
         prog[s].peer = r => Concluded(s, r))

(* In the end no program runs whose peer has ended, in whatever way: it is *)
(* told, by the eviction's notice, by a refused message or by the loss of  *)
(* the server (webrtc_sender/main.cc:183), and quits.  That its process    *)
(* then ends is another matter: one that is told while SendMessage waits   *)
(* spins.                                                                  *)
PeerGoneTold ==
  <>[](\A m, k \in People : On(m) /\ prog[m].peer = k => prog[k].state # "over")

(* A sender with a peer hears no one else                                  *)
(* (RTC_DCHECK(peer_id_ == peer_id || peer_id_ == -1),                     *)
(* webrtc_sender/main.cc:190).                                             *)
OnlyPeerSpeaks ==
  \A m \in Running("sender") :
    inbox[m] # <<>> /\ Head(inbox[m]).kind \in {"mail", "closing"}
      => prog[m].peer = NoPeer \/ Head(inbox[m]).who = {prog[m].peer}
=============================================================================
