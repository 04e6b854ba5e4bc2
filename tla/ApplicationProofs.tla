------------------------- MODULE ApplicationProofs --------------------------
(***************************************************************************)
(* Theorems about Application, for any number of candidates.               *)
(***************************************************************************)
EXTENDS Application, FiniteSetTheorems, TLAPS

(* Until the description is set nothing has been sent, nothing waits and   *)
(* the connected client is not sending; the description alone may be       *)
(* posted, to a call that is up.  From then on it is the first sent.       *)
BeforeDescription ==
  ~described =>
    /\ sent = <<>> /\ stack = <<>>
    /\ connected => ~busy
    /\ tasks = <<>> \/ (tasks = <<Description>> /\ connected /\ peer)

AfterDescription == described => sent # <<>> /\ sent[1] = Description

CallInv == TypeOK /\ BeforeDescription /\ AfterDescription

LEMMA SendToPeerFacts ==
  ASSUME TypeOK, NEW m \in Messages, SendToPeer(m)
  PROVE  /\ sent' \in Seq(Messages) /\ busy' \in BOOLEAN
         /\ sent # <<>> => sent' # <<>> /\ sent'[1] = sent[1]
         /\ sent = <<>> /\ connected /\ peer => sent' = <<m>>
<1>1. CASE connected /\ peer
  <2>1. sent' = Append(sent, m) /\ busy' = TRUE
    BY <1>1 DEF SendToPeer
  <2>2. sent \in Seq(Messages)
    BY DEF TypeOK
  <2>3. sent = <<>> => Append(sent, m) = <<m>>
    OBVIOUS
  <2>4. sent # <<>> => Append(sent, m)[1] = sent[1] /\ Append(sent, m) # <<>>
    BY <2>2
  <2> QED
    BY <2>1, <2>2, <2>3, <2>4
<1>2. CASE ~(connected /\ peer)
  BY <1>2 DEF SendToPeer, TypeOK
<1> QED
  BY <1>1, <1>2

LEMMA SendMessageFacts ==
  ASSUME TypeOK, NEW m \in Messages, SendMessage(m)
  PROVE  /\ sent' \in Seq(Messages) /\ busy' \in BOOLEAN /\ stack' \in Seq(Messages)
         /\ sent # <<>> => sent' # <<>> /\ sent'[1] = sent[1]
         /\ sent = <<>> /\ connected /\ peer /\ ~busy => sent' = <<m>>
<1>1. CASE peer /\ IsSendingMessage
  <2>1. stack' = Append(stack, m) /\ UNCHANGED <<sent, busy>>
    BY <1>1 DEF SendMessage
  <2> QED
    BY <1>1, <2>1 DEF TypeOK, IsSendingMessage
<1>2. CASE peer /\ ~IsSendingMessage
  <2>1. SendToPeer(m) /\ UNCHANGED stack
    BY <1>2 DEF SendMessage
  <2> QED
    BY <2>1, SendToPeerFacts DEF TypeOK
<1>3. CASE ~peer
  <2>1. UNCHANGED <<sent, busy, stack>>
    BY <1>3 DEF SendMessage
  <2> QED
    BY <1>3, <2>1 DEF TypeOK
<1> QED
  BY <1>1, <1>2, <1>3

LEMMA DescriptionIsMessage == Description \in Messages /\ 0 \in 0 .. Candidates
BY ApplicationAssumption DEF Description, Messages

LEMMA CallInit == Init => CallInv
<1> SUFFICES ASSUME Init
             PROVE  CallInv
  OBVIOUS
<1>1. gathered \in 0 .. Candidates
  BY DescriptionIsMessage DEF Init
<1>2. /\ tasks \in Seq(Tasks)
      /\ stack \in Seq(Messages) /\ sent \in Seq(Messages)
  BY DEF Init
<1>3. /\ connected \in BOOLEAN /\ busy \in BOOLEAN /\ peer \in BOOLEAN
      /\ described \in BOOLEAN /\ interrupted \in BOOLEAN
      /\ quitting \in BOOLEAN /\ ended \in BOOLEAN
  BY DEF Init
<1>4. polling \in BOOLEAN /\ queries \in Nat /\ reports \in Nat
  BY DEF Init
<1>5. TypeOK
  BY <1>1, <1>2, <1>3, <1>4 DEF TypeOK
<1> QED
  BY <1>5 DEF Init, CallInv, BeforeDescription, AfterDescription

LEMMA RunsTaskInv ==
  ASSUME CallInv, RunsTask
  PROVE  CallInv'
<1>1. tasks \in Seq(Tasks) /\ tasks # <<>> /\ tasks' = Tail(tasks)
  BY DEF CallInv, TypeOK, RunsTask
<1>2. tasks' \in Seq(Tasks)
  BY <1>1
<1>3. CASE Head(tasks) \in Messages /\ SendMessage(Head(tasks))
  <2> DEFINE m == Head(tasks)
  <2>1. /\ sent' \in Seq(Messages) /\ busy' \in BOOLEAN /\ stack' \in Seq(Messages)
        /\ sent # <<>> => sent' # <<>> /\ sent'[1] = sent[1]
        /\ sent = <<>> /\ connected /\ peer /\ ~busy => sent' = <<m>>
    BY <1>3, SendMessageFacts DEF CallInv
  <2>2. Head(tasks) \notin {IceUp, IceGone}
    BY <1>3, ApplicationAssumption DEF Messages
  <2>3. /\ described' = (described \/ (peer /\ m = Description))
        /\ UNCHANGED <<peer, statsVars, quitting, connected, gathered, interrupted, ended>>
    BY <2>2 DEF RunsTask
  <2>4. TypeOK'
    BY <1>2, <2>1, <2>3 DEF CallInv, TypeOK, statsVars
  <2>5. CASE described
    BY <2>1, <2>3, <2>4, <2>5 DEF CallInv, BeforeDescription, AfterDescription
  <2>6. CASE ~described
    <3>1. tasks = <<Description>> /\ connected /\ peer /\ ~busy /\ sent = <<>>
      BY <1>1, <2>6 DEF CallInv, BeforeDescription
    <3>2. m = Description
      BY <3>1
    <3>3. sent' = <<Description>> /\ described'
      BY <2>1, <2>3, <3>1, <3>2
    <3> QED
      BY <2>4, <3>3 DEF CallInv, BeforeDescription, AfterDescription
  <2> QED
    BY <2>5, <2>6
<1>4. CASE Head(tasks) \in {IceUp, IceGone}
  <2>1. Head(tasks) \notin Messages
    BY <1>4, ApplicationAssumption DEF Messages
  <2>2. /\ peer' \in BOOLEAN /\ quitting' \in BOOLEAN
        /\ polling' \in BOOLEAN /\ queries' \in Nat /\ reports' \in Nat
        /\ UNCHANGED <<described, stack, sent, busy, connected, gathered, interrupted, ended>>
    <3>1. CASE Head(tasks) = IceUp
      <4>1. /\ IF peer THEN StartStatsPolling ELSE UNCHANGED statsVars
            /\ UNCHANGED <<peer, described, stack, sent, busy, quitting,
                           connected, gathered, interrupted, ended>>
        BY <2>1, <3>1, ApplicationAssumption DEF RunsTask
      <4>2. polling' \in BOOLEAN /\ queries' \in Nat /\ reports' \in Nat
        <5>1. CASE peer
          <6>1. polling' = TRUE /\ queries' \in {queries, queries + 1} /\ reports' = reports
            BY <4>1, <5>1 DEF StartStatsPolling
          <6> QED BY <6>1 DEF CallInv, TypeOK
        <5>2. CASE ~peer
          BY <4>1, <5>2 DEF statsVars, CallInv, TypeOK
        <5> QED BY <5>1, <5>2
      <4> QED BY <4>1, <4>2 DEF CallInv, TypeOK
    <3>2. CASE Head(tasks) = IceGone
      BY <2>1, <3>2, ApplicationAssumption
         DEF RunsTask, DeletePeerConnection, statsVars, CallInv, TypeOK
    <3> QED BY <1>4, <3>1, <3>2
  <2>3. TypeOK'
    BY <1>2, <2>2 DEF CallInv, TypeOK
  <2>4. described
    <3>1. <<Description>> # <<>> /\ Head(<<Description>>) = Description /\ Description \in Messages
      BY ApplicationAssumption DEF Description, Messages
    <3> QED
      BY <1>1, <2>1, <3>1 DEF CallInv, BeforeDescription
  <2> QED
    BY <2>2, <2>3, <2>4 DEF CallInv, BeforeDescription, AfterDescription
<1> QED
  BY <1>3, <1>4 DEF RunsTask

LEMMA ReturnsInv ==
  ASSUME CallInv, Returns
  PROVE  CallInv'
<1>1. stack \in Seq(Messages) /\ stack # <<>> /\ described
  BY DEF CallInv, TypeOK, BeforeDescription, Returns
<1>2. Last(stack) \in Messages /\ Front(stack) \in Seq(Messages)
  BY <1>1 DEF Last, Front
<1>3. sent' \in Seq(Messages) /\ busy' \in BOOLEAN /\ sent' # <<>> /\ sent'[1] = sent[1]
  BY <1>1, <1>2, SendToPeerFacts DEF CallInv, AfterDescription, Returns
<1>4. stack' \in Seq(Messages) /\ described' = described /\ UNCHANGED <<callVars, statsVars, connected, tasks, loopVars>>
  BY <1>2 DEF Returns, callVars
<1>5. TypeOK'
  BY <1>3, <1>4 DEF CallInv, TypeOK, callVars, statsVars, loopVars
<1> QED
  BY <1>1, <1>3, <1>4, <1>5 DEF CallInv, BeforeDescription, AfterDescription

LEMMA PostedType ==
  ASSUME TypeOK, NEW t \in Tasks
  PROVE  Append(tasks, t) \in Seq(Tasks)
BY DEF TypeOK

LEMMA CallNext == CallInv /\ [Next]_vars => CallInv'
<1> SUFFICES ASSUME CallInv, [Next]_vars
             PROVE  CallInv'
  OBVIOUS
<1> USE DEF CallInv, BeforeDescription, AfterDescription
<1>1. CASE RunsTask
  BY <1>1, RunsTaskInv
<1>2. CASE Returns
  BY <1>2, ReturnsInv
<1>3. CASE Ends
  BY <1>3 DEF Ends, TypeOK, callVars, statsVars
<1>4. CASE SeesInterrupt
  BY <1>4 DEF SeesInterrupt, TypeOK, callVars, statsVars
<1>5. CASE ControlCloses
  BY <1>5 DEF ControlCloses, TypeOK, callVars, statsVars, loopVars
<1>6. CASE CallBegins
  <2>1. tasks = <<>> /\ Append(tasks, Description) = <<Description>>
    BY <1>6 DEF CallBegins, ProcessesIo, Waiting
  <2>2. tasks' \in Seq(Tasks)
    BY <1>6, PostedType, DescriptionIsMessage DEF CallBegins, TypeOK, Tasks
  <2>3. TypeOK'
    BY <1>6, <2>2 DEF CallBegins, TypeOK, statsVars, loopVars
  <2>4. BeforeDescription'
    BY <1>6, <2>1 DEF CallBegins
  <2>5. AfterDescription'
    BY <1>6 DEF CallBegins
  <2> QED
    BY <2>3, <2>4, <2>5
<1>7. CASE PeerLeaves
  BY <1>7 DEF PeerLeaves, DeletePeerConnection, ProcessesIo, Waiting, TypeOK
<1>8. CASE Disconnects
  BY <1>8 DEF Disconnects, DeletePeerConnection, ProcessesIo, Waiting, TypeOK
<1>9. CASE Gathers
  <2>1. gathered' \in 0 .. Candidates /\ gathered' \in Messages
    BY <1>9, ApplicationAssumption DEF Gathers, TypeOK, Messages
  <2>2. tasks' \in Seq(Tasks)
    BY <1>9, <2>1, PostedType DEF Gathers, Tasks
  <2> QED
    BY <1>9, <2>1, <2>2 DEF Gathers, TypeOK, statsVars, loopVars
<1>10. CASE IceChanges
  <2>1. tasks' \in Seq(Tasks)
    BY <1>10, PostedType DEF IceChanges, Tasks
  <2> QED
    BY <1>10, <2>1 DEF IceChanges, TypeOK, callVars, statsVars, loopVars
<1>11. CASE Interrupt
  BY <1>11 DEF Interrupt, TypeOK, callVars, statsVars
<1>12. CASE Spins \/ Over \/ UNCHANGED vars
  BY <1>12 DEF Spins, Over, vars, callVars, statsVars, loopVars, TypeOK
<1>13. CASE QueryStats \/ OnStatsDelivered
  BY <1>13 DEF QueryStats, OnStatsDelivered, TypeOK, callVars, loopVars
<1> QED
  BY <1>1, <1>2, <1>3, <1>4, <1>5, <1>6, <1>7, <1>8, <1>9, <1>10, <1>11, <1>12, <1>13 DEF Next

(* The state of the program is well typed, however deep the loops nest.    *)
THEOREM CallTypeCorrect == Spec => []TypeOK
<1>1. CallInv => TypeOK
  BY DEF CallInv
<1> QED
  BY <1>1, CallInit, CallNext, PTL DEF Spec

(* The description is the first message sent, for any number of candidates *)
(* and any depth of nested loops.                                          *)
THEOREM DescriptionSentFirst == Spec => []DescriptionFirst
<1>1. CallInv => DescriptionFirst
  BY DEF CallInv, BeforeDescription, AfterDescription, DescriptionFirst
<1> QED
  BY <1>1, CallInit, CallNext, PTL DEF Spec

(* The client is given one message at a time: nothing is sent while its    *)
(* control socket is busy.                                                 *)
THEOREM OneAtATime == Spec => OneRequestAtATime
<1>1. CallInv /\ [Next]_vars => [sent' # sent => ~busy]_vars
  <2> SUFFICES ASSUME CallInv, Next, sent' # sent
               PROVE  ~busy
    OBVIOUS
  <2>1. CASE RunsTask \/ Returns
    BY <2>1 DEF RunsTask, Returns, SendMessage, SendToPeer, IsSendingMessage,
                CallInv, TypeOK
  <2>2. CASE ~(RunsTask \/ Returns)
    BY <2>2 DEF Next, Ends, Spins, SeesInterrupt, ControlCloses, CallBegins, PeerLeaves,
                Disconnects, Gathers, IceChanges, QueryStats, OnStatsDelivered,
                Interrupt, Over, vars
  <2> QED
    BY <2>1, <2>2
<1> QED
  BY <1>1, CallInit, CallNext, PTL DEF Spec, OneRequestAtATime

(* A chain that is left over while nothing polls belongs to a call that is *)
(* over, and a thread that has quit begins no other.                       *)
ChainInv ==
  /\ TypeOK /\ OneStatsChain
  /\ polling => peer
  /\ queries + reports = 1 /\ ~polling => quitting /\ ~peer

LEMMA ChainInit == Init => ChainInv
BY CallInit DEF CallInv, Init, ChainInv, OneStatsChain

LEMMA ChainNext == CallInv /\ ChainInv /\ [Next]_vars => ChainInv'
<1> SUFFICES ASSUME CallInv, ChainInv, [Next]_vars
             PROVE  ChainInv'
  OBVIOUS
<1>1. TypeOK'
  BY CallNext DEF CallInv
<1> USE DEF ChainInv, OneStatsChain, TypeOK, statsVars, callVars, loopVars
<1>2. CASE RunsTask
  <2>1. CASE UNCHANGED <<peer, statsVars, quitting>>
    BY <1>1, <2>1
  <2>2. CASE peer /\ StartStatsPolling /\ UNCHANGED <<peer, quitting>>
    <3>1. CASE polling
      BY <1>1, <2>2, <3>1 DEF StartStatsPolling
    <3>2. CASE ~polling
      <4>1. queries + reports = 0
        BY <2>2, <3>2
      <4> QED BY <1>1, <2>2, <3>2, <4>1 DEF StartStatsPolling
    <3> QED BY <3>1, <3>2
  <2>3. CASE DeletePeerConnection /\ quitting' = TRUE
    BY <1>1, <2>3 DEF DeletePeerConnection
  <2> QED BY <1>2, <2>1, <2>2, <2>3 DEF RunsTask
<1>3. CASE QueryStats
  BY <1>1, <1>3 DEF QueryStats
<1>4. CASE OnStatsDelivered
  BY <1>1, <1>4 DEF OnStatsDelivered
<1>5. CASE CallBegins
  BY <1>1, <1>5 DEF CallBegins, ProcessesIo, Waiting
<1>6. CASE PeerLeaves \/ Disconnects
  BY <1>1, <1>6 DEF PeerLeaves, Disconnects, DeletePeerConnection
<1>7. CASE \/ Returns \/ Spins \/ Ends \/ SeesInterrupt \/ ControlCloses
           \/ Gathers \/ IceChanges \/ Interrupt \/ Over \/ UNCHANGED vars
  <2>1. UNCHANGED <<peer, polling, queries, reports>> /\ (quitting => quitting')
    BY <1>7 DEF Returns, Spins, Ends, SeesInterrupt, ControlCloses, Gathers, IceChanges,
                Interrupt, Over, vars
  <2>2. quitting' \in BOOLEAN
    BY <1>1
  <2>3. OneStatsChain'
    BY <2>1
  <2>4. queries' + reports' = 1 /\ ~polling' => quitting' /\ ~peer'
    BY <2>1
  <2> QED BY <1>1, <2>1, <2>3, <2>4
<1> QED
  BY <1>2, <1>3, <1>4, <1>5, <1>6, <1>7 DEF Next

(* The statistics are queried by one chain of tasks, whatever the ICE      *)
(* connection, the peer and the loops do.                                  *)
THEOREM StatsChainCorrect == Spec => []OneStatsChain
<1>1. ChainInv => OneStatsChain
  BY DEF ChainInv
<1> QED
  BY <1>1, CallInit, CallNext, ChainInit, ChainNext, PTL DEF Spec
-----------------------------------------------------------------------------
(* Candidates.  How often one occurs in a sequence that grows or shrinks.  *)

LEMMA TimesType ==
  ASSUME NEW S, NEW s \in Seq(S), NEW m
  PROVE  IsFiniteSet({p \in DOMAIN s : s[p] = m}) /\ Times(m, s) \in Nat
<1>1. {p \in DOMAIN s : s[p] = m} \in SUBSET (1 .. Len(s)) /\ IsFiniteSet(1 .. Len(s))
  BY FS_Interval
<1> QED BY <1>1, FS_Subset, FS_CardinalityType DEF Times

LEMMA TimesAppend ==
  ASSUME NEW S, NEW s \in Seq(S), NEW x \in S, NEW m
  PROVE  Times(m, Append(s, x)) = Times(m, s) + IF x = m THEN 1 ELSE 0
<1> DEFINE t == Append(s, x)
           Old == {p \in DOMAIN s : s[p] = m}
           New == {p \in DOMAIN t : t[p] = m}
<1>1. /\ DOMAIN s = 1 .. Len(s) /\ DOMAIN t = 1 .. Len(s) + 1 /\ Len(s) \in Nat
      /\ t[Len(s) + 1] = x /\ \A p \in 1 .. Len(s) : t[p] = s[p]
  OBVIOUS
<1>2. /\ Len(s) + 1 \notin Old
      /\ New = IF x = m THEN Old \cup {Len(s) + 1} ELSE Old
  <2> HIDE DEF t
  <2> QED BY <1>1
<1>3. IsFiniteSet(Old) /\ Cardinality(Old) \in Nat
  BY TimesType DEF Times
<1> HIDE DEF Old, New, t
<1>4. Cardinality(New) = Cardinality(Old) + IF x = m THEN 1 ELSE 0
  <2> DEFINE n == Len(s) + 1
  <2>1. /\ n \notin Old
        /\ x = m => New = Old \cup {n}
        /\ x # m => New = Old
    BY <1>2
  <2> HIDE DEF n
  <2>2. Cardinality(Old \cup {n}) = Cardinality(Old) + 1
    BY <1>3, <2>1, FS_AddElement
  <2>3. CASE x = m
    BY <2>1, <2>2, <2>3
  <2>4. CASE x # m
    BY <1>3, <2>1, <2>4
  <2> QED BY <2>3, <2>4
<1> QED BY <1>4 DEF Times, Old, New, t

LEMMA TimesTail ==
  ASSUME NEW S, NEW s \in Seq(S), s # <<>>, NEW m
  PROVE  Times(m, s) = Times(m, Tail(s)) + IF Head(s) = m THEN 1 ELSE 0
<1> DEFINE t == Tail(s)
           Old == {p \in DOMAIN s : s[p] = m}
           New == {p \in DOMAIN t : t[p] = m}
           f == [p \in New |-> p + 1]
<1>1. /\ DOMAIN s = 1 .. Len(s) /\ DOMAIN t = 1 .. Len(s) - 1 /\ Len(s) \in Nat \ {0}
      /\ s[1] = Head(s) /\ \A p \in 1 .. Len(s) - 1 : t[p] = s[p + 1]
      /\ t \in Seq(S)
  OBVIOUS
<1> HIDE DEF t
<1>2. f \in Bijection(New, Old \ {1})
  <2>1. ASSUME NEW p \in New PROVE f[p] \in Old \ {1}
    BY <1>1
  <2>2. \A p, q \in New : f[p] = f[q] => p = q
    BY <1>1
  <2>3. ASSUME NEW q \in Old \ {1} PROVE \E p \in New : f[p] = q
    <3>1. q - 1 \in 1 .. Len(s) - 1 /\ (q - 1) + 1 = q
      BY <1>1
    <3>2. q - 1 \in New
      BY <1>1, <3>1
    <3> QED BY <3>1, <3>2
  <2>4. f \in [New -> Old \ {1}]
    BY <2>1
  <2> HIDE DEF Old, New, f
  <2> QED BY <2>2, <2>3, <2>4 DEF Bijection, Injection, Surjection, IsInjective
<1>3. IsFiniteSet(New) /\ IsFiniteSet(Old) /\ Cardinality(Old) \in Nat
      /\ Cardinality(New) \in Nat
  BY <1>1, TimesType DEF Times
<1>4. 1 \in Old <=> Head(s) = m
  BY <1>1
<1> HIDE DEF Old, New, f
<1>5. Cardinality(Old \ {1}) = Cardinality(New)
  BY <1>2, <1>3, FS_Bijection DEF ExistsBijection
<1>6. Cardinality(Old) = Cardinality(New) + IF Head(s) = m THEN 1 ELSE 0
  <2>1. Cardinality(Old \ {1}) =
          IF 1 \in Old THEN Cardinality(Old) - 1 ELSE Cardinality(Old)
    BY <1>3, FS_RemoveElement
  <2> QED BY <1>3, <1>4, <1>5, <2>1
<1> QED BY <1>6 DEF Times, Old, New, t

LEMMA TimesFront ==
  ASSUME NEW S, NEW s \in Seq(S), s # <<>>, NEW m
  PROVE  /\ Front(s) \in Seq(S) /\ Last(s) \in S
         /\ Times(m, s) = Times(m, Front(s)) + IF Last(s) = m THEN 1 ELSE 0
<1>1. Front(s) \in Seq(S) /\ Last(s) \in S /\ s = Append(Front(s), Last(s))
  BY DEF Front, Last
<1>2. Times(m, Append(Front(s), Last(s)))
        = Times(m, Front(s)) + IF Last(s) = m THEN 1 ELSE 0
  BY <1>1, TimesAppend
<1> QED BY <1>1, <1>2

LEMMA TimesEmpty == \A m : Times(m, <<>>) = 0
<1>1. \A m : {p \in DOMAIN <<>> : <<>>[p] = m} = {}
  OBVIOUS
<1> QED BY <1>1, FS_EmptySet DEF Times
(* A candidate that WebRTC has posted is in one place, one that it has not *)
(* posted is nowhere; before the call begins none is anywhere.             *)
Count(m) == Times(m, tasks) + Times(m, stack) + Times(m, sent)

OnceInv ==
  /\ connected /\ peer => \A m \in 1 .. Candidates :
       Count(m) = IF m <= gathered THEN 1 ELSE 0
  /\ ~peer /\ ~quitting => gathered = 0 /\ \A m \in 1 .. Candidates : Count(m) = 0

LEMMA CountType ==
  ASSUME TypeOK, NEW m
  PROVE  Times(m, tasks) \in Nat /\ Times(m, stack) \in Nat /\ Times(m, sent) \in Nat
BY TimesType DEF TypeOK

LEMMA RunsTaskOnce ==
  ASSUME CallInv, OnceInv, RunsTask
  PROVE  OnceInv'
<1>a. /\ tasks \in Seq(Tasks) /\ tasks # <<>> /\ tasks' = Tail(tasks)
      /\ stack \in Seq(Messages) /\ sent \in Seq(Messages)
      /\ UNCHANGED <<connected, gathered>>
  BY DEF CallInv, TypeOK, RunsTask
<1>1. CASE Head(tasks) \in Messages /\ SendMessage(Head(tasks))
  <2> DEFINE t == Head(tasks)
  <2>1. UNCHANGED <<peer, quitting>>
    <3>1. Head(tasks) \notin {IceUp, IceGone}
      BY <1>1, ApplicationAssumption DEF Messages
    <3> QED BY <3>1 DEF RunsTask
  <2>2. ASSUME NEW m \in 1 .. Candidates, peer => connected
        PROVE  Count(m)' = IF peer THEN Count(m)
                                   ELSE Count(m) - IF t = m THEN 1 ELSE 0
    <3>1. Times(m, tasks) = Times(m, tasks') + IF t = m THEN 1 ELSE 0
      BY <1>a, TimesTail
    <3>2. Times(m, tasks') \in Nat /\ Times(m, stack) \in Nat /\ Times(m, sent) \in Nat
      <4>1. tasks' \in Seq(Tasks)
        BY <1>a
      <4> QED BY <1>a, <4>1, TimesType
    <3>3. Times(m, Append(stack, t)) = Times(m, stack) + IF t = m THEN 1 ELSE 0
      BY <1>1, <1>a, TimesAppend
    <3>4. Times(m, Append(sent, t)) = Times(m, sent) + IF t = m THEN 1 ELSE 0
      BY <1>1, <1>a, TimesAppend
    <3> HIDE DEF t
    <3>5. CASE peer /\ stack' = Append(stack, t) /\ sent' = sent
      BY <3>1, <3>2, <3>3, <3>5 DEF Count
    <3>6. CASE peer /\ sent' = Append(sent, t) /\ stack' = stack
      BY <3>1, <3>2, <3>4, <3>6 DEF Count
    <3>7. CASE ~peer /\ sent' = sent /\ stack' = stack
      BY <3>1, <3>2, <3>7 DEF Count
    <3> QED BY <1>1, <2>2, <3>5, <3>6, <3>7 DEF SendMessage, SendToPeer, t
  <2>3. CASE connected /\ peer
    BY <1>a, <2>1, <2>2, <2>3 DEF OnceInv
  <2>4. CASE ~peer /\ ~quitting
    <3>1. ASSUME NEW m \in 1 .. Candidates PROVE Count(m)' = 0
      <4>1. Count(m)' = Count(m) - IF t = m THEN 1 ELSE 0
        BY <2>2, <2>4
      <4>2. Count(m) = 0
        BY <2>4 DEF OnceInv
      <4>3. Count(m)' \in Nat
        <5>1. TypeOK'
          BY RunsTaskInv DEF CallInv
        <5>2. Times(m, tasks') \in Nat /\ Times(m, stack') \in Nat /\ Times(m, sent') \in Nat
          BY <5>1, TimesType DEF TypeOK
        <5> QED BY <5>2 DEF Count
      <4> DEFINE d == IF t = m THEN 1 ELSE 0
      <4>4. d \in {0, 1}
        OBVIOUS
      <4>5. Count(m)' = 0 - d
        BY <4>1, <4>2
      <4> HIDE DEF d
      <4> QED BY <4>3, <4>4, <4>5
    <3> QED BY <1>a, <2>1, <2>4, <3>1 DEF OnceInv
  <2>5. CASE ~(connected /\ peer) /\ ~(~peer /\ ~quitting)
    BY <1>a, <2>1, <2>5 DEF OnceInv
  <2> QED BY <2>3, <2>4, <2>5
<1>2. CASE Head(tasks) \in {IceUp, IceGone}
  <2>1. Head(tasks) \notin Messages
    BY <1>2, ApplicationAssumption DEF Messages
  <2>2. UNCHANGED <<stack, sent>> /\ (UNCHANGED <<peer, quitting>> \/ (~peer' /\ quitting'))
    BY <2>1 DEF RunsTask, DeletePeerConnection
  <2>3. ASSUME NEW m \in 1 .. Candidates PROVE Count(m)' = Count(m)
    <3>1. Times(m, tasks) = Times(m, tasks') + IF Head(tasks) = m THEN 1 ELSE 0
      BY <1>a, TimesTail
    <3>2. Head(tasks) # m
      BY <2>1, ApplicationAssumption DEF Messages
    <3>3. Times(m, tasks') \in Nat /\ Times(m, stack) \in Nat /\ Times(m, sent) \in Nat
      <4>1. tasks' \in Seq(Tasks)
        BY <1>a
      <4> QED BY <1>a, <4>1, TimesType
    <3> QED BY <2>2, <3>1, <3>2, <3>3 DEF Count
  <2> QED BY <1>a, <2>2, <2>3 DEF OnceInv
<1> QED BY <1>1, <1>2 DEF RunsTask

LEMMA ReturnsOnce ==
  ASSUME CallInv, OnceInv, Returns
  PROVE  OnceInv'
<1>a. /\ stack \in Seq(Messages) /\ sent \in Seq(Messages)
      /\ stack # <<>> /\ stack' = Front(stack) /\ SendToPeer(Last(stack))
      /\ UNCHANGED <<connected, peer, gathered, tasks, quitting>>
  BY DEF CallInv, TypeOK, Returns, callVars, loopVars
<1>b. described /\ Last(stack) \in Messages
  BY <1>a, TimesFront DEF CallInv, BeforeDescription
<1> DEFINE t == Last(stack)
<1>1. ASSUME NEW m \in 1 .. Candidates
      PROVE  Count(m)' = IF connected /\ peer THEN Count(m)
                                              ELSE Count(m) - IF t = m THEN 1 ELSE 0
  <2>1. Times(m, stack) = Times(m, stack') + IF t = m THEN 1 ELSE 0
    BY <1>a, TimesFront
  <2>2. /\ Times(m, stack') \in Nat /\ Times(m, tasks) \in Nat /\ Times(m, sent) \in Nat
    <3>1. stack' \in Seq(Messages) /\ tasks \in Seq(Tasks)
      BY <1>a, TimesFront DEF CallInv, TypeOK
    <3> QED BY <1>a, <3>1, TimesType
  <2>3. Times(m, Append(sent, t)) = Times(m, sent) + IF t = m THEN 1 ELSE 0
    BY <1>a, <1>b, TimesAppend
  <2> HIDE DEF t
  <2>4. CASE connected /\ peer /\ sent' = Append(sent, t)
    BY <1>a, <2>1, <2>2, <2>3, <2>4 DEF Count
  <2>5. CASE ~(connected /\ peer) /\ sent' = sent
    BY <1>a, <2>1, <2>2, <2>5 DEF Count
  <2> QED BY <1>a, <2>4, <2>5 DEF SendToPeer, t
<1>2. CASE connected /\ peer
  BY <1>a, <1>1, <1>2 DEF OnceInv
<1>3. CASE ~peer /\ ~quitting
  <2>1. ASSUME NEW m \in 1 .. Candidates PROVE Count(m)' = 0
    <3>1. Count(m)' = Count(m) - IF t = m THEN 1 ELSE 0
      BY <1>1, <1>3
    <3>2. Count(m) = 0
      BY <1>3 DEF OnceInv
    <3>3. Count(m)' \in Nat
      <4>1. TypeOK'
        BY ReturnsInv DEF CallInv
      <4>2. Times(m, tasks') \in Nat /\ Times(m, stack') \in Nat /\ Times(m, sent') \in Nat
        BY <4>1, TimesType DEF TypeOK
      <4> QED BY <4>2 DEF Count
    <3> DEFINE d == IF t = m THEN 1 ELSE 0
    <3>4. d \in {0, 1}
      OBVIOUS
    <3>5. Count(m)' = 0 - d
      BY <3>1, <3>2
    <3> HIDE DEF d
    <3> QED BY <3>3, <3>4, <3>5
  <2> QED BY <1>a, <1>3, <2>1 DEF OnceInv
<1>4. CASE ~(connected /\ peer) /\ ~(~peer /\ ~quitting)
  BY <1>a, <1>4 DEF OnceInv
<1> QED BY <1>2, <1>3, <1>4

LEMMA OnceNext == CallInv /\ OnceInv /\ [Next]_vars => OnceInv'
<1> SUFFICES ASSUME CallInv, OnceInv, [Next]_vars
             PROVE  OnceInv'
  OBVIOUS
<1>a. /\ tasks \in Seq(Tasks) /\ gathered \in 0 .. Candidates
      /\ \A m \in 1 .. Candidates : Times(m, tasks) \in Nat /\ Times(m, stack) \in Nat
                                    /\ Times(m, sent) \in Nat
  BY CountType DEF CallInv, TypeOK
(* One more task.                                                          *)
<1>b. ASSUME NEW t \in Tasks, tasks' = Append(tasks, t), UNCHANGED <<stack, sent>>,
             NEW m \in 1 .. Candidates
      PROVE  Count(m)' = Count(m) + IF t = m THEN 1 ELSE 0
  <2>1. Times(m, Append(tasks, t)) = Times(m, tasks) + IF t = m THEN 1 ELSE 0
    BY <1>a, TimesAppend
  <2> QED BY <1>a, <1>b, <2>1 DEF Count
<1>c. ASSUME UNCHANGED <<tasks, stack, sent, gathered>>,
             connected' => connected, peer' = peer \/ (~peer' /\ quitting'),
             quitting => quitting'
      PROVE  OnceInv'
  <2>1. \A m \in 1 .. Candidates : Count(m)' = Count(m)
    BY <1>c DEF Count
  <2> QED BY <1>c, <2>1 DEF OnceInv
<1>1. CASE RunsTask
  BY <1>1, RunsTaskOnce
<1>2. CASE Returns
  BY <1>2, ReturnsOnce
<1>3. CASE CallBegins
  <2>1. /\ ~peer /\ ~quitting /\ peer' /\ UNCHANGED <<gathered, stack, sent, quitting>>
        /\ \/ tasks' = Append(tasks, Description) /\ UNCHANGED <<connected, busy>>
           \/ ~connected'
    BY <1>3 DEF CallBegins, ProcessesIo, Waiting, loopVars
  <2>2. gathered = 0 /\ \A m \in 1 .. Candidates : Count(m) = 0
    BY <2>1 DEF OnceInv
  <2>3. CASE tasks' = Append(tasks, Description) /\ UNCHANGED connected
    <3>1. Description \in Tasks /\ \A m \in 1 .. Candidates : Description # m
      BY DescriptionIsMessage DEF Tasks, Description
    <3>2. \A m \in 1 .. Candidates : Count(m)' = 0
      <4>1. ASSUME NEW m \in 1 .. Candidates PROVE Count(m)' = 0
        <5>1. Count(m)' = Count(m) + IF Description = m THEN 1 ELSE 0
          BY <1>b, <2>1, <2>3, <3>1
        <5> QED BY <2>2, <3>1, <5>1
      <4> QED BY <4>1
    <3> QED BY <2>1, <2>2, <3>2 DEF OnceInv
  <2>4. CASE ~connected'
    BY <2>1, <2>4 DEF OnceInv
  <2> QED BY <2>1, <2>3, <2>4
<1>4. CASE Gathers
  <2>1. /\ gathered' = gathered + 1 /\ tasks' = Append(tasks, gathered')
        /\ peer /\ UNCHANGED <<connected, peer, stack, sent>>
        /\ gathered < Candidates
    BY <1>4 DEF Gathers
  <2>2. gathered' \in Tasks
    BY <1>a, <2>1, ApplicationAssumption DEF Tasks, Messages
  <2>3. ASSUME NEW m \in 1 .. Candidates, connected
        PROVE  Count(m)' = IF m <= gathered' THEN 1 ELSE 0
    <3>1. Count(m)' = Count(m) + IF gathered' = m THEN 1 ELSE 0
      BY <1>b, <2>1, <2>2
    <3>2. Count(m) = IF m <= gathered THEN 1 ELSE 0
      BY <2>1, <2>3 DEF OnceInv
    <3> QED BY <1>a, <2>1, <3>1, <3>2
  <2> QED BY <2>1, <2>3 DEF OnceInv
<1>5. CASE IceChanges
  <2>1. PICK t \in {IceUp, IceGone} : tasks' = Append(tasks, t)
    BY <1>5 DEF IceChanges
  <2>2. t \in Tasks /\ \A m \in 1 .. Candidates : t # m
    BY ApplicationAssumption DEF Tasks
  <2>3. UNCHANGED <<connected, peer, gathered, stack, sent, quitting>>
    BY <1>5 DEF IceChanges, callVars, loopVars
  <2>4. ASSUME NEW m \in 1 .. Candidates PROVE Count(m)' = Count(m)
    <3>1. Count(m)' = Count(m) + IF t = m THEN 1 ELSE 0
      BY <1>b, <2>1, <2>2, <2>3
    <3>2. Count(m) \in Nat
      BY <1>a DEF Count
    <3> QED BY <2>2, <3>1, <3>2
  <2> QED BY <2>3, <2>4 DEF OnceInv
<1>6. CASE \/ Spins \/ Ends \/ SeesInterrupt \/ QueryStats \/ OnStatsDelivered
           \/ ControlCloses \/ PeerLeaves \/ Disconnects \/ Interrupt \/ Over
           \/ UNCHANGED vars
  BY <1>6, <1>c DEF Spins, Ends, SeesInterrupt, QueryStats, OnStatsDelivered,
       ControlCloses, PeerLeaves, Disconnects, DeletePeerConnection, Interrupt,
       Over, vars, callVars, loopVars
<1> QED BY <1>1, <1>2, <1>3, <1>4, <1>5, <1>6 DEF Next

(* No return from a nested loop drops a candidate or sends it twice: while *)
(* the call is up each one is in one place, for any number of candidates   *)
(* and any depth of nesting.                                               *)
THEOREM CandidatesOnce == Spec => []EachCandidateOnce
<1>1. Init => OnceInv
  BY TimesEmpty DEF Init, OnceInv, Count
<1>2. CallInv /\ OnceInv => EachCandidateOnce
  <2> SUFFICES ASSUME CallInv, OnceInv, connected, peer, NEW m \in 1 .. gathered
               PROVE  Count(m) = 1
    BY DEF EachCandidateOnce, Count
  <2>1. m \in 1 .. Candidates /\ m <= gathered
    BY ApplicationAssumption DEF CallInv, TypeOK
  <2> QED BY <2>1 DEF OnceInv
<1> QED BY <1>1, <1>2, CallInit, CallNext, OnceNext, PTL DEF Spec
=============================================================================
