---------------------------- MODULE LeaverProofs -----------------------------
(***************************************************************************)
(* Every member that signed out and is still there is covered by a         *)
(* sign-out connection of its own whose close is yet to come, although one *)
(* pass of OnClosing may erase another leaver than the one that closes.    *)
(***************************************************************************)
EXTENDS ConnectionProofs, FiniteSetTheorems

Leavers == {m \in Members : ~member[m].connected}

(* The sign-out connections whose member is gone or leaving.  A connection *)
(* whose request named a member that did not exist when it was read is not *)
(* yet one of them: as a POST it may be acted on again when it does.       *)
Charged ==
  {c \in SignOutConns :
     req[c].peer <= lastId
     /\ (req[c].peer \in Members => ~member[req[c].peer].connected)}

(* A leaver stays only while a charged connection is open.  When c closes, *)
(* the first leaver the loop meets pays for it: before that all the members*)
(* it has passed are connected.                                            *)
LeaverInv ==
  /\ Cardinality(Leavers) <= Cardinality(Charged)
  /\ pc = "closing" => \A c \in Held, n \in DOMAIN sockets : At(c, n) =>
       \/ \A k \in DOMAIN members : k < j => member[members[k]].connected
       \/ Cardinality(Leavers) <= Cardinality(Charged \ {c})

-----------------------------------------------------------------------------
LEMMA ElementsFinite ==
  ASSUME NEW S, NEW s \in Seq(S)
  PROVE  IsFiniteSet(Elements(s))
<1>1. s \in Surjection(1 .. Len(s), Elements(s))
  BY DEF Surjection, Elements
<1>2. IsFiniteSet(1 .. Len(s))
  BY FS_Interval
<1> QED BY <1>1, <1>2, FS_Surjection

LEMMA LeaversFinite ==
  ASSUME TypeInv
  PROVE  /\ IsFiniteSet(Leavers) /\ IsFiniteSet(Charged)
         /\ Cardinality(Leavers) \in Nat /\ Cardinality(Charged) \in Nat
<1>1. IsFiniteSet(Members) /\ IsFiniteSet(Held)
  BY ElementsFinite DEF TypeInv, TypeOK, ChannelTypeOK, Members, Held, Elements
<1>2. Leavers \in SUBSET Members /\ Charged \in SUBSET Held
  BY DEF Leavers, Charged, SignOutConns
<1>3. IsFiniteSet(Leavers) /\ IsFiniteSet(Charged)
  BY <1>1, <1>2, FS_Subset
<1> QED BY <1>3, FS_CardinalityType

LEMMA LeaversFiniteNext ==
  ASSUME TypeInv'
  PROVE  /\ IsFiniteSet(Leavers') /\ IsFiniteSet(Charged')
         /\ Cardinality(Leavers') \in Nat /\ Cardinality(Charged') \in Nat
<1>1. IsFiniteSet(Members') /\ IsFiniteSet(Held')
  BY ElementsFinite DEF TypeInv, TypeOK, ChannelTypeOK, Members, Held, Elements
<1>2. Leavers' \in SUBSET Members' /\ Charged' \in SUBSET Held'
  BY DEF Leavers, Charged, SignOutConns
<1>3. IsFiniteSet(Leavers') /\ IsFiniteSet(Charged')
  BY <1>1, <1>2, FS_Subset
<1> QED BY <1>3, FS_CardinalityType

(* The request on c signs m out.                                           *)
SignsOut(c, m) ==
  /\ Requested(c) /\ Served(c)
  /\ req[c].path = "/sign_out" /\ req[c].peer = m

(* Lookup of another request, or for another member, leaves m connected.   *)
LEMMA LookedUpConnected ==
  ASSUME TypeInv, NEW p \in Ids, NEW m \in Ids, NEW c \in Conns
  PROVE  \/ LookedUp(p, c)[m].connected = member[m].connected
         \/ /\ p = m /\ req[c].path = "/sign_out"
            /\ LookedUp(p, c)[m].connected = FALSE
<1>1. member \in [Ids -> ChannelMember] /\ member[m] \in ChannelMember
  BY DEF TypeInv, TypeOK, ChannelTypeOK
<1>2. SetDisconnected(member[m]).connected = FALSE
  BY <1>1 DEF SetDisconnected, ChannelMember
<1>3. SetWaitingSocket(member[m], c).connected = member[m].connected
  BY <1>1 DEF SetWaitingSocket, ChannelMember
<1> QED BY <1>1, <1>2, <1>3 DEF LookedUp

LEMMA PostedConnected ==
  ASSUME NEW rec, NEW item, NEW m \in Ids
  PROVE  Posted(rec, item)[m].connected = rec[m].connected
BY DEF Posted, QueueResponse

LEMMA EraseMemberConnected ==
  ASSUME TypeInv, Once(members), NEW k \in DOMAIN members, EraseMember(k),
         NEW m \in Members
  PROVE  /\ Members' = Members \ {members[k]}
         /\ m \in Members' => member'[m].connected = member[m].connected
<1> DEFINE item == BroadcastChangedState(members[k], FALSE)
<1>a. /\ members \in Seq(Ids) /\ k \in 1 .. Len(members) /\ Members \subseteq Ids
  BY ChannelAssumption, MembersAreIds DEF TypeInv, TypeOK, ChannelTypeOK, Ids
<1>1. /\ members' = RemoveAt(members, k)
      /\ member' = [Posted(member, item) EXCEPT ![members[k]] = NoMember]
  BY DEF EraseMember
<1>2. Members' = Members \ {members[k]}
  <2>1. Elements(RemoveAt(members, k)) = Elements(members) \ {members[k]}
    BY <1>a, RemoveOnce
  <2> QED BY <1>1, <2>1 DEF Members, Elements
<1> HIDE DEF item
<1>3. ASSUME m # members[k] PROVE member'[m].connected = member[m].connected
  <2>1. member'[m] = Posted(member, item)[m]
    BY <1>1, <1>3
  <2> QED BY <2>1, <1>a, PostedConnected
<1> QED BY <1>2, <1>3

LEMMA HandleConnected ==
  ASSUME TypeInv, NEW c \in Conns, Handle(c), NEW m \in Members, m \in Members'
  PROVE  \/ member'[m].connected = member[m].connected
         \/ member'[m].connected = FALSE /\ SignsOut(c, m)
<1> DEFINE p == Lookup(req[c])
<1>a. /\ ChannelTypeOK /\ m \in Ids /\ member \in [Ids -> ChannelMember]
      /\ lastId \in Nat /\ Members \subseteq 1 .. lastId
  BY MembersAreIds, ChannelAssumption DEF TypeInv, TypeOK, ChannelTypeOK
<1>b. p # 0 => p \in Ids /\ p = req[c].peer
  BY <1>a, LookupType DEF Lookup
<1>c. UNCHANGED member => member'[m].connected = member[m].connected
  OBVIOUS
<1>d. p # 0 => \/ LookedUp(p, c)[m].connected = member[m].connected
               \/ /\ req[c].peer = m /\ req[c].path = "/sign_out"
                  /\ LookedUp(p, c)[m].connected = FALSE
  BY <1>a, <1>b, LookedUpConnected
<1>1. CASE HandleWait(c) \/ HandleUntargeted(c)
  BY <1>1, <1>d DEF HandleWait, HandleUntargeted, SignsOut
<1>2. CASE HandleSignIn(c)
  <2> DEFINE new == lastId + 1
             item == BroadcastChangedState(new, TRUE)
             added == BuildResponseForNewMember(new)
  <2>1. member' = [Posted(member, item) EXCEPT ![new] = NewMember(added)]
    BY <1>2 DEF HandleSignIn, AddMember
  <2>2. m # new
    BY <1>a
  <2> HIDE DEF item, added, new
  <2>3. member'[m] = Posted(member, item)[m]
    BY <2>1, <2>2
  <2> QED BY <2>3, <1>a, PostedConnected
<1>3. CASE HandleOrphan(c) \/ HandleBrowserRequest(c)
  BY <1>3, <1>c DEF HandleOrphan, HandleBrowserRequest, channelVars
<1>4. CASE HandleForward(c)
  <2> DEFINE item == [q \in {IsTargetedRequest(req[c])} |-> Mail(p, req[c].body)]
  <2>1. Served(c) /\ Requested(c) /\ p # 0
    BY <1>4 DEF HandleForward
  <2>2. member' = LookedUp(p, c) \/ member' = Posted(LookedUp(p, c), item)
    BY <1>4 DEF HandleForward
  <2> HIDE DEF item
  <2>3. member'[m].connected = LookedUp(p, c)[m].connected
    BY <2>2, <1>a, PostedConnected
  <2> QED BY <2>1, <2>3, <1>d DEF SignsOut
<1>5. CASE HandleQuit(c)
  <2>1. DOMAIN <<>> = {}
    OBVIOUS
  <2> QED BY <1>5, <2>1 DEF HandleQuit, CloseAll, Members
<1> QED BY <1>1, <1>2, <1>3, <1>4, <1>5 DEF Handle
LEMMA NextConnected ==
  ASSUME TypeInv, Once(members), [Next]_vars, NEW m \in Members, m \in Members'
  PROVE  \/ member'[m].connected = member[m].connected
         \/ member'[m].connected = FALSE /\ \E c \in Conns : SignsOut(c, m)
<1>a. member \in [Ids -> ChannelMember] /\ m \in Ids
  BY MembersAreIds DEF TypeInv, TypeOK, ChannelTypeOK
<1>b. UNCHANGED channelVars => member'[m].connected = member[m].connected
  BY DEF channelVars
<1>1. ASSUME NEW c \in Conns, Handle(c)
      PROVE  \/ member'[m].connected = member[m].connected
             \/ member'[m].connected = FALSE /\ SignsOut(c, m)
  BY <1>1, HandleConnected
<1>2. CASE Tick
  <2>1. \/ member'[m] = member[m]
        \/ member'[m] = [member[m] EXCEPT !.idle = @ + 1]
    BY <1>2, <1>a DEF Tick
  <2> QED BY <1>a, <2>1 DEF ChannelMember
<1>3. ASSUME NEW c \in Conns, NEW k \in DOMAIN members, CloseFor(c, k)
      PROVE  member'[m].connected = member[m].connected
  <2>1. CASE member[members[k]].connected
    <3>1. member' = [member EXCEPT ![members[k]] = OnClosing(@, c)]
      BY <1>3, <2>1 DEF CloseFor
    <3> QED BY <3>1, <1>a DEF OnClosing
  <2>2. CASE ~member[members[k]].connected
    BY <1>3, <2>2, EraseMemberConnected DEF CloseFor
  <2> QED BY <2>1, <2>2
<1>4. ASSUME NEW k \in DOMAIN members, CheckForTimeout(k)
      PROVE  member'[m].connected = member[m].connected
  BY <1>4, EraseMemberConnected DEF CheckForTimeout
<1>5. ~Leave
  <2>1. DOMAIN <<>> = {}
    OBVIOUS
  <2> QED BY <2>1 DEF Leave, CloseAll, Members
<1>6. CASE Select \/ SelectFails \/ EndServing \/ EndTimeouts \/ AcceptNothing
           \/ AcceptsNull
  BY <1>6, <1>b DEF Select, SelectFails, EndServing, EndTimeouts,
                    AcceptNothing, AcceptsNull
<1>7. ASSUME NEW c \in Conns,
             \/ BeginClosing(c) \/ ReadOn(c) \/ Accept(c)
             \/ \E n \in DOMAIN sockets : DeleteSocket(c, n)
             \/ ClientConnects(c) \/ ClientWrites(c) \/ ClientHangsUp(c)
      PROVE  member'[m].connected = member[m].connected
  BY <1>7, <1>b DEF BeginClosing, ReadOn, Accept, DeleteSocket, ClientConnects,
                    ClientWrites, ClientHangsUp
<1>8. CASE UNCHANGED vars
  BY <1>8, <1>b DEF vars
<1>9. CASE ServerStep
  BY <1>9, <1>1, <1>3, <1>4, <1>5, <1>6, <1>7 DEF ServerStep, Serve, Close
<1>10. CASE Environment
  BY <1>10, <1>2, <1>7 DEF Environment
<1> QED BY <1>8, <1>9, <1>10 DEF Next, Stopped

LEMMA NewcomerConnected ==
  ASSUME TypeInv, Once(members), [Next]_vars, NEW m \in Members', m \notin Members
  PROVE  member'[m].connected
<1>a. members \in Seq(Ids) /\ lastId \in Nat
  BY ChannelAssumption DEF TypeInv, TypeOK, ChannelTypeOK, Ids
<1>1. ASSUME members' = members PROVE FALSE
  BY <1>1 DEF Members
<1>2. ASSUME NEW new \in Ids, Joins(new) PROVE member'[m].connected
  <2>1. m = new
    BY <1>2, <1>a DEF Joins, Members
  <2> QED BY <1>2, <2>1 DEF Joins, NewMember
<1>3. ASSUME NEW k \in DOMAIN members, Departs(k) PROVE FALSE
  <2>1. Elements(RemoveAt(members, k)) = Elements(members) \ {members[k]}
    BY <1>a, RemoveOnce
  <2> QED BY <1>3, <2>1 DEF Departs, Members, Elements
<1>4. CASE CloseAll
  <2>1. DOMAIN <<>> = {}
    OBVIOUS
  <2> QED BY <1>4, <2>1 DEF CloseAll, Members
<1> QED BY <1>1, <1>2, <1>3, <1>4, NextChannel
        DEF ChannelStep, Stays, Answers, Forwards

(* Everything that is known of the connections and the members.            *)
CoveredInv == ConnectionInv /\ Once(members)

(* A charged connection stays one as long as it is held.                   *)
LEMMA ChargedStays ==
  ASSUME CoveredInv, [Next]_vars, NEW c \in Charged, c \in Held'
  PROVE  c \in Charged'
<1> USE DEF CoveredInv, ConnectionInv
<1>a. /\ c \in Conns /\ c \in Held /\ read[c] >= Whole /\ req[c].path = "/sign_out"
      /\ req[c].peer <= lastId
      /\ req[c].peer \in Members => ~member[req[c].peer].connected
  BY HeldAreConns DEF Charged, SignOutConns
<1>b. read[c] \in Nat /\ wrote[c] \in Nat /\ read[c] <= wrote[c]
      /\ req[c] \in Requests
  BY <1>a DEF TypeInv, TypeOK, SocketTypeOK, DanglingInv, ReadWritten,
              RequestsWritten, Whole
<1>1. remote[c] # "none" /\ remote'[c] # "none"
  <2>1. DanglingInv'
    BY DanglingStep
  <2> QED BY <2>1, <1>a DEF DanglingInv, HeldOnce
<1>2. req'[c] = req[c] /\ read'[c] >= Whole
  <2>1. ConnectionStep(c)
    BY <1>a, NextConnection
  <2> QED BY <1>1, <2>1, <1>a, <1>b DEF ConnectionStep, Same, Opened, Written, HungUp,
        Closed, Delivered, Answered, Parked, Swallowed, ReadAll, Whole
<1>3. req[c].peer <= lastId'
  <2>1. lastId' >= lastId /\ lastId \in Nat /\ lastId' \in Nat
    <3>1. lastId' \in 0 .. MaxId /\ lastId \in 0 .. MaxId
      BY TypeStep DEF TypeInv, TypeOK, ChannelTypeOK
    <3> QED BY <3>1, IdsGrow, ChannelAssumption
  <2>2. req[c].peer \in Nat
    BY <1>b, RequestsAssumption DEF Request
  <2> QED BY <1>a, <2>1, <2>2
<1>4. ASSUME req[c].peer \in Members' PROVE ~member'[req[c].peer].connected
  <2>1. req[c].peer \in Members
    BY <1>a, <1>4, IdsGrow
  <2> QED BY <2>1, <1>a, <1>4, NextConnected
<1> QED BY <1>2, <1>3, <1>4, <1>a DEF Charged, SignOutConns

(* Whoever signs out charges the connection on which it does.              *)
LEMMA SignsOutCharges ==
  ASSUME CoveredInv, [Next]_vars, NEW c \in Conns, NEW m \in Members,
         SignsOut(c, m), member[m].connected, ~member'[m].connected
  PROVE  c \in Charged' /\ c \notin Charged
<1> USE DEF CoveredInv, ConnectionInv
<1>1. c \notin Charged
  BY DEF Charged, SignsOut
<1>2. c \in Held' /\ req'[c] = req[c] /\ read'[c] = wrote[c] /\ wrote[c] >= Whole
  BY ServedSteps DEF SignsOut, Served, Held, ReadAll, RequestComplete
<1>3. m <= lastId'
  <2>1. lastId \in Nat /\ lastId' \in Nat /\ m \in 1 .. lastId
    <3>1. lastId' \in 0 .. MaxId /\ lastId \in 0 .. MaxId /\ Members \subseteq 1 .. lastId
      BY TypeStep, MembersAreIds DEF TypeInv, TypeOK, ChannelTypeOK
    <3> QED BY <3>1, ChannelAssumption
  <2>2. lastId' >= lastId
    BY IdsGrow
  <2> QED BY <2>1, <2>2
<1> QED BY <1>1, <1>2, <1>3 DEF SignsOut, Charged, SignOutConns

(* One member at most begins to leave in a step.                           *)
LEMMA LeaversStep ==
  ASSUME CoveredInv, [Next]_vars
  PROVE  \/ Leavers' \subseteq Leavers
         \/ \E m \in Members, c \in Conns :
              /\ SignsOut(c, m) /\ member[m].connected /\ ~member'[m].connected
              /\ Leavers' \subseteq Leavers \cup {m}
<1> USE DEF CoveredInv, ConnectionInv
<1>1. ASSUME NEW m \in Leavers' \ Leavers
      PROVE  /\ m \in Members /\ member[m].connected /\ ~member'[m].connected
             /\ \E c \in Conns : SignsOut(c, m)
  <2>1. m \in Members' /\ ~member'[m].connected
    BY <1>1 DEF Leavers
  <2>2. m \in Members
    BY <2>1, NewcomerConnected
  <2>3. member[m].connected
    BY <1>1, <2>2 DEF Leavers
  <2> QED BY <2>1, <2>2, <2>3, NextConnected
<1>2. ASSUME NEW m, NEW n, NEW c \in Conns, NEW d \in Conns, SignsOut(c, m), SignsOut(d, n)
      PROVE  m = n
  <2>1. c = d
    BY <1>2, AtOne DEF SignsOut, Requested, Serving
  <2> QED BY <1>2, <2>1 DEF SignsOut
<1>3. ASSUME NEW m \in Leavers' \ Leavers PROVE Leavers' \subseteq Leavers \cup {m}
  BY <1>1, <1>2
<1> QED BY <1>1, <1>3
-----------------------------------------------------------------------------
(* A step in which no held connection is closed: the charged ones remain.  *)
LEMMA LeaversCount ==
  ASSUME CoveredInv, [Next]_vars, Held \subseteq Held',
         Cardinality(Leavers) <= Cardinality(Charged)
  PROVE  Cardinality(Leavers') <= Cardinality(Charged')
<1>a. /\ IsFiniteSet(Leavers) /\ IsFiniteSet(Leavers')
      /\ IsFiniteSet(Charged) /\ IsFiniteSet(Charged')
      /\ Cardinality(Leavers) \in Nat /\ Cardinality(Leavers') \in Nat
      /\ Cardinality(Charged) \in Nat /\ Cardinality(Charged') \in Nat
  <2>1. TypeInv /\ TypeInv'
    BY TypeStep DEF CoveredInv, ConnectionInv
  <2> QED BY <2>1, LeaversFinite, LeaversFiniteNext
<1>1. Charged \subseteq Charged'
  BY ChargedStays DEF Charged, SignOutConns
<1>2. Cardinality(Charged) <= Cardinality(Charged')
  BY <1>a, <1>1, FS_Subset
<1>3. CASE Leavers' \subseteq Leavers
  <2>1. Cardinality(Leavers') <= Cardinality(Leavers)
    BY <1>a, <1>3, FS_Subset
  <2> QED BY <1>a, <1>2, <2>1
<1>4. ASSUME NEW m \in Members, NEW c \in Conns, SignsOut(c, m), member[m].connected,
             ~member'[m].connected, Leavers' \subseteq Leavers \cup {m}
      PROVE  Cardinality(Leavers') <= Cardinality(Charged')
  <2>1. c \in Charged' /\ c \notin Charged
    BY <1>4, SignsOutCharges
  <2>2. /\ IsFiniteSet(Leavers \cup {m})
        /\ Cardinality(Leavers \cup {m}) <= Cardinality(Leavers) + 1
        /\ Cardinality(Leavers \cup {m}) \in Nat
    <3>1. /\ IsFiniteSet(Leavers \cup {m})
          /\ Cardinality(Leavers \cup {m}) =
               IF m \in Leavers THEN Cardinality(Leavers) ELSE Cardinality(Leavers) + 1
      BY <1>a, FS_AddElement
    <3> QED BY <1>a, <3>1
  <2>3. Cardinality(Leavers') <= Cardinality(Leavers \cup {m})
    BY <2>2, <1>4, FS_Subset
  <2>4. /\ IsFiniteSet(Charged \cup {c})
        /\ Cardinality(Charged \cup {c}) = Cardinality(Charged) + 1
    BY <1>a, <2>1, FS_AddElement
  <2>5. Cardinality(Charged \cup {c}) <= Cardinality(Charged')
    BY <1>1, <2>1, <1>a, FS_Subset
  <2> QED BY <1>a, <2>2, <2>3, <2>4, <2>5
<1> QED BY <1>3, <1>4, LeaversStep

(* The first leaver that OnClosing meets pays for the closing connection.  *)
LEMMA LeaverPays ==
  ASSUME CoveredInv, [Next]_vars, LeaverInv, NEW c \in Conns, NEW k \in DOMAIN members,
         CloseFor(c, k), ~member[members[k]].connected
  PROVE  Cardinality(Leavers') <= Cardinality(Charged' \ {c})
<1>a. /\ TypeInv /\ IsFiniteSet(Leavers) /\ IsFiniteSet(Charged)
      /\ Cardinality(Leavers) \in Nat /\ Cardinality(Charged) \in Nat
      /\ Cardinality(Leavers) <= Cardinality(Charged)
  BY LeaversFinite DEF CoveredInv, ConnectionInv, LeaverInv
<1>1. EraseMember(k) /\ sockets' = sockets
  BY DEF CloseFor
<1>2. Members' = Members \ {members[k]}
      /\ \A m \in Members' : member'[m].connected = member[m].connected
  <2>1. ASSUME NEW m \in Members
        PROVE  /\ Members' = Members \ {members[k]}
               /\ m \in Members' => member'[m].connected = member[m].connected
    BY <1>1, EraseMemberConnected DEF CoveredInv, ConnectionInv
  <2>2. members[k] \in Members
    BY DEF Members
  <2> QED BY <2>1, <2>2
<1>3. Leavers' = Leavers \ {members[k]} /\ members[k] \in Leavers
  BY <1>2 DEF Leavers, Members
<1>4. Cardinality(Leavers') = Cardinality(Leavers) - 1
  BY <1>3, <1>a, FS_RemoveElement
<1>5. Charged \ {c} \subseteq Charged' \ {c}
  BY <1>1, ChargedStays DEF Charged, SignOutConns, Held
<1>6. IsFiniteSet(Charged' \ {c}) /\ IsFiniteSet(Charged \ {c})
      /\ Cardinality(Charged \ {c}) >= Cardinality(Charged) - 1
      /\ Cardinality(Charged \ {c}) \in Nat
  <2>1. TypeInv'
    BY TypeStep DEF CoveredInv, ConnectionInv
  <2>2. IsFiniteSet(Charged')
    BY <2>1, LeaversFiniteNext
  <2>3. IsFiniteSet(Charged \ {c}) /\ Cardinality(Charged \ {c}) >= Cardinality(Charged) - 1
    BY <1>a, FS_RemoveElement
  <2> QED BY <2>2, <2>3, FS_RemoveElement, FS_CardinalityType
<1>7. Cardinality(Charged \ {c}) <= Cardinality(Charged' \ {c})
      /\ Cardinality(Charged' \ {c}) \in Nat
  BY <1>5, <1>6, FS_Subset, FS_CardinalityType
<1> QED BY <1>a, <1>4, <1>6, <1>7
LEMMA LeaverStep ==
  ASSUME CoveredInv, LeaverInv, [Next]_vars
  PROVE  LeaverInv'
<1> DEFINE Fine(c) ==
      \/ \A k \in DOMAIN members : k < j => member[members[k]].connected
      \/ Cardinality(Leavers) <= Cardinality(Charged \ {c})
    Closing(c) == pc = "closing" /\ c \in Held /\ \E n \in DOMAIN sockets : At(c, n)
<1>a. /\ TypeInv /\ TypeInv' /\ Once(members) /\ ConnectionInv
      /\ Cardinality(Leavers) <= Cardinality(Charged)
      /\ \A c : Closing(c) => Fine(c)
  BY TypeStep DEF CoveredInv, ConnectionInv, LeaverInv
<1>b. /\ IsFiniteSet(Leavers) /\ IsFiniteSet(Charged)
      /\ Cardinality(Leavers) \in Nat /\ Cardinality(Charged) \in Nat
      /\ IsFiniteSet(Leavers') /\ IsFiniteSet(Charged')
      /\ Cardinality(Leavers') \in Nat /\ Cardinality(Charged') \in Nat
  BY <1>a, LeaversFinite, LeaversFiniteNext
<1>c. ASSUME Cardinality(Leavers') <= Cardinality(Charged'),
             \A c : Closing(c)' => Fine(c)'
      PROVE  LeaverInv'
  BY <1>c DEF LeaverInv
<1>d. ASSUME Held \subseteq Held', pc' # "closing" PROVE LeaverInv'
  <2>1. Cardinality(Leavers') <= Cardinality(Charged')
    BY <1>a, <1>d, LeaversCount
  <2> QED BY <1>c, <1>d, <2>1
(* Nobody is left when the members have been dismissed.                    *)
<1>e. ASSUME CloseAll, pc' # "closing" PROVE LeaverInv'
  <2>1. Members' = {}
    <3>1. DOMAIN <<>> = {}
      OBVIOUS
    <3> QED BY <1>e, <3>1 DEF CloseAll, Members
  <2>2. Leavers' = {}
    BY <2>1 DEF Leavers
  <2>3. Cardinality(Leavers') = 0
    BY <2>2, FS_EmptySet
  <2> QED BY <1>b, <1>c, <1>e, <2>3
(* Steps that change neither the members nor where the loop stands.        *)
<1>f. ASSUME UNCHANGED <<pc, j, sockets, ready, members>>,
             \A m \in Members : member'[m].connected = member[m].connected
      PROVE  LeaverInv'
  <2>1. Held' = Held /\ Members' = Members /\ Leavers' = Leavers
    BY <1>f DEF Held, Members, Leavers
  <2>2. Charged \subseteq Charged'
    BY <1>a, <2>1, ChargedStays DEF Charged, SignOutConns, CoveredInv
  <2>3. Cardinality(Leavers') <= Cardinality(Charged')
    BY <1>a, <2>1, LeaversCount DEF CoveredInv
  <2>4. ASSUME NEW c, Closing(c)' PROVE Fine(c)'
    <3>1. Closing(c)
      BY <1>f, <2>1, <2>4 DEF At
    <3>2. CASE \A k \in DOMAIN members : k < j => member[members[k]].connected
      BY <1>f, <3>2 DEF Members
    <3>3. CASE Cardinality(Leavers) <= Cardinality(Charged \ {c})
      <4>1. IsFiniteSet(Charged' \ {c}) /\ IsFiniteSet(Charged \ {c})
        BY <1>b, FS_RemoveElement
      <4>2. Charged \ {c} \subseteq Charged' \ {c}
        BY <2>2
      <4>3. Cardinality(Charged \ {c}) <= Cardinality(Charged' \ {c})
        BY <4>1, <4>2, FS_Subset
      <4>4. Cardinality(Charged \ {c}) \in Nat /\ Cardinality(Charged' \ {c}) \in Nat
        BY <4>1, FS_CardinalityType
      <4>5. Cardinality(Leavers') <= Cardinality(Charged' \ {c})
        BY <1>b, <2>1, <3>3, <4>3, <4>4
      <4> QED BY <4>5
    <3> QED BY <1>a, <3>1, <3>2, <3>3
  <2> QED BY <1>c, <2>3, <2>4
<1>1. CASE Environment \/ UNCHANGED vars
  <2>1. UNCHANGED <<pc, j, sockets, ready, members>>
    BY <1>1 DEF Environment, ClientConnects, ClientWrites, ClientHangsUp, Tick,
                channelVars, loopVars, vars
  <2>2. ASSUME NEW m \in Members PROVE member'[m].connected = member[m].connected
    <3>1. m \in Ids /\ member \in [Ids -> ChannelMember]
      BY <1>a, MembersAreIds DEF TypeInv, TypeOK, ChannelTypeOK
    <3>2. \/ member'[m] = member[m]
          \/ member'[m] = [member[m] EXCEPT !.idle = @ + 1]
      BY <1>1, <3>1 DEF Environment, ClientConnects, ClientWrites, ClientHangsUp, Tick,
                channelVars, vars
    <3> QED BY <3>1, <3>2 DEF ChannelMember
  <2> QED BY <1>f, <2>1, <2>2
<1>2. CASE Select \/ SelectFails \/ EndServing \/ EndTimeouts \/ AcceptNothing
           \/ AcceptsNull
  <2>1. sockets' = sockets /\ pc' # "closing"
    BY <1>2 DEF Select, SelectFails, EndServing, EndTimeouts, AcceptNothing,
                AcceptsNull, NextRound
  <2> QED BY <1>d, <2>1 DEF Held
<1>3. ASSUME NEW c \in Conns, ReadOn(c) \/ (Handle(c) /\ ~HandleQuit(c)) PROVE LeaverInv'
  <2>1. sockets' = sockets /\ pc' = "serve"
    BY <1>3 DEF ReadOn, Handle, HandleWait, HandleSignIn, HandleOrphan, HandleForward,
                HandleUntargeted, HandleBrowserRequest, Requested, Served, Serving
  <2> QED BY <1>d, <2>1 DEF Held
<1>4. ASSUME NEW c \in Conns, HandleQuit(c) PROVE LeaverInv'
  BY <1>4, <1>e DEF HandleQuit, Requested, Serving
<1>5. CASE Leave
  BY <1>5, <1>e DEF Leave
<1>6. ASSUME NEW c \in Conns, Accept(c) PROVE LeaverInv'
  <2>1. pc' # "closing" /\ (sockets' = sockets \/ sockets' = Append(sockets, c))
    BY <1>6 DEF Accept, NextRound
  <2>2. Held \subseteq Held'
    BY <2>1, <1>a DEF Held, TypeInv, TypeOK
  <2> QED BY <1>d, <2>1, <2>2
<1>7. ASSUME NEW k \in DOMAIN members, CheckForTimeout(k) PROVE LeaverInv'
  BY <1>7, <1>d DEF CheckForTimeout, Held
<1>8. ASSUME NEW c \in Conns, BeginClosing(c) PROVE LeaverInv'
  <2>1. sockets' = sockets /\ j' = 1 /\ members' = members
    BY <1>8 DEF BeginClosing, channelVars
  <2>2. \A k \in DOMAIN members' : ~(k < j')
    BY <1>a, <2>1 DEF TypeInv, TypeOK, ChannelTypeOK
  <2>3. Cardinality(Leavers') <= Cardinality(Charged')
    BY <1>a, <2>1, LeaversCount DEF CoveredInv, Held
  <2> QED BY <1>c, <2>2, <2>3
<1>9. ASSUME NEW c \in Conns, NEW k \in DOMAIN members, CloseFor(c, k)
      PROVE  LeaverInv'
  <2>1. /\ pc = "closing" /\ pc' = pc /\ j' = k + 1 /\ UNCHANGED <<sockets, ready>>
        /\ Closing(c)
    BY <1>9 DEF CloseFor, At, Held
  <2>2. Held' = Held /\ \A d, n : At(d, n)' <=> At(d, n)
    BY <2>1 DEF Held, At
  <2>3. \A d : Closing(d)' => d = c
    BY <2>1, <2>2, <1>a, AtOne
  <2>4. Cardinality(Leavers') <= Cardinality(Charged')
    BY <1>a, <2>2, LeaversCount DEF CoveredInv
  <2>5. CASE ~member[members[k]].connected
    BY <1>9, <1>a, <1>c, <2>3, <2>4, <2>5, LeaverPays DEF CoveredInv
  <2>6. CASE member[members[k]].connected
    <3>1. members' = members /\ member' = [member EXCEPT ![members[k]] = OnClosing(@, c)]
      BY <1>9, <2>6 DEF CloseFor
    <3>2. member \in [Ids -> ChannelMember] /\ members \in Seq(Ids) /\ Members \subseteq Ids
          /\ j \in Nat
      BY <1>a, MembersAreIds, ChannelAssumption DEF TypeInv, TypeOK, ChannelTypeOK, Ids
    <3>3. \A m \in Members : member'[m].connected = member[m].connected
      BY <3>1, <3>2 DEF OnClosing
    <3>4. Leavers' = Leavers /\ Charged \subseteq Charged'
      <4>1. Leavers' = Leavers
        BY <3>1, <3>3 DEF Leavers, Members
      <4> QED BY <4>1, <1>a, <2>2, ChargedStays DEF Charged, SignOutConns, CoveredInv
    <3>5. CASE \A h \in DOMAIN members : h < j => member[members[h]].connected
      <4>1. ASSUME NEW h \in DOMAIN members', h < j'
            PROVE  member'[members'[h]].connected
        <5>1. h \in DOMAIN members /\ members[h] \in Members /\ h \in Nat /\ k \in Nat
              /\ (h < j \/ h \in j .. k - 1 \/ h = k)
          BY <2>1, <3>1, <3>2, <4>1 DEF Members
        <5>2. member[members[h]].connected
          BY <1>9, <2>6, <3>5, <5>1 DEF CloseFor, Affected
        <5> QED BY <3>1, <3>3, <5>1, <5>2
      <4> QED BY <1>c, <2>4, <4>1
    <3>6. CASE Cardinality(Leavers) <= Cardinality(Charged \ {c})
      <4>1. IsFiniteSet(Charged' \ {c}) /\ IsFiniteSet(Charged \ {c})
        BY <1>b, FS_RemoveElement
      <4>2. Charged \ {c} \subseteq Charged' \ {c}
        BY <3>4
      <4>3. Cardinality(Charged \ {c}) <= Cardinality(Charged' \ {c})
        BY <4>1, <4>2, FS_Subset
      <4>4. Cardinality(Charged \ {c}) \in Nat /\ Cardinality(Charged' \ {c}) \in Nat
        BY <4>1, FS_CardinalityType
      <4>5. Cardinality(Leavers') <= Cardinality(Charged' \ {c})
        BY <1>b, <3>4, <3>6, <4>3, <4>4
      <4> QED BY <1>c, <2>3, <2>4, <4>5
    <3> QED BY <1>a, <2>1, <3>5, <3>6
  <2> QED BY <2>5, <2>6
<1>10. ASSUME NEW c \in Conns, NEW n \in DOMAIN sockets, DeleteSocket(c, n)
       PROVE  LeaverInv'
  <2>1. /\ sockets' = RemoveAt(sockets, n) /\ c = sockets[n] /\ pc' = "serve"
        /\ UNCHANGED channelVars /\ Closing(c)
        /\ \A k \in j .. Len(members) : ~Affected(c, k)
    BY <1>10 DEF DeleteSocket, At, Held
  <2>2. Held' = Held \ {c}
    <3>1. Once(sockets) /\ sockets \in Seq(Conns) /\ n \in 1 .. Len(sockets)
      BY <1>a DEF ConnectionInv, DanglingInv, HeldOnce, Once, TypeInv, TypeOK
    <3>2. Elements(RemoveAt(sockets, n)) = Elements(sockets) \ {sockets[n]}
      BY <3>1, RemoveOnce
    <3> QED BY <2>1, <3>2 DEF Elements, Held
  <2>3. Leavers' = Leavers
    BY <2>1 DEF Leavers, Members, channelVars
  <2>4. Charged \ {c} \subseteq Charged'
    BY <1>a, <2>2, ChargedStays DEF Charged, SignOutConns, CoveredInv
  <2>5. Cardinality(Leavers) <= Cardinality(Charged \ {c})
    <3>1. CASE \A k \in DOMAIN members : k < j => member[members[k]].connected
      <4>1. ASSUME NEW k \in DOMAIN members PROVE member[members[k]].connected
        <5>1. k \in 1 .. Len(members) /\ Len(members) \in Nat /\ j \in Nat
          BY <1>a DEF TypeInv, TypeOK, ChannelTypeOK
        <5>2. k < j \/ k \in j .. Len(members)
          BY <5>1
        <5> QED BY <2>1, <3>1, <5>2 DEF Affected
      <4>2. Leavers = {}
        BY <4>1 DEF Leavers, Members
      <4>3. IsFiniteSet(Charged \ {c})
        BY <1>b, FS_RemoveElement
      <4>4. Cardinality(Leavers) = 0 /\ Cardinality(Charged \ {c}) \in Nat
        BY <4>2, <4>3, FS_EmptySet, FS_CardinalityType
      <4> QED BY <4>4
    <3> QED BY <1>a, <2>1, <3>1
  <2>6. Cardinality(Charged \ {c}) <= Cardinality(Charged')
        /\ Cardinality(Charged \ {c}) \in Nat
    <3>1. IsFiniteSet(Charged \ {c})
      BY <1>b, FS_RemoveElement
    <3> QED BY <1>b, <2>4, <3>1, FS_Subset, FS_CardinalityType
  <2>7. Cardinality(Leavers') <= Cardinality(Charged')
    BY <1>b, <2>3, <2>5, <2>6
  <2> QED BY <1>c, <2>1, <2>7
<1>11. CASE ServerStep
  BY <1>11, <1>2, <1>3, <1>4, <1>5, <1>6, <1>7, <1>8, <1>9, <1>10
     DEF ServerStep, Serve, Close
<1> QED BY <1>1, <1>11 DEF Next, Stopped

(* Each signed-out member that is still there is covered by a sign-out     *)
(* connection that is still to close: none is left for the timeout alone,  *)
(* whichever members the erasing loop passes over.                         *)
THEOREM LeaversAreCovered == Spec => []LeaversCovered
<1> DEFINE Inv == ConnectionInv /\ PresenceInv /\ LeaverInv
<1>1. Init => Inv
  <2> SUFFICES ASSUME Init PROVE LeaverInv
    BY ConnectionInit, PresenceInit
  <2>1. Members = {}
    <3>1. DOMAIN <<>> = {}
      OBVIOUS
    <3> QED BY <3>1 DEF Init, ChannelInit, Members
  <2>2. Leavers = {}
    BY <2>1 DEF Leavers
  <2>3. Cardinality(Leavers) = 0 /\ Cardinality(Charged) \in Nat
    BY <2>2, TypeInit, LeaversFinite, FS_EmptySet
  <2> QED BY <2>3 DEF Init, LeaverInv
<1>2. Inv /\ [Next]_vars => Inv'
  BY ConnectionInvStep, PresenceStep, LeaverStep
     DEF ConnectionInv, PresenceInv, CoveredInv
<1>3. Inv => LeaversCovered
  <2> SUFFICES ASSUME Inv PROVE LeaversCovered
    OBVIOUS
  <2>1. TypeInv /\ Cardinality(Leavers) <= Cardinality(Charged)
    BY DEF ConnectionInv, LeaverInv
  <2>2. IsFiniteSet(Held)
    BY <2>1, ElementsFinite DEF TypeInv, TypeOK, Held, Elements
  <2>3. IsFiniteSet(SignOutConns) /\ Cardinality(SignOutConns) \in Nat
    <3>1. SignOutConns \in SUBSET Held
      BY DEF SignOutConns
    <3> QED BY <2>2, <3>1, FS_Subset, FS_CardinalityType
  <2>4. Cardinality(Charged) <= Cardinality(SignOutConns)
    <3>1. Charged \in SUBSET SignOutConns
      BY DEF Charged
    <3> QED BY <2>3, <3>1, FS_Subset
  <2>5. Cardinality(Leavers) \in Nat /\ Cardinality(Charged) \in Nat
    BY <2>1, LeaversFinite
  <2>6. Cardinality(Leavers) <= Cardinality(SignOutConns)
    BY <2>1, <2>3, <2>4, <2>5
  <2> QED BY <2>6 DEF LeaversCovered, Leavers
<1> QED BY <1>1, <1>2, <1>3, PTL DEF Spec
=============================================================================
