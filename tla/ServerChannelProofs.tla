------------------------ MODULE ServerChannelProofs -------------------------
(***************************************************************************)
(* The signaling server implements the channel it promises: each step of   *)
(* the select loop is a step of Channel or leaves its variables alone.     *)
(***************************************************************************)
EXTENDS ServerChannel, PresenceProofs

-----------------------------------------------------------------------------
(* What the responses tell.                                                *)

Messages == {Tells(x) : x \in Response}

LEMMA EventsType ==
  ASSUME NEW s \in Seq(Response)
  PROVE  /\ Events(s) \in Seq(Messages)
         /\ Len(Events(s)) = Len(s)
         /\ \A p \in 1 .. Len(s) : Events(s)[p] = Tells(s[p])
<1>1. /\ DOMAIN s = 1 .. Len(s) /\ Len(s) \in Nat
      /\ \A p \in 1 .. Len(s) : Tells(s[p]) \in Messages
  BY DEF Messages
<1> QED BY <1>1 DEF Events

LEMMA EventsAppend ==
  ASSUME NEW s \in Seq(Response), NEW x \in Response
  PROVE  Events(Append(s, x)) = Append(Events(s), Tells(x))
<1> DEFINE t == Append(s, x)
<1>1. /\ t \in Seq(Response) /\ Len(t) = Len(s) + 1 /\ t[Len(s) + 1] = x
      /\ Len(s) \in Nat /\ \A p \in 1 .. Len(s) : t[p] = s[p]
  OBVIOUS
<1>2. /\ Events(s) \in Seq(Messages) /\ Len(Events(s)) = Len(s)
      /\ \A p \in 1 .. Len(s) : Events(s)[p] = Tells(s[p])
      /\ Events(t) \in Seq(Messages) /\ Len(Events(t)) = Len(s) + 1
      /\ \A p \in 1 .. Len(s) + 1 : Events(t)[p] = Tells(t[p])
  <2> HIDE DEF t
  <2> QED BY <1>1, EventsType
<1>3. Tells(x) \in Messages
  BY DEF Messages
<1> HIDE DEF t
<1>4. Events(t) = Append(Events(s), Tells(x))
  <2>1. /\ Append(Events(s), Tells(x)) \in Seq(Messages)
        /\ Len(Append(Events(s), Tells(x))) = Len(s) + 1
        /\ Append(Events(s), Tells(x))[Len(s) + 1] = Tells(x)
        /\ \A p \in 1 .. Len(s) : Append(Events(s), Tells(x))[p] = Events(s)[p]
    BY <1>2, <1>3
  <2>2. \A p \in 1 .. Len(s) + 1 : Events(t)[p] = Append(Events(s), Tells(x))[p]
    <3>1. \A p \in 1 .. Len(s) + 1 : p \in 1 .. Len(s) \/ p = Len(s) + 1
      BY <1>1
    <3> QED BY <3>1, <2>1, <1>1, <1>2
  <2> QED BY <2>1, <2>2, <1>2, SeqEqual
<1> QED BY <1>4 DEF t

LEMMA EventsOne ==
  ASSUME NEW x \in Response
  PROVE  Events(<<x>>) = <<Tells(x)>> /\ Events(<<>>) = <<>>
BY DEF Events

(* Which case of Tells applies.                                            *)
LEMMA TellsCases ==
  ASSUME NEW x
  PROVE  /\ x.status = "200 Added" /\ x.entries # <<>> /\ x.text = "" =>
              Tells(x) = Promised!Happened("welcome", {e.id : e \in Range(x.entries)})
         /\ x.status # "200 Added" /\ x.entries # <<>> /\ x.text = "" =>
              /\ x.entries[1].up => Tells(x) =
                   Promised!Happened("joined", {e.id : e \in Range(x.entries)})
              /\ ~x.entries[1].up => Tells(x) =
                   Promised!Happened("left", {e.id : e \in Range(x.entries)})
         /\ x.status # "200 Added" /\ x.entries = <<>> /\ x.pragma # 0 =>
              Tells(x) = [kind |-> "mail", who |-> {x.pragma} \ {0}, text |-> x.text]
<1> DEFINE ids == {e.id : e \in Range(x.entries)}
           kind == IF x.status = "200 Added" THEN "welcome"
           ELSE IF x.entries # <<>> THEN IF x.entries[1].up THEN "joined" ELSE "left"
           ELSE IF x.pragma # 0 THEN "mail" ELSE "closing"
<1>1. Tells(x) =
        [kind |-> kind, who |-> IF x.entries # <<>> THEN ids ELSE {x.pragma} \ {0},
         text |-> x.text]
  BY DEF Tells
<1>2. /\ x.status = "200 Added" /\ x.entries # <<>> => kind = "welcome"
      /\ x.status # "200 Added" /\ x.entries # <<>> =>
           kind = IF x.entries[1].up THEN "joined" ELSE "left"
      /\ x.status # "200 Added" /\ x.entries = <<>> /\ x.pragma # 0 => kind = "mail"
  OBVIOUS
<1> HIDE DEF kind, ids
<1>3. x.entries # <<>> /\ x.text = "" =>
        Tells(x) = [kind |-> kind, who |-> ids, text |-> ""]
  BY <1>1
<1>4. x.entries = <<>> =>
        Tells(x) = [kind |-> kind, who |-> {x.pragma} \ {0}, text |-> x.text]
  BY <1>1
<1> QED BY <1>2, <1>3, <1>4 DEF Promised!Happened, ids

LEMMA NoticeTells ==
  ASSUME NEW m, NEW other
  PROVE  /\ Tells(Notice(m, other, TRUE)) = Promised!Happened("joined", {other})
         /\ Tells(Notice(m, other, FALSE)) = Promised!Happened("left", {other})
<1>1. ASSUME NEW up \in BOOLEAN
      PROVE  Tells(Notice(m, other, up)) =
               Promised!Happened(IF up THEN "joined" ELSE "left", {other})
  <2> DEFINE e == [id |-> other, up |-> up]
             x == Notice(m, other, up)
  <2>1. x.status = "200 OK" /\ x.entries = <<e>> /\ x.text = ""
    BY DEF Notice, GetEntry
  <2>2. <<e>> # <<>> /\ <<e>>[1] = e /\ Range(<<e>>) = {e}
    BY DEF Range
  <2>3. e.up = up /\ e.id = other
    OBVIOUS
  <2> HIDE DEF e, x
  <2>4. x.entries # <<>> /\ x.status # "200 Added" /\ (x.entries[1].up <=> up)
    BY <2>1, <2>2, <2>3
  <2>5. {d.id : d \in Range(x.entries)} = {other}
    BY <2>1, <2>2, <2>3
  <2>6. Tells(x) = Promised!Happened(IF up THEN "joined" ELSE "left", {other})
    <3>1. CASE up
      BY <2>1, <2>4, <2>5, <3>1, TellsCases
    <3>2. CASE ~up
      BY <2>1, <2>4, <2>5, <3>2, TellsCases
    <3> QED BY <3>1, <3>2
  <2> QED BY <2>6 DEF x
<1> QED BY <1>1

LEMMA MailTells ==
  ASSUME NEW m \in Nat \ {0}, NEW body \in Bodies \cup {NoBody}
  PROVE  \E text \in Texts :
           Tells(Mail(m, body)) = [kind |-> "mail", who |-> {m}, text |-> text]
<1> DEFINE x == Mail(m, body)
           text == IF body = NoBody THEN "" ELSE body
<1>1. text \in Texts
  BY DEF Texts
<1>2. /\ x.status = "200 OK" /\ x.entries = <<>> /\ x.pragma = m /\ x.text = text
  BY DEF Mail
<1> HIDE DEF x, text
<1>3. {m} \ {0} = {m}
  OBVIOUS
<1>4. Tells(x) = [kind |-> "mail", who |-> {m}, text |-> text]
  BY <1>2, <1>3, TellsCases
<1> QED BY <1>1, <1>4 DEF x

(* The response to a sign-in lists the room the newcomer has entered.      *)
LEMMA RosterTells ==
  ASSUME ChannelTypeOK, NEW new \in Nat
  PROVE  Tells(BuildResponseForNewMember(new))
           = Promised!Happened("welcome", Members \cup {new})
<1> DEFINE x == BuildResponseForNewMember(new)
<1>1. x \in Response
  BY RosterType
<1>2. members \in Seq(Ids)
  BY ChannelAssumption DEF ChannelTypeOK, Ids
<1>3. x.status = "200 Added" /\ x.text = ""
  BY DEF BuildResponseForNewMember
<1>4. \A k : (\E up \in BOOLEAN : Says(x, k, up)) <=> k \in Members \cup {new}
  BY <1>2, RosterSays
<1> HIDE DEF x
<1>5. \A e \in Range(x.entries) : e.up \in BOOLEAN
  <2>1. x.entries \in Seq(Entry)
    BY <1>1 DEF Response
  <2>2. \A p \in DOMAIN x.entries : x.entries[p] \in Entry
    BY <2>1
  <2> QED BY <2>2 DEF Range, Entry
<1>6. {e.id : e \in Range(x.entries)} = Members \cup {new}
  <2>1. ASSUME NEW e \in Range(x.entries) PROVE e.id \in Members \cup {new}
    <3>1. Says(x, e.id, e.up) /\ e.up \in BOOLEAN
      BY <1>5 DEF Says
    <3> QED BY <3>1, <1>4
  <2>2. ASSUME NEW k \in Members \cup {new}
        PROVE  k \in {e.id : e \in Range(x.entries)}
    <3>1. PICK up \in BOOLEAN : Says(x, k, up)
      BY <1>4
    <3> QED BY <3>1 DEF Says
  <2> QED BY <2>1, <2>2
<1>7. x.entries # <<>>
  <2>1. \E e \in Range(x.entries) : TRUE
    BY <1>6
  <2>2. Range(<<>>) = {}
    BY DEF Range
  <2> QED BY <2>1, <2>2
<1>8. Tells(x) = Promised!Happened("welcome", Members \cup {new})
  BY <1>3, <1>6, <1>7, TellsCases
<1> QED BY <1>8 DEF x
-----------------------------------------------------------------------------
(* The mailboxes, as the channel sees them.                                *)

Boxes == [m \in Ids |-> Events(member[m].posted)]
Handed == [m \in Ids |-> Events(member[m].handed)]

(* The members with a poll parked, to whom an item is handed at once.      *)
Prompt == {m \in Members : member[m].waiting # NoConn}

ServerInv == TypeInv /\ MailboxInv /\ PresenceInv

LEMMA ServerFacts ==
  ASSUME ServerInv
  PROVE  /\ ChannelTypeOK /\ members \in Seq(Ids) /\ Members \subseteq Ids
         /\ Ids \subseteq Nat \ {0} /\ Once(members)
         /\ \A m \in Ids : /\ member[m] \in ChannelMember /\ Orderly(member[m])
                           /\ member[m].posted \in Seq(Response)
                           /\ member[m].handed \in Seq(Response)
                           /\ member[m].queue \in Seq(Response)
<1>1. TypeInv /\ MailboxInv /\ PresenceInv
  BY DEF ServerInv
<1>2. ChannelTypeOK
  BY <1>1 DEF TypeInv, TypeOK
<1>3. Once(members)
  BY <1>1 DEF PresenceInv
<1>4. Ids \subseteq Nat \ {0}
  BY ChannelAssumption DEF Ids
<1>5. members \in Seq(Ids) /\ Members \subseteq Ids
  <2>1. members \in Seq(1 .. lastId) /\ 1 .. lastId \subseteq Ids
    BY <1>2, ChannelAssumption DEF ChannelTypeOK, Ids
  <2>2. members \in Seq(Ids)
    BY <2>1, SeqMonotonic
  <2>3. Members \subseteq Ids
    BY <1>2, MembersAreIds
  <2> QED BY <2>2, <2>3
<1>6. ASSUME NEW m \in Ids
      PROVE  /\ member[m] \in ChannelMember /\ Orderly(member[m])
             /\ member[m].posted \in Seq(Response)
             /\ member[m].handed \in Seq(Response)
             /\ member[m].queue \in Seq(Response)
  <2>1. member[m] \in ChannelMember
    BY <1>2 DEF ChannelTypeOK
  <2>2. Orderly(member[m])
    BY <1>1 DEF MailboxInv
  <2>3. /\ member[m].posted \in Seq(Response) /\ member[m].handed \in Seq(Response)
        /\ member[m].queue \in Seq(Response)
    BY <2>1 DEF ChannelMember
  <2> QED BY <2>1, <2>2, <2>3
<1> QED BY <1>2, <1>3, <1>4, <1>5, <1>6

(* A poll is parked only when the mailbox is drained.                      *)
LEMMA PromptDrained == ServerInv => Prompt \subseteq Promised!Drained
<1> SUFFICES ASSUME ServerInv, NEW m \in Prompt PROVE m \in Promised!Drained
  OBVIOUS
<1>1. m \in Ids /\ member[m].waiting # NoConn
  BY ServerFacts DEF Prompt
<1>2. member[m].handed \o <<>> = member[m].handed
  BY <1>1, ServerFacts, ConcatEmptySeq
<1>3. member[m].posted = member[m].handed
  BY <1>1, <1>2, ServerFacts DEF Orderly
<1> QED BY <1>1, <1>3 DEF Promised!Drained

(* A response put into a mailbox is an item put into it.                   *)
LEMMA GotTells ==
  ASSUME ServerInv, NEW m \in Members, NEW x \in Response, Got(m, x)
  PROVE  /\ Boxes'[m] = Append(Boxes[m], Tells(x))
         /\ Handed'[m] = IF m \in Prompt THEN Boxes'[m] ELSE Handed[m]
<1>1. m \in Ids /\ member[m].posted \in Seq(Response)
  BY ServerFacts
<1>2. /\ Boxes'[m] = Events(member'[m].posted) /\ Boxes[m] = Events(member[m].posted)
      /\ Handed'[m] = Events(member'[m].handed) /\ Handed[m] = Events(member[m].handed)
  BY <1>1 DEF Boxes, Handed
<1>3. Boxes'[m] = Append(Boxes[m], Tells(x))
  BY <1>1, <1>2, EventsAppend DEF Got
<1>4. CASE m \in Prompt
  <2>1. member[m].handed \o <<>> = member[m].handed
    BY <1>1, ServerFacts, ConcatEmptySeq
  <2>2. member[m].waiting # NoConn /\ member[m].posted = member[m].handed
    BY <1>1, <1>4, <2>1, ServerFacts DEF Orderly, Prompt
  <2> QED BY <1>2, <1>3, <1>4, <2>2 DEF Got
<1>5. CASE m \notin Prompt
  BY <1>2, <1>3, <1>5 DEF Got, Prompt
<1> QED BY <1>3, <1>4, <1>5

LEMMA KeptTells ==
  ASSUME NEW m \in Ids, Kept(m)
  PROVE  Boxes'[m] = Boxes[m] /\ Handed'[m] = Handed[m]
BY DEF Kept, Boxes, Handed

-----------------------------------------------------------------------------
(* Each of the six kinds of steps.                                         *)

LEMMA StaysMaps ==
  ASSUME Stays
  PROVE  UNCHANGED Promised!vars
<1>1. Members' = Members
  BY DEF Stays, Members
<1>2. Boxes' = Boxes /\ Handed' = Handed
  BY DEF Stays, Kept, Boxes, Handed
<1> QED BY <1>1, <1>2 DEF Promised!vars, Boxes, Handed

LEMMA ForwardsMaps ==
  ASSUME ServerInv, NEW m \in Members, NEW peer \in Members,
         NEW body \in Bodies \cup {NoBody}, Forwards(m, peer, body)
  PROVE  Promised!Send(m, peer)
<1>1. /\ m \in Ids /\ peer \in Ids /\ m \in Nat \ {0} /\ Members' = Members
      /\ Mail(m, body) \in Response /\ Got(peer, Mail(m, body))
  BY ServerFacts, MailType DEF Forwards, Members
<1>2. PICK text \in Texts :
        Tells(Mail(m, body)) = [kind |-> "mail", who |-> {m}, text |-> text]
  BY <1>1, MailTells
<1> DEFINE item == [kind |-> "mail", who |-> {m}, text |-> text]
           boxes == [n \in Ids |-> IF n \in {peer} THEN Append(Boxes[n], item)
                                                   ELSE Boxes[n]]
           prompt == Prompt \cap {peer}
<1>3. Boxes' = boxes
  <2>1. \A n \in Ids : Boxes'[n] = boxes[n]
    BY <1>1, <1>2, GotTells, KeptTells DEF Forwards
  <2> QED BY <2>1 DEF Boxes
<1>4. Handed' = [n \in Ids |-> IF n \in prompt \cup {} THEN boxes[n] ELSE Handed[n]]
  <2>1. \A n \in Ids : Handed'[n] = IF n \in prompt THEN Boxes'[n] ELSE Handed[n]
    BY <1>1, GotTells, KeptTells DEF Forwards
  <2> HIDE DEF boxes
  <2> QED BY <2>1, <1>3 DEF Handed
<1>5. prompt \in SUBSET Promised!Drained
  BY PromptDrained
<1>6. Promised!With(item, {peer}) = boxes
  BY DEF Promised!With, Boxes
<1>7. Promised!Post(boxes, {})
  <2> HIDE DEF boxes, prompt
  <2> QED BY <1>3, <1>4, <1>5 DEF Promised!Post, Boxes, Handed
<1>8. Promised!SendText(m, peer, text)
  BY <1>1, <1>6, <1>7 DEF Promised!SendText
<1> QED BY <1>8 DEF Promised!Send
(* A queued response that answers a poll is the oldest pending item.       *)
LEMMA AnswersMaps ==
  ASSUME ServerInv, NEW m \in Members, Answers(m)
  PROVE  Promised!Take(m)
<1> DEFINE posted == member[m].posted
           handed == member[m].handed
           queue == member[m].queue
<1>1. /\ m \in Ids /\ Members' = Members /\ posted \in Seq(Response)
      /\ handed \in Seq(Response) /\ queue \in Seq(Response)
      /\ posted = handed \o queue /\ queue # <<>>
      /\ member'[m].posted = posted
      /\ member'[m].handed = Append(handed, Head(queue))
  BY ServerFacts DEF Answers, Members, Orderly
<1>2. \A n \in Ids \ {m} : Boxes'[n] = Boxes[n] /\ Handed'[n] = Handed[n]
  BY KeptTells DEF Answers
<1> HIDE DEF posted, handed, queue
<1>3. /\ Len(handed) < Len(posted) /\ Len(handed) + 1 \in 1 .. Len(posted)
      /\ posted[Len(handed) + 1] = Head(queue) /\ Head(queue) \in Response
  <2>1. /\ Len(queue) \in Nat \ {0} /\ Len(handed) \in Nat
        /\ Head(queue) = queue[1] /\ Head(queue) \in Response
    BY <1>1
  <2>2. /\ Len(posted) = Len(handed) + Len(queue)
        /\ \A p \in 1 .. Len(handed) + Len(queue) :
             posted[p] = IF p <= Len(handed) THEN handed[p] ELSE queue[p - Len(handed)]
    BY <1>1, ConcatProperties
  <2>3. /\ Len(handed) + 1 \in 1 .. Len(handed) + Len(queue)
        /\ ~(Len(handed) + 1 <= Len(handed)) /\ (Len(handed) + 1) - Len(handed) = 1
        /\ Len(handed) < Len(handed) + Len(queue)
    BY <2>1
  <2> QED BY <2>1, <2>2, <2>3
<1>4. /\ Len(Events(handed)) = Len(handed) /\ Len(Events(posted)) = Len(posted)
      /\ Events(posted)[Len(handed) + 1] = Tells(Head(queue))
  BY <1>1, <1>3, EventsType
<1>5. Events(Append(handed, Head(queue))) = Append(Events(handed), Tells(Head(queue)))
  BY <1>1, <1>3, EventsAppend
<1>6. /\ Boxes[m] = Events(posted) /\ Boxes'[m] = Events(posted)
      /\ Handed[m] = Events(handed)
      /\ Handed'[m] = Append(Handed[m], Boxes[m][Len(Handed[m]) + 1])
  <2>1. /\ Boxes[m] = Events(posted) /\ Boxes'[m] = Events(posted)
        /\ Handed[m] = Events(handed)
        /\ Handed'[m] = Events(Append(handed, Head(queue)))
    BY <1>1 DEF Boxes, Handed, posted, handed
  <2> QED BY <2>1, <1>4, <1>5
<1>7. Boxes' = Boxes
  BY <1>2, <1>6 DEF Boxes
<1>8. Handed' = [Handed EXCEPT ![m] = Append(@, Boxes[m][Len(@) + 1])]
  BY <1>1, <1>2, <1>6 DEF Handed
<1>9. Len(Handed[m]) < Len(Boxes[m])
  BY <1>3, <1>4, <1>6
<1> QED BY <1>1, <1>7, <1>8, <1>9 DEF Promised!Take, Boxes, Handed

(* AddMember: the others are told, the newcomer gets the list.             *)
LEMMA JoinsMaps ==
  ASSUME ServerInv, NEW new \in Ids, Joins(new)
  PROVE  Promised!Join(new)
<1> DEFINE item == Promised!Happened("joined", {new})
           list == <<Promised!Happened("welcome", Members \cup {new})>>
           told == [n \in Ids |-> IF n \in Members THEN Append(Boxes[n], item)
                                                   ELSE Boxes[n]]
           boxes == [told EXCEPT ![new] = list]
<1>1. /\ new \notin Members /\ members \in Seq(Ids) /\ members' = Append(members, new)
      /\ Members \subseteq Ids /\ new \in Nat
  BY ServerFacts DEF Joins
<1>2. Members' = Members \cup {new}
  <2>1. /\ DOMAIN members = 1 .. Len(members) /\ Len(members) \in Nat
        /\ DOMAIN members' = 1 .. Len(members) + 1
        /\ members'[Len(members) + 1] = new
        /\ \A n \in 1 .. Len(members) : members'[n] = members[n]
    BY <1>1
  <2> QED BY <2>1 DEF Members
<1>3. ASSUME NEW n \in Members
      PROVE  /\ Boxes'[n] = Append(Boxes[n], item)
             /\ Handed'[n] = IF n \in Prompt THEN Boxes'[n] ELSE Handed[n]
  <2>1. Notice(n, new, TRUE) \in Response
    BY <1>1, ServerFacts, NoticeType
  <2>2. Got(n, Notice(n, new, TRUE)) /\ Tells(Notice(n, new, TRUE)) = item
    BY NoticeTells DEF Joins
  <2> HIDE DEF item
  <2> QED BY <2>1, <2>2, GotTells
<1>4. Boxes'[new] = list /\ Handed'[new] = list
  <2> DEFINE x == BuildResponseForNewMember(new)
  <2>1. x \in Response /\ Tells(x) = Promised!Happened("welcome", Members \cup {new})
    BY <1>1, ServerFacts, RosterType, RosterTells
  <2>2. member'[new].posted = <<x>> /\ member'[new].handed = <<x>>
    BY DEF Joins, NewMember
  <2> HIDE DEF x
  <2>3. Events(<<x>>) = list
    BY <2>1, EventsOne
  <2> QED BY <2>2, <2>3 DEF Boxes, Handed
<1>5. \A n \in Ids \ (Members \cup {new}) : Boxes'[n] = Boxes[n] /\ Handed'[n] = Handed[n]
  BY KeptTells DEF Joins
<1>6. Boxes' = boxes
  <2> HIDE DEF item, list
  <2>1. \A n \in Ids : Boxes'[n] = boxes[n]
    BY <1>1, <1>3, <1>4, <1>5
  <2> QED BY <2>1 DEF Boxes
<1>7. Handed' = [n \in Ids |-> IF n \in Prompt \cup {new} THEN boxes[n] ELSE Handed[n]]
  <2>1. \A n \in Ids :
          Handed'[n] = IF n \in Prompt \cup {new} THEN Boxes'[n] ELSE Handed[n]
    <3>1. Prompt \subseteq Members
      BY DEF Prompt
    <3> HIDE DEF item, list
    <3> QED BY <3>1, <1>1, <1>3, <1>4, <1>5
  <2> HIDE DEF boxes
  <2> QED BY <2>1, <1>6 DEF Handed
<1>8. Prompt \in SUBSET Promised!Drained
  BY PromptDrained
<1>9. [Promised!With(item, Members) EXCEPT ![new] = list] = boxes
  BY DEF Promised!With, Boxes
<1>10. Promised!Post(boxes, {new})
  <2> HIDE DEF boxes
  <2> QED BY <1>6, <1>7, <1>8 DEF Promised!Post, Boxes, Handed
<1> HIDE DEF boxes
<1> QED BY <1>1, <1>2, <1>9, <1>10 DEF Promised!Join, item, list

(* EraseMember: the remaining members are told.                            *)
LEMMA DepartsMaps ==
  ASSUME ServerInv, NEW k \in DOMAIN members, Departs(k)
  PROVE  Promised!Leave(members[k])
<1> DEFINE gone == members[k]
           item == Promised!Happened("left", {gone})
           rest == Members \ {gone}
           told == [n \in Ids |-> IF n \in rest THEN Append(Boxes[n], item)
                                                ELSE Boxes[n]]
           boxes == [told EXCEPT ![gone] = <<>>]
           prompt == Prompt \ {gone}
<1>1. /\ gone \in Members /\ gone \in Ids /\ k \in 1 .. Len(members)
      /\ Members \subseteq Ids /\ gone \in Nat
  BY ServerFacts DEF Members
<1>2. Members' = rest
  <2>1. Elements(RemoveAt(members, k)) = Elements(members) \ {members[k]}
    BY <1>1, ServerFacts, RemoveOnce
  <2> QED BY <2>1 DEF Departs, Members, Elements
<1>3. ASSUME NEW n \in rest
      PROVE  /\ Boxes'[n] = Append(Boxes[n], item)
             /\ Handed'[n] = IF n \in prompt THEN Boxes'[n] ELSE Handed[n]
  <2>1. Notice(n, gone, FALSE) \in Response
    BY <1>1, ServerFacts, NoticeType
  <2>2. Got(n, Notice(n, gone, FALSE)) /\ Tells(Notice(n, gone, FALSE)) = item
    BY NoticeTells DEF Departs
  <2> HIDE DEF item, gone
  <2> QED BY <2>1, <2>2, GotTells
<1> HIDE DEF gone
<1>4. Boxes'[gone] = <<>> /\ Handed'[gone] = <<>>
  <2>1. member'[gone].posted = <<>> /\ member'[gone].handed = <<>>
    BY DEF Departs, NoMember, gone
  <2>2. Events(<<>>) = <<>>
    BY DEF Events
  <2> QED BY <1>1, <2>1, <2>2 DEF Boxes, Handed
<1>5. \A n \in Ids \ Members : Boxes'[n] = Boxes[n] /\ Handed'[n] = Handed[n]
  BY KeptTells DEF Departs
<1>6. Boxes' = boxes
  <2> HIDE DEF item
  <2>1. \A n \in Ids : Boxes'[n] = boxes[n]
    BY <1>1, <1>3, <1>4, <1>5
  <2> QED BY <2>1 DEF Boxes
<1>7. Handed' = [n \in Ids |-> IF n \in prompt \cup {gone} THEN boxes[n] ELSE Handed[n]]
  <2>1. \A n \in Ids :
          Handed'[n] = IF n \in prompt \cup {gone} THEN Boxes'[n] ELSE Handed[n]
    <3>1. Prompt \subseteq Members
      BY DEF Prompt
    <3> HIDE DEF item
    <3> QED BY <3>1, <1>1, <1>3, <1>4, <1>5
  <2> HIDE DEF boxes
  <2> QED BY <2>1, <1>6 DEF Handed
<1>8. prompt \in SUBSET Promised!Drained
  BY PromptDrained
<1>9. [Promised!With(item, rest) EXCEPT ![gone] = <<>>] = boxes
  BY DEF Promised!With, Boxes
<1>10. Promised!Post(boxes, {gone})
  <2> HIDE DEF boxes
  <2> QED BY <1>6, <1>7, <1>8 DEF Promised!Post, Boxes, Handed
<1> HIDE DEF boxes, item, rest
<1>11. Promised!Leave(gone)
  BY <1>1, <1>2, <1>9, <1>10 DEF Promised!Leave, item, rest
<1> QED BY <1>11 DEF gone

LEMMA CloseAllMaps ==
  ASSUME CloseAll
  PROVE  Promised!Dismiss
<1>1. Members' = {}
  <2>1. Len(members') = 0 /\ members' \in Seq(Ids)
    BY DEF CloseAll
  <2> QED BY <2>1 DEF Members
<1>2. Events(<<>>) = <<>>
  BY DEF Events
<1>3. Boxes' = [m \in Ids |-> <<>>] /\ Handed' = [m \in Ids |-> <<>>]
  BY <1>2 DEF CloseAll, NoMember, Boxes, Handed
<1> QED BY <1>1, <1>3 DEF Promised!Dismiss, Boxes, Handed

-----------------------------------------------------------------------------
(* The refinement.                                                         *)

LEMMA InitMaps == Init => Promised!Init
<1> SUFFICES ASSUME Init PROVE Promised!Init
  OBVIOUS
<1>1. Members = {}
  <2>1. Len(members) = 0 /\ members \in Seq(Ids)
    BY DEF Init, ChannelInit
  <2> QED BY <2>1 DEF Members
<1>2. Events(<<>>) = <<>>
  BY DEF Events
<1>3. Boxes = [m \in Ids |-> <<>>] /\ Handed = [m \in Ids |-> <<>>]
  BY <1>2 DEF Init, ChannelInit, NoMember, Boxes, Handed
<1> QED BY <1>1, <1>3 DEF Promised!Init, Boxes, Handed

LEMMA StepMaps == ServerInv /\ [Next]_vars => [Promised!Next]_(Promised!vars)
<1> SUFFICES ASSUME ServerInv, [Next]_vars
             PROVE  Promised!Next \/ UNCHANGED Promised!vars
  OBVIOUS
<1>1. ChannelStep /\ Members \subseteq Ids
  BY NextChannel, ServerFacts DEF ServerInv
<1>2. CASE Stays
  BY <1>2, StaysMaps
<1>3. ASSUME NEW m \in Members, Answers(m) PROVE Promised!Next
  BY <1>1, <1>3, AnswersMaps DEF Promised!Next
<1>4. ASSUME NEW m \in Members, NEW peer \in Members,
             NEW body \in Bodies \cup {NoBody}, Forwards(m, peer, body)
      PROVE  Promised!Next
  BY <1>1, <1>4, ForwardsMaps DEF Promised!Next
<1>5. ASSUME NEW new \in Ids, Joins(new) PROVE Promised!Next
  BY <1>5, JoinsMaps DEF Promised!Next
<1>6. ASSUME NEW k \in DOMAIN members, Departs(k) PROVE Promised!Next
  <2>1. members[k] \in Ids
    BY <1>1 DEF Members
  <2> QED BY <1>6, <2>1, DepartsMaps DEF Promised!Next
<1>7. CASE CloseAll
  BY <1>7, CloseAllMaps DEF Promised!Next
<1> QED BY <1>1, <1>2, <1>3, <1>4, <1>5, <1>6, <1>7 DEF ChannelStep

LEMMA ServerInvHolds == Spec => []ServerInv
<1>1. Init => ServerInv
  <2> SUFFICES ASSUME Init PROVE ServerInv
    OBVIOUS
  <2>1. MailboxInv
    BY NoMemberOrderly DEF Init, ChannelInit, MailboxInv
  <2> QED BY <2>1, TypeInit, PresenceInit DEF ServerInv
<1>2. ServerInv /\ [Next]_vars => ServerInv'
  BY TypeStep, MailboxStep, PresenceStep DEF ServerInv
<1> QED BY <1>1, <1>2, PTL DEF Spec

(* The server implements the channel: no erasing loop that passes over a   *)
(* member or a socket, lost connection or late poll makes a mailbox skip,  *)
(* repeat, reorder or invent an event.                                     *)
THEOREM ServerImplementsChannel == Spec => ImplementsChannel
<1>1. ServerInv /\ [Next]_vars => [UNCHANGED Promised!vars \/ Promised!Next]_vars
  BY StepMaps
<1> QED BY <1>1, InitMaps, ServerInvHolds, PTL DEF Spec, ImplementsChannel

(* The same, as the refinement of one specification by another.            *)
THEOREM ServerRefinesChannel == Spec => Promised!Spec
<1> QED BY InitMaps, StepMaps, ServerInvHolds, PTL DEF Spec, Promised!Spec
=============================================================================
