------------------------ MODULE PeerConnectionClient ------------------------
(***************************************************************************)
(* The signaling client (client/peer_connection_client.cc): its state, and *)
(* for every method and callback the state it leaves behind.               *)
(*                                                                         *)
(* The client owns two sockets.  The control socket carries one request at *)
(* a time; the hanging GET polls for notifications.  Every response asks   *)
(* for the connection to be closed, and a new one is opened for the next   *)
(* request.  giveUp says that the application, called back, fails to set   *)
(* up its peer connection and signs out; ok says that connect(2) starts    *)
(* (the handlers that connect the hanging GET twice retry at once, so ok   *)
(* is the outcome of the last attempt).                                    *)
(***************************************************************************)
EXTENDS Integers

CONSTANTS
  MaxId,        \* bound: members a server creates in one life
  MaxRetries    \* bound: delayed reconnections pending at one time

ASSUME ClientAssumption == MaxId \in Nat \ {0} /\ MaxRetries \in Nat

Ids == 1 .. MaxId
NoId == -1
Sockets == {"control", "hanging"}

States == {"NOT_CONNECTED", "RESOLVING", "SIGNING_IN", "CONNECTED",
           "SIGNING_OUT_WAITING", "SIGNING_OUT"}

(* A request: its path, the sender's "peer_id=" and the addressee's "to=". *)
Ask(path, id, to) == [path |-> path, id |-> id, to |-> to]
NoAsk == Ask("none", NoId, NoId)

Asks == [path : {"none", "/sign_in", "/wait", "/message", "/sign_out"},
         id : Ids \cup {NoId}, to : Ids \cup {NoId}]

(* A response: its status, the Pragma header, and the members its body     *)
(* tells of.  A notification carries the client's own id, a message that   *)
(* of its sender, and the server's farewell none.                          *)
Answer(status, pragma, joined, left) ==
  [status |-> status, pragma |-> pragma, joined |-> joined, left |-> left]
NoAnswer == Answer("none", NoId, {}, {})

Answers == [status : {"none", "200", "500"}, pragma : Ids \cup {NoId},
            joined : SUBSET Ids, left : SUBSET Ids]

(* running is the thread's message loop, which the applications stop when  *)
(* they are told OnDisconnected or OnServerConnectionFailure.  retries are *)
(* the delayed DoConnect tasks of the thread.  Sockets that do not exist   *)
(* yet are closed: no method touches them before DoConnect.                *)
Clients ==
  [state : States, id : Ids \cup {NoId}, peers : SUBSET Ids,
   sock : [Sockets -> {"closed", "connecting", "connected"}],
   onconnect : Asks, retries : 0 .. MaxRetries, running : BOOLEAN]

NewClient ==
  [state |-> "NOT_CONNECTED", id |-> NoId, peers |-> {},
   sock |-> [s \in Sockets |-> "closed"],
   onconnect |-> NoAsk, retries |-> 0, running |-> TRUE]

-----------------------------------------------------------------------------
(* OnDisconnected and OnServerConnectionFailure of both applications.      *)
Quit(c) == [c EXCEPT !.running = FALSE]

(* Mutant: the control socket is left open.                                *)
CloseHanging(c) ==
  [c EXCEPT !.state = "NOT_CONNECTED", !.id = NoId, !.peers = {},
            !.sock["hanging"] = "closed", !.onconnect = NoAsk]

Close(c) ==
  [c EXCEPT !.state = "NOT_CONNECTED", !.id = NoId, !.peers = {},
            !.sock = [s \in Sockets |-> "closed"], !.onconnect = NoAsk]

ConnectControlSocket(c, ok) ==
  IF ok THEN [c EXCEPT !.sock["control"] = "connecting"] ELSE Close(c)

(* hanging_get_->Connect, whose failure nobody looks at.                   *)
Poll(c, ok) ==
  [c EXCEPT !.sock["hanging"] = IF ok THEN "connecting" ELSE "closed"]

(* Two new sockets; my_id_ and peers_ stay what they are.                  *)
DoConnect(c, ok) ==
  LET asked == [c EXCEPT !.sock = [s \in Sockets |-> "closed"],
                         !.onconnect = Ask("/sign_in", NoId, NoId)]
      tried == ConnectControlSocket(asked, ok)
  IN IF ok THEN [tried EXCEPT !.state = "SIGNING_IN"] ELSE Quit(tried)

(* The server is given by address or by a name that has to be resolved.    *)
Connect(c, named, ok) ==
  IF c.state # "NOT_CONNECTED" THEN Quit(c)
  ELSE IF named THEN [c EXCEPT !.state = "RESOLVING"]
  ELSE DoConnect(c, ok)

OnResolveResult(c, resolved, ok) ==
  IF resolved THEN DoConnect(c, ok)
              ELSE [Quit(c) EXCEPT !.state = "NOT_CONNECTED"]

IsSendingMessage(c) == c.state = "CONNECTED" /\ c.sock["control"] # "closed"

SendToPeer(c, to, ok) ==
  IF c.state # "CONNECTED" \/ c.id = NoId THEN c
  ELSE ConnectControlSocket(
         [c EXCEPT !.onconnect = Ask("/message", c.id, to)], ok)

(* Mutant: the hanging GET is left open.                                   *)
SignOutPolling(c, ok) ==
  IF c.state \in {"NOT_CONNECTED", "SIGNING_OUT"} THEN c
  ELSE IF c.sock["control"] # "closed"
  THEN [c EXCEPT !.state = "SIGNING_OUT_WAITING"]
  ELSE ConnectControlSocket([c EXCEPT !.state = "SIGNING_OUT",
                               !.onconnect = Ask("/sign_out", c.id, NoId)], ok)

(* A busy control socket must answer first; a client without an id has     *)
(* nothing to sign out.                                                    *)
SignOut(c, ok) ==
  LET quiet == [c EXCEPT !.sock["hanging"] = "closed"]
  IN IF c.state \in {"NOT_CONNECTED", "SIGNING_OUT"} THEN c
     ELSE IF c.sock["control"] # "closed"
     THEN [quiet EXCEPT !.state = "SIGNING_OUT_WAITING"]
     ELSE IF c.id = NoId THEN [quiet EXCEPT !.state = "SIGNING_OUT"]
     ELSE ConnectControlSocket([quiet EXCEPT !.state = "SIGNING_OUT",
                                  !.onconnect = Ask("/sign_out", c.id, NoId)], ok)

-----------------------------------------------------------------------------
(* Socket events.                                                          *)

(* OnConnect and OnHangingGetConnect: what is sent, and the state after.   *)
Sent(c, s) ==
  IF s = "control" THEN c.onconnect ELSE Ask("/wait", c.id, NoId)

OnConnect(c, s) ==
  [c EXCEPT !.sock[s] = "connected",
            !.onconnect = IF s = "control" THEN NoAsk ELSE @]

(* Mutants: any refused connection is tried again; a refused poll closes   *)
(* the client but the application is not told.                             *)
OnCloseRetries(c, s, refused, ok) ==
  LET shut == [c EXCEPT !.sock[s] = "closed"]
  IN IF refused THEN [shut EXCEPT !.retries = @ + 1]
     ELSE IF s = "hanging" /\ shut.state = "CONNECTED" THEN Poll(shut, ok)
     ELSE shut

OnCloseSilently(c, s, refused, ok) ==
  LET shut == [c EXCEPT !.sock[s] = "closed"]
  IN CASE refused /\ s = "control" -> [shut EXCEPT !.retries = @ + 1]
       [] refused /\ s = "hanging" -> Close(shut)
       [] ~refused /\ s = "hanging" /\ shut.state = "CONNECTED" -> Poll(shut, ok)
       [] OTHER -> shut

(* refused is err = ECONNREFUSED.  OnMessageSent, which a closed control   *)
(* socket calls, is empty in both applications.                            *)
OnClose(c, s, refused, ok) ==
  LET shut == [c EXCEPT !.sock[s] = "closed"]
  IN CASE refused /\ s = "control" -> [shut EXCEPT !.retries = @ + 1]
       [] refused /\ s = "hanging" -> Quit(Close(shut))
       [] ~refused /\ s = "hanging" /\ shut.state = "CONNECTED" -> Poll(shut, ok)
       [] OTHER -> shut

(* A complete response says "Connection: close": ReadIntoBuffer closes the *)
(* socket and calls OnClose itself, before the response is looked at.      *)
ReadIntoBuffer(c, s, ok) == OnClose(c, s, FALSE, ok)

(* ParseServerResponse, when the status is not 200.                        *)
Rejected(c) == Quit(Close(c))

(* The first response: our id, and the members listed in ascending order.  *)
(* The application is called back for each of them; if it gives up at the  *)
(* first and the client closes, the later ones are entered nevertheless.   *)
FirstResponse(c, a, giveUp, ok) ==
  LET listed == a.joined \ {a.pragma}
      later == {k \in listed : \E i \in listed : i < k}
      named == [c EXCEPT !.id = a.pragma, !.peers = @ \cup listed]
      out == SignOut(named, ok)
  IN IF giveUp /\ listed # {} THEN [out EXCEPT !.peers = @ \cup later]
     ELSE named

(* Mutants: the first poll is not sent, or the state not set; a sign-out   *)
(* that had to wait for the control socket is forgotten.                   *)
StartsSigningIn(c, ok) ==
  IF c.state = "SIGNING_IN" THEN Poll(c, ok) ELSE c

StartsNoPolling(c, ok) ==
  IF c.state = "SIGNING_IN" THEN [c EXCEPT !.state = "CONNECTED"] ELSE c

StartPolling(c, ok) ==
  IF c.state = "SIGNING_IN" THEN Poll([c EXCEPT !.state = "CONNECTED"], ok) ELSE c

OnReadForgetful(c, a, giveUp, ok) ==
  LET read == ReadIntoBuffer(c, "control", ok)
  IN IF a.status # "200" THEN Rejected(read)
     ELSE IF read.id = NoId THEN StartPolling(FirstResponse(read, a, giveUp, ok), ok)
     ELSE IF read.state = "SIGNING_OUT" THEN Quit(Close(read))
     ELSE StartPolling(read, ok)

OnRead(c, a, giveUp, ok) ==
  LET read == ReadIntoBuffer(c, "control", ok)
  IN IF a.status # "200" THEN Rejected(read)
     ELSE IF read.id = NoId THEN StartPolling(FirstResponse(read, a, giveUp, ok), ok)
     ELSE IF read.state = "SIGNING_OUT" THEN Quit(Close(read))
     ELSE IF read.state = "SIGNING_OUT_WAITING" THEN SignOut(read, ok)
     ELSE StartPolling(read, ok)

(* Mutant: the third field of an entry is not looked at.                   *)
NotifiedOfArrivals(c, a, giveUp, ok) ==
  LET knows == [c EXCEPT !.peers = @ \cup a.joined \cup a.left]
  IN IF giveUp /\ a.joined # {} THEN SignOut(knows, ok) ELSE knows

(* A notification, or, with another id, a message from that peer.          *)
Notified(c, a, giveUp, ok) ==
  LET knows == IF c.id = a.pragma
               THEN [c EXCEPT !.peers = (@ \cup a.joined) \ a.left] ELSE c
  IN IF giveUp /\ (a.joined # {} \/ c.id # a.pragma)
     THEN SignOut(knows, ok) ELSE knows

OnHangingGetRead(c, a, giveUp, ok) ==
  LET read == ReadIntoBuffer(c, "hanging", ok)
      told == IF a.status = "200" THEN Notified(read, a, giveUp, ok)
                                  ELSE Rejected(read)
  IN IF told.sock["hanging"] = "closed" /\ told.state = "CONNECTED"
     THEN Poll(told, ok) ELSE told
=============================================================================
