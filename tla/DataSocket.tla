----------------------------- MODULE DataSocket -----------------------------
(***************************************************************************)
(* The HTTP connections of the signaling server (server/data_socket.cc):   *)
(* what the remote end has done to each connection, how much of its one    *)
(* request the server has read, and the responses sent on it.              *)
(*                                                                         *)
(* Bytes are abstracted to landmarks of the request stream: nothing, a     *)
(* part of the request, the whole of it, and stray bytes after it, segment *)
(* by segment.                                                             *)
(***************************************************************************)
EXTENDS Integers, Sequences, FiniteSets

CONSTANTS
  Conns,      \* connection slots; a slot is used again once the server deletes it
  Requests,   \* the requests a remote end may write
  Levels,     \* the landmarks a remote end may reach by writing
  Bodies,     \* bodies of POST requests
  NoRequest, NoConn, Listener

Part == 1     \* some bytes, not yet a complete request
Whole == 2    \* the complete request (headers, and the body of a POST);
              \* Whole + n: n segments of stray bytes after it

(* INVALID: the request line does not parse.                               *)
Methods == {"GET", "POST", "OPTIONS", "INVALID"}
Paths == {"/sign_in", "/wait", "/sign_out", "/message", "/quit", "/"}
NoBody == "no body"

(* peer and to are the "peer_id=" and "to=" arguments, 0 when absent; a    *)
(* POST without a body is one that announces no length (content_length_    *)
(* stays 0); one that announces only a length is not among the requests.   *)
Request == [method : Methods, path : Paths, peer : Nat, to : Nat,
            body : Bodies \cup {NoBody}]

ASSUME RequestsAssumption ==
  /\ Requests \subseteq Request
  /\ \A r \in Requests : r.body # NoBody => r.method = "POST"
  /\ \A r \in Requests : r.path = "/wait" => r.method = "GET"

ASSUME ConnsAssumption ==
  /\ Conns # {}
  /\ NoConn \notin Conns
  /\ Listener \notin Conns
  /\ NoRequest \notin Requests
  /\ Levels \subseteq Nat \ {0}

(* A response: its status line, the id in its Pragma header (0 when there  *)
(* is none), the entries "name,id,connected" of its body, or another text. *)
Texts == Bodies \cup {"", "Server shutting down", "Peer most likely gone.",
                      "Quitting...", "Sorry, not yet implemented"}
Statuses == {"200 OK", "200 Added", "500 Error", "500 Sorry"}
Entry == [id : Nat, up : BOOLEAN]
Response == [status : Statuses, pragma : Nat, entries : Seq(Entry), text : Texts]

Reply(status, text) ==
  [status |-> status, pragma |-> 0, entries |-> <<>>, text |-> text]

VARIABLES
  remote,     \* remote[c]: "none" (slot free), "up", "gone" (the client closed it)
  backlog,    \* connections the kernel completed and the server has not accepted
  req,        \* req[c]: the request written on c
  wrote,      \* wrote[c]: the landmark the client has written up to
  read,       \* read[c]: the landmark the server has read up to
  out         \* out[c]: the responses sent to the client on c

socketVars == <<remote, backlog, req, wrote, read, out>>

SocketTypeOK ==
  /\ remote \in [Conns -> {"none", "up", "gone"}]
  /\ backlog \subseteq Conns
  /\ req \in [Conns -> Requests \cup {NoRequest}]
  /\ wrote \in [Conns -> Nat]
  /\ read \in [Conns -> Nat]
  /\ out \in [Conns -> Seq(Response)]

SocketInit ==
  /\ remote = [c \in Conns |-> "none"]
  /\ backlog = {}
  /\ req = [c \in Conns |-> NoRequest]
  /\ wrote = [c \in Conns |-> 0]
  /\ read = [c \in Conns |-> 0]
  /\ out = [c \in Conns |-> <<>>]

-----------------------------------------------------------------------------
(* What the remote ends do: not the server's code, but what it must face.  *)

Connect(c) ==
  /\ remote[c] = "none"
  /\ remote' = [remote EXCEPT ![c] = "up"]
  /\ backlog' = backlog \cup {c}
  /\ UNCHANGED <<req, wrote, read, out>>

(* The client starts its request; n is how far the first segment reaches.  *)
Write(c, r, n) ==
  /\ remote[c] = "up"
  /\ wrote[c] = 0
  /\ req' = [req EXCEPT ![c] = r]
  /\ wrote' = [wrote EXCEPT ![c] = n]
  /\ UNCHANGED <<remote, backlog, read, out>>

(* Later segments of the same request, or bytes nobody asked for.          *)
WriteMore(c, n) ==
  /\ remote[c] = "up"
  /\ 0 < wrote[c] /\ wrote[c] < n
  /\ wrote' = [wrote EXCEPT ![c] = n]
  /\ UNCHANGED <<remote, backlog, req, read, out>>

(* The client closes its end; what it wrote before can still be read.      *)
Hangup(c) ==
  /\ remote[c] = "up"
  /\ remote' = [remote EXCEPT ![c] = "gone"]
  /\ out' = [out EXCEPT ![c] = <<>>]
  /\ UNCHANGED <<backlog, req, wrote, read>>

-----------------------------------------------------------------------------
(* The server's side of a connection.                                      *)

(* FD_ISSET after select: bytes to read, or end of file.                   *)
Readable(c) == read[c] < wrote[c] \/ remote[c] = "gone"

(* recv returns 0 or an error: OnDataAvailable sets *close_socket.         *)
AtEof(c) == remote[c] = "gone" /\ read[c] = wrote[c]

(* Mutant: stray bytes are not told from a request, whatever the method.   *)
RequestCompleteAlways(c) == wrote[c] >= Whole

(* Whether the request line names a method that the server knows.          *)
ParseMethodAndPath(c) == req[c].method # "INVALID"

(* Whether a POST announces its length and its type: content_length_ > 0.  *)
ParseContentLengthAndType(c) == req[c].body # NoBody

(* After this read OnDataAvailable returns true and request_received():    *)
(* the bytes of a POST after its headers are appended to its body, so each *)
(* further read of a complete POST reports a request again, even of one    *)
(* whose headers did not parse; further bytes of a GET or OPTIONS are      *)
(* "unexpectedly received data".  A request line that does not parse is    *)
(* never reported: its client waits for ever.                              *)
RequestComplete(c) ==
  /\ wrote[c] >= Whole /\ ParseMethodAndPath(c)
  /\ \/ req[c].method = "POST" /\ (read[c] >= Whole \/ ParseContentLengthAndType(c))
     \/ req[c].method # "POST" /\ read[c] < Whole

(* OnDataAvailable: everything the client has written is taken at once.  A *)
(* request longer than the code's 4095-byte buffer takes several reads;    *)
(* that is the behaviour in which the client writes Part, then Whole.      *)
Recv(c) == read' = [read EXCEPT ![c] = wrote[c]]

(* The value of out after the server sends x on c.  A send to a client     *)
(* that has closed its end is lost; the code ignores the outcome.          *)
Send(sent, c, x) ==
  IF remote[c] = "up" THEN [sent EXCEPT ![c] = Append(@, x)] ELSE sent

(* The descriptors of the connections in S are closed, while the rest of  *)
(* the step reads up to reads and leaves the responses sent.               *)
CloseSockets(S, reads, sent) ==
  /\ remote' = [c \in Conns |-> IF c \in S THEN "none" ELSE remote[c]]
  /\ backlog' = backlog \ S
  /\ req' = [c \in Conns |-> IF c \in S THEN NoRequest ELSE req[c]]
  /\ wrote' = [c \in Conns |-> IF c \in S THEN 0 ELSE wrote[c]]
  /\ read' = [c \in Conns |-> IF c \in S THEN 0 ELSE reads[c]]
  /\ out' = [c \in Conns |-> IF c \in S THEN <<>> ELSE sent[c]]
=============================================================================
