---------------------------- MODULE SocketClient ----------------------------
(***************************************************************************)
(* The adapter that speaks to VPP through a socket                         *)
(* (adapter/socketclient; adapter/tcpclient has the same steps): Connect,  *)
(* Disconnect, SendMsg, and readerLoop with the copy its callback makes.   *)
(* It is used as core uses it: one goroutine connects and disconnects, and *)
(* disconnects only when connected; senders check that first.              *)
(*                                                                         *)
(* A message is a header and Parts pieces of data.  A read returns what    *)
(* has arrived, piece by piece; a write may stop between pieces.           *)
(***************************************************************************)
EXTENDS Naturals, Sequences

CONSTANTS Senders,    \* goroutines that call SendMsg
          Parts,      \* pieces of data of a message
          Cap,        \* what the socket holds that VPP has not read
          MaxConns,   \* bound: connections
          MaxSends,   \* bound: calls of SendMsg
          MaxEvents   \* bound: messages VPP sends per connection, besides
                      \* the replies to sockclnt_create and _delete

ASSUME SocketAssumption ==
    /\ Parts \in Nat \ {0} /\ Cap \in Nat \ {0}
    /\ Senders \cap {"user", "free"} = {}
    /\ MaxConns \in Nat /\ MaxSends \in Nat /\ MaxEvents \in Nat

VARIABLES
    conn,     \* number of the present connection: c.conn, c.reader, c.writer
    sock,     \* the present connection, see Fresh
    quit,     \* c.quit is closed
    user,     \* the goroutine that connects and disconnects
    reader,   \* readerLoop: "off" when no such goroutine is left
    buf,      \* its buffer, one for all messages
    handed,   \* what the callback has handed over, per message
    writeMu,  \* holder of writeMu, or "free"
    writer,   \* writeMsg: per caller where it is
    sends     \* bound: calls so far

vars == <<conn, sock, quit, user, reader, buf, handed, writeMu, writer, sends>>

Callers == Senders \cup {"user"}

(* A socket just made: pieces in flight each way, is VPP at the other end,  *)
(* has the client shut it for reading or closed it; `expects` is the piece  *)
(* VPP reads next, `garbled` that another came; `owed` the handshake        *)
(* replies VPP has to give.  Ghosts: `sent`, the messages VPP has sent;     *)
(* `straddled`, a writer came over from an earlier connection.              *)
Fresh == [out |-> <<>>, in |-> <<>>, peer |-> TRUE, shut |-> "no",
          closed |-> FALSE, expects |-> <<>>, garbled |-> FALSE, owed |-> {},
          sent |-> <<>>, straddled |-> FALSE]

Init == /\ conn = 0 /\ sock = [Fresh EXCEPT !.peer = FALSE, !.closed = TRUE]
        /\ quit = FALSE /\ user = "off" /\ reader = "off"
        /\ buf = <<>> /\ handed = <<>>
        /\ writeMu = "free" /\ sends = 0
        /\ writer = [x \in Callers |-> [pc |-> "idle"]]

Create  == <<"create", 0>>    \* sockclnt_create and its reply
Delete  == <<"delete", 0>>    \* sockclnt_delete and its reply
Request == <<"request", 0>>
Events  == {<<"event", k>> : k \in 1..MaxEvents}

Pieces(m) == [p \in 1..Parts + 1 |-> <<m, p - 1>>]

(* A whole message has arrived.                                             *)
Ready == Len(sock.in) > Parts
AfterOne == SubSeq(sock.in, Parts + 2, Len(sock.in))

-----------------------------------------------------------------------------
(* writeMsg, called by SendMsg, open and close *)

(* processRequest checks that the connection is up before it sends.         *)
SendMsg(x) ==
    /\ writer[x].pc = "idle" /\ user = "on" /\ sends < MaxSends
    /\ writer' = [writer EXCEPT ![x] = [pc |-> "lock", conn |-> conn, m |-> Request]]
    /\ sends' = sends + 1
    /\ UNCHANGED <<conn, sock, quit, user, reader, buf, handed, writeMu>>

(* Mutant of LockWriter: no lock.                                           *)
LockWriterNever(x) ==
    /\ writer[x].pc = "lock"
    /\ writer' = [writer EXCEPT ![x] = [pc |-> "write", conn |-> @.conn, m |-> @.m,
                                        p |-> 0]]
    /\ UNCHANGED <<conn, sock, quit, user, reader, buf, handed, writeMu, sends>>

LockWriter(x) ==
    /\ writer[x].pc = "lock" /\ writeMu = "free"
    /\ writeMu' = x
    /\ writer' = [writer EXCEPT ![x] = [pc |-> "write", conn |-> @.conn, m |-> @.m,
                                        p |-> 0]]
    /\ UNCHANGED <<conn, sock, quit, user, reader, buf, handed, sends>>

(* writeMsg returns, to open or close in the case of the user.              *)
WriteReturns(x, ok) ==
    /\ writer' = [writer EXCEPT ![x] = [pc |-> "idle"]]
    /\ writeMu' = "free"
    /\ user' = IF x # "user" THEN user
               ELSE CASE user = "create" -> IF ok THEN "createReply" ELSE "close"
                      [] user = "delete" -> IF ok THEN "deleteReply" ELSE "close"

(* The header, the data and Flush, each through c.writer as it is now.  A   *)
(* write waits while the socket is full.                                    *)
WritePiece(x) ==
    /\ writer[x].pc = "write" /\ sock.peer /\ ~sock.closed /\ Len(sock.out) < Cap
    /\ sock' = [sock EXCEPT !.out = Append(@, <<writer[x].m, writer[x].p>>),
                            !.straddled = @ \/ writer[x].conn # conn]
    /\ IF writer[x].p = Parts
       THEN WriteReturns(x, TRUE)
       ELSE /\ writer' = [writer EXCEPT ![x].p = @ + 1]
            /\ UNCHANGED <<writeMu, user>>
    /\ UNCHANGED <<conn, quit, reader, buf, handed, sends>>

WriteFails(x) ==
    /\ writer[x].pc = "write" /\ (~sock.peer \/ sock.closed)
    /\ WriteReturns(x, FALSE)
    /\ UNCHANGED <<conn, sock, quit, reader, buf, handed, sends>>

Write(x) == LockWriter(x) \/ WritePiece(x) \/ WriteFails(x)

-----------------------------------------------------------------------------
(* Connect *)

UserGoes(from, to) == user = from /\ user' = to
UserWrites(m) == writer' = [writer EXCEPT !["user"] =
                               [pc |-> "lock", conn |-> conn', m |-> m]]

(* connect: a new socket, with a new buffered reader and writer; then open  *)
(* writes sockclnt_create.                                                  *)
Connect ==
    /\ UserGoes("off", "create") /\ conn < MaxConns
    /\ conn' = conn + 1 /\ sock' = Fresh /\ handed' = <<>>
    /\ UserWrites(Create)
    /\ UNCHANGED <<quit, reader, buf, writeMu, sends>>

(* Mutant of StartReader: quit is the channel of the last connection.       *)
StartReaderOldQuit ==
    /\ user' = "on" /\ reader' = "top" /\ UNCHANGED quit

StartReader ==
    /\ user' = "on" /\ reader' = "top" /\ quit' = FALSE

(* open reads one message, which is decoded as sockclnt_create_reply.       *)
OpenReads ==
    /\ user = "createReply" /\ Ready
    /\ sock' = [sock EXCEPT !.in = AfterOne]
    /\ IF sock.in[1][1] = Create THEN StartReader
       ELSE StartReader \/ (user' = "close" /\ UNCHANGED <<reader, quit>>)
    /\ UNCHANGED <<conn, buf, handed, writeMu, writer, sends>>

(* Read error or timeout.                                                   *)
OpenFails ==
    /\ UserGoes("createReply", "close")
    /\ UNCHANGED <<conn, sock, quit, reader, buf, handed, writeMu, writer, sends>>

-----------------------------------------------------------------------------
(* Disconnect *)

CloseQuit ==
    /\ UserGoes("on", "shut") /\ quit' = TRUE
    /\ UNCHANGED <<conn, sock, reader, buf, handed, writeMu, writer, sends>>

(* Mutant of CloseRead: the socket stays open for reading.                  *)
CloseReadNever ==
    /\ UserGoes("shut", "wait")
    /\ UNCHANGED <<conn, sock, quit, reader, buf, handed, writeMu, writer, sends>>

(* A Unix socket gets nothing more; TCP still gets what VPP sends.          *)
CloseRead ==
    /\ UserGoes("shut", "wait")
    /\ \/ sock' = [sock EXCEPT !.shut = "drain"]
       \/ \E n \in 0..Len(sock.in) :
             sock' = [sock EXCEPT !.shut = "cut", !.in = SubSeq(@, 1, n)]
    /\ UNCHANGED <<conn, quit, reader, buf, handed, writeMu, writer, sends>>

(* Mutant of WaitReader: Disconnect does not wait.                          *)
WaitReaderNot ==
    /\ UserGoes("wait", "delete") /\ UNCHANGED conn
    /\ UserWrites(Delete)
    /\ UNCHANGED <<sock, quit, reader, buf, handed, writeMu, sends>>

(* wg.Wait; then close writes sockclnt_delete.                              *)
WaitReader ==
    /\ UserGoes("wait", "delete") /\ reader = "off" /\ UNCHANGED conn
    /\ UserWrites(Delete)
    /\ UNCHANGED <<sock, quit, reader, buf, handed, writeMu, sends>>

(* The next message, whatever it is, or an error, or the timeout.           *)
CloseReads ==
    /\ UserGoes("deleteReply", "close")
    /\ \/ Ready /\ sock' = [sock EXCEPT !.in = AfterOne]
       \/ UNCHANGED sock
    /\ UNCHANGED <<conn, quit, reader, buf, handed, writeMu, writer, sends>>

(* disconnect, also when open has failed.                                   *)
CloseConn ==
    /\ UserGoes("close", "off")
    /\ sock' = [sock EXCEPT !.closed = TRUE]
    /\ UNCHANGED <<conn, quit, reader, buf, handed, writeMu, writer, sends>>

User == \/ OpenReads \/ OpenFails \/ CloseRead \/ WaitReader \/ CloseReads
        \/ CloseConn

-----------------------------------------------------------------------------
(* readerLoop *)

ReaderTop ==
    /\ reader = "top" /\ reader' = IF quit THEN "off" ELSE "header"
    /\ UNCHANGED <<conn, sock, quit, user, buf, handed, writeMu, writer, sends>>

(* readMsgData goes on until the length in the header is reached.           *)
Complete(b) == Len(b) = Parts + 1

(* readMsgHeader and readMsgData, in as many reads as it takes.             *)
ReadPiece ==
    /\ reader \in {"header", "data"} /\ sock.in # <<>>
    /\ buf' = Append(IF reader = "header" THEN <<>> ELSE buf, Head(sock.in))
    /\ sock' = [sock EXCEPT !.in = Tail(@)]
    /\ reader' = IF Complete(buf') THEN "callback" ELSE "data"
    /\ UNCHANGED <<conn, quit, user, handed, writeMu, writer, sends>>

(* End of file ends the loop; another error (a header cut short, a reset)   *)
(* only the message.                                                        *)
ReadError ==
    /\ reader \in {"header", "data"} /\ sock.in = <<>>
    /\ sock.shut # "no" \/ sock.closed \/ ~sock.peer
    /\ reader' \in {"off", "top"}
    /\ UNCHANGED <<conn, sock, quit, user, buf, handed, writeMu, writer, sends>>

(* Mutant of Copy: the program gets a slice of the reader's buffer.         *)
CopyNot(b) == [own |-> FALSE, data |-> <<>>]

(* sendReply gets a copy of the data; sendNotifications decodes it first.   *)
Copy(b) == [own |-> TRUE, data |-> b]

Callback ==
    /\ reader = "callback" /\ reader' = "top"
    /\ handed' = Append(handed, Copy(buf))
    /\ UNCHANGED <<conn, sock, quit, user, buf, writeMu, writer, sends>>

Reader == ReaderTop \/ ReadPiece \/ ReadError \/ Callback

-----------------------------------------------------------------------------
(* VPP, external *)

Connected == sock.peer /\ ~sock.closed

(* VPP reads a piece and expects the next of the same message.              *)
VppReads ==
    /\ Connected /\ sock.out # <<>> /\ ~sock.garbled
    /\ LET piece == Head(sock.out)
           m == piece[1]
           p == piece[2]
           good == IF sock.expects = <<>> THEN p = 0 ELSE sock.expects = piece
           rest == [sock EXCEPT !.out = Tail(@)]
       IN  sock' = IF ~good THEN [rest EXCEPT !.garbled = TRUE]
                   ELSE IF p < Parts THEN [rest EXCEPT !.expects = <<m, p + 1>>]
                   ELSE [rest EXCEPT !.expects = <<>>,
                                     !.owed = @ \cup ({m} \ {Request})]
    /\ UNCHANGED <<conn, quit, user, reader, buf, handed, writeMu, writer, sends>>

Sent(m) == \E i \in DOMAIN sock.sent : sock.sent[i] = m

VppSends(m) ==
    /\ Connected /\ sock.shut # "cut"
    /\ \/ m \in sock.owed
       \/ /\ m \in Events /\ ~Sent(m)
          /\ Sent(Create) \/ sock.straddled
    /\ sock' = [sock EXCEPT !.owed = @ \ {m}, !.sent = Append(@, m),
                            !.in = @ \o Pieces(m)]
    /\ UNCHANGED <<conn, quit, user, reader, buf, handed, writeMu, writer, sends>>

(* VPP goes away; what it sent may have arrived in part.                    *)
VppGoes ==
    /\ Connected
    /\ \E n \in 0..Len(sock.in) :
          sock' = [sock EXCEPT !.peer = FALSE, !.in = SubSeq(@, 1, n)]
    /\ UNCHANGED <<conn, quit, user, reader, buf, handed, writeMu, writer, sends>>

-----------------------------------------------------------------------------
Next == \/ \E x \in Senders : SendMsg(x)
        \/ \E x \in Callers : Write(x)
        \/ Connect \/ CloseQuit \/ User \/ Reader
        \/ VppReads \/ VppGoes
        \/ \E m \in {Create, Delete} \cup Events : VppSends(m)

Spec == Init /\ [][Next]_vars

(* Goroutines that can run do run, the deadlines of the two handshakes      *)
(* expire, and a mutex is handed to a starved waiter.  Nothing is asked of  *)
(* VPP.                                                                     *)
Fairness == /\ \A x \in Callers : WF_vars(WritePiece(x) \/ WriteFails(x))
                                  /\ SF_vars(LockWriter(x))
            /\ WF_vars(User) /\ WF_vars(Reader)

FairSpec == Spec /\ Fairness

-----------------------------------------------------------------------------
(* Properties *)

(* What VPP reads is whole messages, one after the other, however many      *)
(* goroutines send: except that a sender which stalls in writeMsg while the *)
(* connection is replaced goes on with the new c.writer, which writeMu does *)
(* not cover.                                                               *)
Framed == sock.garbled => sock.straddled

(* The program gets each message VPP sent, once, in order and whole: not in *)
(* parts, though reads are short and the buffer is used again, and nothing  *)
(* of the connection before.  open has taken the first.                     *)
DeliveredInOrder ==
    \A i \in DOMAIN handed :
        /\ i < Len(sock.sent)
        /\ (IF handed[i].own THEN handed[i].data ELSE buf) = Pieces(sock.sent[i + 1])

(* Two goroutines never read from the socket at once: the handshakes have   *)
(* the reader to themselves.                                                *)
OneReader == user \in {"createReply", "delete", "deleteReply"} => reader = "off"

(* A client that is connected has a readerLoop, until VPP closes the        *)
(* socket; also after a reconnect, whatever became of the last quit.        *)
ReaderServes == user = "on" /\ reader = "off" => ~sock.peer

(* Connect and Disconnect return whatever VPP does, unless it stops reading *)
(* with the socket full: writeMsg has no deadline, and its mutex keeps      *)
(* Disconnect from closing the socket.                                      *)
Stuck == writeMu # "free" /\ Len(sock.out) = Cap

UserReturns ==
    user \notin {"off", "on"} ~> user \in {"off", "on"} \/ Stuck
=============================================================================
