------------------------- MODULE SocketClientProofs -------------------------
(***************************************************************************)
(* What the socket adapter guarantees for any number of senders, pieces    *)
(* and connections.  One inductive invariant of three parts: the types,    *)
(* the phases of the connection (who reads when), and the stream of pieces *)
(* in the socket, which is well formed because writeMu is held from a      *)
(* message's first piece to its last.  A second one on top of it says      *)
(* where in the stream from VPP the reader is.                             *)
(***************************************************************************)
EXTENDS SocketClient, Integers, TLAPS

Messages == {Create, Delete, Request} \cup Events
Piece    == Messages \X (0..Parts)

Locking == [pc : {"lock"}, conn : Nat, m : Messages]
Writing == [pc : {"write"}, conn : Nat, m : Messages, p : 0..Parts]

Sockets == [out : Seq(Piece), in : Seq(Piece), peer : BOOLEAN,
            shut : {"no", "drain", "cut"}, closed : BOOLEAN,
            expects : {<<>>} \cup Piece, garbled : BOOLEAN,
            owed : SUBSET Messages, sent : Seq(Messages), straddled : BOOLEAN]

TypeOK ==
    /\ conn \in Nat
    /\ sock \in Sockets
    /\ quit \in BOOLEAN
    /\ user \in {"off", "create", "createReply", "on", "shut", "wait",
                 "delete", "deleteReply", "close"}
    /\ reader \in {"off", "top", "header", "data", "callback"}
    /\ writeMu \in Callers \cup {"free"}
    /\ writer \in [Callers -> [pc : {"idle"}] \cup Locking \cup Writing]

(* The reader has the socket from StartReader until WaitReader, and nothing *)
(* of an earlier connection is left when it starts.                         *)
Phases ==
    /\ user \notin {"on", "shut", "wait"} => reader = "off"
    /\ user \in {"create", "createReply", "on", "shut"} =>
          sock.shut = "no" /\ ~sock.closed
    /\ user = "on" => ~quit
    /\ user = "on" /\ reader = "off" => ~sock.peer
    /\ writer["user"].pc # "idle" =>
          user \in {"create", "delete"} /\ writer["user"].conn = conn

(* writeMu is held exactly while a message is written.                      *)
Mutex ==
    \A x \in Callers : /\ writer[x].pc = "write" <=> writeMu = x
                       /\ writer[x].pc # "idle" => writer[x].conn <= conn

(* The piece that goes on with a message after a given one, <<>> for any    *)
(* message's first.                                                         *)
After(piece) == IF piece[2] < Parts THEN <<piece[1], piece[2] + 1>> ELSE <<>>
Follows(e, piece) == IF e = <<>> THEN piece[2] = 0 ELSE e = piece

(* What VPP will expect when it comes to place i of the socket.             *)
Expected(i) == IF i = 1 THEN sock.expects ELSE After(sock.out[i - 1])

(* What the holder of writeMu writes next, if it has begun its message.     *)
Pending ==
    IF writeMu # "free" /\ writer[writeMu].conn = conn /\ writer[writeMu].p > 0
    THEN <<writer[writeMu].m, writer[writeMu].p>> ELSE <<>>

Chained ==
    /\ ~sock.garbled
    /\ \A i \in 1..Len(sock.out) : Follows(Expected(i), sock.out[i])
    /\ Expected(Len(sock.out) + 1) = Pending

Stream == Connected /\ ~sock.straddled => Chained

SocketInvariant == TypeOK /\ Phases /\ Mutex /\ Stream /\ Framed
-----------------------------------------------------------------------------
(* The type invariant                                                       *)

(* The pieces of a message, and its kinds, have the types they are given.   *)
LEMMA PiecesType == ASSUME NEW m \in Messages PROVE Pieces(m) \in Seq(Piece)
<1> USE SocketAssumption
<1>1. \A p \in 1..Parts + 1 : <<m, p - 1>> \in Piece
  BY DEF Piece
<1> QED
  BY <1>1 DEF Pieces

(* What is cut from a sequence of pieces is one.                            *)
LEMMA PiecesCut ==
    ASSUME NEW S, NEW s \in Seq(S), NEW a \in Nat \ {0}, NEW b \in Nat,
           b <= Len(s)
    PROVE  SubSeq(s, a, b) \in Seq(S)
  OBVIOUS

(* The initial state has the right types.                                   *)
LEMMA TypeInit == Init => TypeOK
<1> SUFFICES ASSUME Init PROVE TypeOK
  OBVIOUS
<1>1. <<>> \in Seq(Piece) /\ <<>> \in Seq(Messages)
  OBVIOUS
<1>2. sock \in Sockets
  BY <1>1 DEF Init, Fresh, Sockets
<1>3. writer \in [Callers -> [pc : {"idle"}] \cup Locking \cup Writing]
  BY DEF Init
<1> QED
  BY <1>2, <1>3 DEF Init, TypeOK

(* writeMsg returns to a place its caller may be in.                        *)
LEMMA WriteReturnsType ==
    ASSUME TypeOK, Phases, NEW x \in Callers, NEW ok \in BOOLEAN,
           writer[x].pc # "idle", WriteReturns(x, ok)
    PROVE  /\ writer' \in [Callers -> [pc : {"idle"}] \cup Locking \cup Writing]
           /\ writeMu' \in Callers \cup {"free"}
           /\ user' \in {"off", "create", "createReply", "on", "shut", "wait",
                         "delete", "deleteReply", "close"}
<1>1. x = "user" => user \in {"create", "delete"}
  BY DEF Phases
<1>2. user' \in {user, "createReply", "deleteReply", "close"}
  BY <1>1 DEF WriteReturns
<1> QED
  BY <1>2 DEF TypeOK, WriteReturns

(* A caller's place in writeMsg keeps its type, and so does all else.       *)
LEMMA TypeWrite ==
    ASSUME TypeOK, Phases, NEW x \in Callers, Write(x)
    PROVE  TypeOK'
<1> USE SocketAssumption DEF TypeOK, Write
<1>1. CASE LockWriter(x)
  <2>1. writer[x] \in Locking
    BY <1>1 DEF LockWriter, Writing
  <2>2. [pc |-> "write", conn |-> writer[x].conn, m |-> writer[x].m, p |-> 0] \in Writing
    BY <2>1 DEF Locking, Writing
  <2> QED
    BY <1>1, <2>2 DEF LockWriter
<1>2. CASE WritePiece(x)
  <2>1. writer[x] \in Writing
    BY <1>2 DEF WritePiece, Locking
  <2>2. <<writer[x].m, writer[x].p>> \in Piece
    BY <2>1 DEF Writing, Piece
  <2>3. sock' \in Sockets
    <3> DEFINE out == Append(sock.out, <<writer[x].m, writer[x].p>>)
               straddled == sock.straddled \/ writer[x].conn # conn
    <3>1. out \in Seq(Piece) /\ straddled \in BOOLEAN
      BY <2>2 DEF Sockets
    <3>2. sock' = [sock EXCEPT !.out = out, !.straddled = straddled]
      BY <1>2 DEF WritePiece
    <3> HIDE DEF out, straddled
    <3> QED
      BY <3>1, <3>2 DEF Sockets
  <2>4. CASE writer[x].p = Parts
    <3>1. WriteReturns(x, TRUE)
      BY <1>2, <2>4 DEF WritePiece
    <3> QED
      BY <1>2, <2>3, <3>1, WriteReturnsType DEF WritePiece
  <2>5. CASE writer[x].p # Parts
    <3>1. [writer[x] EXCEPT !.p = @ + 1] \in Writing
      BY <2>1, <2>5 DEF Writing
    <3>2. writer' = [writer EXCEPT ![x] = [writer[x] EXCEPT !.p = @ + 1]]
      BY <1>2, <2>5 DEF WritePiece
    <3> QED
      BY <1>2, <2>3, <2>5, <3>1, <3>2 DEF WritePiece
  <2> QED
    BY <2>4, <2>5
<1>3. CASE WriteFails(x)
  <2>1. WriteReturns(x, FALSE)
    BY <1>3 DEF WriteFails
  <2> QED
    BY <1>3, <2>1, WriteReturnsType DEF WriteFails
<1> QED
  BY <1>1, <1>2, <1>3

(* So does each step of the goroutine that connects and disconnects.        *)
LEMMA TypeUser ==
    ASSUME TypeOK, Connect \/ CloseQuit \/ User
    PROVE  TypeOK'
<1> USE SocketAssumption DEF TypeOK, UserGoes
<1>a. "user" \in Callers /\ {Create, Delete} \subseteq Messages
  BY DEF Callers, Messages
<1>1. CASE Connect
  <2>1. <<>> \in Seq(Piece) /\ <<>> \in Seq(Messages)
    OBVIOUS
  <2>2. sock' \in Sockets
    BY <1>1, <2>1 DEF Connect, Fresh, Sockets
  <2>3. [pc |-> "lock", conn |-> conn', m |-> Create] \in Locking
    BY <1>1, <1>a DEF Connect, Locking
  <2> QED
    BY <1>1, <1>a, <2>2, <2>3 DEF Connect, UserWrites
<1>2. CASE WaitReader
  <2>1. [pc |-> "lock", conn |-> conn', m |-> Delete] \in Locking
    BY <1>2, <1>a DEF WaitReader, Locking
  <2> QED
    BY <1>2, <1>a, <2>1 DEF WaitReader, UserWrites
<1>3. ASSUME Ready PROVE [sock EXCEPT !.in = AfterOne] \in Sockets
  <2>1. AfterOne \in Seq(Piece)
    BY <1>3, PiecesCut DEF Ready, AfterOne, Sockets
  <2> QED
    BY <2>1 DEF Sockets
<1>4. CASE OpenReads
  BY <1>3, <1>4 DEF OpenReads, StartReader
<1>5. CASE CloseReads
  BY <1>3, <1>5 DEF CloseReads
<1>6. CASE CloseRead
  <2>1. ASSUME NEW n \in 0..Len(sock.in)
        PROVE  [sock EXCEPT !.shut = "cut", !.in = SubSeq(sock.in, 1, n)] \in Sockets
    <3>1. SubSeq(sock.in, 1, n) \in Seq(Piece)
      BY PiecesCut DEF Sockets
    <3> QED
      BY <3>1 DEF Sockets
  <2>2. [sock EXCEPT !.shut = "drain"] \in Sockets
    BY DEF Sockets
  <2>3. sock' \in Sockets
    BY <1>6, <2>1, <2>2 DEF CloseRead
  <2> QED
    BY <1>6, <2>3 DEF CloseRead
<1>7. CASE CloseConn
  BY <1>7 DEF CloseConn, Sockets
<1>8. CASE OpenFails \/ CloseQuit
  BY <1>8 DEF OpenFails, CloseQuit
<1> QED
  BY <1>1, <1>2, <1>4, <1>5, <1>6, <1>7, <1>8 DEF User

(* And each step of readerLoop, of a sender and of VPP.                     *)
LEMMA TypeReader == ASSUME TypeOK, Reader PROVE TypeOK'
<1> USE SocketAssumption DEF TypeOK
<1>1. CASE ReadPiece
  <2>1. Tail(sock.in) \in Seq(Piece)
    BY <1>1 DEF ReadPiece, Sockets
  <2>2. sock' \in Sockets
    BY <1>1, <2>1 DEF ReadPiece, Sockets
  <2> QED
    BY <1>1, <2>2 DEF ReadPiece
<1>2. CASE ReaderTop \/ ReadError \/ Callback
  BY <1>2 DEF ReaderTop, ReadError, Callback
<1> QED
  BY <1>1, <1>2 DEF Reader

(* A message is offered to writeMsg on the connection of the moment.        *)
LEMMA TypeSend == ASSUME TypeOK, NEW x \in Senders, SendMsg(x) PROVE TypeOK'
<1>1. [pc |-> "lock", conn |-> conn, m |-> Request] \in Locking
  BY DEF TypeOK, Locking, Messages
<1> QED
  BY <1>1 DEF TypeOK, SendMsg, Callers

(* VPP takes pieces from one end of the socket and answers at the other.    *)
LEMMA TypeVpp ==
    ASSUME TypeOK, VppReads \/ VppGoes
                   \/ \E m \in {Create, Delete} \cup Events : VppSends(m)
    PROVE  TypeOK'
<1> USE SocketAssumption DEF TypeOK
<1>1. CASE VppReads
  <2> DEFINE piece == Head(sock.out)
             rest == [sock EXCEPT !.out = Tail(@)]
  <2>1. piece \in Piece /\ Tail(sock.out) \in Seq(Piece)
    BY <1>1 DEF VppReads, Sockets
  <2>2. rest \in Sockets
    BY <2>1 DEF Sockets
  <2>3. piece[2] < Parts => <<piece[1], piece[2] + 1>> \in Piece
    BY <2>1 DEF Piece
  <2>4. sock.owed \cup ({piece[1]} \ {Request}) \in SUBSET Messages
    BY <2>1 DEF Piece, Sockets
  <2>5. \/ sock' = [rest EXCEPT !.garbled = TRUE]
        \/ piece[2] < Parts /\ sock' = [rest EXCEPT !.expects = <<piece[1], piece[2] + 1>>]
        \/ sock' = [rest EXCEPT !.expects = <<>>,
                                !.owed = rest.owed \cup ({piece[1]} \ {Request})]
    BY <1>1 DEF VppReads
  <2>6. rest.owed = sock.owed
    BY DEF Sockets
  <2> HIDE DEF piece, rest
  <2>7. [rest EXCEPT !.garbled = TRUE] \in Sockets
    BY <2>2 DEF Sockets
  <2>8. piece[2] < Parts =>
          [rest EXCEPT !.expects = <<piece[1], piece[2] + 1>>] \in Sockets
    BY <2>2, <2>3 DEF Sockets
  <2>9. [rest EXCEPT !.expects = <<>>,
                     !.owed = rest.owed \cup ({piece[1]} \ {Request})] \in Sockets
    <3> DEFINE owed == rest.owed \cup ({piece[1]} \ {Request})
    <3>1. owed \in SUBSET Messages
      BY <2>4, <2>6
    <3> HIDE DEF owed
    <3>2. [rest EXCEPT !.expects = <<>>, !.owed = owed] \in Sockets
      BY <2>2, <3>1 DEF Sockets
    <3> QED
      BY <3>2 DEF owed
  <2>10. sock' \in Sockets
    BY <2>5, <2>7, <2>8, <2>9
  <2> QED
    BY <1>1, <2>10 DEF VppReads
<1>2. CASE VppGoes
  <2>1. PICK n \in 0..Len(sock.in) :
           sock' = [sock EXCEPT !.peer = FALSE, !.in = SubSeq(sock.in, 1, n)]
    BY <1>2 DEF VppGoes
  <2>2. SubSeq(sock.in, 1, n) \in Seq(Piece)
    BY PiecesCut DEF Sockets
  <2>3. sock' \in Sockets
    BY <2>1, <2>2 DEF Sockets
  <2> QED
    BY <1>2, <2>3 DEF VppGoes
<1>3. ASSUME NEW m \in {Create, Delete} \cup Events, VppSends(m) PROVE TypeOK'
  <2>1. m \in Messages
    BY DEF Messages
  <2>2. sock.in \o Pieces(m) \in Seq(Piece) /\ Append(sock.sent, m) \in Seq(Messages)
    BY <2>1, PiecesType DEF Sockets
  <2>3. sock.owed \ {m} \in SUBSET Messages
    BY DEF Sockets
  <2>4. sock' = [sock EXCEPT !.owed = sock.owed \ {m}, !.sent = Append(sock.sent, m),
                             !.in = sock.in \o Pieces(m)]
    BY <1>3 DEF VppSends
  <2>5. sock' \in Sockets
    BY <2>2, <2>3, <2>4 DEF Sockets
  <2> QED
    BY <1>3, <2>5 DEF VppSends
<1> QED
  BY <1>1, <1>2, <1>3

-----------------------------------------------------------------------------
(* The phases of a connection, and the mutex                                *)

(* A step of writeMsg, seen from outside: what it may do to its caller, the *)
(* mutex and the socket.                                                    *)
LEMMA WriteEffect ==
    ASSUME TypeOK, NEW x \in Callers, Write(x)
    PROVE  /\ writer[x].pc # "idle"
           /\ \A y \in Callers \ {x} : writer'[y] = writer[y]
           /\ writer'[x].pc # "idle" => writer'[x].conn = writer[x].conn
           /\ \/ writeMu = "free" /\ writeMu' = x /\ writer'[x].pc = "write"
                 /\ UNCHANGED user /\ UNCHANGED sock
              \/ writer[x].pc = "write" /\ writeMu' = writeMu
                 /\ writer'[x].pc = "write" /\ UNCHANGED user
              \/ writer[x].pc = "write" /\ writeMu' = "free"
                 /\ writer'[x].pc = "idle" /\ (x # "user" => UNCHANGED user)
           /\ sock'.peer = sock.peer /\ sock'.shut = sock.shut
           /\ sock'.closed = sock.closed /\ sock'.garbled = sock.garbled
           /\ sock.straddled => sock'.straddled
           /\ UNCHANGED <<conn, quit, reader>>
<1> USE DEF TypeOK
<1>1. CASE LockWriter(x)
  <2>1. writer[x] \in Locking
    BY <1>1 DEF LockWriter, Writing
  <2> QED
    BY <1>1, <2>1 DEF LockWriter, Locking
<1>2. CASE WritePiece(x)
  <2>1. writer[x] \in Writing
    BY <1>2 DEF WritePiece, Locking
  <2>2. /\ sock'.peer = sock.peer /\ sock'.shut = sock.shut
        /\ sock'.closed = sock.closed /\ sock'.garbled = sock.garbled
        /\ sock.straddled => sock'.straddled
    BY <1>2 DEF WritePiece, Sockets
  <2>3. CASE writer[x].p = Parts
    <3>1. writer' = [writer EXCEPT ![x] = [pc |-> "idle"]] /\ writeMu' = "free"
          /\ (x # "user" => UNCHANGED user)
      BY <1>2, <2>3 DEF WritePiece, WriteReturns
    <3>2. writer'[x].pc = "idle" /\ \A y \in Callers \ {x} : writer'[y] = writer[y]
      BY <3>1
    <3> QED
      BY <1>2, <2>2, <3>1, <3>2 DEF WritePiece
  <2>4. CASE writer[x].p # Parts
    <3>1. writer' = [writer EXCEPT ![x] = [writer[x] EXCEPT !.p = @ + 1]]
      BY <1>2, <2>4 DEF WritePiece
    <3>2. writer'[x].pc = "write" /\ writer'[x].conn = writer[x].conn
      BY <2>1, <3>1 DEF Writing
    <3> QED
      BY <1>2, <2>2, <2>4, <3>1, <3>2 DEF WritePiece
  <2> QED
    BY <2>3, <2>4
<1>3. CASE WriteFails(x)
  BY <1>3 DEF WriteFails, WriteReturns
<1> QED
  BY <1>1, <1>2, <1>3 DEF Write

(* So every step keeps the phases.                                          *)
LEMMA PhasesWrite ==
    ASSUME TypeOK, Phases, NEW x \in Callers, Write(x)
    PROVE  Phases'
<1>1. x = "user" /\ user' # user => user' \notin {"on", "shut", "wait", "create"}
  BY DEF Write, LockWriter, WritePiece, WriteFails, WriteReturns, Phases
<1>2. x = "user" /\ user' = "createReply" => user \in {"create", "createReply"}
  BY DEF Write, LockWriter, WritePiece, WriteFails, WriteReturns, Phases
<1>3. x = "user" => user \in {"create", "delete"}
  BY WriteEffect DEF Phases
<1>4. user' # user => reader = "off"
  BY <1>3, WriteEffect DEF Phases
<1>5. writer'["user"].pc # "idle" => /\ UNCHANGED user /\ writer["user"].pc # "idle"
                                     /\ writer'["user"].conn = writer["user"].conn
  BY WriteEffect DEF Callers, Phases
<1> QED
  BY <1>1, <1>2, <1>3, <1>4, <1>5, WriteEffect DEF Phases

(* Connect and Disconnect go through their phases in order.                 *)
LEMMA PhasesUser ==
    ASSUME TypeOK, Phases, Connect \/ CloseQuit \/ User
    PROVE  Phases'
<1> USE DEF Phases, UserGoes
<1>a. "user" \in Callers
  BY DEF Callers
<1>1. CASE Connect
  BY <1>1, <1>a DEF Connect, UserWrites, Fresh, TypeOK
<1>2. CASE WaitReader
  BY <1>2, <1>a DEF WaitReader, UserWrites, TypeOK
<1>3. CASE OpenReads
  <2>1. sock'.shut = sock.shut /\ sock'.closed = sock.closed /\ sock'.peer = sock.peer
    BY <1>3 DEF OpenReads, TypeOK, Sockets
  <2> QED
    BY <1>3, <2>1 DEF OpenReads, StartReader
<1>4. CASE CloseRead \/ CloseReads \/ CloseConn \/ OpenFails \/ CloseQuit
  BY <1>4 DEF CloseRead, CloseReads, CloseConn, OpenFails, CloseQuit
<1> QED
  BY <1>1, <1>2, <1>3, <1>4 DEF User

(* Senders, the reader and VPP leave the phases to them.                    *)
LEMMA PhasesOthers ==
    ASSUME TypeOK, Phases,
           \/ Reader \/ VppReads \/ VppGoes
           \/ \E m \in {Create, Delete} \cup Events : VppSends(m)
           \/ \E x \in Senders : SendMsg(x)
    PROVE  Phases'
<1> USE DEF Phases
<1>1. CASE Reader
  <2>1. sock'.shut = sock.shut /\ sock'.closed = sock.closed /\ sock'.peer = sock.peer
    BY <1>1 DEF Reader, ReaderTop, ReadPiece, ReadError, Callback, TypeOK, Sockets
  <2> QED
    BY <1>1, <2>1 DEF Reader, ReaderTop, ReadPiece, ReadError, Callback, TypeOK
<1>2. CASE VppReads
  <2>1. sock'.shut = sock.shut /\ sock'.closed = sock.closed /\ sock'.peer = sock.peer
    BY <1>2 DEF VppReads, TypeOK, Sockets
  <2> QED
    BY <1>2, <2>1 DEF VppReads
<1>3. CASE VppGoes
  <2>1. sock'.shut = sock.shut /\ sock'.closed = sock.closed /\ sock'.peer = FALSE
    BY <1>3 DEF VppGoes, TypeOK, Sockets
  <2> QED
    BY <1>3, <2>1 DEF VppGoes
<1>4. ASSUME NEW m \in {Create, Delete} \cup Events, VppSends(m) PROVE Phases'
  <2>1. sock'.shut = sock.shut /\ sock'.closed = sock.closed /\ sock'.peer = sock.peer
    BY <1>4 DEF VppSends, TypeOK, Sockets
  <2> QED
    BY <1>4, <2>1 DEF VppSends
<1>5. ASSUME NEW x \in Senders, SendMsg(x) PROVE Phases'
  <2>1. x # "user"
    BY SocketAssumption
  <2>2. writer'["user"] = writer["user"]
    BY <1>5, <2>1 DEF SendMsg, TypeOK, Callers
  <2> QED
    BY <1>5, <2>2 DEF SendMsg
<1> QED
  BY <1>1, <1>2, <1>3, <1>4, <1>5

(* writeMu keeps writers apart.                                             *)
LEMMA MutexWrite ==
    ASSUME TypeOK, Mutex, NEW x \in Callers, Write(x)
    PROVE  Mutex'
<1> "free" \notin Callers
  BY SocketAssumption DEF Callers
<1>1. \A y \in Callers \ {x} : writer'[y] = writer[y]
  BY WriteEffect
<1>2. conn' = conn
  BY WriteEffect
<1>3. writer'[x].pc # "idle" => writer'[x].conn <= conn'
  BY <1>2, WriteEffect DEF Mutex
<1>4. CASE writeMu = "free" /\ writeMu' = x /\ writer'[x].pc = "write"
  BY <1>1, <1>2, <1>3, <1>4 DEF Mutex
<1>5. CASE writer[x].pc = "write" /\ writeMu' = writeMu /\ writer'[x].pc = "write"
  BY <1>1, <1>2, <1>3, <1>5 DEF Mutex
<1>6. CASE writer[x].pc = "write" /\ writeMu' = "free" /\ writer'[x].pc = "idle"
  BY <1>1, <1>2, <1>3, <1>6 DEF Mutex
<1> QED
  BY <1>4, <1>5, <1>6, WriteEffect

(* A caller that begins writeMsg did not hold writeMu, and the holder, if   *)
(* any, stays as it is.                                                     *)
LEMMA MutexBegin ==
    ASSUME TypeOK, Mutex, NEW x \in Callers, writer[x].pc = "idle", NEW m,
           conn' \in Nat, conn <= conn', UNCHANGED writeMu,
           writer' = [writer EXCEPT ![x] = [pc |-> "lock", conn |-> conn', m |-> m]]
    PROVE  /\ Mutex'
           /\ writeMu # "free" => writer'[writeMu] = writer[writeMu]
<1>1. writeMu # x
  BY DEF Mutex
<1>2. \A y \in Callers \ {x} : writer'[y] = writer[y]
  BY DEF TypeOK
<1>3. writer'[x].pc = "lock" /\ writer'[x].conn = conn'
  BY DEF TypeOK
<1>4. \A y \in Callers : writer[y].pc # "idle" => writer[y].conn \in Nat
  BY DEF TypeOK, Locking, Writing
<1>5. \A y \in Callers : writer'[y].pc # "idle" => writer'[y].conn <= conn'
  <2> TAKE y \in Callers
  <2>1. CASE y = x
    BY <1>3, <2>1
  <2>2. CASE y # x
    BY <1>2, <1>4, <2>2 DEF Mutex, TypeOK
  <2> QED
    BY <2>1, <2>2
<1>6. \A y \in Callers : writer'[y].pc = "write" <=> writeMu' = y
  BY <1>1, <1>2, <1>3 DEF Mutex
<1> QED
  BY <1>1, <1>2, <1>5, <1>6 DEF Mutex, TypeOK

(* The goroutine that connects is not in writeMsg between its calls.        *)
LEMMA MutexUser ==
    ASSUME TypeOK, Phases, Mutex, Connect \/ CloseQuit \/ User
    PROVE  /\ Mutex' /\ UNCHANGED writeMu
           /\ writeMu # "free" => writer'[writeMu] = writer[writeMu]
<1>a. "user" \in Callers
  BY DEF Callers
<1>1. CASE Connect
  <2>1. writer["user"].pc = "idle"
    BY <1>1 DEF Connect, UserGoes, Phases
  <2>2. writer' = [writer EXCEPT !["user"] =
                      [pc |-> "lock", conn |-> conn', m |-> Create]]
    BY <1>1 DEF Connect, UserWrites
  <2>3. conn' \in Nat /\ conn <= conn' /\ UNCHANGED writeMu
    BY <1>1 DEF Connect, TypeOK
  <2> QED
    BY <1>a, <2>1, <2>2, <2>3, MutexBegin
<1>2. CASE WaitReader
  <2>1. writer["user"].pc = "idle"
    BY <1>2 DEF WaitReader, UserGoes, Phases
  <2>2. writer' = [writer EXCEPT !["user"] =
                      [pc |-> "lock", conn |-> conn', m |-> Delete]]
    BY <1>2 DEF WaitReader, UserWrites
  <2>3. conn' \in Nat /\ conn <= conn' /\ UNCHANGED writeMu
    BY <1>2 DEF WaitReader, TypeOK
  <2> QED
    BY <1>a, <2>1, <2>2, <2>3, MutexBegin
<1>3. CASE OpenReads \/ CloseRead \/ CloseReads \/ CloseConn \/ OpenFails \/ CloseQuit
  <2>1. UNCHANGED <<conn, writer, writeMu>>
    BY <1>3 DEF OpenReads, CloseRead, CloseReads, CloseConn, OpenFails, CloseQuit
  <2> QED
    BY <2>1 DEF Mutex
<1> QED
  BY <1>1, <1>2, <1>3 DEF User

(* Steps outside of writeMsg neither take nor free writeMu.                 *)
LEMMA MutexOthers ==
    ASSUME TypeOK, Mutex,
           \/ Reader \/ VppReads \/ VppGoes
           \/ \E m \in {Create, Delete} \cup Events : VppSends(m)
           \/ \E x \in Senders : SendMsg(x)
    PROVE  /\ Mutex' /\ UNCHANGED <<conn, writeMu>>
           /\ writeMu # "free" => writer'[writeMu] = writer[writeMu]
<1>1. CASE Reader \/ VppReads \/ VppGoes
           \/ \E m \in {Create, Delete} \cup Events : VppSends(m)
  <2>1. UNCHANGED <<conn, writer, writeMu>>
    BY <1>1 DEF Reader, ReaderTop, ReadPiece, ReadError, Callback, VppReads,
                VppGoes, VppSends
  <2> QED
    BY <2>1 DEF Mutex
<1>2. ASSUME NEW x \in Senders, SendMsg(x)
      PROVE  /\ Mutex' /\ UNCHANGED <<conn, writeMu>>
             /\ writeMu # "free" => writer'[writeMu] = writer[writeMu]
  <2>1. x \in Callers /\ writer[x].pc = "idle" /\ UNCHANGED <<conn, writeMu>>
    BY <1>2 DEF SendMsg, Callers
  <2>2. writer' = [writer EXCEPT ![x] =
                      [pc |-> "lock", conn |-> conn', m |-> Request]]
    BY <1>2, <2>1 DEF SendMsg
  <2>3. conn' \in Nat /\ conn <= conn'
    BY <2>1 DEF TypeOK
  <2> QED
    BY <2>1, <2>2, <2>3, MutexBegin
<1> QED
  BY <1>1, <1>2

-----------------------------------------------------------------------------
(* The stream of pieces to VPP                                              *)

(* Nothing VPP reads or will read has changed, and the socket is connected  *)
(* only if it was.                                                          *)
Unstirred ==
    /\ sock'.out = sock.out /\ sock'.expects = sock.expects
    /\ sock'.garbled = sock.garbled /\ sock'.straddled = sock.straddled
    /\ Connected' => Connected

(* Then the stream is as good as it was.                                    *)
LEMMA StreamUnstirred ==
    ASSUME Unstirred, Stream, Framed, UNCHANGED <<conn, writeMu>>,
           writeMu # "free" => writer'[writeMu] = writer[writeMu]
    PROVE  Stream' /\ Framed'
<1>1. Framed'
  BY DEF Unstirred, Framed
<1>2. Pending' = Pending
  BY DEF Pending
<1>3. ASSUME NEW i PROVE Expected(i)' = Expected(i)
  BY DEF Unstirred, Expected
<1>4. Chained => Chained'
  BY <1>2, <1>3 DEF Chained, Unstirred
<1> QED
  BY <1>1, <1>4 DEF Stream, Unstirred

(* The steps of the reader, a sender, the connecting goroutine and VPP that *)
(* do so.                                                                   *)
LEMMA UnstirredSteps ==
    ASSUME TypeOK,
           \/ Reader \/ VppGoes \/ CloseQuit \/ User
           \/ \E m \in {Create, Delete} \cup Events : VppSends(m)
           \/ \E x \in Senders : SendMsg(x)
    PROVE  Unstirred
<1> USE DEF TypeOK, Sockets, Unstirred, Connected
<1>1. CASE Reader
  BY <1>1 DEF Reader, ReaderTop, ReadPiece, ReadError, Callback
<1>2. CASE VppGoes
  BY <1>2 DEF VppGoes
<1>3. CASE OpenReads \/ CloseReads
  BY <1>3 DEF OpenReads, CloseReads
<1>4. CASE CloseRead
  BY <1>4 DEF CloseRead
<1>5. CASE CloseConn
  BY <1>5 DEF CloseConn
<1>6. CASE OpenFails \/ CloseQuit \/ WaitReader
  BY <1>6 DEF OpenFails, CloseQuit, WaitReader
<1>7. ASSUME NEW m \in {Create, Delete} \cup Events, VppSends(m) PROVE Unstirred
  BY <1>7 DEF VppSends
<1>8. ASSUME NEW x \in Senders, SendMsg(x) PROVE Unstirred
  BY <1>8 DEF SendMsg
<1> QED
  BY <1>1, <1>2, <1>3, <1>4, <1>5, <1>6, <1>7, <1>8 DEF User

(* On a new socket nothing is on its way, and a writer left from the last   *)
(* connection has begun nothing there.                                      *)
LEMMA StreamConnect ==
    ASSUME TypeOK, Phases, Mutex, Connect
    PROVE  Stream' /\ Framed'
<1>1. sock' = Fresh
  BY DEF Connect
<1>2. Pending' = <<>>
  <2>1. CASE writeMu = "free"
    BY <2>1 DEF Connect, Pending
  <2>2. CASE writeMu # "free"
    <3>1. writeMu \in Callers /\ writer[writeMu].pc = "write"
      BY <2>2 DEF TypeOK, Mutex
    <3>2. writer[writeMu].conn \in Nat /\ writer[writeMu].conn <= conn
      BY <3>1 DEF TypeOK, Mutex, Locking, Writing
    <3>3. writer'[writeMu] = writer[writeMu]
      BY <2>2, MutexUser
    <3>4. conn' = conn + 1 /\ writeMu' = writeMu
      BY DEF Connect
    <3> QED
      BY <3>2, <3>3, <3>4 DEF Pending, TypeOK
  <2> QED
    BY <2>1, <2>2
<1>3. Len(sock'.out) = 0 /\ sock'.expects = <<>> /\ ~sock'.garbled
  BY <1>1 DEF Fresh
<1>4. Chained'
  BY <1>2, <1>3 DEF Chained, Expected
<1> QED
  BY <1>3, <1>4 DEF Stream, Framed

(* VPP reads what it expects.                                               *)
LEMMA StreamRead ==
    ASSUME TypeOK, Stream, Framed, VppReads
    PROVE  Stream' /\ Framed'
<1> USE SocketAssumption
<1> DEFINE piece == Head(sock.out)
<1>1. /\ Connected /\ sock.out \in Seq(Piece) /\ Len(sock.out) \in Nat \ {0}
      /\ piece \in Piece /\ piece = sock.out[1]
  BY DEF VppReads, TypeOK, Sockets
<1>2. /\ sock'.out = Tail(sock.out) /\ sock'.straddled = sock.straddled
      /\ UNCHANGED <<conn, writeMu, writer>>
  BY DEF VppReads, TypeOK, Sockets
<1>3. CASE sock.straddled
  BY <1>2, <1>3 DEF Stream, Framed
<1>4. CASE ~sock.straddled
  <2>1. Chained
    BY <1>1, <1>4 DEF Stream
  <2>2. Follows(sock.expects, piece)
    BY <1>1, <2>1 DEF Chained, Expected
  <2>3. ~sock'.garbled /\ sock'.expects = After(piece)
    <3>1. IF sock.expects = <<>> THEN piece[2] = 0 ELSE sock.expects = piece
      BY <2>2 DEF Follows
    <3>2. ~sock.garbled
      BY <2>1 DEF Chained
    <3> QED
      BY <3>1, <3>2 DEF VppReads, After, TypeOK, Sockets
  <2>4. Pending' = Pending
    BY <1>2 DEF Pending
  <2>5. Len(sock'.out) = Len(sock.out) - 1
        /\ \A i \in 1..Len(sock.out) - 1 : sock'.out[i] = sock.out[i + 1]
    BY <1>1, <1>2
  <2>6. \A i \in 1..Len(sock.out) : Expected(i)' = Expected(i + 1)
    <3> TAKE i \in 1..Len(sock.out)
    <3>1. CASE i = 1
      BY <1>1, <2>3, <3>1 DEF Expected
    <3>2. CASE i # 1
      BY <1>1, <2>5, <3>2 DEF Expected
    <3> QED
      BY <3>1, <3>2
  <2>7. Chained'
    BY <1>1, <2>1, <2>3, <2>4, <2>5, <2>6 DEF Chained
  <2> QED
    BY <2>3, <2>7 DEF Stream, Framed
<1> QED
  BY <1>3, <1>4

(* The holder of writeMu puts what is due, and nobody else can.             *)
LEMMA StreamPiece ==
    ASSUME TypeOK, Mutex, Stream, Framed, NEW x \in Callers, WritePiece(x)
    PROVE  Stream' /\ Framed'
<1> USE SocketAssumption
<1> DEFINE piece == <<writer[x].m, writer[x].p>>
           n == Len(sock.out)
<1>1. writer[x] \in Writing /\ writeMu = x /\ writeMu # "free"
  BY DEF WritePiece, TypeOK, Locking, Mutex, Callers
<1>2. sock'.straddled = (sock.straddled \/ writer[x].conn # conn)
      /\ sock'.garbled = sock.garbled
  BY DEF WritePiece, TypeOK, Sockets
<1>3. CASE sock'.straddled
  BY <1>2, <1>3 DEF Stream, Framed
<1>4. CASE ~sock'.straddled
  <2>1. writer[x].conn = conn /\ ~sock.straddled /\ Connected
    BY <1>2, <1>4 DEF WritePiece, Connected
  <2>2. Chained
    BY <2>1 DEF Stream
  <2>3. sock.out \in Seq(Piece) /\ n \in Nat
    BY DEF TypeOK, Sockets
  <2>4. sock'.out = Append(sock.out, piece) /\ sock'.expects = sock.expects
    BY DEF WritePiece, TypeOK, Sockets
  <2>5. /\ Len(sock'.out) = n + 1 /\ sock'.out[n + 1] = piece
        /\ \A i \in 1..n : sock'.out[i] = sock.out[i]
    BY <2>3, <2>4
  <2>6. \A i \in 1..n + 1 : Expected(i)' = Expected(i)
    BY <2>3, <2>4, <2>5 DEF Expected
  <2>7. \A i : i = n + 2 => Expected(i)' = After(piece)
    BY <2>3, <2>5 DEF Expected
  <2>8. Follows(Expected(n + 1), piece)
    <3>1. Expected(n + 1) = Pending /\ piece[2] = writer[x].p
      BY <2>2 DEF Chained
    <3>2. CASE writer[x].p > 0
      <4>1. Pending = piece
        BY <1>1, <2>1, <3>2 DEF Pending
      <4>2. piece # <<>>
        <5>1. Len(piece) = 2 /\ Len(<<>>) = 0
          OBVIOUS
        <5> QED
          BY <5>1
      <4> HIDE DEF piece
      <4> QED
        BY <3>1, <4>1, <4>2 DEF Follows
    <3>3. CASE writer[x].p = 0
      BY <1>1, <3>1, <3>3 DEF Pending, Follows
    <3> QED
      BY <1>1, <3>2, <3>3 DEF Writing
  <2>9. Pending' = After(piece)
    <3>1. CASE writer[x].p = Parts
      BY <1>1, <3>1 DEF WritePiece, WriteReturns, Pending, After
    <3>2. CASE writer[x].p # Parts
      <4>1. writer'[x] = [writer[x] EXCEPT !.p = @ + 1]
        BY <3>2 DEF WritePiece, TypeOK
      <4>2. /\ writer'[x].m = writer[x].m /\ writer'[x].p = writer[x].p + 1
            /\ writer'[x].conn = writer[x].conn
        BY <1>1, <4>1 DEF Writing
      <4>3. writer[x].p < Parts /\ writer[x].p \in Nat
        BY <1>1, <3>2 DEF Writing
      <4> QED
        BY <1>1, <2>1, <3>2, <4>2, <4>3 DEF WritePiece, Pending, After
    <3> QED
      BY <3>1, <3>2
  <2>10. \A i \in 1..n + 1 : Follows(Expected(i)', sock'.out[i])
    <3> TAKE i \in 1..n + 1
    <3>1. CASE i = n + 1
      BY <2>3, <2>5, <2>6, <2>8, <3>1
    <3>2. CASE i # n + 1
      BY <2>2, <2>3, <2>5, <2>6, <3>2 DEF Chained
    <3> QED
      BY <3>1, <3>2
  <2>11. \A i : i = Len(sock'.out) + 1 => Expected(i)' = Pending'
    BY <2>3, <2>5, <2>7, <2>9
  <2>12. Chained'
    BY <1>2, <2>2, <2>5, <2>10, <2>11 DEF Chained
  <2> QED
    BY <1>2, <2>1, <2>2, <2>12 DEF Stream, Framed, Chained
<1> QED
  BY <1>3, <1>4

(* The other steps of writeMsg put nothing.                                 *)
LEMMA StreamWrite ==
    ASSUME TypeOK, Mutex, Stream, Framed, NEW x \in Callers, Write(x)
    PROVE  Stream' /\ Framed'
<1>1. CASE LockWriter(x)
  <2>1. UNCHANGED <<sock, conn>> /\ writeMu = "free" /\ writeMu' = x
    BY <1>1 DEF LockWriter
  <2>2. writer'[x].p = 0
    BY <1>1 DEF LockWriter, TypeOK
  <2>3. Pending' = Pending
    BY <2>1, <2>2 DEF Pending
  <2>4. ASSUME NEW i PROVE Expected(i)' = Expected(i)
    BY <2>1 DEF Expected
  <2>5. Chained => Chained'
    BY <2>1, <2>3, <2>4 DEF Chained
  <2> QED
    BY <2>1, <2>5 DEF Stream, Framed, Connected
<1>2. CASE WritePiece(x)
  BY <1>2, StreamPiece
<1>3. CASE WriteFails(x)
  BY <1>3 DEF WriteFails, Stream, Framed, Connected
<1> QED
  BY <1>1, <1>2, <1>3 DEF Write

-----------------------------------------------------------------------------
(* The invariant holds initially.                                           *)
LEMMA InitInvariant == Init => SocketInvariant
<1> SUFFICES ASSUME Init PROVE SocketInvariant
  OBVIOUS
<1>1. TypeOK
  BY TypeInit
<1>2. sock.peer = FALSE /\ sock.garbled = FALSE
  BY DEF Init, Fresh
<1>3. Phases
  BY DEF Init, Phases, Callers
<1>4. Mutex
  BY SocketAssumption DEF Init, Mutex, Callers
<1> QED
  BY <1>1, <1>2, <1>3, <1>4 DEF SocketInvariant, Stream, Framed, Connected

(* Every step keeps it.                                                     *)
LEMMA NextInvariant == SocketInvariant /\ [Next]_vars => SocketInvariant'
<1> SUFFICES ASSUME SocketInvariant, [Next]_vars PROVE SocketInvariant'
  OBVIOUS
<1> USE DEF SocketInvariant
<1>1. ASSUME NEW x \in Callers, Write(x) PROVE SocketInvariant'
  BY <1>1, TypeWrite, PhasesWrite, MutexWrite, StreamWrite
<1>2. CASE Connect
  BY <1>2, TypeUser, PhasesUser, MutexUser, StreamConnect
<1>3. CASE CloseQuit \/ User
  <2>1. Unstirred /\ UNCHANGED conn
    BY <1>3, UnstirredSteps DEF CloseQuit, User, OpenReads, OpenFails, CloseRead,
                                WaitReader, CloseReads, CloseConn
  <2> QED
    BY <1>3, <2>1, TypeUser, PhasesUser, MutexUser, StreamUnstirred
<1>4. CASE Reader
  BY <1>4, TypeReader, PhasesOthers, MutexOthers, UnstirredSteps, StreamUnstirred
<1>5. CASE VppReads
  BY <1>5, TypeVpp, PhasesOthers, MutexOthers, StreamRead
<1>6. CASE VppGoes \/ \E m \in {Create, Delete} \cup Events : VppSends(m)
  BY <1>6, TypeVpp, PhasesOthers, MutexOthers, UnstirredSteps, StreamUnstirred
<1>7. ASSUME NEW x \in Senders, SendMsg(x) PROVE SocketInvariant'
  BY <1>7, TypeSend, PhasesOthers, MutexOthers, UnstirredSteps, StreamUnstirred
<1>8. CASE UNCHANGED vars
  BY <1>8 DEF vars, TypeOK, Phases, Mutex, Stream, Framed, Chained, Expected,
              Pending, Connected
<1> QED
  BY <1>1, <1>2, <1>3, <1>4, <1>5, <1>6, <1>7, <1>8 DEF Next

-----------------------------------------------------------------------------
(* The inductive invariant: types, phases, mutex and stream together.       *)
THEOREM SocketInvariantCorrect == Spec => []SocketInvariant
  BY InitInvariant, NextInvariant, PTL DEF Spec

(* Two goroutines never read from the socket at once, however connections   *)
(* and their failures follow each other: Disconnect waits for readerLoop,   *)
(* and Connect starts it last.                                              *)
THEOREM OneReaderCorrect == Spec => []OneReader
<1>1. SocketInvariant => OneReader
  BY DEF SocketInvariant, Phases, OneReader
<1> QED
  BY <1>1, SocketInvariantCorrect, PTL

(* A connected client has a readerLoop until VPP closes the socket: quit    *)
(* and the socket are those of the present connection.                      *)
THEOREM ReaderServesCorrect == Spec => []ReaderServes
<1>1. SocketInvariant => ReaderServes
  BY DEF SocketInvariant, Phases, ReaderServes
<1> QED
  BY <1>1, SocketInvariantCorrect, PTL

(* VPP reads whole messages, for any number of senders and any length of a  *)
(* message, unless a writer came over from an earlier connection.           *)
THEOREM FramedCorrect == Spec => []Framed
<1>1. SocketInvariant => Framed
  BY DEF SocketInvariant
<1> QED
  BY <1>1, SocketInvariantCorrect, PTL

-----------------------------------------------------------------------------
(* What is delivered                                                        *)

(* With the next piece of a stream the p0-th of message k0, the place in    *)
(* the stream of the p-th piece of message k.                               *)
Place(k0, p0, k, p) == (k - k0) * (Parts + 1) + p - p0 + 1

(* How many pieces are to come of the messages s, from there on.            *)
Rest(s, k0, p0) == (Len(s) + 1 - k0) * (Parts + 1) - p0

(* q is what comes next of the messages s, perhaps not all of it.           *)
Carries(q, s, k0, p0) ==
    /\ k0 \in 1..Len(s) + 1 /\ p0 \in 0..Parts
    /\ Len(q) <= Rest(s, k0, p0)
    /\ \A k \in k0..Len(s), p \in 0..Parts :
          Place(k0, p0, k, p) \in 1..Len(q) => q[Place(k0, p0, k, p)] = <<s[k], p>>

(* q is all of it.                                                          *)
Whole(q, s, k0, p0) == Len(q) = Rest(s, k0, p0)

(* Nothing more arrives on this connection.                                 *)
Silent == sock.shut = "cut" \/ ~Connected

(* What has arrived is what VPP sent from the given piece on, and all of it *)
(* unless the connection broke.                                             *)
Arrived(k0, p0) == /\ Carries(sock.in, sock.sent, k0, p0)
                   /\ Silent \/ Whole(sock.in, sock.sent, k0, p0)

(* The message readerLoop is at; open has had the first.                    *)
Current == Len(handed) + 2

(* The reader has read its last piece.                                      *)
Over == (reader = "top" /\ quit) \/ (sock.in = <<>> /\ Silent)

(* What buf holds is the beginning of the current message.                  *)
Begun == /\ Current <= Len(sock.sent) /\ buf # <<>>
         /\ \A j \in 1..Len(buf) : buf[j] = <<sock.sent[Current], j - 1>>

Reading ==
    /\ user \in {"shut", "wait"} => quit
    /\ user \in {"create", "createReply"} => handed = <<>> /\ Arrived(1, 0)
    /\ reader \in {"top", "header"} => Over \/ Arrived(Current, 0)
    /\ reader = "data" => Begun /\ Arrived(Current, Len(buf))
    /\ reader = "callback" => /\ Begun /\ Len(buf) = Parts + 1
                              /\ Arrived(Current + 1, 0)

BufferType == /\ buf \in Seq(Piece)
              /\ handed \in Seq([own : {TRUE}, data : Seq(Piece)])

Delivery    == BufferType /\ Reading /\ DeliveredInOrder
DeliveryInv == SocketInvariant /\ Delivery

(* Places count on from piece to piece and from message to message.         *)
LEMMA PlaceLaws ==
    ASSUME NEW k0 \in Int, NEW p0 \in Int, NEW k \in Int, NEW p \in Int
    PROVE  /\ Place(k0, p0, k, p) \in Int
           /\ Place(k0, p0, k0, p) = p - p0 + 1
           /\ Place(k0, p0 + 1, k, p) = Place(k0, p0, k, p) - 1
           /\ Place(k0 + 1, 0, k, p) = Place(k0, p0, k, p) - (Parts + 1 - p0)
           /\ k > k0 => Place(k0, p0, k, p) >= p - p0 + Parts + 2
<1> DEFINE w == Parts + 1
           d == k - k0
<1>a. w \in Nat \ {0} /\ d \in Int
  BY SocketAssumption
<1>1. (k - k0) * w \in Int
  BY <1>a
<1>2. (k0 - k0) * w = 0
  BY <1>a
<1>3. (k - (k0 + 1)) * w = (k - k0) * w - w
  <2> HIDE DEF w
  <2> QED
    BY <1>a
<1>4. k > k0 => (k - k0) * w >= w
  <2> SUFFICES ASSUME k > k0 PROVE (k - k0) * w >= w
    OBVIOUS
  <2>1. k - k0 >= 1
    OBVIOUS
  <2> HIDE DEF w
  <2>2. (k - k0 - 1) * w >= 0
    BY <1>a, <2>1
  <2>3. (k - k0 - 1) * w = (k - k0) * w - w
    BY <1>a
  <2> QED
    BY <1>a, <1>1, <2>2, <2>3
<1>5. Place(k0, p0, k, p) = (k - k0) * w + p - p0 + 1
      /\ Place(k0, p0, k0, p) = (k0 - k0) * w + p - p0 + 1
      /\ Place(k0, p0 + 1, k, p) = (k - k0) * w + p - (p0 + 1) + 1
      /\ Place(k0 + 1, 0, k, p) = (k - (k0 + 1)) * w + p - 0 + 1
  BY DEF Place
<1> HIDE DEF w
<1>6. w = Parts + 1 /\ Parts \in Nat
  BY SocketAssumption DEF w
<1> QED
  BY <1>a, <1>1, <1>2, <1>3, <1>4, <1>5, <1>6

(* Places from one piece are those from another, moved.                     *)
LEMMA PlaceSum ==
    ASSUME NEW k0 \in Int, NEW p0 \in Int, NEW k \in Int, NEW p \in Int,
           NEW k1 \in Int, NEW p1 \in Int
    PROVE  Place(k, p, k1, p1) = Place(k0, p0, k1, p1) - Place(k0, p0, k, p) + 1
<1> DEFINE w == Parts + 1
<1>1. w \in Int
  BY SocketAssumption
<1>2. /\ Place(k, p, k1, p1) = (k1 - k) * w + p1 - p + 1
      /\ Place(k0, p0, k1, p1) = (k1 - k0) * w + p1 - p0 + 1
      /\ Place(k0, p0, k, p) = (k - k0) * w + p - p0 + 1
  BY DEF Place
<1> HIDE DEF w
<1>3. (k1 - k) * w = (k1 - k0) * w - (k - k0) * w
  BY <1>1
<1>4. (k1 - k) * w \in Int /\ (k1 - k0) * w \in Int /\ (k - k0) * w \in Int
  BY <1>1
<1> QED
  BY <1>2, <1>3, <1>4

(* So does what is to come.                                                 *)
LEMMA RestLaws ==
    ASSUME NEW s \in Seq(Messages), NEW k0 \in 1..Len(s) + 1, NEW p0 \in 0..Parts
    PROVE  /\ Rest(s, k0, p0) \in Int
           /\ Rest(s, k0, p0) = Place(k0, p0, Len(s) + 1, 0) - 1
           /\ Rest(s, k0, p0 + 1) = Rest(s, k0, p0) - 1
           /\ Rest(s, k0 + 1, 0) = Rest(s, k0, p0) - (Parts + 1 - p0)
           /\ k0 > Len(s) => Rest(s, k0, p0) = -p0
<1> PICK n \in Int : n = Len(s) + 1
  OBVIOUS
<1>a. Parts \in Int /\ p0 \in Int /\ k0 \in Int /\ 0 \in Int
  BY SocketAssumption
<1>1. \A a, b \in Int : Rest(s, a, b) = Place(a, b, n, 0) - 1
  BY <1>a DEF Rest, Place
<1>2. /\ Place(k0, p0, n, 0) \in Int
      /\ Place(k0, p0 + 1, n, 0) = Place(k0, p0, n, 0) - 1
      /\ Place(k0 + 1, 0, n, 0) = Place(k0, p0, n, 0) - (Parts + 1 - p0)
      /\ Place(k0, p0, k0, 0) = 0 - p0 + 1
  <2>1. k0 \in Int /\ p0 \in Int /\ n \in Int /\ 0 \in Int
    BY <1>a
  <2>2. Place(k0, p0, n, 0) \in Int
    BY <2>1, PlaceLaws
  <2>3. Place(k0, p0 + 1, n, 0) = Place(k0, p0, n, 0) - 1
    BY <2>1, PlaceLaws
  <2>4. Place(k0 + 1, 0, n, 0) = Place(k0, p0, n, 0) - (Parts + 1 - p0)
    BY <2>1, PlaceLaws
  <2>5. Place(k0, p0, k0, 0) = 0 - p0 + 1
    BY <2>1, PlaceLaws
  <2> QED
    BY <2>2, <2>3, <2>4, <2>5
<1>3. Rest(s, k0, p0) = Place(k0, p0, n, 0) - 1
  BY <1>1, <1>a
<1>4. Rest(s, k0, p0 + 1) = Place(k0, p0 + 1, n, 0) - 1
  <2>1. p0 + 1 \in Int
    BY <1>a
  <2> QED
    BY <1>1, <1>a, <2>1
<1>5. Rest(s, k0 + 1, 0) = Place(k0 + 1, 0, n, 0) - 1
  <2>1. k0 + 1 \in Int
    BY <1>a
  <2> QED
    BY <1>1, <1>a, <2>1
<1>6. k0 > Len(s) => k0 = n
  OBVIOUS
<1>7. Place(k0, p0, n, 0) \in Int
  BY <1>2, <1>a
<1>8. Rest(s, k0, p0 + 1) = Rest(s, k0, p0) - 1
  BY <1>2, <1>3, <1>4, <1>7, <1>a
<1>9. Rest(s, k0 + 1, 0) = Rest(s, k0, p0) - (Parts + 1 - p0)
  <2> PICK a, b, c \in Int : /\ a = Place(k0, p0, n, 0) /\ b = Place(k0 + 1, 0, n, 0)
                             /\ c = Parts + 1 - p0
    BY <1>2, <1>7, <1>a
  <2>1. b = a - c /\ Rest(s, k0, p0) = a - 1 /\ Rest(s, k0 + 1, 0) = b - 1
    BY <1>2, <1>3, <1>5
  <2> QED
    BY <2>1
<1>10. k0 > Len(s) => Rest(s, k0, p0) = -p0
  BY <1>2, <1>3, <1>6, <1>7, <1>a
<1> QED
  BY <1>3, <1>7, <1>8, <1>9, <1>10, <1>a

(* One more message is so many more pieces.                                 *)
LEMMA RestAppend ==
    ASSUME NEW s \in Seq(Messages), NEW k0 \in 1..Len(s) + 1, NEW p0 \in 0..Parts,
           NEW m \in Messages
    PROVE  Rest(Append(s, m), k0, p0) = Rest(s, k0, p0) + Parts + 1
<1> DEFINE w == Parts + 1
<1> PICK n \in Nat : n = Len(s)
  OBVIOUS
<1>1. Parts \in Nat /\ w \in Int /\ Len(Append(s, m)) = n + 1
  BY SocketAssumption
<1>2. Rest(Append(s, m), k0, p0) = (n + 1 + 1 - k0) * w - p0
      /\ Rest(s, k0, p0) = (n + 1 - k0) * w - p0
  BY <1>1 DEF Rest
<1>3. w = Parts + 1
  OBVIOUS
<1> HIDE DEF w
<1>4. (n + 1 + 1 - k0) * w = (n + 1 - k0) * w + w /\ (n + 1 - k0) * w \in Int
  BY <1>1
<1> QED
  BY <1>1, <1>2, <1>3, <1>4

(* What is cut short is still carried.                                      *)
LEMMA CarriesCut ==
    ASSUME NEW q \in Seq(Piece), NEW s \in Seq(Messages), NEW k0, NEW p0,
           Carries(q, s, k0, p0), NEW n \in 0..Len(q)
    PROVE  Carries(SubSeq(q, 1, n), s, k0, p0)
<1> DEFINE r == SubSeq(q, 1, n)
<1>1. Len(r) = n /\ \A i \in 1..n : r[i] = q[i]
  OBVIOUS
<1>2. k0 \in 1..Len(s) + 1 /\ p0 \in 0..Parts /\ Rest(s, k0, p0) \in Int
  BY RestLaws DEF Carries
<1>3. \A i \in 1..Len(r) : i \in 1..Len(q)
  BY <1>1
<1>4. Len(r) <= Rest(s, k0, p0)
  BY <1>1, <1>2 DEF Carries
<1> HIDE DEF r
<1>5. Carries(r, s, k0, p0)
  BY <1>1, <1>2, <1>3, <1>4 DEF Carries
<1> QED
  BY <1>5 DEF r

(* The piece that comes next is the one that is due.                        *)
LEMMA CarriesHead ==
    ASSUME NEW q \in Seq(Piece), NEW s \in Seq(Messages), NEW k0, NEW p0,
           Carries(q, s, k0, p0), q # <<>>
    PROVE  k0 <= Len(s) /\ Head(q) = <<s[k0], p0>>
<1>1. k0 \in 1..Len(s) + 1 /\ p0 \in 0..Parts /\ Len(q) \in Nat \ {0} /\ k0 \in Int
      /\ p0 \in Int
  BY SocketAssumption DEF Carries
<1>2. k0 <= Len(s)
  <2>1. k0 > Len(s) => Rest(s, k0, p0) = -p0
    BY <1>1, RestLaws
  <2> QED
    BY <1>1, <2>1 DEF Carries
<1>3. Place(k0, p0, k0, p0) = p0 - p0 + 1
  BY <1>1, PlaceLaws
<1>4. Place(k0, p0, k0, p0) = 1
  BY <1>1, <1>3
<1>5. k0 \in k0..Len(s)
  BY <1>1, <1>2
<1>6. 1 \in 1..Len(q)
  BY <1>1
<1>7. q[1] = <<s[k0], p0>>
  BY <1>1, <1>4, <1>5, <1>6 DEF Carries
<1> QED
  BY <1>2, <1>7

(* Piece p1 of message k1 comes n places after piece p0 of message k0.      *)
Shift(k0, p0, k1, p1, n) ==
    \A k, p \in Int : Place(k1, p1, k, p) = Place(k0, p0, k, p) - n

(* r is what is left of q without its first n pieces.                       *)
Left(q, r, n) == /\ Len(r) = Len(q) - n
                 /\ \A i \in 1..Len(r) : r[i] = q[i + n]

(* r is q without some first pieces, p1 of message k1 the next.             *)
Advance(q, s, k0, p0, r, k1, p1) ==
    /\ k1 \in k0..Len(s) + 1 /\ p1 \in 0..Parts
    /\ \E n \in 1..Len(q) : /\ Left(q, r, n) /\ Shift(k0, p0, k1, p1, n)
                            /\ Rest(s, k1, p1) = Rest(s, k0, p0) - n

(* What is left when the first pieces are taken is what comes after them.   *)
LEMMA CarriesDrop ==
    ASSUME NEW q \in Seq(Piece), NEW s \in Seq(Messages), NEW k0, NEW p0,
           Carries(q, s, k0, p0), NEW r \in Seq(Piece), NEW k1, NEW p1,
           Advance(q, s, k0, p0, r, k1, p1)
    PROVE  /\ Carries(r, s, k1, p1)
           /\ Whole(q, s, k0, p0) => Whole(r, s, k1, p1)
<1> PICK n \in 1..Len(q) : /\ Left(q, r, n) /\ Shift(k0, p0, k1, p1, n)
                           /\ Rest(s, k1, p1) = Rest(s, k0, p0) - n
  BY DEF Advance
<1>0. k1 \in k0..Len(s) + 1 /\ p1 \in 0..Parts
  BY DEF Advance
<1>1. k0 \in 1..Len(s) + 1 /\ p0 \in 0..Parts /\ Rest(s, k0, p0) \in Int
  BY RestLaws DEF Carries
<1>2. Parts \in Nat /\ k0 \in Int /\ p0 \in Int /\ k1 \in 1..Len(s) + 1 /\ k1 >= k0
  BY <1>0, <1>1, SocketAssumption
<1> USE DEF Shift, Left
<1>3. Len(r) <= Rest(s, k1, p1)
  BY <1>1 DEF Carries
<1>4. ASSUME NEW k \in k1..Len(s), NEW p \in 0..Parts, Place(k1, p1, k, p) \in 1..Len(r)
      PROVE  r[Place(k1, p1, k, p)] = <<s[k], p>>
  <2>1. k \in k0..Len(s) /\ k \in Int /\ p \in Int
    BY <1>1, <1>2
  <2> PICK i \in 1..Len(r) : i = Place(k1, p1, k, p)
    BY <1>4
  <2>a. i \in Int /\ n \in Int
    OBVIOUS
  <2>2. Place(k0, p0, k, p) \in Int
    BY <1>1, <1>2, <2>1, PlaceLaws
  <2>3. i = Place(k0, p0, k, p) - n
    BY <2>1
  <2>4. Place(k0, p0, k, p) = i + n
    <3> PICK a \in Int : a = Place(k0, p0, k, p)
      BY <2>2
    <3>1. i = a - n
      BY <2>3
    <3> QED
      BY <2>a, <3>1
  <2>5. i + n \in 1..Len(q)
    OBVIOUS
  <2>6. q[i + n] = <<s[k], p>>
    BY <2>1, <2>4, <2>5 DEF Carries
  <2> QED
    BY <2>6
<1> QED
  BY <1>0, <1>1, <1>2, <1>3, <1>4 DEF Carries, Whole

(* The next piece is taken.                                                 *)
LEMMA CarriesTail ==
    ASSUME NEW q \in Seq(Piece), NEW s \in Seq(Messages), NEW k0, NEW p0,
           Carries(q, s, k0, p0), q # <<>>
    PROVE  /\ p0 < Parts => /\ Carries(Tail(q), s, k0, p0 + 1)
                            /\ Whole(q, s, k0, p0) => Whole(Tail(q), s, k0, p0 + 1)
           /\ p0 = Parts => /\ Carries(Tail(q), s, k0 + 1, 0)
                            /\ Whole(q, s, k0, p0) => Whole(Tail(q), s, k0 + 1, 0)
<1>1. k0 \in 1..Len(s) + 1 /\ p0 \in 0..Parts /\ Rest(s, k0, p0) \in Int
  BY RestLaws DEF Carries
<1>2. k0 <= Len(s) /\ Parts \in Nat /\ 0 \in 0..Parts /\ k0 \in Int /\ p0 \in Int
  BY CarriesHead, SocketAssumption, <1>1
<1>3. 1 \in 1..Len(q)
  OBVIOUS
<1>4. Tail(q) \in Seq(Piece) /\ Left(q, Tail(q), 1)
  BY DEF Left
<1>5. CASE p0 < Parts
  <2>1. p0 + 1 \in 0..Parts
    BY <1>1, <1>2, <1>5
  <2>2. Rest(s, k0, p0 + 1) = Rest(s, k0, p0) - 1
    BY <1>1, RestLaws
  <2>3. Shift(k0, p0, k0, p0 + 1, 1)
    BY <1>2, PlaceLaws DEF Shift
  <2>4. k0 >= k0
    BY <1>2
  <2>5. /\ Carries(Tail(q), s, k0, p0 + 1)
        /\ Whole(q, s, k0, p0) => Whole(Tail(q), s, k0, p0 + 1)
    <3> PICK t, p1 : t = Tail(q) /\ p1 = p0 + 1
      OBVIOUS
    <3>1. k0 \in 1..Len(s) + 1
      BY <1>1
    <3>2. p1 \in 0..Parts /\ Rest(s, k0, p1) = Rest(s, k0, p0) - 1
      BY <2>1, <2>2
    <3>3. Shift(k0, p0, k0, p1, 1)
      BY <2>3
    <3>4. t \in Seq(Piece) /\ Left(q, t, 1)
      BY <1>4
    <3>5. Advance(q, s, k0, p0, t, k0, p1)
      BY <1>1, <1>2, <1>3, <3>1, <3>2, <3>3, <3>4 DEF Advance
    <3>6. /\ Carries(t, s, k0, p1)
          /\ Whole(q, s, k0, p0) => Whole(t, s, k0, p1)
      BY <3>4, <3>5, CarriesDrop
    <3> QED
      BY <3>6
  <2> QED
    BY <1>2, <1>5, <2>5
<1>6. CASE p0 = Parts
  <2>1. k0 + 1 \in 1..Len(s) + 1
    BY <1>1, <1>2
  <2>2. Rest(s, k0 + 1, 0) = Rest(s, k0, p0) - 1
    <3>1. Rest(s, k0 + 1, 0) = Rest(s, k0, p0) - (Parts + 1 - p0)
      BY <1>1, RestLaws
    <3>2. Parts + 1 - p0 = 1
      BY <1>2, <1>6
    <3> QED
      BY <3>1, <3>2
  <2>3. Shift(k0, p0, k0 + 1, 0, 1)
    <3>1. ASSUME NEW k \in Int, NEW p \in Int
          PROVE  Place(k0 + 1, 0, k, p) = Place(k0, p0, k, p) - (Parts + 1 - p0)
      BY <1>2, PlaceLaws
    <3>2. Parts + 1 - p0 = 1
      BY <1>2, <1>6
    <3> QED
      BY <3>1, <3>2 DEF Shift
  <2>4. k0 + 1 >= k0
    BY <1>2
  <2>5. /\ Carries(Tail(q), s, k0 + 1, 0)
        /\ Whole(q, s, k0, p0) => Whole(Tail(q), s, k0 + 1, 0)
    <3> PICK t, k1 : t = Tail(q) /\ k1 = k0 + 1
      OBVIOUS
    <3>1. k1 \in 1..Len(s) + 1 /\ k1 >= k0
      BY <2>1, <2>4
    <3>2. 0 \in 0..Parts /\ Rest(s, k1, 0) = Rest(s, k0, p0) - 1
      BY <1>2, <2>2
    <3>3. Shift(k0, p0, k1, 0, 1)
      BY <2>3
    <3>4. t \in Seq(Piece) /\ Left(q, t, 1)
      BY <1>4
    <3>5. Advance(q, s, k0, p0, t, k1, 0)
      BY <1>1, <1>2, <1>3, <3>1, <3>2, <3>3, <3>4 DEF Advance
    <3>6. /\ Carries(t, s, k1, 0)
          /\ Whole(q, s, k0, p0) => Whole(t, s, k1, 0)
      BY <3>4, <3>5, CarriesDrop
    <3> QED
      BY <3>6
  <2> QED
    BY <1>2, <1>6, <2>5
<1> QED
  BY <1>1, <1>2, <1>5, <1>6

(* A whole message is taken.                                                *)
LEMMA CarriesSkip ==
    ASSUME NEW q \in Seq(Piece), NEW s \in Seq(Messages), NEW k0,
           Carries(q, s, k0, 0), Len(q) > Parts
    PROVE  LET r == SubSeq(q, Parts + 2, Len(q))
           IN  /\ Carries(r, s, k0 + 1, 0)
               /\ Whole(q, s, k0, 0) => Whole(r, s, k0 + 1, 0)
<1> PICK w, r, k1 : w = Parts + 1 /\ r = SubSeq(q, Parts + 2, Len(q)) /\ k1 = k0 + 1
  OBVIOUS
<1>1. Parts \in Nat \ {0} /\ w \in 1..Len(q) /\ 0 \in 0..Parts /\ q # <<>>
  BY SocketAssumption
<1>2. k0 \in 1..Len(s) + 1 /\ k0 <= Len(s)
  BY <1>1, CarriesHead DEF Carries
<1>3. k1 \in k0..Len(s) + 1 /\ k0 \in Int
  BY <1>2
<1>4. r \in Seq(Piece) /\ Left(q, r, w)
  <2> PICK n \in Nat : n = Len(q)
    OBVIOUS
  <2>1. r = SubSeq(q, w + 1, n) /\ w + 1 \in 1..n + 1 /\ n = Len(q)
    BY <1>1
  <2>2. r \in Seq(Piece)
    BY <1>1, <2>1
  <2>3. Len(r) = n - w /\ \A i \in 1..Len(r) : r[i] = q[w + 1 + i - 1]
    BY <1>1, <2>1
  <2>4. ASSUME NEW i \in 1..Len(r) PROVE w + 1 + i - 1 = i + w
    BY <1>1, <2>3
  <2> QED
    BY <2>1, <2>2, <2>3, <2>4 DEF Left
<1>5. Shift(k0, 0, k1, 0, w)
  <2>1. ASSUME NEW k \in Int, NEW p \in Int
        PROVE  Place(k0 + 1, 0, k, p) = Place(k0, 0, k, p) - (Parts + 1 - 0)
    BY <1>3, PlaceLaws
  <2>2. Parts + 1 - 0 = w
    BY <1>1
  <2> QED
    BY <2>1, <2>2 DEF Shift
<1>6. Rest(s, k1, 0) = Rest(s, k0, 0) - w
  <2>1. Rest(s, k0 + 1, 0) = Rest(s, k0, 0) - (Parts + 1 - 0)
    BY <1>1, <1>2, RestLaws
  <2>2. Parts + 1 - 0 = w
    BY <1>1
  <2> QED
    BY <2>1, <2>2
<1>7. Advance(q, s, k0, 0, r, k1, 0)
  BY <1>1, <1>3, <1>4, <1>5, <1>6 DEF Advance
<1> PICK z : z = 0
  OBVIOUS
<1>8. r \in Seq(Piece) /\ Carries(q, s, k0, z) /\ Advance(q, s, k0, z, r, k1, z)
  BY <1>4, <1>7
<1>9. Carries(r, s, k1, z) /\ (Whole(q, s, k0, z) => Whole(r, s, k1, z))
  BY ONLY <1>8, CarriesDrop, q \in Seq(Piece), s \in Seq(Messages)
<1> QED
  BY <1>9

(* A message that is sent when nothing is missing before it is carried too. *)
LEMMA CarriesSend ==
    ASSUME NEW q \in Seq(Piece), NEW s \in Seq(Messages), NEW k0, NEW p0,
           Carries(q, s, k0, p0), Whole(q, s, k0, p0), NEW m \in Messages
    PROVE  /\ Carries(q \o Pieces(m), Append(s, m), k0, p0)
           /\ Whole(q \o Pieces(m), Append(s, m), k0, p0)
<1> PICK w \in Nat : w = Parts + 1
  BY SocketAssumption
<1> PICK n \in Nat : n = Len(q)
  OBVIOUS
<1> PICK l \in Nat : l = Len(s)
  OBVIOUS
<1> PICK r, t : r = q \o Pieces(m) /\ t = Append(s, m)
  OBVIOUS
<1>1. k0 \in 1..l + 1 /\ p0 \in 0..Parts /\ k0 \in Int /\ p0 \in Int
      /\ Parts \in Nat /\ l + 1 \in Int /\ 0 \in Int
  BY SocketAssumption DEF Carries
<1>2. Pieces(m) \in Seq(Piece) /\ Len(Pieces(m)) = w
      /\ \A j \in 1..w : Pieces(m)[j] = <<m, j - 1>>
  BY <1>1, PiecesType DEF Pieces
<1>3. /\ Len(r) = n + w
      /\ \A i \in 1..n : r[i] = q[i]
      /\ \A j \in 1..w : r[n + j] = <<m, j - 1>>
  <2> PICK f : f = Pieces(m)
    OBVIOUS
  <2>1. r = q \o f /\ f \in Seq(Piece) /\ Len(f) = w
    BY <1>2
  <2>2. Len(r) = n + w /\ \A i \in 1..n + w : r[i] = IF i <= n THEN q[i] ELSE f[i - n]
    BY <2>1
  <2>3. \A i \in 1..n : r[i] = q[i]
    BY <2>2
  <2>4. ASSUME NEW j \in 1..w PROVE r[n + j] = f[j]
    <3>1. n + j \in 1..n + w /\ ~(n + j <= n) /\ (n + j) - n = j
      OBVIOUS
    <3> QED
      BY <2>2, <3>1
  <2> QED
    BY <1>2, <2>2, <2>3, <2>4
<1>4. t \in Seq(Messages) /\ Len(t) = l + 1 /\ t[l + 1] = m
      /\ \A k \in 1..l : t[k] = s[k]
  OBVIOUS
<1>5. Rest(t, k0, p0) = n + w /\ Rest(s, k0, p0) = n
  <2>1. Rest(t, k0, p0) = Rest(s, k0, p0) + Parts + 1
    BY <1>1, RestAppend
  <2> QED
    BY <1>1, <2>1 DEF Whole
<1>6. Place(k0, p0, l + 1, 0) = n + 1
  <2>1. Rest(s, k0, p0) = Place(k0, p0, l + 1, 0) - 1
    BY <1>1, RestLaws
  <2>2. Place(k0, p0, l + 1, 0) \in Int
    BY <1>1, PlaceLaws
  <2> QED
    BY <1>5, <2>1, <2>2
<1>7. ASSUME NEW k \in k0..l + 1, NEW p \in 0..Parts,
             Place(k0, p0, k, p) \in 1..Len(r)
      PROVE  r[Place(k0, p0, k, p)] = <<t[k], p>>
  <2>0. k \in Int /\ p \in Int /\ k \in 1..l + 1
    BY <1>1
  <2>1. CASE k = l + 1
    <3>1. Place(k0, p0, l + 1, p) = n + (p + 1)
      <4>1. Place(k0, p0, l + 1, p) = Place(k0, p0, l + 1, 0) + p
        BY <1>1, <2>0 DEF Place
      <4> QED
        BY <1>1, <1>6, <2>0, <4>1
    <3>2. p + 1 \in 1..w /\ (p + 1) - 1 = p
      BY <1>1
    <3>3. r[n + (p + 1)] = <<m, (p + 1) - 1>>
      BY <1>3, <3>2
    <3> QED
      BY <1>4, <2>1, <3>1, <3>2, <3>3
  <2>2. CASE k # l + 1
    <3>1. k \in k0..Len(s) /\ t[k] = s[k]
      BY <1>1, <1>4, <2>2
    <3>2. Place(k0, p0, k, p) <= n
      <4>1. Place(k, p, l + 1, 0) = Place(k0, p0, l + 1, 0) - Place(k0, p0, k, p) + 1
        <5> PICK c, z \in Int : c = l + 1 /\ z = 0
          OBVIOUS
        <5>0. /\ k0 \in Int /\ p0 \in Int /\ k \in Int /\ p \in Int
              /\ c \in Int /\ z \in Int
          BY <1>1, <2>0
        <5>1. Place(k, p, c, z) = Place(k0, p0, c, z) - Place(k0, p0, k, p) + 1
          BY ONLY <5>0, PlaceSum
        <5> QED
          BY <5>1
      <4>2. Place(k, p, l + 1, 0) >= 2
        <5>1. l + 1 > k
          BY <2>2, <2>0
        <5>2. Place(k, p, l + 1, 0) >= 0 - p + Parts + 2
          BY <1>1, <2>0, <5>1, PlaceLaws
        <5>3. Place(k, p, l + 1, 0) \in Int
          BY <1>1, <2>0, PlaceLaws
        <5> QED
          BY <1>1, <5>2, <5>3
      <4>3. Place(k, p, l + 1, 0) \in Int
        BY <1>1, <2>0, PlaceLaws
      <4>4. Place(k0, p0, k, p) \in Int
        BY <1>1, <2>0, PlaceLaws
      <4>5. n \in Nat
        OBVIOUS
      <4> QED
        BY ONLY <1>6, <4>1, <4>2, <4>3, <4>4, <4>5
    <3>3. Place(k0, p0, k, p) \in 1..Len(q)
      BY <3>2, <1>7
    <3> QED
      BY <1>3, <3>1, <3>3 DEF Carries
  <2> QED
    BY <2>1, <2>2
<1>8. Carries(r, t, k0, p0)
  <2>1. k0 \in 1..Len(t) + 1 /\ p0 \in 0..Parts
    BY <1>1, <1>4
  <2>2. Len(r) <= Rest(t, k0, p0)
    BY <1>3, <1>5
  <2>3. \A k \in k0..Len(t), p \in 0..Parts :
           Place(k0, p0, k, p) \in 1..Len(r) => r[Place(k0, p0, k, p)] = <<t[k], p>>
    BY <1>4, <1>7
  <2> QED
    BY <2>1, <2>2, <2>3 DEF Carries
<1>9. Whole(r, t, k0, p0)
  BY <1>3, <1>5 DEF Whole
<1> QED
  BY <1>8, <1>9

(* A step that leaves the reader and what comes to it alone.                *)
Still == /\ sock'.in = sock.in /\ sock'.sent = sock.sent /\ (Silent' <=> Silent)
         /\ UNCHANGED <<quit, reader, buf, handed>>
         /\ user' \in {"shut", "wait"} => quit
         /\ user' \in {"create", "createReply"} => user \in {"create", "createReply"}

(* Then what is delivered stays as it was.                                  *)
LEMMA DeliveryStill == ASSUME Delivery, Still PROVE Delivery'
<1> USE DEF Delivery, Still
<1>1. BufferType'
  BY DEF BufferType
<1>2. \A k0, p0 : Arrived(k0, p0)' <=> Arrived(k0, p0)
  BY DEF Arrived
<1>3. Current' = Current /\ (Over' <=> Over) /\ (Begun' <=> Begun)
  BY DEF Current, Over, Begun
<1>4. DeliveredInOrder'
  BY DEF DeliveredInOrder
<1>5. Reading'
  <2>1. user' \in {"create", "createReply"} => handed' = <<>> /\ Arrived(1, 0)'
    BY <1>2 DEF Reading
  <2>2. reader' \in {"top", "header"} => Over' \/ Arrived(Current, 0)'
    BY <1>2, <1>3 DEF Reading
  <2>3. reader' = "data" => Begun' /\ Arrived(Current, Len(buf))'
    BY <1>2, <1>3 DEF Reading
  <2>4. reader' = "callback" => /\ Begun' /\ Len(buf') = Parts + 1
                                /\ Arrived(Current + 1, 0)'
    BY <1>2, <1>3 DEF Reading
  <2> QED
    BY <2>1, <2>2, <2>3, <2>4 DEF Reading
<1> QED
  BY <1>1, <1>4, <1>5

(* The connection breaks, or its other end: part of what was sent is left.  *)
LEMMA DeliveryCut ==
    ASSUME TypeOK, Delivery, NEW n \in 0..Len(sock.in),
           sock'.in = SubSeq(sock.in, 1, n), sock'.sent = sock.sent, Silent',
           UNCHANGED <<quit, reader, buf, handed>>,
           user' \in {"shut", "wait"} => quit,
           user' \in {"create", "createReply"} => user \in {"create", "createReply"}
    PROVE  Delivery'
<1> USE DEF Delivery
<1>0. sock.in \in Seq(Piece) /\ sock.sent \in Seq(Messages)
  BY DEF TypeOK, Sockets
<1>1. BufferType'
  BY DEF BufferType
<1>2. ASSUME NEW k0, NEW p0, Arrived(k0, p0) PROVE Arrived(k0, p0)'
  <2>1. Carries(SubSeq(sock.in, 1, n), sock.sent, k0, p0)
    BY <1>0, <1>2, CarriesCut DEF Arrived
  <2> QED
    BY <2>1 DEF Arrived
<1>3. Current' = Current /\ (Begun' <=> Begun)
  BY DEF Current, Begun
<1>4. Over => Over'
  <2>1. sock.in = <<>> => SubSeq(sock.in, 1, n) = <<>>
    BY <1>0
  <2> QED
    BY <2>1 DEF Over
<1>5. DeliveredInOrder'
  BY DEF DeliveredInOrder
<1>6. Reading'
  <2>1. user' \in {"create", "createReply"} => handed' = <<>> /\ Arrived(1, 0)'
    BY <1>2 DEF Reading
  <2>2. reader' \in {"top", "header"} => Over' \/ Arrived(Current, 0)'
    BY <1>2, <1>3, <1>4 DEF Reading
  <2>3. reader' = "data" => Begun' /\ Arrived(Current, Len(buf))'
    BY <1>2, <1>3 DEF Reading
  <2>4. reader' = "callback" => /\ Begun' /\ Len(buf') = Parts + 1
                                /\ Arrived(Current + 1, 0)'
    BY <1>2, <1>3 DEF Reading
  <2> QED
    BY <2>1, <2>2, <2>3, <2>4 DEF Reading
<1> QED
  BY <1>1, <1>5, <1>6

(* A step after which the reader is off and no handshake has begun needs    *)
(* only to leave alone what was handed over.                                *)
LEMMA DeliveryIdle ==
    ASSUME Delivery, reader' = "off", UNCHANGED <<buf, handed>>,
           sock'.sent = sock.sent, user' \in {"on", "delete", "deleteReply", "close", "off"}
    PROVE  Delivery'
  BY DEF Delivery, BufferType, Reading, DeliveredInOrder

(* A new connection has nothing yet, and nothing is missing.                *)
LEMMA DeliveryConnect == ASSUME TypeOK, Phases, Delivery, Connect PROVE Delivery'
<1>1. /\ sock' = Fresh /\ handed' = <<>> /\ reader' = "off" /\ user' = "create"
      /\ buf' = buf
  BY DEF Connect, UserGoes, Phases
<1>2. Carries(<<>>, <<>>, 1, 0) /\ Whole(<<>>, <<>>, 1, 0)
  <2>1. <<>> \in Seq(Messages) /\ Len(<<>>) = 0 /\ 1 \in 1..Len(<<>>) + 1
    OBVIOUS
  <2>2. 0 \in 0..Parts
    BY SocketAssumption
  <2>3. Rest(<<>>, 1, 0) = 0
    <3>1. Rest(<<>>, 1, 0) = (1 - 1) * (Parts + 1) - 0
      BY <2>1 DEF Rest
    <3> QED
      BY <3>1, SocketAssumption
  <2>4. \A k \in 1..Len(<<>>) : FALSE
    BY <2>1
  <2> QED
    BY <2>1, <2>2, <2>3, <2>4 DEF Carries, Whole
<1>3. Arrived(1, 0)'
  <2>1. sock'.in = <<>> /\ sock'.sent = <<>>
    BY <1>1 DEF Fresh
  <2> QED
    BY <1>2, <2>1 DEF Arrived
<1>4. BufferType'
  <2>1. handed' \in Seq([own : {TRUE}, data : Seq(Piece)])
    BY <1>1
  <2> QED
    BY <1>1, <2>1 DEF Delivery, BufferType
<1>5. Reading'
  BY <1>1, <1>3 DEF Reading
<1>6. DeliveredInOrder'
  BY <1>1 DEF DeliveredInOrder
<1> QED
  BY <1>4, <1>5, <1>6 DEF Delivery

(* open takes the first message, and readerLoop begins with the second.     *)
LEMMA DeliveryOpen == ASSUME TypeOK, Phases, Delivery, OpenReads PROVE Delivery'
<1> USE DEF Delivery
<1>1. /\ user = "createReply" /\ reader = "off" /\ Len(sock.in) > Parts
      /\ sock' = [sock EXCEPT !.in = AfterOne] /\ UNCHANGED <<buf, handed>>
      /\ user' \in {"on", "close"} /\ reader' \in {"off", "top"}
  BY DEF OpenReads, StartReader, Ready, Phases
<1>2. handed = <<>> /\ Arrived(1, 0)
  BY <1>1 DEF Reading
<1>3. sock'.in = AfterOne /\ sock'.sent = sock.sent /\ (Silent' <=> Silent)
  BY <1>1 DEF TypeOK, Sockets, Silent, Connected
<1>4. Arrived(2, 0)'
  <2>1. sock.in \in Seq(Piece) /\ sock.sent \in Seq(Messages) /\ 1 + 1 = 2
    BY DEF TypeOK, Sockets
  <2>2. /\ Carries(AfterOne, sock.sent, 1 + 1, 0)
        /\ Whole(sock.in, sock.sent, 1, 0) => Whole(AfterOne, sock.sent, 1 + 1, 0)
    BY <1>1, <1>2, <2>1, CarriesSkip DEF Arrived, AfterOne
  <2> QED
    BY <1>2, <1>3, <2>1, <2>2 DEF Arrived
<1>5. Current' = 2
  BY <1>1, <1>2 DEF Current
<1>6. Reading'
  BY <1>1, <1>4, <1>5 DEF Reading
<1>7. BufferType' /\ DeliveredInOrder'
  BY <1>1, <1>2, <1>3 DEF BufferType, DeliveredInOrder
<1> QED
  BY <1>6, <1>7

(* The steps of Connect and Disconnect.                                     *)
LEMMA DeliveryUser ==
    ASSUME TypeOK, Phases, Delivery, Connect \/ CloseQuit \/ User
    PROVE  Delivery'
<1>1. CASE CloseQuit
  <2>1. \A k0, p0 : Arrived(k0, p0)' <=> Arrived(k0, p0)
    BY <1>1 DEF CloseQuit, Arrived, Silent, Connected
  <2>2. Current' = Current /\ (Over => Over') /\ (Begun' <=> Begun)
    BY <1>1 DEF CloseQuit, Current, Over, Begun, Silent, Connected
  <2>3. /\ quit' /\ user' = "shut" /\ reader' = reader /\ buf' = buf /\ handed' = handed
        /\ sock' = sock
    BY <1>1 DEF CloseQuit, UserGoes
  <2>4. reader' \in {"top", "header"} => Over' \/ Arrived(Current, 0)'
    BY <2>1, <2>2, <2>3 DEF Reading, Delivery
  <2>5. reader' = "data" => Begun' /\ Arrived(Current, Len(buf))'
    BY <2>1, <2>2, <2>3 DEF Reading, Delivery
  <2>6. reader' = "callback" => /\ Begun' /\ Len(buf') = Parts + 1
                                /\ Arrived(Current + 1, 0)'
    BY <2>1, <2>2, <2>3 DEF Reading, Delivery
  <2>7. Reading'
    BY <2>3, <2>4, <2>5, <2>6 DEF Reading
  <2> QED
    BY <2>3, <2>7 DEF Delivery, BufferType, DeliveredInOrder
<1>2. CASE CloseRead
  <2>1. quit /\ user' = "wait" /\ UNCHANGED <<quit, reader, buf, handed>>
    BY <1>2 DEF CloseRead, UserGoes, Delivery, Reading
  <2>2. CASE sock' = [sock EXCEPT !.shut = "drain"]
    <3>1. sock.shut = "no"
      BY <1>2 DEF CloseRead, UserGoes, Phases
    <3>2. Still
      BY <2>1, <2>2, <3>1 DEF Still, TypeOK, Sockets, Silent, Connected
    <3> QED
      BY <3>2, DeliveryStill
  <2>3. ASSUME NEW n \in 0..Len(sock.in),
               sock' = [sock EXCEPT !.shut = "cut", !.in = SubSeq(sock.in, 1, n)]
        PROVE  Delivery'
    <3>1. sock'.in = SubSeq(sock.in, 1, n) /\ sock'.sent = sock.sent /\ Silent'
      BY <2>3 DEF TypeOK, Sockets, Silent
    <3> QED
      BY <2>1, <3>1, DeliveryCut
  <2> QED
    BY <1>2, <2>2, <2>3 DEF CloseRead
<1>3. CASE CloseReads \/ CloseConn
  <2>1. reader' = "off" /\ UNCHANGED <<buf, handed>> /\ user' \in {"close", "off"}
    BY <1>3 DEF CloseReads, CloseConn, UserGoes, Phases
  <2>2. sock'.sent = sock.sent
    BY <1>3 DEF CloseReads, CloseConn, TypeOK, Sockets
  <2> QED
    BY <2>1, <2>2, DeliveryIdle
<1>4. CASE OpenFails \/ WaitReader
  <2>1. reader' = "off" /\ UNCHANGED <<sock, buf, handed>> /\ user' \in {"close", "delete"}
    BY <1>4 DEF OpenFails, WaitReader, UserGoes, Phases
  <2> QED
    BY <2>1, DeliveryIdle
<1> QED
  BY <1>1, <1>2, <1>3, <1>4, DeliveryConnect, DeliveryOpen DEF User

(* When it is over the reader reads no more; when it is not, nothing of the *)
(* present message is missing.                                              *)
LEMMA ReaderInPhase ==
    ASSUME TypeOK, Phases, Reading, reader # "off"
    PROVE  user \in {"on", "shut", "wait"}
           /\ (sock.shut # "no" => quit)
  BY DEF Phases, Reading, TypeOK

(* What the program has is its own copy.                                    *)
LEMMA HandedOwn ==
    ASSUME BufferType
    PROVE  \A i \in DOMAIN handed : handed[i].own
<1> DEFINE R == [own : {TRUE}, data : Seq(Piece)]
<1>1. ASSUME NEW x \in R PROVE x.own
  OBVIOUS
<1>2. handed \in Seq(R)
  BY DEF BufferType
<1> HIDE DEF R
<1>3. \A i \in DOMAIN handed : handed[i] \in R
  BY <1>2
<1> QED
  BY <1>1, <1>3

(* A read piece goes to its place in buf.                                   *)
LEMMA DeliveryRead == ASSUME TypeOK, Phases, Delivery, ReadPiece PROVE Delivery'
<1> USE DEF Delivery
<1>1. /\ reader \in {"header", "data"} /\ sock.in # <<>>
      /\ sock.in \in Seq(Piece) /\ sock.sent \in Seq(Messages)
      /\ buf' = Append(IF reader = "header" THEN <<>> ELSE buf, Head(sock.in))
      /\ sock'.in = Tail(sock.in) /\ sock'.sent = sock.sent
      /\ (Silent' <=> Silent) /\ UNCHANGED <<quit, user, handed>>
      /\ reader' = IF Len(buf') = Parts + 1 THEN "callback" ELSE "data"
  BY DEF ReadPiece, TypeOK, Sockets, Silent, Connected, Complete
<1>2. PICK p \in Nat : p = IF reader = "header" THEN 0 ELSE Len(buf)
  BY DEF BufferType
<1>3. Arrived(Current, p)
  BY <1>1, <1>2 DEF Reading, Over
<1>4. Current \in Int /\ p \in 0..Parts /\ Parts \in Nat \ {0}
  BY <1>3, SocketAssumption DEF Arrived, Carries
<1>5. Current <= Len(sock.sent) /\ Head(sock.in) = <<sock.sent[Current], p>>
  BY <1>1, <1>3, CarriesHead DEF Arrived
<1>6. /\ buf' \in Seq(Piece) /\ Len(buf') = p + 1 /\ buf' # <<>>
      /\ \A j \in 1..p + 1 : buf'[j] = <<sock.sent[Current], j - 1>>
  <2>1. Head(sock.in) \in Piece
    BY <1>1
  <2>2. CASE reader = "header"
    <3>1. buf' = <<Head(sock.in)>> /\ p = 0
      BY <1>1, <1>2, <2>2
    <3> QED
      BY <1>5, <2>1, <3>1
  <2>3. CASE reader = "data"
    <3>1. /\ buf' = Append(buf, Head(sock.in)) /\ p = Len(buf) /\ buf \in Seq(Piece)
          /\ \A j \in 1..p : buf[j] = <<sock.sent[Current], j - 1>>
      BY <1>1, <1>2, <2>3 DEF BufferType, Reading, Begun
    <3>2. buf' \in Seq(Piece) /\ Len(buf') = p + 1 /\ buf'[p + 1] = <<sock.sent[Current], p>>
          /\ \A j \in 1..p : buf'[j] = buf[j]
      BY <1>5, <2>1, <3>1
    <3>3. (p + 1) - 1 = p
      BY <1>4
    <3> QED
      BY <1>4, <3>1, <3>2, <3>3
  <2> QED
    BY <1>1, <2>2, <2>3
<1>7. BufferType' /\ DeliveredInOrder'
  BY <1>1, <1>6, HandedOwn DEF BufferType, DeliveredInOrder
<1>8. Current' = Current /\ Begun'
  BY <1>1, <1>5, <1>6 DEF Current, Begun
<1>9. /\ p < Parts => Arrived(Current, p + 1)'
      /\ p = Parts => Arrived(Current + 1, 0)'
  <2>1. /\ p < Parts => /\ Carries(Tail(sock.in), sock.sent, Current, p + 1)
                        /\ Whole(sock.in, sock.sent, Current, p) =>
                              Whole(Tail(sock.in), sock.sent, Current, p + 1)
        /\ p = Parts => /\ Carries(Tail(sock.in), sock.sent, Current + 1, 0)
                        /\ Whole(sock.in, sock.sent, Current, p) =>
                              Whole(Tail(sock.in), sock.sent, Current + 1, 0)
    BY <1>1, <1>3, CarriesTail DEF Arrived
  <2> QED
    BY <1>1, <1>3, <1>8, <2>1 DEF Arrived
<1>10. CASE p = Parts
  <2>1. reader' = "callback" /\ Len(buf') = Parts + 1
    BY <1>1, <1>4, <1>6, <1>10
  <2> QED
    BY <1>1, <1>7, <1>8, <1>9, <1>10, <2>1, ReaderInPhase DEF Reading
<1>11. CASE p < Parts
  <2>1. reader' = "data" /\ Len(buf') = p + 1
    BY <1>1, <1>4, <1>6, <1>11
  <2> QED
    BY <1>1, <1>7, <1>8, <1>9, <1>11, <2>1, ReaderInPhase DEF Reading
<1> QED
  BY <1>4, <1>10, <1>11

(* The callback hands over the message that was read.                       *)
LEMMA DeliveryCallback == ASSUME TypeOK, Phases, Delivery, Callback PROVE Delivery'
<1> USE DEF Delivery
<1>1. /\ reader = "callback" /\ reader' = "top" /\ UNCHANGED <<sock, quit, user, buf>>
      /\ handed' = Append(handed, [own |-> TRUE, data |-> buf])
  BY DEF Callback, Copy
<1>2. Begun /\ Len(buf) = Parts + 1 /\ Arrived(Current + 1, 0)
  BY <1>1 DEF Reading
<1>3. BufferType'
  BY <1>1 DEF BufferType
<1> PICK n \in Nat : n = Len(handed)
  BY DEF BufferType
<1>4. buf = Pieces(sock.sent[n + 2])
  <2>1. buf = [j \in 1..Parts + 1 |-> buf[j]]
    BY <1>2 DEF BufferType
  <2>2. \A j \in 1..Parts + 1 : buf[j] = <<sock.sent[n + 2], j - 1>>
    BY <1>2 DEF Begun, Current
  <2> QED
    BY <2>1, <2>2 DEF Pieces
<1>5. Len(handed') = n + 1 /\ handed'[n + 1] = [own |-> TRUE, data |-> buf]
      /\ \A i \in 1..n : handed'[i] = handed[i]
  BY <1>1 DEF BufferType
<1>6. DeliveredInOrder'
  <2>1. \A i \in 1..n : i \in DOMAIN handed /\ handed[i].own
    BY HandedOwn DEF BufferType
  <2>2. ASSUME NEW i \in 1..n + 1
        PROVE  /\ i < Len(sock.sent)
               /\ handed'[i].own /\ handed'[i].data = Pieces(sock.sent[i + 1])
    <3>1. CASE i = n + 1
      <4>1. n + 2 <= Len(sock.sent) /\ i + 1 = n + 2
        BY <1>2, <3>1 DEF Begun, Current
      <4>2. Len(sock.sent) \in Nat
        BY DEF TypeOK, Sockets
      <4> QED
        BY <1>4, <1>5, <3>1, <4>1, <4>2
    <3>2. CASE i \in 1..n
      BY <1>1, <1>5, <2>1, <3>2 DEF DeliveredInOrder
    <3> QED
      BY <3>1, <3>2
  <2>3. DOMAIN handed' = 1..n + 1
    BY <1>3, <1>5 DEF BufferType
  <2> QED
    BY <1>1, <2>2, <2>3 DEF DeliveredInOrder
<1>7. Arrived(Current, 0)'
  <2>1. Current' = Current + 1
    BY <1>5 DEF Current
  <2> QED
    BY <1>1, <1>2, <2>1 DEF Arrived, Silent, Connected
<1>8. Reading'
  BY <1>1, <1>7, ReaderInPhase DEF Reading
<1> QED
  BY <1>3, <1>6, <1>8

(* The steps of readerLoop.                                                 *)
LEMMA DeliveryReader == ASSUME TypeOK, Phases, Delivery, Reader PROVE Delivery'
<1>1. CASE ReaderTop
  <2>1. /\ reader = "top" /\ reader' = IF quit THEN "off" ELSE "header"
        /\ UNCHANGED <<sock, quit, user, buf, handed>>
    BY <1>1 DEF ReaderTop
  <2>2. ~quit => Over' \/ Arrived(Current, 0)'
    BY <2>1 DEF Delivery, Reading, Over, Arrived, Current, Silent, Connected
  <2>3. Reading'
    BY <2>1, <2>2, ReaderInPhase DEF Delivery, Reading
  <2> QED
    BY <2>1, <2>3 DEF Delivery, BufferType, DeliveredInOrder
<1>2. CASE ReadError
  <2>1. /\ reader \in {"header", "data"} /\ reader' \in {"off", "top"} /\ sock.in = <<>>
        /\ sock.shut # "no" \/ sock.closed \/ ~sock.peer
        /\ UNCHANGED <<sock, quit, user, buf, handed>>
    BY <1>2 DEF ReadError
  <2>2. quit \/ Silent
    BY <2>1, ReaderInPhase DEF Delivery, Silent, Connected
  <2>3. reader' = "top" => Over'
    BY <2>1, <2>2 DEF Over, Silent, Connected
  <2>4. Reading'
    BY <2>1, <2>3, ReaderInPhase DEF Delivery, Reading
  <2> QED
    BY <2>1, <2>4 DEF Delivery, BufferType, DeliveredInOrder
<1> QED
  BY <1>1, <1>2, DeliveryRead, DeliveryCallback DEF Reader

(* What VPP sends comes after what it sent before.                          *)
LEMMA DeliverySend ==
    ASSUME TypeOK, Phases, Delivery,
           NEW m \in {Create, Delete} \cup Events, VppSends(m)
    PROVE  Delivery'
<1> USE DEF Delivery
<1>1. /\ sock.in \in Seq(Piece) /\ sock.sent \in Seq(Messages) /\ m \in Messages
      /\ sock'.in = sock.in \o Pieces(m) /\ sock'.sent = Append(sock.sent, m)
      /\ ~Silent /\ ~Silent' /\ UNCHANGED <<quit, user, reader, buf, handed>>
  BY DEF VppSends, TypeOK, Sockets, Silent, Connected, Messages
<1>2. ASSUME NEW k0, NEW p0, Arrived(k0, p0) PROVE Arrived(k0, p0)'
  <2>1. Carries(sock.in, sock.sent, k0, p0) /\ Whole(sock.in, sock.sent, k0, p0)
    BY <1>1, <1>2 DEF Arrived
  <2>2. /\ Carries(sock.in \o Pieces(m), Append(sock.sent, m), k0, p0)
        /\ Whole(sock.in \o Pieces(m), Append(sock.sent, m), k0, p0)
    BY <1>1, <2>1, CarriesSend
  <2> QED
    BY <1>1, <2>2 DEF Arrived
<1>3. /\ Len(sock'.sent) = Len(sock.sent) + 1
      /\ \A i \in 1..Len(sock.sent) : sock'.sent[i] = sock.sent[i]
  BY <1>1
<1>4. Current' = Current /\ (Over => Over')
  BY <1>1 DEF Current, Over
<1>5. Current \in Nat \ {0}
  BY DEF Current, BufferType
<1>6. Begun => Begun'
  BY <1>1, <1>3, <1>4, <1>5 DEF Begun
<1>7. Reading'
  <2>1. user' \in {"create", "createReply"} => handed' = <<>> /\ Arrived(1, 0)'
    BY <1>1, <1>2 DEF Reading
  <2>2. reader' \in {"top", "header"} => Over' \/ Arrived(Current, 0)'
    BY <1>1, <1>2, <1>4 DEF Reading
  <2>3. reader' = "data" => Begun' /\ Arrived(Current, Len(buf))'
    BY <1>1, <1>2, <1>4, <1>6 DEF Reading
  <2>4. reader' = "callback" => /\ Begun' /\ Len(buf') = Parts + 1
                                /\ Arrived(Current + 1, 0)'
    BY <1>1, <1>2, <1>4, <1>6 DEF Reading
  <2> QED
    BY <1>1, <2>1, <2>2, <2>3, <2>4 DEF Reading
<1>8. BufferType'
  BY <1>1 DEF BufferType
<1>9. DeliveredInOrder'
  <2>1. ASSUME NEW i \in DOMAIN handed
        PROVE  i < Len(sock'.sent) /\ handed[i].data = Pieces(sock'.sent[i + 1])
    <3>1. i \in Nat \ {0} /\ i < Len(sock.sent)
          /\ handed[i].data = Pieces(sock.sent[i + 1])
      BY HandedOwn DEF DeliveredInOrder, BufferType
    <3>2. i + 1 \in 1..Len(sock.sent) /\ Len(sock.sent) \in Nat
      BY <1>1, <3>1
    <3> QED
      BY <1>3, <3>1, <3>2
  <2> QED
    BY <1>1, <2>1, HandedOwn DEF DeliveredInOrder
<1> QED
  BY <1>7, <1>8, <1>9

(* Nothing is delivered at the start, and every step keeps what is.         *)
LEMMA DeliveryNext == DeliveryInv /\ [Next]_vars => DeliveryInv'
<1> SUFFICES ASSUME DeliveryInv, [Next]_vars PROVE DeliveryInv'
  OBVIOUS
<1>0. SocketInvariant' /\ TypeOK /\ Phases /\ Delivery
  BY NextInvariant DEF DeliveryInv, SocketInvariant
<1> SUFFICES Delivery'
  BY <1>0 DEF DeliveryInv
<1>1. ASSUME NEW x \in Callers, Write(x) PROVE Delivery'
  <2>1. /\ sock'.in = sock.in /\ sock'.sent = sock.sent
        /\ UNCHANGED <<quit, reader, buf, handed>>
    BY <1>0, <1>1 DEF Write, LockWriter, WritePiece, WriteFails, WriteReturns, TypeOK,
                      Sockets
  <2>2. Silent' <=> Silent
    BY <1>0, <1>1, WriteEffect DEF Silent, Connected
  <2>3. x = "user" => user \in {"create", "delete"}
    BY <1>0, <1>1, WriteEffect DEF Phases
  <2>4. user' = user \/ (user = "create" /\ user' \in {"createReply", "close"})
                     \/ user' \in {"deleteReply", "close"}
    BY <1>1, <2>3 DEF Write, LockWriter, WritePiece, WriteFails, WriteReturns
  <2>5. Still
    BY <1>0, <2>1, <2>2, <2>4 DEF Still, Delivery, Reading
  <2> QED
    BY <1>0, <2>5, DeliveryStill
<1>2. CASE VppReads \/ \E x \in Senders : SendMsg(x)
  <2>1. Still
    BY <1>0, <1>2 DEF VppReads, SendMsg, Still, TypeOK, Sockets, Silent, Connected,
                      Delivery, Reading
  <2> QED
    BY <1>0, <2>1, DeliveryStill
<1>3. CASE VppGoes
  <2>1. PICK n \in 0..Len(sock.in) :
           sock' = [sock EXCEPT !.peer = FALSE, !.in = SubSeq(sock.in, 1, n)]
    BY <1>3 DEF VppGoes
  <2>2. sock'.in = SubSeq(sock.in, 1, n) /\ sock'.sent = sock.sent /\ Silent'
    BY <1>0, <2>1 DEF TypeOK, Sockets, Silent, Connected
  <2>3. UNCHANGED <<quit, user, reader, buf, handed>>
    BY <1>3 DEF VppGoes
  <2>4. user \in {"shut", "wait"} => quit
    BY <1>0 DEF Delivery, Reading
  <2> QED
    BY <1>0, <2>2, <2>3, <2>4, DeliveryCut
<1>4. CASE UNCHANGED vars
  <2>1. Still
    BY <1>0, <1>4 DEF vars, Still, Silent, Connected, Delivery, Reading
  <2> QED
    BY <1>0, <2>1, DeliveryStill
<1> QED
  BY <1>0, <1>1, <1>2, <1>3, <1>4, DeliveryUser, DeliveryReader, DeliverySend DEF Next

(* The program gets the messages VPP sent, each once, in order and whole,   *)
(* for messages of any length, reads of any size, and however connections   *)
(* break and are made again: readMsgData goes on until a message is         *)
(* complete, and the callback copies it before the buffer is used again.    *)
THEOREM DeliveredInOrderCorrect == Spec => []DeliveredInOrder
<1>1. Init => DeliveryInv
  <2> SUFFICES ASSUME Init PROVE Delivery
    BY InitInvariant DEF DeliveryInv
  <2>1. buf \in Seq(Piece) /\ handed \in Seq([own : {TRUE}, data : Seq(Piece)])
    BY DEF Init
  <2> QED
    BY <2>1 DEF Init, Delivery, BufferType, Reading, DeliveredInOrder
<1>2. DeliveryInv => DeliveredInOrder
  BY DEF DeliveryInv, Delivery
<1> QED
  BY <1>1, <1>2, DeliveryNext, PTL DEF Spec
=============================================================================
