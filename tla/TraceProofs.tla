---------------------------- MODULE TraceProofs ----------------------------
(***************************************************************************)
(* What the API trace guarantees for any number of traces, senders, callers*)
(* of GetRecords and messages, and for every size of buffer and list.      *)
(***************************************************************************)
EXTENDS Trace, SequenceTheorems, FiniteSetTheorems, TLAPS

(* A goroutine that records holds traceLock, and a trace is installed.  An  *)
(* installed trace has its buffer open.  Only requests go through the step  *)
(* between the two uses of the trace.                                       *)
LockHeld ==
    /\ \A p \in Procs : pc[p] = "recording" => traceLock = p /\ trace # NoTrace
    /\ trace # NoTrace => status[trace] = "open"
    /\ pc[Reader] \notin {"sending", "sent"}

(* A message is in the hand of a goroutine from registration to record.     *)
HandsFull == \A p \in Procs : pc[p] # "idle" => record[p] # 0

(* Goroutines with a message that is registered and not recorded yet.       *)
Busy == {p \in Procs : pc[p] # "idle"}

(* Messages for which wg.Done is still to be called on t.                   *)
Outstanding(t) ==
    Len(buffer[t]) + Len(taken[t]) + (IF trace = t THEN Cardinality(Busy) ELSE 0)

(* The WaitGroup covers all of them: it does not reach zero before.         *)
Counted == \A t \in Traces : Outstanding(t) <= wg[t]

(* Where the records are that a caller of GetRecords has to find: on their  *)
(* way or stored while it waits; then stored; then where its list has room; *)
(* and in its list in the end.                                              *)
Found(g) ==
    LET t == asked[g]
    IN  /\ getter[g] \in {"asleep", "woken"} =>
             owed[g] \subseteq Range(records[t]) \cup Range(taken[t])
                                               \cup Range(buffer[t])
        /\ getter[g] = "listing" => owed[g] \subseteq Range(records[t])
        /\ getter[g] = "copying" =>
             \A n \in owed[g] : \E i \in DOMAIN list[g] :
                 i \in DOMAIN records[t] /\ records[t][i] = n
        /\ getter[g] = "returned" => owed[g] \subseteq Range(list[g])

OwedFound == \A g \in Getters : Found(g)

(* GetRecords is a method of a trace that was made.                         *)
AskedOne == \A g \in Getters : getter[g] # "idle" => asked[g] \in Traces

LockInv == TypeOK /\ HandsFull /\ LockHeld /\ AskedOne

RecordsInv == LockInv /\ Counted /\ OwedFound

-----------------------------------------------------------------------------
(* Sequences of records *)

(* What a sequence holds has its type.                                      *)
LEMMA RangeType ==
    ASSUME NEW S, NEW q \in Seq(S)
    PROVE  /\ Range(q) \subseteq S /\ DOMAIN q = 1..Len(q)
           /\ Len(q) \in Nat /\ (Len(q) = 0 <=> q = <<>>)
BY DEF Range

(* A record is sent to the buffer.                                          *)
LEMMA RangeAppend ==
    ASSUME NEW S, NEW q \in Seq(S), NEW x \in S
    PROVE  /\ Append(q, x) \in Seq(S) /\ Len(Append(q, x)) = Len(q) + 1
           /\ Range(Append(q, x)) = Range(q) \cup {x}
<1> DEFINE a == Append(q, x)
<1>1. /\ a \in Seq(S) /\ Len(a) = Len(q) + 1 /\ DOMAIN a = 1..Len(q) + 1
      /\ \A i \in 1..Len(q) : a[i] = q[i]
      /\ a[Len(q) + 1] = x
  OBVIOUS
<1>2. DOMAIN q = 1..Len(q) /\ Len(q) \in Nat
  OBVIOUS
<1> HIDE DEF a
<1>3. Range(a) = Range(q) \cup {x}
  BY <1>1, <1>2 DEF Range
<1> QED
  BY <1>1, <1>3 DEF a

(* The collecting goroutine takes the oldest one.                           *)
LEMMA RangeTail ==
    ASSUME NEW S, NEW q \in Seq(S), q # <<>>
    PROVE  /\ Head(q) \in S /\ Tail(q) \in Seq(S) /\ Len(Tail(q)) = Len(q) - 1
           /\ Range(q) = {Head(q)} \cup Range(Tail(q))
<1> DEFINE a == Tail(q)
<1>1. /\ Head(q) \in S /\ Head(q) = q[1] /\ a \in Seq(S) /\ Len(a) = Len(q) - 1
      /\ DOMAIN a = 1..Len(q) - 1
      /\ \A i \in 1..Len(q) - 1 : a[i] = q[i + 1]
  OBVIOUS
<1>2. DOMAIN q = 1..Len(q) /\ Len(q) \in Nat \ {0}
  OBVIOUS
<1> HIDE DEF a
<1>3. Range(q) \subseteq {q[1]} \cup Range(a)
  <2> SUFFICES ASSUME NEW i \in 1..Len(q), i # 1
               PROVE  q[i] \in Range(a)
    BY <1>2 DEF Range
  <2>1. i - 1 \in 1..Len(q) - 1 /\ a[i - 1] = q[i]
    BY <1>1, <1>2
  <2> QED
    BY <2>1, <1>1 DEF Range
<1>4. Range(a) \subseteq Range(q) /\ q[1] \in Range(q)
  BY <1>1, <1>2 DEF Range
<1> QED
  BY <1>1, <1>3, <1>4 DEF a

(* It stores the one in its hand behind the others.                         *)
LEMMA RangeStore ==
    ASSUME NEW S, NEW q \in Seq(S), NEW x \in S
    PROVE  /\ q \o <<x>> \in Seq(S) /\ Len(q \o <<x>>) = Len(q) + 1
           /\ Range(q \o <<x>>) = Range(q) \cup {x}
           /\ \A i \in DOMAIN q : i \in DOMAIN (q \o <<x>>) /\ (q \o <<x>>)[i] = q[i]
<1> DEFINE a == q \o <<x>>
<1>1. /\ a \in Seq(S) /\ Len(a) = Len(q) + 1 /\ DOMAIN a = 1..Len(q) + 1
      /\ \A i \in 1..Len(q) : a[i] = q[i]
      /\ a[Len(q) + 1] = x
  OBVIOUS
<1>2. DOMAIN q = 1..Len(q) /\ Len(q) \in Nat
  OBVIOUS
<1> HIDE DEF a
<1>3. Range(a) = Range(q) \cup {x}
  BY <1>1, <1>2 DEF Range
<1>4. \A i \in DOMAIN q : i \in DOMAIN a /\ a[i] = q[i]
  BY <1>1, <1>2
<1> QED
  BY <1>1, <1>3, <1>4 DEF a

(* The same of records.                                                     *)
LEMMA RecordsGrow ==
    ASSUME NEW q \in Seq(1..MaxMessages), NEW n \in 1..MaxMessages
    PROVE  /\ Range(Append(q, n)) = Range(q) \cup {n}
           /\ Range(q \o <<n>>) = Range(q) \cup {n}
           /\ \A i \in DOMAIN q : /\ i \in DOMAIN (q \o <<n>>)
                                 /\ (q \o <<n>>)[i] = q[i]
<1> DEFINE N == 1..MaxMessages
<1>1. q \in Seq(N) /\ n \in N
  OBVIOUS
<1> HIDE DEF N
<1> QED
  BY <1>1, RangeAppend, RangeStore

(* A hand is empty or holds one record.                                     *)
LEMMA TakenRange ==
    /\ Range(<<>>) = {} /\ Len(<<>>) = 0
    /\ \A n : Range(<<n>>) = {n} /\ Len(<<n>>) = 1
<1>1. \A n : DOMAIN <<n>> = {1} /\ <<n>>[1] = n /\ Len(<<n>>) = 1
  OBVIOUS
<1>2. DOMAIN <<>> = {} /\ Len(<<>>) = 0
  OBVIOUS
<1>3. ASSUME NEW n
      PROVE  Range(<<n>>) = {n}
  <2> DEFINE q == <<n>>
  <2>1. DOMAIN q = {1} /\ q[1] = n
    BY <1>1
  <2> HIDE DEF q
  <2>2. Range(q) = {n}
    BY <2>1 DEF Range
  <2> QED
    BY <2>2 DEF q
<1> QED
  BY <1>1, <1>2, <1>3 DEF Range

(* As long as a list, so a list.                                            *)
LEMMA SameLengthSeq ==
    ASSUME NEW S, NEW T, NEW q \in Seq(S), NEW l, l \in [DOMAIN q -> T]
    PROVE  l \in Seq(T) /\ Len(l) = Len(q) /\ DOMAIN l = DOMAIN q
<1>1. DOMAIN q = 1..Len(q) /\ Len(q) \in Nat
  OBVIOUS
<1>2. l \in [1..Len(q) -> T]
  BY <1>1
<1>3. l \in Seq(T) /\ DOMAIN l = 1..Len(q)
  BY <1>1, <1>2, SeqDef
<1>4. Len(l) = Len(q)
  BY <1>1, <1>3
<1> QED
  BY <1>1, <1>3, <1>4

-----------------------------------------------------------------------------
(* Types *)

(* Nothing changes.                                                         *)
LEMMA TypeUnchanged == TypeOK /\ UNCHANGED vars => TypeOK'
BY DEF TypeOK, vars, traceVars, msgVars, getVars

(* The steps of a trace's life keep the types.                              *)
LEMMA TypeOfLife ==
    ASSUME TypeOK, NEW t \in Traces, NewTrace(t) \/ Close(t) \/ Clear(t)
    PROVE  TypeOK'
<1> USE DEF TypeOK, msgVars, getVars
<1>1. TraceGoes => orphans' \in SUBSET (Traces \cup {NoTrace})
  BY DEF TraceGoes
<1>2. CASE NewTrace(t)
  BY <1>1, <1>2 DEF NewTrace
<1>3. CASE Close(t)
  BY <1>1, <1>3 DEF Close
<1>4. CASE Clear(t)
  <2>1. <<>> \in Seq(1..MaxMessages) /\ Len(<<>>) = 0
    OBVIOUS
  <2>2. records' \in [Traces -> Seq(1..MaxMessages)]
    BY <1>4, <2>1 DEF Clear
  <2>3. \A u \in Traces : Len(records'[u]) <= Size
    BY <1>4, <2>1, TraceAssumption DEF Clear
  <2>4. owed' \in [Getters -> SUBSET (1..MaxMessages)]
    BY <1>4 DEF Clear, Excused
  <2> QED
    BY <1>4, <2>2, <2>3, <2>4 DEF Clear
<1> QED
  BY <1>2, <1>3, <1>4

(* Messages have names from 1 on.                                           *)
LEMMA NextMessageType ==
    ASSUME TypeOK, NextMessage
    PROVE  messages' \in 1..MaxMessages
BY TraceAssumption DEF TypeOK, NextMessage

(* Registration counts.                                                     *)
LEMMA RegisteredType ==
    ASSUME TypeOK, Registered
    PROVE  /\ wg' \in [Traces -> Int]
           /\ \A t \in Traces : wg'[t] = IF trace = t THEN wg[t] + 1 ELSE wg[t]
BY TraceAssumption DEF TypeOK, Registered

(* A goroutine goes on.                                                     *)
LEMMA GoesType ==
    ASSUME TypeOK, NEW p \in Procs, NEW where \in {"idle", "sending", "sent", "recording"},
           NEW n \in 0..MaxMessages, Goes(p, where, n)
    PROVE  /\ pc' \in [Procs -> {"idle", "sending", "sent", "recording"}]
           /\ record' \in [Procs -> 0..MaxMessages]
           /\ pc'[p] = where /\ record'[p] = n
           /\ \A q \in Procs \ {p} : pc'[q] = pc[q] /\ record'[q] = record[q]
<1>1. /\ pc \in [Procs -> {"idle", "sending", "sent", "recording"}]
      /\ record \in [Procs -> 0..MaxMessages]
  BY DEF TypeOK
<1> QED
  BY <1>1 DEF Goes

(* The steps of requests and replies keep the types.                        *)
LEMMA TypeOfRecording ==
    ASSUME TypeOK, HandsFull, NoSendOnClosed,
           \/ \E s \in Senders : Register(s) \/ SendMsgReturns(s)
           \/ msgCallback
           \/ \E p \in Procs : Recording(p)
    PROVE  TypeOK'
<1> USE DEF TypeOK, traceVars, getVars
<1>1. ASSUME NEW s \in Senders, Register(s)
      PROVE  TypeOK'
  <2>1. messages' \in 1..MaxMessages /\ wg' \in [Traces -> Int] /\ s \in Procs
    BY <1>1, NextMessageType, RegisteredType DEF Register, Procs
  <2>. messages' \in 0..MaxMessages
    BY <2>1
  <2>2. /\ pc' \in [Procs -> {"idle", "sending", "sent", "recording"}]
        /\ record' \in [Procs -> 0..MaxMessages]
    BY <1>1, <2>1, GoesType DEF Register
  <2> QED
    BY <1>1, <2>1, <2>2 DEF Register
<1>2. CASE msgCallback
  <2>1. messages' \in 1..MaxMessages /\ wg' \in [Traces -> Int] /\ Reader \in Procs
    BY <1>2, NextMessageType, RegisteredType DEF msgCallback, Procs
  <2>2. /\ pc' \in [Procs -> {"idle", "sending", "sent", "recording"}]
        /\ record' \in [Procs -> 0..MaxMessages]
        /\ traceLock' \in Procs \cup {"free"}
        /\ orphans' \in SUBSET (Traces \cup {NoTrace})
    <3>1. CASE Goes(Reader, "recording", messages') /\ traceLock' = Reader
                 /\ UNCHANGED orphans
      BY <2>1, <3>1, GoesType
    <3>2. CASE orphans' = orphans \cup {trace} /\ UNCHANGED <<pc, record, traceLock>>
      BY <3>2
    <3> QED
      BY <1>2, <3>1, <3>2 DEF msgCallback
  <2> QED
    BY <1>2, <2>1, <2>2 DEF msgCallback
<1>3. ASSUME NEW p \in Procs, Record(p)
      PROVE  TypeOK'
  <2>1. /\ pc' \in [Procs -> {"idle", "sending", "sent", "recording"}]
        /\ record' \in [Procs -> 0..MaxMessages]
        /\ traceLock' \in Procs \cup {"free"}
    <3>1. record[p] \in 0..MaxMessages /\ 0 \in 0..MaxMessages
      BY TraceAssumption
    <3>2. CASE trace = NoTrace
      BY <1>3, <3>1, <3>2, GoesType DEF Record
    <3>3. CASE trace # NoTrace
      BY <1>3, <3>1, <3>3, GoesType DEF Record
    <3> QED
      BY <3>2, <3>3
  <2> QED
    BY <1>3, <2>1 DEF Record
<1>4. ASSUME NEW p \in Procs, send(p)
      PROVE  TypeOK'
  <2>1. trace \in Traces /\ record[p] \in 1..MaxMessages
    BY <1>4, TraceAssumption DEF send, NoSendOnClosed, HandsFull
  <2>2. /\ Append(buffer[trace], record[p]) \in Seq(1..MaxMessages)
        /\ Len(Append(buffer[trace], record[p])) <= BufferSize
    <3>1. buffer[trace] \in Seq(1..MaxMessages) /\ Len(buffer[trace]) < BufferSize
      BY <1>4, <2>1 DEF send
    <3> QED
      BY <3>1, <2>1, RangeAppend, TraceAssumption
  <2>3. /\ buffer' \in [Traces -> Seq(1..MaxMessages)]
        /\ \A t \in Traces : Len(buffer'[t]) <= BufferSize
    BY <1>4, <2>1, <2>2 DEF send
  <2>4. /\ pc' \in [Procs -> {"idle", "sending", "sent", "recording"}]
        /\ record' \in [Procs -> 0..MaxMessages]
        /\ traceLock' = "free"
    BY <1>4, TraceAssumption, GoesType DEF send
  <2> QED
    BY <1>4, <2>3, <2>4 DEF send
<1>5. ASSUME NEW s \in Senders, SendMsgReturns(s)
      PROVE  TypeOK'
  <2>1. s \in Procs /\ record[s] \in 0..MaxMessages
    BY DEF Procs
  <2>2. /\ pc' \in [Procs -> {"idle", "sending", "sent", "recording"}]
        /\ record' \in [Procs -> 0..MaxMessages]
    BY <1>5, <2>1, GoesType DEF SendMsgReturns
  <2> QED
    BY <1>5, <2>2 DEF SendMsgReturns
<1> QED
  BY <1>1, <1>2, <1>3, <1>4, <1>5 DEF Recording

(* The collecting goroutine keeps the types.                                *)
LEMMA TypeOfCollecting ==
    ASSUME TypeOK, NEW t \in Traces, Collecting(t)
    PROVE  TypeOK'
<1> USE DEF TypeOK, msgVars, getVars
<1>1. buffer[t] \in Seq(1..MaxMessages) /\ records[t] \in Seq(1..MaxMessages)
  OBVIOUS
<1>2. CASE Take(t)
  <2>1. /\ Head(buffer[t]) \in 1..MaxMessages /\ Tail(buffer[t]) \in Seq(1..MaxMessages)
        /\ Len(Tail(buffer[t])) = Len(buffer[t]) - 1 /\ Len(buffer[t]) \in Nat
    BY <1>1, <1>2, RangeTail, RangeType DEF Take
  <2>2. taken' \in [Traces -> {<<>>} \cup {<<n>> : n \in 1..MaxMessages}]
    BY <1>2, <2>1 DEF Take
  <2>3. Len(Tail(buffer[t])) <= BufferSize
    BY <2>1, TraceAssumption
  <2>4. /\ buffer' \in [Traces -> Seq(1..MaxMessages)]
        /\ \A u \in Traces : Len(buffer'[u]) <= BufferSize
    BY <1>2, <2>1, <2>3 DEF Take
  <2> QED
    BY <1>2, <2>2, <2>4 DEF Take
<1>3. CASE Store(t)
  <2>1. /\ taken' \in [Traces -> {<<>>} \cup {<<n>> : n \in 1..MaxMessages}]
        /\ wg' \in [Traces -> Int] /\ getter' \in [Getters -> GetterState]
        /\ UNCHANGED <<buffer, trace, traceLock, status, msgVars, asked, list,
                       orphans>>
    BY <1>3 DEF Store, Done, GetterState
  <2>2. owed' \in [Getters -> SUBSET (1..MaxMessages)]
    <3>1. CASE Excused(t, Range(taken[t]))
      BY <3>1 DEF Excused
    <3>2. CASE UNCHANGED owed
      BY <3>2
    <3> QED
      BY <1>3, <3>1, <3>2 DEF Store
  <2>3. CASE Len(records[t]) < Size
    <3>1. PICK n \in 1..MaxMessages : taken[t] = <<n>>
      BY <1>3 DEF Store
    <3>2. /\ records[t] \o <<n>> \in Seq(1..MaxMessages)
          /\ Len(records[t] \o <<n>>) <= Size
      BY <1>1, <2>3, RangeStore, RangeType, TraceAssumption
    <3>3. records' = [records EXCEPT ![t] = records[t] \o <<n>>]
      BY <1>3, <2>3, <3>1 DEF Store
    <3>4. /\ records' \in [Traces -> Seq(1..MaxMessages)]
          /\ \A u \in Traces : Len(records'[u]) <= Size
      BY <3>2, <3>3
    <3> QED
      BY <2>1, <2>2, <3>4
  <2>4. CASE ~(Len(records[t]) < Size)
    BY <1>3, <2>1, <2>2, <2>4 DEF Store
  <2> QED
    BY <2>3, <2>4
<1> QED
  BY <1>2, <1>3 DEF Collecting

(* So do the callers of GetRecords.                                         *)
LEMMA TypeOfGetting ==
    ASSUME TypeOK, AskedOne, NEW g \in Getters,
           \/ Getting(g)
           \/ \E t \in Traces : GetRecords(g, t)
    PROVE  TypeOK'
<1> USE DEF TypeOK, msgVars, traceVars
<1> DEFINE R == (1..MaxMessages) \cup {NilRecord}
<1>1. ASSUME NEW t \in Traces, GetRecords(g, t)
      PROVE  TypeOK'
  <2>1. /\ Range(records[t]) \subseteq 1..MaxMessages
        /\ Range(buffer[t]) \subseteq 1..MaxMessages
    BY RangeType
  <2>2. Range(taken[t]) \subseteq 1..MaxMessages
    <3>1. ASSUME NEW n \in 1..MaxMessages, taken[t] = <<n>>
          PROVE  Range(taken[t]) \subseteq 1..MaxMessages
      BY <3>1, TakenRange
    <3>2. taken[t] = <<>> \/ \E n \in 1..MaxMessages : taken[t] = <<n>>
      OBVIOUS
    <3>3. CASE taken[t] = <<>>
      <4>1. Range(taken[t]) = {}
        BY <3>3, TakenRange
      <4> QED
        BY <4>1
    <3> QED
      BY <3>1, <3>2, <3>3
  <2>3. owed' \in [Getters -> SUBSET (1..MaxMessages)]
    BY <1>1, <2>1, <2>2 DEF GetRecords, Owes
  <2>4. /\ getter' \in [Getters -> GetterState]
        /\ asked' \in [Getters -> Traces \cup {NoTrace}]
    BY <1>1 DEF GetRecords, Owes, GetterState
  <2> QED
    BY <1>1, <2>3, <2>4 DEF GetRecords
<1>2. CASE MakeList(g)
  <2>1. asked[g] \in Traces
    BY <1>2 DEF AskedOne, MakeList
  <2>2. [i \in DOMAIN records[asked[g]] |-> NilRecord] \in Seq(R)
    BY <2>1, SameLengthSeq
  <2> HIDE DEF R
  <2>3. list' \in [Getters -> Seq(R)]
    BY <1>2, <2>2 DEF MakeList, R
  <2>4. getter' \in [Getters -> GetterState]
    BY <1>2 DEF MakeList, GetterState
  <2> QED
    BY <1>2, <2>3, <2>4 DEF MakeList, R
<1>3. CASE Copy(g)
  <2>1. asked[g] \in Traces
    BY <1>3 DEF AskedOne, Copy
  <2> DEFINE q == records[asked[g]]
             l == [i \in DOMAIN list[g] |-> IF i \in DOMAIN q THEN q[i] ELSE list[g][i]]
  <2>2. /\ Range(q) \subseteq 1..MaxMessages /\ Range(list[g]) \subseteq R
        /\ list[g] \in Seq(R)
    BY <2>1, RangeType
  <2>3. l \in [DOMAIN list[g] -> R]
    <3> SUFFICES ASSUME NEW i \in DOMAIN list[g]
                 PROVE  (IF i \in DOMAIN q THEN q[i] ELSE list[g][i]) \in R
      OBVIOUS
    <3>1. list[g][i] \in R
      BY <2>2 DEF Range
    <3>2. i \in DOMAIN q => q[i] \in R
      BY <2>2 DEF Range
    <3> QED
      BY <3>1, <3>2
  <2> HIDE DEF l, q, R
  <2>4. l \in Seq(R)
    BY <2>2, <2>3, SameLengthSeq
  <2>5. list' = [list EXCEPT ![g] = l]
    BY <1>3 DEF Copy, l, q
  <2>6. list' \in [Getters -> Seq(R)]
    BY <2>4, <2>5 DEF R
  <2>7. getter' \in [Getters -> GetterState]
    BY <1>3 DEF Copy, GetterState
  <2> QED
    BY <1>3, <2>6, <2>7 DEF Copy, R
<1>4. CASE Woken(g)
  <2>1. getter' \in [Getters -> GetterState]
    BY <1>4 DEF Woken, GetterState
  <2> QED
    BY <1>4, <2>1 DEF Woken
<1> QED
  BY <1>1, <1>2, <1>3, <1>4 DEF Getting

-----------------------------------------------------------------------------
(* Who holds the lock *)

(* The property is part of the invariant.                                   *)
LEMMA LockHeldSuffices == LockHeld => NoSendOnClosed
BY DEF LockHeld, NoSendOnClosed

(* The steps of Next, by what they are about.                               *)
LEMMA Steps ==
    ASSUME Next
    PROVE  \/ \E t \in Traces : NewTrace(t) \/ Close(t) \/ Clear(t)
           \/ \E t \in Traces : Collecting(t)
           \/ \/ \E s \in Senders : Register(s) \/ SendMsgReturns(s)
              \/ msgCallback
              \/ \E p \in Procs : Recording(p)
           \/ \E g \in Getters : \/ Getting(g)
                                 \/ \E t \in Traces : GetRecords(g, t)
BY DEF Next

(* Every step keeps the types.                                              *)
LEMMA TypeStep == LockInv /\ [Next]_vars => TypeOK'
<1> SUFFICES ASSUME LockInv, [Next]_vars
             PROVE  TypeOK'
  OBVIOUS
<1>1. TypeOK /\ HandsFull /\ NoSendOnClosed /\ AskedOne
  BY LockHeldSuffices DEF LockInv
<1>2. CASE Next
  BY <1>1, <1>2, Steps, TypeOfLife, TypeOfCollecting, TypeOfRecording, TypeOfGetting
<1>3. CASE UNCHANGED vars
  BY <1>1, <1>3, TypeUnchanged
<1> QED
  BY <1>2, <1>3

(* A goroutine takes the lock to record, and lets it go when it has; the    *)
(* installed trace and its buffer change only while nobody holds it.        *)
LEMMA LockStep == LockInv /\ [Next]_vars => (HandsFull /\ LockHeld /\ AskedOne)'
<1> SUFFICES ASSUME LockInv, [Next]_vars
             PROVE  (HandsFull /\ LockHeld /\ AskedOne)'
  OBVIOUS
<1> USE DEF LockInv
<1>0. /\ pc \in [Procs -> {"idle", "sending", "sent", "recording"}]
      /\ record \in [Procs -> 0..MaxMessages]
      /\ status \in [Traces -> {"none", "open", "closed"}]
      /\ getter \in [Getters -> GetterState]
      /\ asked \in [Getters -> Traces \cup {NoTrace}]
      /\ trace \in Traces \cup {NoTrace}
      /\ "free" \notin Procs /\ Reader \in Procs /\ NoTrace \notin Traces
      /\ Reader \notin Senders
  BY TraceAssumption DEF TypeOK, Procs
<1>1. ASSUME NEW t \in Traces, NewTrace(t) \/ Close(t) \/ Clear(t)
      PROVE  (HandsFull /\ LockHeld /\ AskedOne)'
  <2>1. UNCHANGED <<traceLock, pc, record, getter, asked>>
    BY <1>1 DEF NewTrace, Close, Clear, msgVars, getVars
  <2>2. CASE Clear(t)
    BY <2>1, <2>2 DEF Clear, HandsFull, LockHeld, AskedOne
  <2>3. CASE NewTrace(t) \/ Close(t)
    <3>1. \A p \in Procs : pc[p] # "recording"
      BY <1>0, <2>3 DEF NewTrace, Close, LockHeld
    <3>2. trace' # NoTrace => status'[trace'] = "open"
      BY <1>0, <2>3 DEF NewTrace, Close
    <3> QED
      BY <2>1, <3>1, <3>2 DEF HandsFull, LockHeld, AskedOne
  <2> QED
    BY <1>1, <2>2, <2>3
<1>2. ASSUME NEW t \in Traces, Collecting(t)
      PROVE  (HandsFull /\ LockHeld /\ AskedOne)'
  <2>1. UNCHANGED <<trace, traceLock, status, pc, record, asked>>
    BY <1>2 DEF Collecting, Take, Store, msgVars, getVars
  <2>2. \A g \in Getters : getter'[g] # "idle" => getter[g] # "idle"
    BY <1>0, <1>2 DEF Collecting, Take, Store, Done, getVars
  <2> QED
    BY <2>1, <2>2 DEF HandsFull, LockHeld, AskedOne
<1>3. ASSUME NEW s \in Senders, Register(s)
      PROVE  (HandsFull /\ LockHeld /\ AskedOne)'
  <2>1. s \in Procs /\ messages' \in 1..MaxMessages
    BY <1>3, NextMessageType DEF Register, Procs
  <2>2. /\ pc'[s] = "sending" /\ record'[s] = messages'
        /\ \A q \in Procs \ {s} : pc'[q] = pc[q] /\ record'[q] = record[q]
    <3> messages' \in 0..MaxMessages
      BY <2>1
    <3> QED
      BY <1>3, <2>1, GoesType DEF Register
  <2>3. UNCHANGED <<trace, traceLock, status, getter, asked>>
    BY <1>3 DEF Register, getVars
  <2>4. s # Reader
    BY <1>0
  <2> QED
    BY <1>0, <2>1, <2>2, <2>3, <2>4 DEF HandsFull, LockHeld, AskedOne
<1>4. CASE msgCallback
  <2>1. UNCHANGED <<trace, status, getter, asked>>
    BY <1>4 DEF msgCallback, getVars
  <2>2. CASE Goes(Reader, "recording", messages') /\ traceLock' = Reader
    <3>1. messages' \in 1..MaxMessages /\ messages' \in 0..MaxMessages
      BY <1>4, NextMessageType DEF msgCallback
    <3>2. /\ pc'[Reader] = "recording" /\ record'[Reader] = messages'
          /\ \A q \in Procs \ {Reader} : pc'[q] = pc[q] /\ record'[q] = record[q]
      BY <1>0, <2>2, <3>1, GoesType
    <3>3. \A p \in Procs : pc[p] # "recording"
      BY <1>0, <1>4 DEF msgCallback, LockHeld
    <3>4. trace # NoTrace
      BY <1>4 DEF msgCallback
    <3> QED
      BY <1>0, <2>1, <2>2, <3>1, <3>2, <3>3, <3>4 DEF HandsFull, LockHeld, AskedOne
  <2>3. CASE UNCHANGED <<pc, record, traceLock>>
    BY <2>1, <2>3 DEF HandsFull, LockHeld, AskedOne
  <2> QED
    BY <1>4, <2>2, <2>3 DEF msgCallback
<1>5. ASSUME NEW p \in Procs, Record(p)
      PROVE  (HandsFull /\ LockHeld /\ AskedOne)'
  <2>1. UNCHANGED <<trace, status, getter, asked>>
    BY <1>5 DEF Record, traceVars, getVars
  <2>2. p # Reader /\ pc[p] = "sent"
    BY <1>5 DEF Record, LockHeld
  <2>3. CASE trace = NoTrace
    <3>1. 0 \in 0..MaxMessages
      BY TraceAssumption
    <3>2. /\ pc'[p] = "idle" /\ UNCHANGED traceLock
          /\ \A q \in Procs \ {p} : pc'[q] = pc[q] /\ record'[q] = record[q]
      BY <1>5, <2>3, <3>1, GoesType DEF Record
    <3> QED
      BY <1>0, <2>1, <2>2, <3>2 DEF HandsFull, LockHeld, AskedOne
  <2>4. CASE trace # NoTrace
    <3>1. /\ pc'[p] = "recording" /\ traceLock' = p /\ record'[p] = record[p]
          /\ \A q \in Procs \ {p} : pc'[q] = pc[q] /\ record'[q] = record[q]
      BY <1>0, <1>5, <2>4, GoesType DEF Record
    <3>2. \A q \in Procs : pc[q] # "recording"
      BY <1>0, <1>5 DEF Record, LockHeld
    <3> QED
      BY <1>0, <2>1, <2>2, <2>4, <3>1, <3>2 DEF HandsFull, LockHeld, AskedOne
  <2> QED
    BY <2>3, <2>4
<1>6. ASSUME NEW p \in Procs, send(p)
      PROVE  (HandsFull /\ LockHeld /\ AskedOne)'
  <2>1. UNCHANGED <<trace, status, getter, asked>>
    BY <1>6 DEF send, getVars
  <2>2. 0 \in 0..MaxMessages
    BY TraceAssumption
  <2>3. /\ pc'[p] = "idle"
        /\ \A q \in Procs \ {p} : pc'[q] = pc[q] /\ record'[q] = record[q]
    BY <1>6, <2>2, GoesType DEF send
  <2>4. \A q \in Procs \ {p} : pc[q] # "recording"
    BY <1>6 DEF send, LockHeld
  <2> QED
    BY <1>0, <2>1, <2>3, <2>4 DEF HandsFull, LockHeld, AskedOne
<1>7. ASSUME NEW g \in Getters,
             \/ Getting(g)
             \/ \E t \in Traces : GetRecords(g, t)
      PROVE  (HandsFull /\ LockHeld /\ AskedOne)'
  <2>1. UNCHANGED <<trace, traceLock, status, pc, record>>
    BY <1>7 DEF Getting, Woken, MakeList, Copy, GetRecords, msgVars, traceVars
  <2>2. AskedOne'
    <3>1. CASE Getting(g)
      BY <1>0, <3>1 DEF Getting, Woken, MakeList, Copy, AskedOne
    <3>2. ASSUME NEW t \in Traces, GetRecords(g, t)
          PROVE  AskedOne'
      BY <1>0, <3>2 DEF GetRecords, Owes, AskedOne
    <3> QED
      BY <1>7, <3>1, <3>2
  <2> QED
    BY <2>1, <2>2 DEF HandsFull, LockHeld
<1>8. CASE UNCHANGED vars
  BY <1>8 DEF HandsFull, LockHeld, AskedOne, vars, traceVars, msgVars, getVars
<1>9. ASSUME NEW s \in Senders, SendMsgReturns(s)
      PROVE  (HandsFull /\ LockHeld /\ AskedOne)'
  <2>1. UNCHANGED <<trace, traceLock, status, getter, asked>>
    BY <1>9 DEF SendMsgReturns, traceVars, getVars
  <2>2. s \in Procs /\ s # Reader /\ record[s] \in 0..MaxMessages
    BY <1>0 DEF Procs
  <2>3. /\ pc[s] = "sending" /\ pc'[s] = "sent" /\ record'[s] = record[s]
        /\ \A q \in Procs \ {s} : pc'[q] = pc[q] /\ record'[q] = record[q]
    BY <1>9, <2>2, GoesType DEF SendMsgReturns
  <2> QED
    BY <1>0, <2>1, <2>2, <2>3 DEF HandsFull, LockHeld, AskedOne
<1>10. CASE Next
  BY <1>1, <1>2, <1>3, <1>4, <1>5, <1>6, <1>7, <1>9, <1>10, Steps DEF Recording
<1> QED
  BY <1>8, <1>10

(* A program starts without a trace.                                        *)
LEMMA LockInit == Init => LockInv
<1> SUFFICES ASSUME Init
             PROVE  LockInv
  OBVIOUS
<1>1. /\ \A S : <<>> \in Seq(S)
      /\ Len(<<>>) = 0
  OBVIOUS
<1>2. TypeOK
  BY <1>1, TraceAssumption DEF Init, TypeOK, GetterState
<1>3. HandsFull /\ LockHeld /\ AskedOne
  BY TraceAssumption DEF Init, HandsFull, LockHeld, AskedOne, Procs
<1> QED
  BY <1>2, <1>3 DEF LockInv

(* The types, the lock and the installed trace, for any number of traces,   *)
(* goroutines and messages, whenever NewTrace and Close are called.         *)
THEOREM LockInvariance == Spec => []LockInv
<1>1. LockInv /\ [Next]_vars => LockInv'
  BY TypeStep, LockStep DEF LockInv
<1> QED
  BY LockInit, <1>1, PTL DEF Spec

(* The model of the trace is type correct.                                  *)
THEOREM TypeCorrect == Spec => []TypeOK
<1>1. LockInv => TypeOK
  BY DEF LockInv
<1> QED
  BY LockInvariance, <1>1, PTL

(* Nobody sends on a buffer that Close has closed.                          *)
THEOREM NeverSendsOnClosed == Spec => []NoSendOnClosed
<1>1. LockInv => NoSendOnClosed
  BY LockHeldSuffices DEF LockInv
<1> QED
  BY LockInvariance, <1>1, PTL

-----------------------------------------------------------------------------
(* The WaitGroup *)

(* Those with a message in hand can be counted.                             *)
LEMMA BusyFinite ==
    ASSUME IsFiniteSet(Senders)
    PROVE  IsFiniteSet(Busy) /\ Cardinality(Busy) \in Nat
<1>1. IsFiniteSet(Procs)
  BY FS_AddElement DEF Procs
<1>2. Busy \in SUBSET Procs
  BY DEF Busy
<1> QED
  BY <1>1, <1>2, FS_Subset, FS_CardinalityType

(* One of them more, one of them less, or as many as before.                *)
LEMMA BusyChange ==
    ASSUME IsFiniteSet(Senders), NEW p \in Procs,
           \A q \in Procs \ {p} : pc'[q] = pc[q]
    PROVE  /\ pc[p] = "idle" /\ pc'[p] # "idle" =>
                 Cardinality(Busy)' = Cardinality(Busy) + 1
           /\ pc[p] # "idle" /\ pc'[p] = "idle" =>
                 Cardinality(Busy)' = Cardinality(Busy) - 1
           /\ pc[p] # "idle" /\ pc'[p] # "idle" =>
                 Cardinality(Busy)' = Cardinality(Busy)
<1>1. CASE pc[p] = "idle" /\ pc'[p] # "idle"
  <2>1. Busy' = Busy \cup {p} /\ p \notin Busy
    BY <1>1 DEF Busy
  <2> QED
    BY <1>1, <2>1, BusyFinite, FS_AddElement
<1>2. CASE pc[p] # "idle" /\ pc'[p] = "idle"
  <2>1. Busy' = Busy \ {p} /\ p \in Busy
    BY <1>2 DEF Busy
  <2> QED
    BY <1>2, <2>1, BusyFinite, FS_RemoveElement
<1>3. CASE pc[p] # "idle" /\ pc'[p] # "idle"
  <2>1. Busy' = Busy
    BY <1>3 DEF Busy
  <2> QED
    BY <1>3, <2>1
<1> QED
  BY <1>1, <1>2, <1>3

(* What Counted adds up are numbers.                                        *)
LEMMA CountedTypes ==
    ASSUME TypeOK, IsFiniteSet(Senders), NEW t \in Traces
    PROVE  /\ wg[t] \in Int /\ Len(buffer[t]) \in Nat /\ Len(taken[t]) \in {0, 1}
           /\ Cardinality(Busy) \in Nat
           /\ Len(buffer[t]) = 0 <=> buffer[t] = <<>>
           /\ Len(taken[t]) = 0 <=> taken[t] = <<>>
           /\ taken[t] = <<>> \/ \E n \in 1..MaxMessages : taken[t] = <<n>>
<1>1. wg[t] \in Int /\ buffer[t] \in Seq(1..MaxMessages)
  BY DEF TypeOK
<1>2. Len(buffer[t]) \in Nat /\ (Len(buffer[t]) = 0 <=> buffer[t] = <<>>)
  BY <1>1, RangeType
<1>3. taken[t] = <<>> \/ \E n \in 1..MaxMessages : taken[t] = <<n>>
  BY DEF TypeOK
<1>4. Len(taken[t]) \in {0, 1} /\ (Len(taken[t]) = 0 <=> taken[t] = <<>>)
  <2>1. ASSUME NEW n, taken[t] = <<n>>
        PROVE  Len(taken[t]) = 1 /\ taken[t] # <<>>
    BY <2>1, TakenRange
  <2> QED
    BY <1>3, <2>1, TakenRange
<1> QED
  BY <1>1, <1>2, <1>3, <1>4, BusyFinite

(* While traces are created between requests only, every message that is    *)
(* recorded on a trace was registered on it, so that the WaitGroup keeps    *)
(* up with the calls of Done that are still to come.                        *)
LEMMA CountedStep ==
    ASSUME QuietStart, IsFiniteSet(Senders), LockInv, Counted, [Next]_vars
    PROVE  Counted'
<1> SUFFICES ASSUME NEW u \in Traces
             PROVE  Outstanding(u)' <= wg'[u]
  BY DEF Counted
<1>0. /\ Outstanding(u) <= wg[u]
      /\ trace \in Traces \cup {NoTrace} /\ NoTrace \notin Traces
      /\ pc \in [Procs -> {"idle", "sending", "sent", "recording"}]
      /\ wg \in [Traces -> Int]
      /\ buffer \in [Traces -> Seq(1..MaxMessages)]
      /\ taken \in [Traces -> {<<>>} \cup {<<n>> : n \in 1..MaxMessages}]
  BY TraceAssumption DEF Counted, LockInv, TypeOK
<1>t. /\ wg[u] \in Int /\ Len(buffer[u]) \in Nat /\ Len(taken[u]) \in {0, 1}
      /\ Cardinality(Busy) \in Nat
  BY CountedTypes DEF LockInv
<1>1. ASSUME NEW t \in Traces, NewTrace(t) \/ Close(t) \/ Clear(t)
      PROVE  Outstanding(u)' <= wg'[u]
  <2>1. UNCHANGED <<wg, buffer, taken, pc>>
    BY <1>1 DEF NewTrace, Close, Clear, msgVars
  <2>2. Cardinality(Busy)' = Cardinality(Busy)
    BY <2>1 DEF Busy
  <2>3. CASE NewTrace(t)
    <3>1. Busy = {}
      BY <1>0, <2>3, TraceAssumption DEF Busy, NewTrace, Procs, LockInv, LockHeld
    <3>2. Cardinality(Busy) = 0
      BY <3>1, FS_EmptySet
    <3> QED
      BY <1>0, <1>t, <2>1, <2>2, <3>2 DEF Outstanding
  <2>4. CASE Close(t)
    <3>1. trace' # u
      BY <1>0, <2>4 DEF Close
    <3> QED
      BY <1>0, <1>t, <2>1, <3>1 DEF Outstanding
  <2>5. CASE Clear(t)
    <3>1. trace' = trace
      BY <2>5 DEF Clear
    <3> QED
      BY <1>0, <2>1, <2>2, <3>1 DEF Outstanding
  <2> QED
    BY <1>1, <2>3, <2>4, <2>5
<1>2. ASSUME NEW t \in Traces, Take(t)
      PROVE  Outstanding(u)' <= wg'[u]
  <2>1. UNCHANGED <<wg, trace, pc>>
    BY <1>2 DEF Take, msgVars
  <2>2. Cardinality(Busy)' = Cardinality(Busy)
    BY <2>1 DEF Busy
  <2>3. Len(buffer'[u]) + Len(taken'[u]) = Len(buffer[u]) + Len(taken[u])
    <3>1. CASE u # t
      <4>1. buffer'[u] = buffer[u] /\ taken'[u] = taken[u]
        BY <1>0, <1>2, <3>1 DEF Take
      <4> QED
        BY <4>1
    <3>2. CASE u = t
      <4>1. /\ buffer'[u] = Tail(buffer[u]) /\ taken'[u] = <<Head(buffer[u])>>
            /\ buffer[u] # <<>> /\ taken[u] = <<>>
        BY <1>0, <1>2, <3>2 DEF Take
      <4>2. /\ Len(buffer'[u]) = Len(buffer[u]) - 1 /\ Len(taken'[u]) = 1
            /\ Len(taken[u]) = 0
        BY <1>0, <4>1, RangeTail, TakenRange
      <4> QED
        BY <1>t, <4>2
    <3> QED
      BY <3>1, <3>2
  <2> DEFINE n == Len(buffer[u]) + Len(taken[u])
  <2>4. Len(buffer[u])' + Len(taken[u])' = n
    BY <2>3
  <2> QED
    BY <1>0, <1>t, <2>1, <2>2, <2>4 DEF Outstanding
<1>3. ASSUME NEW t \in Traces, Store(t)
      PROVE  Outstanding(u)' <= wg'[u]
  <2>1. UNCHANGED <<trace, pc, buffer>>
    BY <1>3 DEF Store, msgVars
  <2>2. Cardinality(Busy)' = Cardinality(Busy)
    BY <2>1 DEF Busy
  <2>3. CASE u # t
    <3>1. taken'[u] = taken[u] /\ wg'[u] = wg[u]
      BY <1>0, <1>3, <2>3 DEF Store, Done
    <3> QED
      BY <1>0, <2>1, <2>2, <3>1 DEF Outstanding
  <2>4. CASE u = t
    <3>1. taken[u] # <<>> /\ taken'[u] = <<>> /\ wg'[u] = wg[u] - 1
      BY <1>0, <1>3, <2>4 DEF Store, Done
    <3>2. Len(taken[u]) = 1 /\ Len(taken'[u]) = 0
      BY <3>1, CountedTypes, TakenRange DEF LockInv
    <3> QED
      BY <1>0, <1>t, <2>1, <2>2, <3>1, <3>2 DEF Outstanding
  <2> QED
    BY <2>3, <2>4
<1>4. ASSUME NEW s \in Senders, Register(s)
      PROVE  Outstanding(u)' <= wg'[u]
  <2>1. s \in Procs /\ messages' \in 0..MaxMessages /\ UNCHANGED <<trace, buffer, taken>>
    BY <1>4, NextMessageType DEF Register, Procs, LockInv
  <2>2. /\ pc[s] = "idle" /\ pc'[s] # "idle"
        /\ \A q \in Procs \ {s} : pc'[q] = pc[q]
    BY <1>4, <2>1, GoesType DEF Register, LockInv
  <2>3. Cardinality(Busy)' = Cardinality(Busy) + 1
    BY <2>1, <2>2, BusyChange
  <2>4. wg'[u] = IF trace = u THEN wg[u] + 1 ELSE wg[u]
    BY <1>4, RegisteredType DEF Register, LockInv
  <2> QED
    BY <1>0, <1>t, <2>1, <2>3, <2>4 DEF Outstanding
<1>5. CASE msgCallback
  <2>1. /\ Reader \in Procs /\ messages' \in 0..MaxMessages
        /\ UNCHANGED <<trace, buffer, taken>>
    BY <1>5, NextMessageType DEF msgCallback, Procs, LockInv
  <2>2. wg'[u] = IF trace = u THEN wg[u] + 1 ELSE wg[u]
    BY <1>5, RegisteredType DEF msgCallback, LockInv
  <2>3. CASE Goes(Reader, "recording", messages')
    <3>1. /\ pc[Reader] = "idle" /\ pc'[Reader] # "idle"
          /\ \A q \in Procs \ {Reader} : pc'[q] = pc[q]
      BY <1>5, <2>1, <2>3, GoesType DEF msgCallback, LockInv
    <3>2. Cardinality(Busy)' = Cardinality(Busy) + 1
      BY <2>1, <3>1, BusyChange
    <3> QED
      BY <1>0, <1>t, <2>1, <2>2, <3>2 DEF Outstanding
  <2>4. CASE UNCHANGED pc
    <3>1. Cardinality(Busy)' = Cardinality(Busy)
      BY <2>4 DEF Busy
    <3> QED
      BY <1>0, <1>t, <2>1, <2>2, <3>1 DEF Outstanding
  <2> QED
    BY <1>5, <2>3, <2>4 DEF msgCallback
<1>6. ASSUME NEW p \in Procs, Record(p)
      PROVE  Outstanding(u)' <= wg'[u]
  <2>1. UNCHANGED <<trace, wg, buffer, taken>> /\ record[p] \in 0..MaxMessages
    BY <1>6 DEF Record, traceVars, LockInv, TypeOK
  <2>2. CASE trace = NoTrace
    <3>1. trace # u
      BY <1>0, <2>2
    <3> QED
      BY <1>0, <2>1, <3>1 DEF Outstanding
  <2>3. CASE trace # NoTrace
    <3>1. /\ pc[p] # "idle" /\ pc'[p] # "idle"
          /\ \A q \in Procs \ {p} : pc'[q] = pc[q]
      BY <1>6, <2>1, <2>3, GoesType DEF Record, LockInv
    <3>2. Cardinality(Busy)' = Cardinality(Busy)
      BY <3>1, BusyChange
    <3> QED
      BY <1>0, <2>1, <3>2 DEF Outstanding
  <2> QED
    BY <2>2, <2>3
<1>7. ASSUME NEW p \in Procs, send(p)
      PROVE  Outstanding(u)' <= wg'[u]
  <2>1. UNCHANGED <<trace, wg, taken>>
    BY <1>7 DEF send
  <2>2. trace \in Traces /\ record[p] \in 1..MaxMessages /\ 0 \in 0..MaxMessages
    BY <1>0, <1>7, TraceAssumption DEF send, LockInv, LockHeld, HandsFull, TypeOK
  <2>3. /\ pc[p] # "idle" /\ pc'[p] = "idle"
        /\ \A q \in Procs \ {p} : pc'[q] = pc[q]
    BY <1>7, <2>2, GoesType DEF send, LockInv
  <2>4. Cardinality(Busy)' = Cardinality(Busy) - 1
    BY <2>3, BusyChange
  <2>5. CASE u # trace
    <3>1. buffer'[u] = buffer[u]
      BY <1>0, <1>7, <2>2, <2>5 DEF send
    <3> QED
      BY <1>0, <2>1, <2>5, <3>1 DEF Outstanding
  <2>6. CASE u = trace
    <3>1. buffer'[u] = Append(buffer[u], record[p])
      BY <1>0, <1>7, <2>2, <2>6 DEF send
    <3>2. Len(buffer'[u]) = Len(buffer[u]) + 1
      BY <1>0, <2>2, <3>1, RangeAppend
    <3> QED
      BY <1>0, <1>t, <2>1, <2>4, <2>6, <3>2 DEF Outstanding
  <2> QED
    BY <2>5, <2>6
<1>8. CASE \/ UNCHANGED vars
           \/ \E g \in Getters : \/ Getting(g)
                                 \/ \E t \in Traces : GetRecords(g, t)
  <2>1. UNCHANGED <<trace, wg, buffer, taken, pc>>
    BY <1>8 DEF Getting, Woken, MakeList, Copy, GetRecords, msgVars, traceVars, vars
  <2>2. Cardinality(Busy)' = Cardinality(Busy)
    BY <2>1 DEF Busy
  <2> QED
    BY <1>0, <2>1, <2>2 DEF Outstanding
<1>9. ASSUME NEW s \in Senders, SendMsgReturns(s)
      PROVE  Outstanding(u)' <= wg'[u]
  <2>1. s \in Procs /\ record[s] \in 0..MaxMessages
        /\ UNCHANGED <<trace, wg, buffer, taken>>
    BY <1>9 DEF SendMsgReturns, traceVars, Procs, LockInv, TypeOK
  <2>2. /\ pc[s] # "idle" /\ pc'[s] # "idle"
        /\ \A q \in Procs \ {s} : pc'[q] = pc[q]
    BY <1>9, <2>1, GoesType DEF SendMsgReturns, LockInv
  <2>3. Cardinality(Busy)' = Cardinality(Busy)
    BY <2>1, <2>2, BusyChange
  <2> QED
    BY <1>0, <2>1, <2>3 DEF Outstanding
<1> QED
  BY <1>1, <1>2, <1>3, <1>4, <1>5, <1>6, <1>7, <1>8, <1>9, Steps
     DEF Collecting, Recording

(* Traces that are created between requests never make the program panic    *)
(* over a negative WaitGroup counter, and GetRecords does not stop waiting  *)
(* before what was registered is recorded: for any number of traces and     *)
(* goroutines and any sizes.                                                *)
THEOREM WaitGroupCovers ==
    ASSUME QuietStart, IsFiniteSet(Senders)
    PROVE  Spec => [](Counted /\ ~Overdone)
<1>1. Init => Counted
  <2> SUFFICES ASSUME Init, NEW t \in Traces
               PROVE  Outstanding(t) <= wg[t]
    BY DEF Counted
  <2>1. wg[t] = 0 /\ buffer[t] = <<>> /\ taken[t] = <<>> /\ trace # t
    BY TraceAssumption DEF Init
  <2> QED
    BY <2>1, TakenRange DEF Outstanding
<1>2. LockInv /\ Counted /\ [Next]_vars => Counted'
  BY CountedStep
<1>3. LockInv /\ Counted => ~Overdone
  <2> SUFFICES ASSUME LockInv, Counted, NEW t \in Traces
               PROVE  ~(wg[t] < 0)
    BY DEF Overdone
  <2>1. /\ wg[t] \in Int /\ Len(buffer[t]) \in Nat /\ Len(taken[t]) \in {0, 1}
        /\ Cardinality(Busy) \in Nat
    BY CountedTypes DEF LockInv
  <2>2. Outstanding(t) <= wg[t]
    BY DEF Counted
  <2>3. PICK a, b, c \in Nat : a = Len(buffer[t]) /\ b = Len(taken[t])
                               /\ c = IF trace = t THEN Cardinality(Busy) ELSE 0
    BY <2>1
  <2>4. a + b + c <= wg[t]
    BY <2>2, <2>3 DEF Outstanding
  <2>5. wg[t] \in Int
    BY <2>1
  <2>6. 0 <= a + b + c
    OBVIOUS
  <2> QED
    BY <2>4, <2>5, <2>6
<1> QED
  BY <1>1, <1>2, <1>3, LockInvariance, PTL DEF Spec

-----------------------------------------------------------------------------
(* What GetRecords returns *)

(* Nothing that a caller looks for is disturbed where no record moves.      *)
LEMMA FoundUnchanged ==
    ASSUME OwedFound, UNCHANGED <<buffer, taken, records, getVars>>
    PROVE  OwedFound'
BY DEF OwedFound, Found, getVars

(* A record comes in.                                                       *)
LEMMA FoundSend ==
    ASSUME LockInv, OwedFound, NEW p \in Procs, send(p)
    PROVE  OwedFound'
<1>1. trace \in Traces /\ record[p] \in 1..MaxMessages
  BY TraceAssumption DEF send, LockInv, LockHeld, HandsFull, TypeOK
<1>2. buffer \in [Traces -> Seq(1..MaxMessages)]
  BY DEF LockInv, TypeOK
<1>3. ASSUME NEW t \in Traces
      PROVE  Range(buffer[t]) \subseteq Range(buffer'[t])
  <2>1. CASE t # trace
    BY <1>1, <1>2, <2>1 DEF send
  <2>2. CASE t = trace
    <3>1. buffer'[t] = Append(buffer[t], record[p])
      BY <1>1, <1>2, <2>2 DEF send
    <3>2. buffer[t] \in Seq(1..MaxMessages)
      BY <1>2
    <3>3. Range(Append(buffer[t], record[p])) = Range(buffer[t]) \cup {record[p]}
      BY <1>1, <3>2, RecordsGrow
    <3> QED
      BY <2>2, <3>1, <3>3
  <2> QED
    BY <2>1, <2>2
<1>4. UNCHANGED <<taken, records, getter, asked, list, owed>>
  BY DEF send, getVars
<1> SUFFICES ASSUME NEW g \in Getters
             PROVE  Found(g)'
  BY DEF OwedFound
<1>5. Found(g)
  BY DEF OwedFound
<1>6. CASE getter[g] = "idle"
  BY <1>4, <1>6 DEF Found
<1>7. CASE getter[g] # "idle"
  <2>1. asked[g] \in Traces
    BY <1>7 DEF LockInv, AskedOne
  <2> QED
    BY <1>3, <1>4, <1>5, <2>1 DEF Found
<1> QED
  BY <1>6, <1>7

(* A record goes from the buffer into the hand of the goroutine.            *)
LEMMA FoundTake ==
    ASSUME LockInv, OwedFound, NEW t \in Traces, Take(t)
    PROVE  OwedFound'
<1>1. /\ buffer \in [Traces -> Seq(1..MaxMessages)]
      /\ taken \in [Traces -> {<<>>} \cup {<<n>> : n \in 1..MaxMessages}]
  BY DEF LockInv, TypeOK
<1>2. ASSUME NEW u \in Traces
      PROVE  Range(taken[u]) \cup Range(buffer[u]) \subseteq
                Range(taken'[u]) \cup Range(buffer'[u])
  <2>1. CASE u # t
    BY <1>1, <2>1 DEF Take
  <2>2. CASE u = t
    <3>1. /\ buffer[u] # <<>> /\ taken[u] = <<>>
          /\ buffer'[u] = Tail(buffer[u]) /\ taken'[u] = <<Head(buffer[u])>>
      BY <1>1, <2>2 DEF Take
    <3>2. /\ Range(taken[u]) = {} /\ Range(taken'[u]) = {Head(buffer[u])}
          /\ Range(buffer[u]) = {Head(buffer[u])} \cup Range(buffer'[u])
      BY <1>1, <3>1, TakenRange, RangeTail
    <3> QED
      BY <3>2
  <2> QED
    BY <2>1, <2>2
<1>3. UNCHANGED <<records, getter, asked, list, owed>>
  BY DEF Take, getVars
<1> SUFFICES ASSUME NEW g \in Getters
             PROVE  Found(g)'
  BY DEF OwedFound
<1>4. Found(g)
  BY DEF OwedFound
<1>5. CASE getter[g] = "idle"
  BY <1>3, <1>5 DEF Found
<1>6. CASE getter[g] # "idle"
  <2>1. asked[g] \in Traces
    BY <1>6 DEF LockInv, AskedOne
  <2> QED
    BY <1>2, <1>3, <1>4, <2>1 DEF Found
<1> QED
  BY <1>5, <1>6

(* It is stored, or the list is full and nobody has to find it any more.    *)
LEMMA FoundStore ==
    ASSUME LockInv, OwedFound, NEW t \in Traces, Store(t)
    PROVE  OwedFound'
<1>1. /\ buffer \in [Traces -> Seq(1..MaxMessages)]
      /\ records \in [Traces -> Seq(1..MaxMessages)]
      /\ taken \in [Traces -> {<<>>} \cup {<<n>> : n \in 1..MaxMessages}]
      /\ owed \in [Getters -> SUBSET (1..MaxMessages)]
  BY DEF LockInv, TypeOK
<1>2. UNCHANGED <<buffer, asked, list>>
  BY DEF Store
<1>w. ASSUME NEW g \in Getters
      PROVE  /\ getter'[g] \in {"asleep", "woken"} => getter[g] \in {"asleep", "woken"}
             /\ getter'[g] \in {"idle", "listing", "copying", "returned"} =>
                   getter[g] = getter'[g]
             /\ getter[g] = "idle" => getter'[g] = "idle"
  BY DEF Store, Done
<1>3. PICK n \in 1..MaxMessages : taken[t] = <<n>>
  BY <1>1 DEF Store
<1>4. Range(taken[t]) = {n} /\ taken'[t] = <<>> /\ Range(<<>>) = {}
      /\ \A u \in Traces \ {t} : taken'[u] = taken[u]
  BY <1>1, <1>3, TakenRange DEF Store
<1> SUFFICES ASSUME NEW g \in Getters
             PROVE  Found(g)'
  BY DEF OwedFound
<1>5. Found(g)
  BY DEF OwedFound
<1>6. CASE getter[g] = "idle"
  BY <1>w, <1>6 DEF Found
<1>7. CASE getter[g] # "idle"
  <2>1. asked[g] \in Traces
    BY <1>7 DEF LockInv, AskedOne
  <2> DEFINE u == asked[g]
  <2>2. CASE Len(records[t]) < Size
    <3>1. UNCHANGED owed /\ records' = [records EXCEPT ![t] = records[t] \o <<n>>]
      BY <1>3, <2>2 DEF Store
    <3>2. /\ Range(records[t] \o <<n>>) = Range(records[t]) \cup {n}
          /\ \A i \in DOMAIN records[t] :
                 /\ i \in DOMAIN (records[t] \o <<n>>)
                 /\ (records[t] \o <<n>>)[i] = records[t][i]
      <4>1. records[t] \in Seq(1..MaxMessages)
        BY <1>1
      <4> QED
        BY <4>1, RecordsGrow
    <3>3. /\ Range(records[u]) \cup Range(taken[u]) \subseteq
                Range(records'[u]) \cup Range(taken'[u])
          /\ Range(records[u]) \subseteq Range(records'[u])
          /\ \A i \in DOMAIN records[u] :
                i \in DOMAIN records'[u] /\ records'[u][i] = records[u][i]
      <4>1. CASE u = t
        <5>1. records'[u] = records[t] \o <<n>>
          BY <1>1, <3>1, <4>1
        <5> QED
          BY <1>4, <3>2, <4>1, <5>1
      <4>2. CASE u # t
        BY <1>1, <1>4, <2>1, <3>1, <4>2
      <4> QED
        BY <4>1, <4>2
    <3> QED
      BY <1>2, <1>w, <1>5, <3>1, <3>3 DEF Found
  <2>3. CASE ~(Len(records[t]) < Size)
    <3>1. /\ UNCHANGED records
          /\ owed'[g] = IF asked[g] = t THEN owed[g] \ {n} ELSE owed[g]
      BY <1>1, <1>4, <2>3 DEF Store, Excused
    <3>2. CASE u = t
      BY <1>2, <1>w, <1>4, <1>5, <3>1, <3>2 DEF Found
    <3>3. CASE u # t
      BY <1>2, <1>w, <1>4, <1>5, <2>1, <3>1, <3>3 DEF Found
    <3> QED
      BY <3>2, <3>3
  <2> QED
    BY <2>2, <2>3
<1> QED
  BY <1>6, <1>7

(* Clear excuses whoever asked for the records it drops.                    *)
LEMMA FoundClear ==
    ASSUME LockInv, OwedFound, NEW t \in Traces, Clear(t)
    PROVE  OwedFound'
<1>1. /\ records \in [Traces -> Seq(1..MaxMessages)]
      /\ owed \in [Getters -> SUBSET (1..MaxMessages)]
  BY DEF LockInv, TypeOK
<1>2. UNCHANGED <<buffer, taken, getter, asked, list>>
  BY DEF Clear
<1>3. /\ \A u \in Traces \ {t} : records'[u] = records[u]
      /\ \A g \in Getters :
            owed'[g] = IF asked[g] = t THEN owed[g] \ Range(records[t]) ELSE owed[g]
  BY <1>1 DEF Clear, Excused
<1> SUFFICES ASSUME NEW g \in Getters
             PROVE  Found(g)'
  BY DEF OwedFound
<1>4. Found(g)
  BY DEF OwedFound
<1>5. CASE getter[g] = "idle"
  BY <1>2, <1>5 DEF Found
<1>6. CASE getter[g] # "idle" /\ asked[g] # t
  <2>1. asked[g] \in Traces
    BY <1>6 DEF LockInv, AskedOne
  <2>2. records'[asked[g]] = records[asked[g]] /\ owed'[g] = owed[g]
    BY <1>3, <1>6, <2>1
  <2> QED
    BY <1>2, <1>4, <2>2 DEF Found
<1>7. CASE getter[g] # "idle" /\ asked[g] = t
  <2>1. owed'[g] = owed[g] \ Range(records[t])
    BY <1>3, <1>7
  <2>2. getter[g] = "copying" => owed'[g] = {}
    BY <1>4, <1>7, <2>1 DEF Found, Range
  <2> QED
    BY <1>2, <1>4, <1>7, <2>1, <2>2 DEF Found
<1> QED
  BY <1>5, <1>6, <1>7

(* When the WaitGroup is at zero, all is stored.                            *)
LEMMA NothingLeft ==
    ASSUME IsFiniteSet(Senders), LockInv, Counted, NEW t \in Traces, wg[t] = 0
    PROVE  buffer[t] = <<>> /\ taken[t] = <<>>
<1>1. /\ Len(buffer[t]) \in Nat /\ Len(taken[t]) \in {0, 1}
      /\ Cardinality(Busy) \in Nat
      /\ Len(buffer[t]) = 0 <=> buffer[t] = <<>>
      /\ Len(taken[t]) = 0 <=> taken[t] = <<>>
  BY CountedTypes DEF LockInv
<1>2. Outstanding(t) <= 0
  BY DEF Counted
<1>3. ASSUME NEW a \in Nat, NEW b \in Nat, NEW c \in Nat, a + b + c <= 0
      PROVE  a = 0 /\ b = 0
  BY <1>3
<1>4. (IF trace = t THEN Cardinality(Busy) ELSE 0) \in Nat
  BY <1>1
<1>5. Len(taken[t]) \in Nat
  BY <1>1
<1>6. Len(buffer[t]) = 0 /\ Len(taken[t]) = 0
  <2> DEFINE a == Len(buffer[t])
             b == Len(taken[t])
             c == IF trace = t THEN Cardinality(Busy) ELSE 0
  <2>1. a + b + c <= 0 /\ a \in Nat /\ b \in Nat /\ c \in Nat
    BY <1>1, <1>2, <1>4, <1>5 DEF Outstanding
  <2> HIDE DEF a, b, c
  <2>2. a = 0 /\ b = 0
    BY <1>3, <2>1
  <2> QED
    BY <2>2 DEF a, b
<1> QED
  BY <1>1, <1>6

(* The call itself: what it owes is where it looks; once the WaitGroup is   *)
(* at zero it is stored, and the copy has it.                               *)
LEMMA FoundGet ==
    ASSUME IsFiniteSet(Senders), LockInv, Counted, OwedFound, NEW f \in Getters,
           \/ Getting(f)
           \/ \E t \in Traces : GetRecords(f, t)
    PROVE  OwedFound'
<1>1. /\ getter \in [Getters -> GetterState]
      /\ asked \in [Getters -> Traces \cup {NoTrace}]
      /\ list \in [Getters -> Seq((1..MaxMessages) \cup {NilRecord})]
      /\ owed \in [Getters -> SUBSET (1..MaxMessages)]
      /\ records \in [Traces -> Seq(1..MaxMessages)]
  BY DEF LockInv, TypeOK
<1>2. UNCHANGED <<buffer, taken, records>>
  BY DEF Getting, Woken, MakeList, Copy, GetRecords, traceVars
<1>3. \A g \in Getters \ {f} : /\ getter'[g] = getter[g] /\ asked'[g] = asked[g]
                               /\ list'[g] = list[g] /\ owed'[g] = owed[g]
  BY <1>1 DEF Getting, Woken, MakeList, Copy, GetRecords, Owes
<1>4. \A g \in Getters \ {f} : Found(g)'
  BY <1>2, <1>3 DEF OwedFound, Found
<1>5. Found(f)
  BY DEF OwedFound
<1>6. ASSUME NEW t \in Traces, GetRecords(f, t)
      PROVE  Found(f)'
  <2>1. /\ getter'[f] = (IF wg[t] = 0 THEN "listing" ELSE "asleep") /\ asked'[f] = t
        /\ owed'[f] = Range(records[t]) \cup Range(taken[t]) \cup Range(buffer[t])
    BY <1>1, <1>6 DEF GetRecords, Owes
  <2>2. wg[t] = 0 => owed'[f] = Range(records[t])
    <3>1. wg[t] = 0 => buffer[t] = <<>> /\ taken[t] = <<>>
      BY NothingLeft
    <3> QED
      BY <2>1, <3>1, TakenRange
  <2> QED
    BY <1>2, <2>1, <2>2 DEF Found
<1>7. ASSUME Woken(f)
      PROVE  Found(f)'
  <2> DEFINE t == asked[f]
  <2>1. /\ getter[f] = "woken" /\ asked'[f] = t /\ owed'[f] = owed[f]
        /\ getter'[f] = IF wg[t] = 0 THEN "listing" ELSE "reused"
    BY <1>1, <1>7 DEF Woken
  <2>2. t \in Traces
    BY <2>1 DEF LockInv, AskedOne
  <2>3. wg[t] = 0 => owed[f] \subseteq Range(records[t])
    <3>1. wg[t] = 0 => buffer[t] = <<>> /\ taken[t] = <<>>
      BY <2>2, NothingLeft
    <3> QED
      BY <1>5, <2>1, <3>1, TakenRange DEF Found
  <2> QED
    BY <1>2, <2>1, <2>3 DEF Found
<1>8. ASSUME MakeList(f)
      PROVE  Found(f)'
  <2> DEFINE t == asked[f]
             l == [i \in DOMAIN records[t] |-> NilRecord]
  <2>1. /\ getter[f] = "listing" /\ getter'[f] = "copying"
        /\ asked'[f] = t /\ owed'[f] = owed[f] /\ list'[f] = l
    BY <1>1, <1>8 DEF MakeList
  <2>2. owed[f] \subseteq Range(records[t])
    BY <1>5, <2>1 DEF Found
  <2>3. DOMAIN l = DOMAIN records[t]
    OBVIOUS
  <2> HIDE DEF l
  <2>4. \A n \in owed[f] : \E i \in DOMAIN l : i \in DOMAIN records[t] /\ records[t][i] = n
    BY <2>2, <2>3 DEF Range
  <2> QED
    BY <1>2, <2>1, <2>4 DEF Found
<1>9. ASSUME Copy(f)
      PROVE  Found(f)'
  <2> DEFINE t == asked[f]
             l == [i \in DOMAIN list[f] |->
                     IF i \in DOMAIN records[t] THEN records[t][i] ELSE list[f][i]]
  <2>1. /\ getter[f] = "copying" /\ getter'[f] \in {"returned", "nilSort"}
        /\ owed'[f] = owed[f] /\ list'[f] = l
    BY <1>1, <1>9 DEF Copy
  <2>2. /\ DOMAIN l = DOMAIN list[f]
        /\ \A i \in DOMAIN list[f] : i \in DOMAIN records[t] => l[i] = records[t][i]
    OBVIOUS
  <2> HIDE DEF l
  <2>3. owed[f] \subseteq Range(l)
    BY <1>5, <2>1, <2>2 DEF Found, Range
  <2> QED
    BY <2>1, <2>3 DEF Found
<1>10. Found(f)'
  BY <1>6, <1>7, <1>8, <1>9 DEF Getting
<1> QED
  BY <1>4, <1>10 DEF OwedFound

(* Every step keeps what is owed in its place.                              *)
LEMMA FoundStep ==
    ASSUME IsFiniteSet(Senders), LockInv, Counted, OwedFound, [Next]_vars
    PROVE  OwedFound'
<1>1. ASSUME NEW t \in Traces, NewTrace(t) \/ Close(t)
      PROVE  OwedFound'
  BY <1>1, FoundUnchanged DEF NewTrace, Close
<1>2. ASSUME NEW s \in Senders, Register(s) \/ SendMsgReturns(s)
      PROVE  OwedFound'
  BY <1>2, FoundUnchanged DEF Register, SendMsgReturns, traceVars
<1>3. CASE msgCallback
  BY <1>3, FoundUnchanged DEF msgCallback
<1>4. ASSUME NEW p \in Procs, Record(p)
      PROVE  OwedFound'
  BY <1>4, FoundUnchanged DEF Record, traceVars
<1>5. CASE UNCHANGED vars
  BY <1>5, FoundUnchanged DEF vars, traceVars
<1>6. CASE Next
  BY <1>1, <1>2, <1>3, <1>4, <1>6, Steps, FoundSend, FoundTake, FoundStore, FoundClear,
     FoundGet DEF Collecting, Recording
<1> QED
  BY <1>5, <1>6

(* What was in the buffer, in the hand or stored when GetRecords was called *)
(* is in what it returns, unless it was cleared or did not fit: with traces *)
(* created between requests, for any number of traces, goroutines, calls    *)
(* and messages and every size of buffer and list.                          *)
THEOREM GetRecordsComplete ==
    ASSUME QuietStart, IsFiniteSet(Senders)
    PROVE  Spec => []WaitCoversSent
<1>1. Init => OwedFound
  BY DEF Init, OwedFound, Found
<1>2. LockInv /\ Counted /\ OwedFound /\ [Next]_vars => OwedFound'
  BY FoundStep
<1>3. OwedFound => WaitCoversSent
  BY DEF OwedFound, Found, WaitCoversSent
<1>4. Counted /\ ~Overdone => Counted
  OBVIOUS
<1> QED
  BY <1>1, <1>2, <1>3, <1>4, LockInvariance, WaitGroupCovers, PTL DEF Spec
=============================================================================
