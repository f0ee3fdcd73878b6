------------------------------- MODULE Trace -------------------------------
(***************************************************************************)
(* The API trace (core/trace.go): traces created on one connection, the    *)
(* goroutines that register and record messages on whichever of them is    *)
(* installed (processRequest, msgCallback), the goroutine that collects    *)
(* the records of each trace, and the callers of GetRecords.  A record is  *)
(* a number; a program that panics stops.                                  *)
(***************************************************************************)
EXTENDS Naturals, Integers, Sequences, Functions

CONSTANTS Traces,       \* traces the program may create with NewTrace
          Senders,      \* goroutines in processRequest
          Reader,       \* the goroutine in msgCallback
          Getters,      \* goroutines that call GetRecords
          Size,         \* len(records) of every trace
          BufferSize,   \* bufferSize
          MaxMessages,  \* bound: messages sent and received
          QuietStart,   \* NewTrace is called only while no request is in flight
          NoTrace, NilRecord

ASSUME TraceAssumption == /\ Reader \notin Senders /\ NoTrace \notin Traces
                          /\ "free" \notin Senders \cup {Reader}
                          /\ Size \in Nat /\ BufferSize \in Nat \ {0}
                          /\ MaxMessages \in Nat /\ QuietStart \in BOOLEAN

Procs == Senders \cup {Reader}

VARIABLES
    trace,      \* Connection.trace
    traceLock,  \* who holds Connection.traceLock while blocked, or "free"
    status,     \* "none", "open", "closed" (buffer closed)
    wg,         \* Trace.wg
    buffer,     \* Trace.buffer
    taken,      \* <<>> or the record in the collecting goroutine's hand
    records,    \* Trace.records up to Trace.index
    pc,         \* of Procs: "idle", "sending" (in SendMsg), "sent" (wants
                \* traceLock again), "recording" (holds it)
    messages,   \* messages so far; also names them
    record,     \* of Procs: the message at hand, or 0
    getter,     \* of Getters: "idle"; "asleep" and "woken" in wg.Wait; then
                \* "listing", "copying", "returned"; or a panic: "reused" in
                \* wg.Wait, "nilSort" in sort.Slice
    asked,      \* the trace whose records it asked for
    list,       \* its list; of its final length from "copying" on
    owed,       \* ghost: records it must find
    orphans     \* ghost: traces with a message that was registered on them
                \* and will not be recorded on them

msgVars   == <<pc, messages, record>>
getVars   == <<getter, asked, list, owed>>
traceVars == <<status, wg, buffer, taken, records>>
vars == <<trace, traceLock, traceVars, msgVars, getVars, orphans>>

Init == /\ trace = NoTrace
        /\ traceLock = "free"
        /\ status = [t \in Traces |-> "none"]
        /\ wg = [t \in Traces |-> 0]
        /\ buffer = [t \in Traces |-> <<>>]
        /\ taken = [t \in Traces |-> <<>>]
        /\ records = [t \in Traces |-> <<>>]
        /\ pc = [p \in Procs |-> "idle"]
        /\ messages = 0
        /\ record = [p \in Procs |-> 0]
        /\ getter = [g \in Getters |-> "idle"]
        /\ asked = [g \in Getters |-> NoTrace]
        /\ list = [g \in Getters |-> <<>>]
        /\ owed = [g \in Getters |-> {}]
        /\ orphans = {}

-----------------------------------------------------------------------------
(* The life of a trace *)

(* Ghost: a request in flight will not find the trace it is registered on.  *)
TraceGoes == orphans' = IF \E s \in Senders : pc[s] \in {"sending", "sent"}
                        THEN orphans \cup {trace} ELSE orphans

NewTrace(t) ==
    /\ status[t] = "none" /\ traceLock = "free"
    /\ QuietStart => \A s \in Senders : pc[s] = "idle"
    /\ status' = [status EXCEPT ![t] = "open"]
    /\ trace' = t
    /\ TraceGoes
    /\ UNCHANGED <<traceLock, wg, buffer, taken, records, msgVars, getVars>>

(* Mutant of Close: the buffer is closed, the connection keeps the trace.   *)
CloseInstalled(t) ==
    /\ status[t] = "open" /\ traceLock = "free"
    /\ status' = [status EXCEPT ![t] = "closed"]
    /\ UNCHANGED <<trace, traceLock, wg, buffer, taken, records, msgVars,
                   getVars, orphans>>

(* closeFunc: whichever trace is installed goes, then the buffer is closed. *)
Close(t) ==
    /\ status[t] = "open" /\ traceLock = "free"
    /\ trace' = NoTrace
    /\ TraceGoes
    /\ status' = [status EXCEPT ![t] = "closed"]
    /\ UNCHANGED <<traceLock, wg, buffer, taken, records, msgVars,
                   getVars>>

(* Ghost: these records of t need not be found any more.                    *)
Excused(t, rs) ==
    owed' = [g \in Getters |-> IF asked[g] = t THEN owed[g] \ rs ELSE owed[g]]

Clear(t) ==
    /\ status[t] # "none"
    /\ records' = [records EXCEPT ![t] = <<>>]
    /\ Excused(t, Range(records[t]))
    /\ UNCHANGED <<trace, traceLock, status, wg, buffer, taken, msgVars,
                   getter, asked, list, orphans>>

-----------------------------------------------------------------------------
(* Recording *)

NextMessage == messages < MaxMessages /\ messages' = messages + 1

(* p goes on with message n in hand (0: with none).                         *)
Goes(p, where, n) == /\ pc' = [pc EXCEPT ![p] = where]
                     /\ record' = [record EXCEPT ![p] = n]

(* registerNew on the trace that is installed.                              *)
Registered == wg' = IF trace = NoTrace THEN wg ELSE [wg EXCEPT ![trace] = @ + 1]

(* processRequest, before SendMsg...                                        *)
Register(s) ==
    /\ pc[s] = "idle" /\ traceLock = "free"
    /\ NextMessage
    /\ Registered
    /\ Goes(s, "sending", messages')
    /\ UNCHANGED <<trace, traceLock, status, buffer, taken, records,
                   getVars, orphans>>

(* SendMsg returns, with an error or without.  It need not: its write has   *)
(* no deadline.                                                             *)
SendMsgReturns(s) ==
    /\ pc[s] = "sending"
    /\ Goes(s, "sent", record[s])
    /\ UNCHANGED <<trace, traceLock, traceVars, messages, getVars, orphans>>

(* ...and after it, whether or not it failed.                               *)
Record(s) ==
    /\ pc[s] = "sent" /\ traceLock = "free"
    /\ IF trace = NoTrace
       THEN Goes(s, "idle", 0) /\ UNCHANGED traceLock
       ELSE Goes(s, "recording", record[s]) /\ traceLock' = s
    /\ UNCHANGED <<trace, traceVars, messages, getVars, orphans>>

(* Mutant of msgCallback: a failed decode returns without the unlock.       *)
msgCallbackLocked ==
    /\ pc[Reader] = "idle" /\ traceLock = "free" /\ trace # NoTrace
    /\ NextMessage
    /\ Registered
    /\ Goes(Reader, "recording", messages')
    /\ traceLock' \in {Reader, "leaked"}
    /\ UNCHANGED <<trace, status, buffer, taken, records, getVars, orphans>>

(* msgCallback registers and records under one lock; a message that cannot  *)
(* be decoded stays registered.                                             *)
msgCallback ==
    /\ pc[Reader] = "idle" /\ traceLock = "free" /\ trace # NoTrace
    /\ NextMessage
    /\ Registered
    /\ \/ /\ Goes(Reader, "recording", messages')
          /\ traceLock' = Reader
          /\ UNCHANGED orphans
       \/ orphans' = orphans \cup {trace} /\ UNCHANGED <<pc, record, traceLock>>
    /\ UNCHANGED <<trace, status, buffer, taken, records, getVars>>

(* Trace.send: it blocks on a full buffer, and the lock with it.            *)
send(p) ==
    /\ pc[p] = "recording" /\ traceLock = p
    /\ Len(buffer[trace]) < BufferSize
    /\ buffer' = [buffer EXCEPT ![trace] = Append(@, record[p])]
    /\ Goes(p, "idle", 0)
    /\ traceLock' = "free"
    /\ UNCHANGED <<trace, status, wg, taken, records, messages, getVars, orphans>>

(* The collecting goroutine takes a record out of the buffer...             *)
Take(t) ==
    /\ buffer[t] # <<>> /\ taken[t] = <<>>
    /\ taken' = [taken EXCEPT ![t] = <<Head(buffer[t])>>]
    /\ buffer' = [buffer EXCEPT ![t] = Tail(@)]
    /\ UNCHANGED <<trace, traceLock, status, wg, records, msgVars, getVars, orphans>>

(* wg.Done, which wakes all who wait when the counter comes to zero.        *)
Done(t) ==
    /\ wg' = [wg EXCEPT ![t] = @ - 1]
    /\ getter' = [g \in Getters |->
                     IF wg[t] = 1 /\ getter[g] = "asleep" /\ asked[g] = t
                     THEN "woken" ELSE getter[g]]

(* Mutant of Store: a record without room is not counted as done.           *)
StoreUndone(t) ==
    /\ taken[t] # <<>>
    /\ IF Len(records[t]) < Size
       THEN /\ records' = [records EXCEPT ![t] = @ \o taken[t]]
            /\ Done(t)
            /\ UNCHANGED owed
       ELSE Excused(t, Range(taken[t])) /\ UNCHANGED <<records, wg, getter>>
    /\ taken' = [taken EXCEPT ![t] = <<>>]
    /\ UNCHANGED <<trace, traceLock, status, buffer, msgVars, asked, list, orphans>>

(* ...stores it if there is room, and calls wg.Done.                        *)
Store(t) ==
    /\ taken[t] # <<>>
    /\ IF Len(records[t]) < Size
       THEN records' = [records EXCEPT ![t] = @ \o taken[t]] /\ UNCHANGED owed
       ELSE Excused(t, Range(taken[t])) /\ UNCHANGED records
    /\ taken' = [taken EXCEPT ![t] = <<>>]
    /\ Done(t)
    /\ UNCHANGED <<trace, traceLock, status, buffer, msgVars, asked, list, orphans>>

-----------------------------------------------------------------------------
(* GetRecords *)

(* Ghost: what t has in its buffer, in hand or stored must be found.        *)
Owes(g, t) ==
    /\ asked' = [asked EXCEPT ![g] = t]
    /\ owed' = [owed EXCEPT ![g] = Range(records[t]) \cup Range(taken[t])
                                                     \cup Range(buffer[t])]

(* Mutant of GetRecords: no wg.Wait.                                        *)
GetRecordsUnwaited(g, t) ==
    /\ getter[g] = "idle" /\ status[t] # "none"
    /\ getter' = [getter EXCEPT ![g] = "listing"]
    /\ Owes(g, t)
    /\ UNCHANGED <<trace, traceLock, traceVars, msgVars, list, orphans>>

(* The call, up to wg.Wait: it goes on at once when the counter is zero.    *)
GetRecords(g, t) ==
    /\ getter[g] = "idle" /\ status[t] # "none"
    /\ getter' = [getter EXCEPT ![g] = IF wg[t] = 0 THEN "listing" ELSE "asleep"]
    /\ Owes(g, t)
    /\ UNCHANGED <<trace, traceLock, traceVars, msgVars, list, orphans>>

(* wg.Wait, woken, looks at the counter once more: a message registered     *)
(* since makes it panic ("WaitGroup is reused before previous Wait has      *)
(* returned").  So does an Add in the instant in which Done is waking them. *)
Woken(g) ==
    /\ getter[g] = "woken"
    /\ getter' = [getter EXCEPT ![g] =
                     IF wg[asked[g]] = 0 THEN "listing" ELSE "reused"]
    /\ UNCHANGED <<trace, traceLock, traceVars, msgVars, asked, list, owed, orphans>>

(* The list is made, with room for index records.                           *)
MakeList(g) ==
    /\ getter[g] = "listing"
    /\ getter' = [getter EXCEPT ![g] = "copying"]
    /\ list' = [list EXCEPT ![g] = [i \in DOMAIN records[asked[g]] |-> NilRecord]]
    /\ UNCHANGED <<trace, traceLock, traceVars, msgVars, asked, owed, orphans>>

(* The copy under the lock, of records and index as they now are, and the   *)
(* sort, which compares, and so dereferences, every record of two or more.  *)
Copy(g) ==
    /\ getter[g] = "copying"
    /\ list' = [list EXCEPT ![g] = [i \in DOMAIN @ |->
                  IF i \in DOMAIN records[asked[g]] THEN records[asked[g]][i]
                                                    ELSE @[i]]]
    /\ getter' = [getter EXCEPT ![g] =
                     IF Len(list[g]) > 1 /\ NilRecord \in Range(list'[g])
                     THEN "nilSort" ELSE "returned"]
    /\ UNCHANGED <<trace, traceLock, traceVars, msgVars, asked, owed, orphans>>

-----------------------------------------------------------------------------
(* A negative WaitGroup counter panics, and so may GetRecords.              *)
Overdone == \E t \in Traces : wg[t] < 0
Panicked == Overdone \/ \E g \in Getters : getter[g] \in {"reused", "nilSort"}

Recording(p) == Record(p) \/ send(p)
Collecting(t) == Take(t) \/ Store(t)
Getting(g) == Woken(g) \/ MakeList(g) \/ Copy(g)

Next == /\ ~Panicked
        /\ \/ \E t \in Traces : NewTrace(t) \/ Close(t) \/ Clear(t) \/ Collecting(t)
           \/ \E s \in Senders : Register(s) \/ SendMsgReturns(s)
           \/ msgCallback
           \/ \E p \in Procs : Recording(p)
           \/ \E g \in Getters : Getting(g)
           \/ \E g \in Getters, t \in Traces : GetRecords(g, t)

Spec == Init /\ [][Next]_vars

(* Every goroutine goes on, once it can take the lock (SF: sync.Mutex hands *)
(* itself to a waiter that is starved); a SendMsg need not return.          *)
Fairness == /\ \A p \in Procs : SF_vars(~Panicked /\ Recording(p))
            /\ \A t \in Traces : WF_vars(~Panicked /\ Collecting(t))
            /\ \A g \in Getters : WF_vars(~Panicked /\ Getting(g))

FairSpec == Spec /\ Fairness

-----------------------------------------------------------------------------
GetterState == {"idle", "asleep", "woken", "listing", "copying", "returned",
                "reused", "nilSort"}

(* Every variable has its type, and no buffer or list outgrows its size.    *)
TypeOK ==
    /\ trace \in Traces \cup {NoTrace}
    /\ traceLock \in Procs \cup {"free"}
    /\ status \in [Traces -> {"none", "open", "closed"}]
    /\ wg \in [Traces -> Int]
    /\ buffer \in [Traces -> Seq(1..MaxMessages)]
    /\ taken \in [Traces -> {<<>>} \cup {<<n>> : n \in 1..MaxMessages}]
    /\ records \in [Traces -> Seq(1..MaxMessages)]
    /\ \A t \in Traces : Len(buffer[t]) <= BufferSize /\ Len(records[t]) <= Size
    /\ pc \in [Procs -> {"idle", "sending", "sent", "recording"}]
    /\ messages \in 0..MaxMessages
    /\ record \in [Procs -> 0..MaxMessages]
    /\ getter \in [Getters -> GetterState]
    /\ asked \in [Getters -> Traces \cup {NoTrace}]
    /\ list \in [Getters -> Seq((1..MaxMessages) \cup {NilRecord})]
    /\ owed \in [Getters -> SUBSET (1..MaxMessages)]
    /\ orphans \in SUBSET (Traces \cup {NoTrace})

(* Nobody sends on a closed buffer, which would panic: closeFunc takes the  *)
(* trace out of the connection first, and a sender keeps traceLock until its*)
(* record is in.                                                            *)
NoSendOnClosed ==
    \A p \in Procs : pc[p] = "recording" => trace # NoTrace /\ status[trace] = "open"

(* GetRecords "is supposed to wait until all API messages sent to the       *)
(* buffer are processed before returning the list": what was in the buffer  *)
(* when it was called is in the list, unless cleared or beyond the size.    *)
WaitCoversSent ==
    \A g \in Getters : getter[g] = "returned" =>
        owed[g] \subseteq Range(list[g])

(* The trace may slow requests down, but it never stops them: whoever must  *)
(* record a message gets done with it, also on a full buffer.               *)
TraceNeverBlocks ==
    \A p \in Procs : pc[p] \in {"sent", "recording"} ~> pc[p] = "idle" \/ Panicked

(* GetRecords returns: full buffers, full traces, Clear and messages that   *)
(* come meanwhile only delay it, as long as they do not come without a      *)
(* pause (MaxMessages ends them).  It hangs only on a message that was      *)
(* registered and is not recorded, for one because its SendMsg does not     *)
(* return, and else it panics.                                              *)
GetRecordsReturns ==
    \A g \in Getters : getter[g] # "idle" ~>
        \/ getter[g] = "returned" \/ asked[g] \in orphans \/ Panicked
        \/ \E s \in Senders : [](pc[s] = "sending")
=============================================================================
