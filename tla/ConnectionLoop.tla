-------------------------- MODULE ConnectionLoop --------------------------
(***************************************************************************)
(* An asynchronous connection (core/connection.go): the background         *)
(* goroutine that connects, probes VPP and reconnects, the callers of      *)
(* Disconnect, and the channel of connection events.                       *)
(*                                                                         *)
(* The health check's own API channel (replyChan of capacity 1, one        *)
(* watchRequests goroutine) is reduced to what the loop sees of it: how    *)
(* many probes its watcher and VPP hold, and the reply in its replyChan.   *)
(***************************************************************************)
EXTENDS Naturals, Integers, Sequences

CONSTANTS Callers,               \* goroutines that call Disconnect
          MaxAttempts,           \* maxAttempts
          HealthCheckThreshold,  \* HealthCheckThreshold
          ConnBuf,               \* NotificationChanBufSize
          MaxChanges,            \* bound: changes of VPP's state
          MaxProbes,             \* bound: unanswered probes VPP holds
          IdsMayRunOut           \* newAPIChannel may find no free channel ID

ASSUME LoopAssumption == /\ MaxAttempts \in Nat /\ HealthCheckThreshold \in Nat
                         /\ ConnBuf \in Nat /\ MaxChanges \in Nat /\ MaxProbes \in Nat
                         /\ IdsMayRunOut \in BOOLEAN

VARIABLES
    loop,               \* where backgroudConnectionLoop is
    reconnectAttempts,  \* of connectLoop
    failedChecks,       \* of healthCheckLoop
    healthCheckDone,    \* the channel has been closed
    backgroundLoopActive,
    vppConnected,       \* Connection.vppConnected
    adapterOpen,        \* vppClient: calls of Connect minus of Disconnect
    connChan,           \* buffered connection events
    lastEvent,          \* ghost: last event handed to sendConnEvent
    seen,               \* the last event the consumer has received
    discarded,          \* ghost: sendConnEvent has found connChan full
    caller,             \* where each caller of Disconnect is
    vpp,                \* external: "up", "hung" or "down"
    link,               \* external: the adapter's connection to it is alive
    changes,            \* counter of the bound
    probesSent,         \* probes in reqChan or with the watcher
    probesAtVpp,        \* probes VPP has not answered yet
    replyChan,          \* replies to probes
    freshReply          \* lastReply is younger than HealthCheckReplyTimeout

eventVars == <<connChan, lastEvent, seen, discarded>>
probeVars == <<probesSent, probesAtVpp, replyChan, freshReply>>
connVars  == <<vppConnected, adapterOpen>>
doneVars  == <<healthCheckDone, backgroundLoopActive, caller>>
vppVars   == <<vpp, link, changes>>
vars == <<loop, reconnectAttempts, failedChecks, eventVars, probeVars,
          connVars, doneVars, vppVars>>

-----------------------------------------------------------------------------
Init == /\ loop = "connect"
        /\ reconnectAttempts = 0
        /\ failedChecks = 0
        /\ healthCheckDone = FALSE
        /\ backgroundLoopActive = TRUE
        /\ vppConnected = FALSE
        /\ adapterOpen = 0
        /\ connChan = <<>>
        /\ lastEvent = "none"
        /\ seen = "none"
        /\ discarded = FALSE
        /\ caller = [c \in Callers |-> "running"]
        /\ vpp \in {"up", "hung", "down"}
        /\ link = FALSE
        /\ changes = 0
        /\ probesSent = 0
        /\ probesAtVpp = 0
        /\ replyChan = <<>>
        /\ freshReply = FALSE

(* Never blocks: an event that finds the channel full is discarded.         *)
sendConnEvent(event) ==
    /\ lastEvent' = event
    /\ IF Len(connChan) < ConnBuf
       THEN connChan' = Append(connChan, event) /\ UNCHANGED discarded
       ELSE discarded' = TRUE /\ UNCHANGED connChan
    /\ UNCHANGED seen

ReceiveEvent ==
    /\ connChan # <<>>
    /\ seen' = Head(connChan)
    /\ connChan' = Tail(connChan)
    /\ UNCHANGED <<loop, reconnectAttempts, failedChecks, lastEvent, discarded,
                   probeVars, connVars, doneVars, vppVars>>

-----------------------------------------------------------------------------
(* connectLoop *)

(* connectVPP: vppClient.Connect works.                                     *)
AdapterConnects ==
    /\ loop = "connect" /\ vpp = "up"
    /\ adapterOpen' = adapterOpen + 1
    /\ link' = TRUE
    /\ loop' = "identify"
    /\ UNCHANGED <<reconnectAttempts, failedChecks, eventVars, probeVars,
                   vppConnected, doneVars, vpp, changes>>

(* The rest of connectVPP (retrieveMessageIDs never returns an error), and   *)
(* healthCheckLoop opening its channel.                                     *)
ConnectOk ==
    /\ loop = "identify"
    /\ vppConnected' = TRUE
    /\ sendConnEvent("Connected")
    /\ failedChecks' = 0
    /\ \/ loop' = "health"
       \/ IdsMayRunOut /\ loop' = "exited"
    /\ UNCHANGED <<reconnectAttempts, adapterOpen, probeVars, doneVars, vppVars>>

(* After a failed attempt: another one after recInterval, or the end.       *)
AttemptFailed ==
    \/ /\ reconnectAttempts < MaxAttempts
       /\ reconnectAttempts' = reconnectAttempts + 1
       /\ loop' = "retry"
       /\ UNCHANGED eventVars
    \/ /\ reconnectAttempts >= MaxAttempts
       /\ sendConnEvent("Failed")
       /\ loop' = "exited"
       /\ UNCHANGED reconnectAttempts

(* vppClient.Connect fails: no socket, a refused connection, no answer.     *)
ConnectFails ==
    /\ loop = "connect" /\ vpp # "up"
    /\ AttemptFailed
    /\ UNCHANGED <<failedChecks, probeVars, connVars, doneVars, vppVars>>

(* The select between attempts.  Its timer starts with it, so a closed      *)
(* healthCheckDone always wins.                                             *)
Retry ==
    /\ loop = "retry"
    /\ loop' = IF healthCheckDone THEN "exited" ELSE "connect"
    /\ UNCHANGED <<reconnectAttempts, failedChecks, eventVars, probeVars,
                   connVars, doneVars, vppVars>>

-----------------------------------------------------------------------------
(* healthCheckLoop *)

(* The deferred ch.Close(): replies still owed find no channel.             *)
CloseProbeChannel == /\ probesSent' = 0
                     /\ probesAtVpp' = 0
                     /\ replyChan' = <<>>
                     /\ UNCHANGED freshReply

(* The outer select takes healthCheckDone.                                  *)
HealthCheckTerminates ==
    /\ loop = "health" /\ healthCheckDone
    /\ CloseProbeChannel
    /\ loop' = "exited"
    /\ UNCHANGED <<reconnectAttempts, failedChecks, eventVars, connVars,
                   doneVars, vppVars>>

(* The outer select takes a tick of probeInterval; an old reply is drained. *)
ProbeTick ==
    /\ loop = "health"
    /\ loop' = "sending"
    /\ replyChan' = <<>>
    /\ UNCHANGED <<reconnectAttempts, failedChecks, probesSent, probesAtVpp,
                   freshReply, eventVars, connVars, doneVars, vppVars>>

(* The next probe goes into reqChan: one slot, and one probe in the hands   *)
(* of the watcher.  With both taken the loop blocks here, outside of any    *)
(* select.  A reply received before now is too old for the wait to come.    *)
SendProbe ==
    /\ loop = "sending" /\ probesSent < 2
    /\ loop' = "probing"
    /\ probesSent' = probesSent + 1
    /\ freshReply' = FALSE
    /\ UNCHANGED <<reconnectAttempts, failedChecks, probesAtVpp, replyChan,
                   eventVars, connVars, doneVars, vppVars>>

(* Mutant of ProbeReply: a failed probe ends the check without an event.    *)
ProbeReplySilent ==
    /\ loop = "probing" /\ replyChan # <<>>
    /\ replyChan' = <<>>
    /\ IF Head(replyChan) = "ok" THEN failedChecks' = 0 /\ loop' = "health"
                                 ELSE loop' = "cleanup" /\ UNCHANGED failedChecks
    /\ UNCHANGED <<reconnectAttempts, probesSent, probesAtVpp, freshReply,
                   eventVars, connVars, doneVars, vppVars>>

(* The inner select takes a reply: a success clears the count of failures,  *)
(* an error ends the health check.                                          *)
ProbeReply ==
    /\ loop = "probing" /\ replyChan # <<>>
    /\ replyChan' = <<>>
    /\ \/ /\ Head(replyChan) = "ok"
          /\ failedChecks' = 0
          /\ loop' = "health"
          /\ UNCHANGED eventVars
       \/ /\ Head(replyChan) = "error"
          /\ sendConnEvent("Disconnected")
          /\ loop' = "cleanup"
          /\ UNCHANGED failedChecks
    /\ UNCHANGED <<reconnectAttempts, probesSent, probesAtVpp, freshReply,
                   connVars, doneVars, vppVars>>

(* Mutant of CheckFailed: "break" leaves the select, not the loop.          *)
CheckFailedUnbroken ==
    /\ failedChecks' = IF failedChecks > HealthCheckThreshold
                       THEN failedChecks ELSE failedChecks + 1
    /\ IF failedChecks' > HealthCheckThreshold
       THEN sendConnEvent("NotResponding") ELSE UNCHANGED eventVars
    /\ loop' = "health"

(* ErrProbeTimeout: one more failed check.                                  *)
CheckFailed ==
    /\ failedChecks' = failedChecks + 1
    /\ IF failedChecks' > HealthCheckThreshold
       THEN sendConnEvent("NotResponding") /\ loop' = "cleanup"
       ELSE loop' = "health" /\ UNCHANGED eventVars

(* Mutant of ProbeTimesOut: the time of the last reply is read only once,   *)
(* so one recent reply keeps the loop waiting for ever.                     *)
ProbeTimesOutStale ==
    /\ loop = "probing" /\ replyChan = <<>> /\ ~freshReply
    /\ CheckFailed
    /\ UNCHANGED <<reconnectAttempts, probeVars, connVars, doneVars, vppVars>>

(* The inner select times out.  While other channels receive replies it     *)
(* only waits again, without looking at healthCheckDone.                    *)
ProbeTimesOut ==
    /\ loop = "probing" /\ replyChan = <<>>
    /\ \/ /\ freshReply
          /\ freshReply' = FALSE
          /\ UNCHANGED <<loop, failedChecks, eventVars>>
       \/ /\ ~freshReply
          /\ CheckFailed
          /\ UNCHANGED freshReply
    /\ UNCHANGED <<reconnectAttempts, probesSent, probesAtVpp, replyChan,
                   connVars, doneVars, vppVars>>

-----------------------------------------------------------------------------
(* disconnectVPP: a compare-and-swap on vppConnected, and the adapter's     *)
(* Disconnect for the goroutine whose swap succeeds.  The latter writes     *)
(* sockclnt_delete without a deadline, so it need not return: Fairness      *)
(* below asks for it only when WritesReturn.                                *)

(* Mutant of swapped: vppConnected is not consulted.                        *)
swappedAlways == TRUE

swapped == vppConnected

AdapterDisconnects == /\ adapterOpen' = adapterOpen - 1
                      /\ link' = FALSE
                      /\ UNCHANGED <<vppConnected, vpp, changes>>

Reconnecting == loop' = "connect" /\ reconnectAttempts' = 0

(* The cleanup of healthCheckLoop, its deferred Close, and connectLoop      *)
(* starting over.                                                           *)
Cleanup ==
    /\ loop = "cleanup"
    /\ vppConnected' = FALSE
    /\ CloseProbeChannel
    /\ IF swapped THEN loop' = "closing" /\ UNCHANGED reconnectAttempts
                  ELSE Reconnecting
    /\ UNCHANGED <<failedChecks, adapterOpen, eventVars, doneVars, vppVars>>

(* Mutant of CleanupCloses: healthCheckLoop returns terminate.              *)
CleanupTerminates ==
    /\ loop = "closing"
    /\ AdapterDisconnects
    /\ loop' = "exited"
    /\ UNCHANGED <<reconnectAttempts, failedChecks, eventVars, probeVars,
                   doneVars>>

CleanupCloses ==
    /\ loop = "closing"
    /\ AdapterDisconnects
    /\ Reconnecting
    /\ UNCHANGED <<failedChecks, eventVars, probeVars, doneVars>>

-----------------------------------------------------------------------------
(* Disconnect, by any number of callers *)

loopVars == <<loop, reconnectAttempts, failedChecks>>

(* Mutant of DisconnectCall: healthCheckDone is never closed.               *)
DisconnectCallSilent(c) ==
    /\ caller[c] = "running"
    /\ backgroundLoopActive' = FALSE
    /\ caller' = [caller EXCEPT ![c] = "waiting"]
    /\ UNCHANGED <<loopVars, healthCheckDone, eventVars, probeVars, connVars,
                   vppVars>>

DisconnectCall(c) ==
    /\ caller[c] = "running"
    /\ healthCheckDone' = (healthCheckDone \/ backgroundLoopActive)
    /\ backgroundLoopActive' = FALSE
    /\ caller' = [caller EXCEPT ![c] = "waiting"]
    /\ UNCHANGED <<loopVars, eventVars, probeVars, connVars, vppVars>>

(* Mutant of DisconnectWakes: it does not wait for healthCheckExited.       *)
DisconnectWakesEarly(c) ==
    /\ caller[c] = "waiting"
    /\ vppConnected' = FALSE
    /\ caller' = [caller EXCEPT ![c] = IF swapped THEN "closing" ELSE "returned"]
    /\ UNCHANGED <<loopVars, healthCheckDone, backgroundLoopActive, adapterOpen,
                   eventVars, probeVars, vppVars>>

(* healthCheckExited has been closed by the return of the loop.             *)
DisconnectWakes(c) ==
    /\ caller[c] = "waiting" /\ loop = "exited"
    /\ vppConnected' = FALSE
    /\ caller' = [caller EXCEPT ![c] = IF swapped THEN "closing" ELSE "returned"]
    /\ UNCHANGED <<loopVars, healthCheckDone, backgroundLoopActive, adapterOpen,
                   eventVars, probeVars, vppVars>>

DisconnectCloses(c) ==
    /\ caller[c] = "closing"
    /\ AdapterDisconnects
    /\ caller' = [caller EXCEPT ![c] = "returned"]
    /\ UNCHANGED <<loopVars, healthCheckDone, backgroundLoopActive, eventVars,
                   probeVars>>

-----------------------------------------------------------------------------
(* The probe's way to VPP and back *)

PutReply(reply) ==
    replyChan' = IF replyChan = <<>> THEN <<reply>> ELSE replyChan

(* watchRequests sends a probe: SendMsg works unless the connection is lost,*)
(* and returns for sure only when WritesReturn (below).                     *)
WatcherSendsProbe ==
    /\ probesSent > 0
    /\ probesSent' = probesSent - 1
    /\ IF link
       THEN /\ probesAtVpp' = IF probesAtVpp < MaxProbes THEN probesAtVpp + 1
                                                         ELSE probesAtVpp
            /\ UNCHANGED replyChan
       ELSE PutReply("error") /\ UNCHANGED probesAtVpp
    /\ UNCHANGED <<loopVars, freshReply, eventVars, connVars, doneVars, vppVars>>

VppAnswers == vpp = "up" /\ link

(* A probe is answered, in time or late; a reply that finds replyChan full  *)
(* is dropped (sendReply).                                                  *)
VppAnswersProbe ==
    /\ VppAnswers /\ probesAtVpp > 0
    /\ probesAtVpp' = probesAtVpp - 1
    /\ PutReply("ok")
    /\ freshReply' = TRUE
    /\ UNCHANGED <<loopVars, probesSent, eventVars, connVars, doneVars, vppVars>>

(* A reply on any other channel.                                            *)
VppAnswersOthers ==
    /\ VppAnswers
    /\ freshReply' = TRUE
    /\ UNCHANGED <<loopVars, probesSent, probesAtVpp, replyChan, eventVars,
                   connVars, doneVars, vppVars>>

(* VPP hangs, recovers, dies or restarts: its death ends the connection.    *)
VppChanges ==
    /\ changes < MaxChanges
    /\ changes' = changes + 1
    /\ vpp' \in {"up", "hung", "down"} \ {vpp}
    /\ IF vpp' = "down" THEN link' = FALSE /\ probesAtVpp' = 0
                        ELSE UNCHANGED <<link, probesAtVpp>>
    /\ UNCHANGED <<loopVars, probesSent, replyChan, freshReply, eventVars,
                   connVars, doneVars>>

-----------------------------------------------------------------------------
BackgroundLoop ==
    \/ AdapterConnects \/ ConnectOk \/ ConnectFails \/ Retry
    \/ HealthCheckTerminates \/ ProbeTick \/ SendProbe \/ ProbeReply \/ ProbeTimesOut
    \/ Cleanup \/ CleanupCloses

Next == \/ BackgroundLoop
        \/ \E c \in Callers :
              DisconnectCall(c) \/ DisconnectWakes(c) \/ DisconnectCloses(c)
        \/ ReceiveEvent
        \/ WatcherSendsProbe \/ VppAnswersProbe \/ VppAnswersOthers
        \/ VppChanges

Spec == Init /\ [][Next]_vars

(* The adapter's writeMsg sets no deadline: it returns when VPP reads, or   *)
(* with an error when the connection is dead.  With a hung VPP it may (room *)
(* in the socket) or may not (a full one).  Connect's handshake is not      *)
(* concerned: it writes to an empty socket and reads with a deadline.       *)
WritesReturn == link => vpp = "up"

(* Every goroutine keeps running, but for a write that does not return, and *)
(* its timers fire; a select whose cases are ready again and again picks    *)
(* each of them some time (SF); the consumer reads connChan; and a VPP that *)
(* is up answers a control ping.  VPP is free to stay hung or down.         *)
Fairness == /\ WF_vars(BackgroundLoop /\ (loop = "closing" => WritesReturn))
            /\ SF_vars(HealthCheckTerminates)
            /\ \A c \in Callers : /\ WF_vars(DisconnectWakes(c))
                                  /\ WF_vars(DisconnectCloses(c) /\ WritesReturn)
            /\ WF_vars(ReceiveEvent)
            /\ WF_vars(WatcherSendsProbe /\ WritesReturn)
            /\ WF_vars(VppAnswersProbe)

FairSpec == Spec /\ Fairness

-----------------------------------------------------------------------------
Events == {"Connected", "NotResponding", "Disconnected", "Failed"}

(* Every variable has its type; the attempts of one outage and the failed   *)
(* checks stay within the configured limits.                                *)
TypeOK ==
    /\ loop \in {"connect", "identify", "retry", "health", "sending", "probing",
                 "cleanup", "closing", "exited"}
    /\ reconnectAttempts \in 0..MaxAttempts
    /\ failedChecks \in 0..(HealthCheckThreshold + 1)
    /\ healthCheckDone \in BOOLEAN /\ backgroundLoopActive \in BOOLEAN
    /\ vppConnected \in BOOLEAN /\ adapterOpen \in {0, 1}
    /\ connChan \in Seq(Events) /\ Len(connChan) <= ConnBuf
    /\ lastEvent \in Events \cup {"none"} /\ seen \in Events \cup {"none"}
    /\ discarded \in BOOLEAN
    /\ caller \in [Callers -> {"running", "waiting", "closing", "returned"}]
    /\ vpp \in {"up", "hung", "down"} /\ link \in BOOLEAN
    /\ changes \in 0..MaxChanges
    /\ probesSent \in 0..2 /\ probesAtVpp \in 0..MaxProbes
    /\ replyChan \in {<<>>, <<"ok">>, <<"error">>}
    /\ freshReply \in BOOLEAN

(* Where vppClient is connected without vppConnected saying so.             *)
Opening == loop = "identify"
Closers == {c \in Callers : caller[c] = "closing"}

(* The adapter is connected exactly while vppConnected says so or somebody  *)
(* is between the two, and at most one goroutine is: no Connect on top of a *)
(* connection, no Disconnect of one that is gone (disconnectVPP).           *)
AdapterBalanced ==
    /\ adapterOpen = IF vppConnected \/ Opening \/ loop = "closing" \/ Closers # {}
                     THEN 1 ELSE 0
    /\ (Opening \/ loop = "closing" \/ Closers # {}) => ~vppConnected
    /\ \A c, d \in Closers : c = d

(* Once a Disconnect has returned, the background loop has ended, and the   *)
(* adapter is closed unless a concurrent Disconnect is just closing it:     *)
(* nothing reconnects behind the caller's back.                             *)
DisconnectFinal ==
    (\E c \in Callers : caller[c] = "returned") =>
        /\ loop = "exited"
        /\ ~vppConnected
        /\ adapterOpen = 0 \/ Closers # {}

(* Events alternate: Connected comes first or after an outage, an outage is *)
(* reported once, and nothing follows Failed.                               *)
EventOrder ==
    [][lastEvent' # lastEvent \/ connChan' # connChan =>
         \/ /\ lastEvent' = lastEvent
            /\ connChan # <<>> /\ connChan' = Tail(connChan)
         \/ /\ lastEvent' \in {"Connected", "Failed"}
            /\ lastEvent \in {"none", "NotResponding", "Disconnected"}
         \/ /\ lastEvent' \in {"NotResponding", "Disconnected"}
            /\ lastEvent = "Connected"]_vars

(* The last event the program has been told of is the state of the          *)
(* connection, unless events were discarded: a loop at work is Connected    *)
(* exactly when it is checking the health of a connection.                  *)
EventTellsState ==
    LET last == IF connChan = <<>> THEN seen ELSE connChan[Len(connChan)]
    IN ~discarded /\ loop # "exited" =>
         (last = "Connected" <=> loop \in {"health", "sending", "probing"})

(* The health check has ended because no channel ID was free: the outage    *)
(* will not be noticed.                                                     *)
Unwatched == loop = "exited" /\ lastEvent = "Connected"

(* A hung VPP with a full socket holds up the loop or a Disconnect: both    *)
(* probes are unsent and the loop waits for room in reqChan (where it does  *)
(* not see healthCheckDone), or the adapter's Disconnect is writing.        *)
Blocked == /\ link /\ vpp = "hung"
           /\ \/ loop = "sending" /\ probesSent = 2
              \/ loop = "closing" \/ Closers # {}

(* If VPP goes away for good, hung or dead, the program hears Failed, unless*)
(* it called Disconnect, the event was discarded, nobody probes VPP, or the *)
(* loop is Blocked for good (api.ConnectionEvent).                          *)
GivesUp == <>[](vpp # "up") =>
              \/ <>(seen = "Failed" \/ discarded \/ healthCheckDone \/ Unwatched)
              \/ <>[]Blocked

(* With a VPP that stays up the library has a live connection to it again   *)
(* and again, unless it has given up, was told to stop, or nobody probes:   *)
(* the flag vppConnected alone could be that of a VPP that has gone.        *)
Reconnects == <>[](vpp = "up") =>
                 []<>(\/ vppConnected /\ link
                      \/ lastEvent = "Failed" \/ healthCheckDone \/ Unwatched)

(* Disconnect returns, whatever the loop is doing and however VPP changes   *)
(* meanwhile, unless a hung VPP keeps it or the loop Blocked for ever.      *)
DisconnectReturns ==
    \A c \in Callers : caller[c] = "waiting" ~>
                         caller[c] = "returned" \/ []Blocked

(* "In case of disconnect, the library will asynchronously try to           *)
(* reconnect." (AsyncConnect): Reconnects with no exception for a health    *)
(* check that found no free channel ID.  The code does not do that.         *)
ReconnectsAlways == <>[](vpp = "up") =>
                       []<>(\/ vppConnected /\ link
                            \/ lastEvent = "Failed" \/ healthCheckDone)
=============================================================================
