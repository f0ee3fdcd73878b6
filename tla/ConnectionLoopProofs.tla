----------------------- MODULE ConnectionLoopProofs -----------------------
(***************************************************************************)
(* The safety properties of ConnectionLoop, for any number of callers of   *)
(* Disconnect, any limits of the configuration and any event buffer.       *)
(***************************************************************************)
EXTENDS ConnectionLoop, SequenceTheorems, TLAPS

(* What the place of the background loop says about the connection, the     *)
(* count of failed checks, the last event and the callers of Disconnect.    *)
LoopState ==
    /\ loop \in {"health", "sending", "probing", "cleanup"} => vppConnected
    /\ loop \in {"connect", "identify", "retry", "closing"} => ~vppConnected
    /\ loop \in {"health", "sending", "probing"} =>
          failedChecks <= HealthCheckThreshold /\ lastEvent = "Connected"
    /\ loop \in {"connect", "identify", "retry"} =>
          lastEvent \in {"none", "NotResponding", "Disconnected"}
    /\ loop \in {"cleanup", "closing"} =>
          lastEvent \in {"NotResponding", "Disconnected"}
    /\ \A c \in Callers : caller[c] \in {"closing", "returned"} =>
          loop = "exited" /\ ~vppConnected

(* The last event the program has been sent, unless events were discarded.  *)
LastTold == IF connChan = <<>> THEN seen ELSE connChan[Len(connChan)]
Told == ~discarded => LastTold = lastEvent

IInv == TypeOK /\ LoopState /\ AdapterBalanced /\ Told

-----------------------------------------------------------------------------
(* Events *)

(* sendConnEvent keeps the channel within its buffer; it appends the event  *)
(* or records that it was discarded.                                        *)
LEMMA SendConnEvent ==
    ASSUME TypeOK, NEW event \in Events, sendConnEvent(event)
    PROVE  /\ connChan' \in Seq(Events) /\ Len(connChan') <= ConnBuf
           /\ lastEvent' = event /\ seen' = seen /\ discarded' \in BOOLEAN
           /\ Told'
<1>1. lastEvent' = event /\ seen' = seen
  BY DEF sendConnEvent
<1>2. CASE Len(connChan) < ConnBuf
  <2>1. connChan' = Append(connChan, event) /\ discarded' = discarded
    BY <1>2 DEF sendConnEvent
  <2>2. /\ connChan' \in Seq(Events) /\ Len(connChan') = Len(connChan) + 1
        /\ connChan'[Len(connChan')] = event /\ connChan' # <<>>
    BY <2>1 DEF TypeOK
  <2>3. Len(connChan') <= ConnBuf
    BY <1>2, <2>2, LoopAssumption DEF TypeOK
  <2>4. Told'
    BY <1>1, <2>2 DEF Told, LastTold
  <2> QED
    BY <1>1, <2>1, <2>2, <2>3, <2>4 DEF TypeOK
<1>3. CASE ~(Len(connChan) < ConnBuf)
  <2>1. connChan' = connChan /\ discarded' = TRUE
    BY <1>3 DEF sendConnEvent
  <2> QED
    BY <1>1, <2>1 DEF TypeOK, Told
<1> QED
  BY <1>2, <1>3

(* The program takes the oldest event.                                      *)
LEMMA ReceiveEventTold ==
    ASSUME TypeOK, Told, ReceiveEvent
    PROVE  /\ connChan' \in Seq(Events) /\ Len(connChan') <= ConnBuf
           /\ seen' \in Events /\ Told'
<1>1. /\ connChan \in Seq(Events) /\ connChan # <<>> /\ Len(connChan) <= ConnBuf
      /\ seen' = Head(connChan) /\ connChan' = Tail(connChan)
      /\ lastEvent' = lastEvent /\ discarded' = discarded
  BY DEF ReceiveEvent, TypeOK
<1>2. /\ connChan' \in Seq(Events) /\ Len(connChan') = Len(connChan) - 1
      /\ Len(connChan) \in Nat /\ Len(connChan) > 0 /\ seen' \in Events
      /\ seen' = connChan[1]
  BY <1>1
<1>3. LastTold' = LastTold
  <2>1. CASE Len(connChan) = 1
    <3>1. connChan' = <<>>
      BY <1>2, <2>1
    <3> QED
      BY <1>1, <1>2, <2>1, <3>1 DEF LastTold
  <2>2. CASE Len(connChan) > 1
    <3>1. connChan' # <<>>
      BY <1>2, <2>2
    <3>2. connChan'[Len(connChan')] = connChan[Len(connChan)]
      BY <1>1, <1>2, <2>2
    <3> QED
      BY <1>1, <3>1, <3>2 DEF LastTold
  <2> QED
    BY <1>2, <2>1, <2>2
<1> QED
  BY <1>1, <1>2, <1>3, LoopAssumption DEF Told

-----------------------------------------------------------------------------
(* Initial states *)

(* The loop starts unconnected, without events and without probes.          *)
LEMMA InitIInv == Init => IInv
<1> SUFFICES ASSUME Init
             PROVE  IInv
  OBVIOUS
<1>1. TypeOK
  <2>1. connChan \in Seq(Events) /\ Len(connChan) <= ConnBuf
    BY LoopAssumption DEF Init
  <2>2. replyChan \in {<<>>, <<"ok">>, <<"error">>}
    BY DEF Init
  <2>3. /\ reconnectAttempts \in 0..MaxAttempts
        /\ failedChecks \in 0..(HealthCheckThreshold + 1)
        /\ changes \in 0..MaxChanges
        /\ probesSent \in 0..2 /\ probesAtVpp \in 0..MaxProbes
    BY LoopAssumption DEF Init
  <2>4. caller \in [Callers -> {"running", "waiting", "closing", "returned"}]
    BY DEF Init
  <2> QED
    BY <2>1, <2>2, <2>3, <2>4 DEF Init, TypeOK
<1>2. LoopState
  BY DEF Init, LoopState
<1>3. AdapterBalanced
  BY DEF Init, AdapterBalanced, Opening, Closers
<1>4. Told
  BY DEF Init, Told, LastTold
<1> QED
  BY <1>1, <1>2, <1>3, <1>4 DEF IInv

-----------------------------------------------------------------------------
(* Types *)

(* What AttemptFailed, ProbeReply and CheckFailed leave in the event        *)
(* variables has its type.                                                  *)
EventTypes ==
    /\ connChan \in Seq(Events) /\ Len(connChan) <= ConnBuf
    /\ lastEvent \in Events \cup {"none"} /\ seen \in Events \cup {"none"}
    /\ discarded \in BOOLEAN

(* sendConnEvent keeps the types of the event variables.                    *)
LEMMA SendConnEventTypes ==
    ASSUME TypeOK, NEW event \in Events, sendConnEvent(event)
    PROVE  EventTypes'
<1>1. /\ connChan' \in Seq(Events) /\ Len(connChan') <= ConnBuf
      /\ lastEvent' = event /\ seen' = seen /\ discarded' \in BOOLEAN
  BY SendConnEvent
<1> QED
  BY <1>1 DEF TypeOK, EventTypes

(* So does a step that leaves the events alone.                             *)
LEMMA UnchangedEventTypes ==
    ASSUME TypeOK, UNCHANGED eventVars
    PROVE  EventTypes'
BY DEF TypeOK, EventTypes, eventVars

(* The variables TypeOK bounds besides the events.                          *)
LoopTypes ==
    /\ loop \in {"connect", "identify", "retry", "health", "sending", "probing",
                 "cleanup", "closing", "exited"}
    /\ reconnectAttempts \in 0..MaxAttempts
    /\ failedChecks \in 0..(HealthCheckThreshold + 1)
CallTypes ==
    /\ healthCheckDone \in BOOLEAN /\ backgroundLoopActive \in BOOLEAN
    /\ vppConnected \in BOOLEAN /\ adapterOpen \in {0, 1}
    /\ caller \in [Callers -> {"running", "waiting", "closing", "returned"}]
    /\ vpp \in {"up", "hung", "down"} /\ link \in BOOLEAN
    /\ changes \in 0..MaxChanges
ProbeTypes ==
    /\ probesSent \in 0..2 /\ probesAtVpp \in 0..MaxProbes
    /\ replyChan \in {<<>>, <<"ok">>, <<"error">>}
    /\ freshReply \in BOOLEAN

(* TypeOK is its four parts, before and after a step.                       *)
LEMMA TypeParts ==
    /\ TypeOK => LoopTypes /\ CallTypes /\ ProbeTypes /\ EventTypes
    /\ LoopTypes' /\ CallTypes' /\ ProbeTypes' /\ EventTypes' => TypeOK'
BY DEF TypeOK, LoopTypes, CallTypes, ProbeTypes, EventTypes

(* A failed attempt of connectLoop counts one more or gives up, so that     *)
(* the count stays within MaxAttempts.                                      *)
LEMMA AttemptFailedTypes ==
    ASSUME TypeOK, AttemptFailed, UNCHANGED failedChecks
    PROVE  LoopTypes' /\ EventTypes'
<1>1. CASE reconnectAttempts < MaxAttempts
  <2>1. /\ reconnectAttempts' = reconnectAttempts + 1 /\ loop' = "retry"
        /\ UNCHANGED eventVars
    BY <1>1, LoopAssumption DEF AttemptFailed, TypeOK
  <2> QED
    BY <1>1, <2>1, UnchangedEventTypes, LoopAssumption DEF TypeOK, LoopTypes
<1>2. CASE reconnectAttempts >= MaxAttempts
  <2>1. /\ reconnectAttempts' = reconnectAttempts /\ loop' = "exited"
        /\ sendConnEvent("Failed")
    BY <1>2, LoopAssumption DEF AttemptFailed, TypeOK
  <2> QED
    BY <2>1, SendConnEventTypes DEF TypeOK, LoopTypes, Events
<1> QED
  BY <1>1, <1>2 DEF AttemptFailed

(* A timed-out probe of healthCheckLoop counts one more, which ends the loop *)
(* before the count leaves its range.                                       *)
LEMMA CheckFailedTypes ==
    ASSUME TypeOK, failedChecks <= HealthCheckThreshold, CheckFailed,
           UNCHANGED reconnectAttempts
    PROVE  LoopTypes' /\ EventTypes'
<1>1. failedChecks' \in 0..(HealthCheckThreshold + 1)
  BY LoopAssumption DEF CheckFailed, TypeOK
<1>2. CASE failedChecks' > HealthCheckThreshold
  <2>1. sendConnEvent("NotResponding") /\ loop' = "cleanup"
    BY <1>2 DEF CheckFailed
  <2> QED
    BY <1>1, <2>1, SendConnEventTypes DEF TypeOK, LoopTypes, Events
<1>3. CASE ~(failedChecks' > HealthCheckThreshold)
  <2>1. UNCHANGED eventVars /\ loop' = "health"
    BY <1>3 DEF CheckFailed
  <2> QED
    BY <1>1, <2>1, UnchangedEventTypes DEF TypeOK, LoopTypes
<1> QED
  BY <1>2, <1>3

(* sendReply never puts a second reply into the probe's one-slot replyChan. *)
LEMMA PutReplyType ==
    ASSUME TypeOK, NEW reply \in {"ok", "error"}, PutReply(reply)
    PROVE  replyChan' \in {<<>>, <<"ok">>, <<"error">>}
BY DEF TypeOK, PutReply

(* The adapter is opened when it is closed and closed when it is open, so   *)
(* its count stays within 0 and 1.                                          *)
LEMMA AdapterTypes ==
    ASSUME TypeOK, LoopState, AdapterBalanced,
           \/ AdapterConnects \/ CleanupCloses
           \/ \E c \in Callers : DisconnectCloses(c)
    PROVE  adapterOpen' \in {0, 1}
<1>1. CASE AdapterConnects
  <2>1. loop = "connect" /\ ~vppConnected
    BY <1>1 DEF AdapterConnects, LoopState
  <2>2. Closers = {}
    BY <2>1 DEF Closers, LoopState
  <2>3. adapterOpen = 0
    BY <2>1, <2>2 DEF AdapterBalanced, Opening
  <2> QED
    BY <1>1, <2>3 DEF AdapterConnects
<1>2. CASE CleanupCloses
  <2>1. adapterOpen = 1
    BY <1>2 DEF CleanupCloses, AdapterBalanced
  <2> QED
    BY <1>2, <2>1 DEF CleanupCloses, AdapterDisconnects
<1>3. ASSUME NEW c \in Callers, DisconnectCloses(c)
      PROVE  adapterOpen' \in {0, 1}
  <2>1. c \in Closers
    BY <1>3 DEF DisconnectCloses, Closers
  <2>2. adapterOpen = 1
    BY <2>1 DEF AdapterBalanced
  <2> QED
    BY <1>3, <2>2 DEF DisconnectCloses, AdapterDisconnects
<1> QED
  BY <1>1, <1>2, <1>3

(* Every step keeps the types.  It needs LoopState, because the ranges of   *)
(* the adapter and of the failed checks depend on where the loop is.        *)
LEMMA NextTypeOK ==
    ASSUME IInv, [Next]_vars
    PROVE  TypeOK'
<1> USE DEF IInv
<1>0. LoopTypes /\ CallTypes /\ ProbeTypes /\ EventTypes
  BY TypeParts
<1>1. CASE AdapterConnects
  <2>1. adapterOpen' \in {0, 1}
    BY <1>1, AdapterTypes
  <2>2. LoopTypes' /\ CallTypes'
    BY <1>0, <1>1, <2>1
       DEF AdapterConnects, LoopTypes, CallTypes, doneVars
  <2>3. ProbeTypes' /\ EventTypes'
    BY <1>0, <1>1, UnchangedEventTypes
       DEF AdapterConnects, ProbeTypes, probeVars
  <2> QED
    BY <2>2, <2>3, TypeParts
<1>2. CASE ConnectOk
  <2>1. EventTypes'
    BY <1>2, SendConnEventTypes DEF ConnectOk, Events
  <2>2. LoopTypes' /\ CallTypes'
    BY <1>0, <1>2, LoopAssumption
       DEF ConnectOk, LoopTypes, CallTypes, doneVars, vppVars
  <2>3. ProbeTypes'
    BY <1>0, <1>2 DEF ConnectOk, ProbeTypes, probeVars
  <2> QED
    BY <2>1, <2>2, <2>3, TypeParts
<1>3. CASE ConnectFails
  <2>1. LoopTypes' /\ EventTypes'
    BY <1>3, AttemptFailedTypes DEF ConnectFails
  <2>2. CallTypes' /\ ProbeTypes'
    BY <1>0, <1>3
       DEF ConnectFails, CallTypes, ProbeTypes, probeVars, connVars, doneVars, vppVars
  <2> QED
    BY <2>1, <2>2, TypeParts
<1>4. CASE Retry \/ HealthCheckTerminates \/ ProbeTick \/ SendProbe
  <2>1. EventTypes'
    BY <1>4, UnchangedEventTypes
       DEF Retry, HealthCheckTerminates, ProbeTick, SendProbe
  <2>2. LoopTypes'
    BY <1>0, <1>4 DEF Retry, HealthCheckTerminates, ProbeTick, SendProbe, LoopTypes
  <2>3. CallTypes'
    BY <1>0, <1>4
       DEF Retry, HealthCheckTerminates, ProbeTick, SendProbe, CallTypes, connVars,
           doneVars, vppVars
  <2>4. ProbeTypes'
    <3>1. CASE Retry
      BY <1>0, <3>1 DEF Retry, ProbeTypes, probeVars
    <3>2. CASE HealthCheckTerminates
      BY <1>0, <3>2, LoopAssumption
         DEF HealthCheckTerminates, CloseProbeChannel, ProbeTypes
    <3>3. CASE SendProbe
      <4>1. /\ probesSent \in 0..2 /\ probesSent < 2
            /\ probesSent' = probesSent + 1 /\ probesAtVpp' = probesAtVpp
            /\ replyChan' = replyChan /\ freshReply' = FALSE
        BY <1>0, <3>3 DEF SendProbe, ProbeTypes
      <4>2. probesSent' \in 0..2
        BY <4>1
      <4> QED
        BY <1>0, <4>1, <4>2 DEF ProbeTypes
    <3>4. CASE ProbeTick
      BY <1>0, <3>4 DEF ProbeTick, ProbeTypes
    <3> QED
      BY <1>4, <3>1, <3>2, <3>3, <3>4
  <2> QED
    BY <2>1, <2>2, <2>3, <2>4, TypeParts
<1>5. CASE ProbeReply
  <2>1. EventTypes'
    <3>1. UNCHANGED eventVars \/ sendConnEvent("Disconnected")
      BY <1>5 DEF ProbeReply
    <3>2. "Disconnected" \in Events
      BY DEF Events
    <3> QED
      BY <3>1, <3>2, UnchangedEventTypes, SendConnEventTypes
  <2>2. LoopTypes'
    BY <1>0, <1>5, LoopAssumption DEF ProbeReply, LoopTypes
  <2>3. CallTypes' /\ ProbeTypes'
    BY <1>0, <1>5
       DEF ProbeReply, CallTypes, ProbeTypes, connVars, doneVars, vppVars
  <2> QED
    BY <2>1, <2>2, <2>3, TypeParts
<1>6. CASE ProbeTimesOut
  <2>1. failedChecks <= HealthCheckThreshold
    BY <1>6 DEF ProbeTimesOut, LoopState
  <2>2. LoopTypes' /\ EventTypes'
    <3>1. CASE freshReply
      BY <1>0, <1>6, <3>1, UnchangedEventTypes
         DEF ProbeTimesOut, LoopTypes, eventVars
    <3>2. CASE ~freshReply
      BY <1>6, <2>1, <3>2, CheckFailedTypes DEF ProbeTimesOut
    <3> QED
      BY <3>1, <3>2
  <2>3. CallTypes' /\ ProbeTypes'
    BY <1>0, <1>6
       DEF ProbeTimesOut, CallTypes, ProbeTypes, connVars, doneVars, vppVars
  <2> QED
    BY <2>2, <2>3, TypeParts
<1>7. CASE Cleanup
  <2>1. EventTypes'
    BY <1>7, UnchangedEventTypes DEF Cleanup
  <2>2. LoopTypes'
    BY <1>0, <1>7, LoopAssumption DEF Cleanup, Reconnecting, LoopTypes
  <2>3. CallTypes'
    BY <1>0, <1>7 DEF Cleanup, CallTypes, doneVars, vppVars
  <2>4. ProbeTypes'
    BY <1>0, <1>7, LoopAssumption DEF Cleanup, CloseProbeChannel, ProbeTypes
  <2> QED
    BY <2>1, <2>2, <2>3, <2>4, TypeParts
<1>8. CASE CleanupCloses
  <2>1. EventTypes'
    BY <1>8, UnchangedEventTypes DEF CleanupCloses
  <2>2. LoopTypes'
    BY <1>0, <1>8, LoopAssumption DEF CleanupCloses, Reconnecting, LoopTypes
  <2>3. adapterOpen' \in {0, 1}
    BY <1>8, AdapterTypes
  <2>4. CallTypes' /\ ProbeTypes'
    BY <1>0, <1>8, <2>3
       DEF CleanupCloses, AdapterDisconnects, CallTypes, ProbeTypes, probeVars, doneVars
  <2> QED
    BY <2>1, <2>2, <2>4, TypeParts
<1>9. ASSUME NEW c \in Callers,
             DisconnectCall(c) \/ DisconnectWakes(c) \/ DisconnectCloses(c)
      PROVE  TypeOK'
  <2>1. EventTypes'
    BY <1>9, UnchangedEventTypes
       DEF DisconnectCall, DisconnectWakes, DisconnectCloses
  <2>2. LoopTypes' /\ ProbeTypes'
    BY <1>0, <1>9
       DEF DisconnectCall, DisconnectWakes, DisconnectCloses, loopVars, probeVars,
           LoopTypes, ProbeTypes
  <2>3. CallTypes'
    <3>1. CASE DisconnectCall(c)
      BY <1>0, <3>1 DEF DisconnectCall, CallTypes, connVars, vppVars
    <3>2. CASE DisconnectWakes(c)
      BY <1>0, <3>2 DEF DisconnectWakes, CallTypes, vppVars
    <3>3. CASE DisconnectCloses(c)
      <4>1. adapterOpen' \in {0, 1}
        BY <3>3, AdapterTypes
      <4> QED
        BY <1>0, <3>3, <4>1 DEF DisconnectCloses, AdapterDisconnects, CallTypes
    <3> QED
      BY <1>9, <3>1, <3>2, <3>3
  <2> QED
    BY <2>1, <2>2, <2>3, TypeParts
<1>10. CASE ReceiveEvent
  <2>1. EventTypes'
    BY <1>0, <1>10, ReceiveEventTold DEF ReceiveEvent, EventTypes
  <2>2. LoopTypes' /\ CallTypes' /\ ProbeTypes'
    BY <1>0, <1>10
       DEF ReceiveEvent, LoopTypes, CallTypes, ProbeTypes, probeVars, connVars,
           doneVars, vppVars
  <2> QED
    BY <2>1, <2>2, TypeParts
<1>11. CASE WatcherSendsProbe \/ VppAnswersProbe \/ VppAnswersOthers
  <2>1. EventTypes'
    BY <1>11, UnchangedEventTypes
       DEF WatcherSendsProbe, VppAnswersProbe, VppAnswersOthers
  <2>2. LoopTypes' /\ CallTypes'
    BY <1>0, <1>11
       DEF WatcherSendsProbe, VppAnswersProbe, VppAnswersOthers, loopVars,
           connVars, doneVars, vppVars, LoopTypes, CallTypes
  <2>3. replyChan' \in {<<>>, <<"ok">>, <<"error">>}
    <3>1. replyChan' = replyChan \/ PutReply("ok") \/ PutReply("error")
      BY <1>11 DEF WatcherSendsProbe, VppAnswersProbe, VppAnswersOthers
    <3>2. CASE replyChan' = replyChan
      BY <1>0, <3>2 DEF ProbeTypes
    <3> QED
      BY <3>1, <3>2, PutReplyType
  <2>4. /\ probesSent' \in 0..2 /\ probesAtVpp' \in 0..MaxProbes
        /\ freshReply' \in BOOLEAN
    <3>1. /\ probesSent \in 0..2 /\ probesAtVpp \in 0..MaxProbes
          /\ freshReply \in BOOLEAN
      BY <1>0 DEF ProbeTypes
    <3>2. CASE WatcherSendsProbe
      <4>1. /\ probesSent > 0 /\ probesSent' = probesSent - 1
            /\ freshReply' = freshReply
            /\ \/ probesAtVpp' = probesAtVpp
               \/ probesAtVpp < MaxProbes /\ probesAtVpp' = probesAtVpp + 1
        BY <3>2 DEF WatcherSendsProbe
      <4> QED
        BY <3>1, <4>1, LoopAssumption
    <3>3. CASE VppAnswersProbe
      BY <3>1, <3>3, LoopAssumption DEF VppAnswersProbe
    <3>4. CASE VppAnswersOthers
      BY <3>1, <3>4 DEF VppAnswersOthers
    <3> QED
      BY <1>11, <3>2, <3>3, <3>4
  <2>5. ProbeTypes'
    BY <2>3, <2>4 DEF ProbeTypes
  <2> QED
    BY <2>1, <2>2, <2>5, TypeParts
<1>12. CASE VppChanges
  <2>1. EventTypes'
    BY <1>12, UnchangedEventTypes DEF VppChanges
  <2>2. LoopTypes'
    BY <1>0, <1>12 DEF VppChanges, LoopTypes, loopVars
  <2>3. CallTypes'
    <3>1. /\ UNCHANGED <<healthCheckDone, backgroundLoopActive, vppConnected,
                         adapterOpen, caller>>
          /\ vpp' \in {"up", "hung", "down"} /\ link' \in {FALSE, link}
          /\ changes < MaxChanges /\ changes' = changes + 1
      BY <1>12 DEF VppChanges, connVars, doneVars
    <3>2. link' \in BOOLEAN
      BY <1>0, <3>1 DEF CallTypes
    <3>3. changes' \in 0..MaxChanges
      BY <1>0, <3>1, LoopAssumption DEF CallTypes
    <3> QED
      BY <1>0, <3>1, <3>2, <3>3 DEF CallTypes
  <2>4. ProbeTypes'
    <3>1. /\ UNCHANGED <<probesSent, replyChan, freshReply>>
          /\ probesAtVpp' \in {0, probesAtVpp}
      BY <1>12 DEF VppChanges
    <3> QED
      BY <1>0, <3>1, LoopAssumption DEF ProbeTypes
  <2> QED
    BY <2>1, <2>2, <2>3, <2>4, TypeParts
<1>13. CASE UNCHANGED vars
  BY <1>13 DEF vars, eventVars, probeVars, connVars, doneVars, vppVars, TypeOK
<1> QED
  BY <1>1, <1>2, <1>3, <1>4, <1>5, <1>6, <1>7, <1>8, <1>9, <1>10, <1>11, <1>12,
     <1>13 DEF Next, BackgroundLoop

-----------------------------------------------------------------------------
(* The place of the loop *)

(* Steps that move neither the loop, nor the connection, nor a caller, nor  *)
(* the last event.                                                          *)
Aside == UNCHANGED <<loop, failedChecks, vppConnected, adapterOpen, caller, lastEvent>>

(* The steps of the event's consumer, of the probe's watcher and of VPP.    *)
LEMMA AsideSteps ==
    ASSUME \/ ReceiveEvent \/ WatcherSendsProbe \/ VppAnswersProbe
           \/ VppAnswersOthers \/ VppChanges \/ UNCHANGED vars
    PROVE  Aside
<1>1. CASE ReceiveEvent
  BY <1>1 DEF ReceiveEvent, Aside, connVars, doneVars
<1>2. CASE WatcherSendsProbe \/ VppAnswersProbe \/ VppAnswersOthers
  BY <1>2 DEF WatcherSendsProbe, VppAnswersProbe, VppAnswersOthers, Aside,
              loopVars, eventVars, connVars, doneVars
<1>3. CASE VppChanges
  BY <1>3 DEF VppChanges, Aside, loopVars, eventVars, connVars, doneVars
<1>4. CASE UNCHANGED vars
  BY <1>4 DEF vars, Aside, eventVars, connVars, doneVars
<1> QED
  BY <1>1, <1>2, <1>3, <1>4

(* Every step leaves the loop where it agrees with vppConnected, with the   *)
(* count of failed checks, the last event and the callers of Disconnect.    *)
LEMMA NextLoopState ==
    ASSUME IInv, [Next]_vars
    PROVE  LoopState'
<1> USE DEF IInv
<1>1. CASE AdapterConnects
  BY <1>1 DEF AdapterConnects, LoopState, eventVars, doneVars
<1>2. CASE ConnectOk
  <2>1. /\ loop = "identify" /\ loop' \in {"health", "exited"}
        /\ vppConnected' = TRUE /\ failedChecks' = 0 /\ caller' = caller
        /\ lastEvent' = "Connected"
    BY <1>2 DEF ConnectOk, sendConnEvent, doneVars
  <2>2. \A c \in Callers : caller[c] \notin {"closing", "returned"}
    BY <2>1 DEF LoopState
  <2> QED
    BY <2>1, <2>2, LoopAssumption DEF LoopState
<1>3. CASE ConnectFails
  <2>1. /\ loop = "connect" /\ caller' = caller /\ vppConnected' = vppConnected
        /\ \/ loop' = "retry" /\ lastEvent' = lastEvent
           \/ loop' = "exited"
    BY <1>3 DEF ConnectFails, AttemptFailed, connVars, doneVars, eventVars
  <2> QED
    BY <2>1 DEF LoopState
<1>4. CASE Retry
  BY <1>4 DEF Retry, LoopState, eventVars, connVars, doneVars
<1>5. CASE HealthCheckTerminates
  BY <1>5 DEF HealthCheckTerminates, LoopState, eventVars, connVars, doneVars
<1>6. CASE ProbeTick \/ SendProbe
  BY <1>6 DEF ProbeTick, SendProbe, LoopState, eventVars, connVars, doneVars
<1>7. CASE ProbeReply
  <2>1. /\ loop = "probing" /\ caller' = caller /\ vppConnected' = vppConnected
        /\ \/ loop' = "health" /\ failedChecks' = 0 /\ lastEvent' = lastEvent
           \/ loop' = "cleanup" /\ lastEvent' = "Disconnected"
    BY <1>7 DEF ProbeReply, sendConnEvent, connVars, doneVars, eventVars
  <2> QED
    BY <2>1, LoopAssumption DEF LoopState
<1>8. CASE ProbeTimesOut
  <2>1. /\ loop = "probing" /\ caller' = caller /\ vppConnected' = vppConnected
    BY <1>8 DEF ProbeTimesOut, connVars, doneVars
  <2>2. \/ loop' = loop /\ failedChecks' = failedChecks /\ lastEvent' = lastEvent
        \/ CheckFailed
    BY <1>8 DEF ProbeTimesOut, eventVars
  <2>3. CASE CheckFailed
    <3>1. failedChecks' \in Nat
      BY <2>3, LoopAssumption DEF CheckFailed, TypeOK
    <3>2. \/ loop' = "cleanup" /\ lastEvent' = "NotResponding"
          \/ /\ loop' = "health" /\ lastEvent' = lastEvent
             /\ ~(failedChecks' > HealthCheckThreshold)
      BY <2>3 DEF CheckFailed, sendConnEvent, eventVars
    <3> QED
      BY <2>1, <3>1, <3>2, LoopAssumption DEF LoopState
  <2> QED
    BY <2>1, <2>2, <2>3 DEF LoopState
<1>9. CASE Cleanup
  <2>1. /\ loop = "cleanup" /\ vppConnected' = FALSE /\ caller' = caller
        /\ loop' = "closing" /\ lastEvent' = lastEvent
    BY <1>9 DEF Cleanup, swapped, LoopState, eventVars, doneVars
  <2> QED
    BY <2>1 DEF LoopState
<1>10. CASE CleanupCloses
  <2>1. /\ loop = "closing" /\ vppConnected' = vppConnected /\ caller' = caller
        /\ loop' = "connect" /\ lastEvent' = lastEvent
    BY <1>10 DEF CleanupCloses, AdapterDisconnects, Reconnecting, eventVars, doneVars
  <2> QED
    BY <2>1 DEF LoopState
<1>11. ASSUME NEW c \in Callers, DisconnectCall(c)
       PROVE  LoopState'
  <2>1. /\ caller' = [caller EXCEPT ![c] = "waiting"]
        /\ UNCHANGED <<loop, failedChecks, vppConnected, lastEvent>>
    BY <1>11 DEF DisconnectCall, loopVars, connVars, eventVars
  <2>2. \A d \in Callers : caller'[d] \in {"closing", "returned"} =>
          caller[d] \in {"closing", "returned"}
    BY <2>1 DEF TypeOK
  <2> QED
    BY <2>1, <2>2 DEF LoopState
<1>12. ASSUME NEW c \in Callers, DisconnectWakes(c)
       PROVE  LoopState'
  <2>1. /\ loop = "exited" /\ vppConnected' = FALSE
        /\ UNCHANGED <<loop, failedChecks, lastEvent>>
    BY <1>12 DEF DisconnectWakes, loopVars, eventVars
  <2> QED
    BY <2>1 DEF LoopState
<1>13. ASSUME NEW c \in Callers, DisconnectCloses(c)
       PROVE  LoopState'
  <2>1. /\ caller[c] = "closing" /\ caller' = [caller EXCEPT ![c] = "returned"]
        /\ UNCHANGED <<loop, failedChecks, vppConnected, lastEvent>>
    BY <1>13 DEF DisconnectCloses, AdapterDisconnects, loopVars, eventVars
  <2>2. \A d \in Callers : caller'[d] \in {"closing", "returned"} =>
          caller[d] \in {"closing", "returned"}
    BY <2>1 DEF TypeOK
  <2> QED
    BY <2>1, <2>2 DEF LoopState
<1>14. CASE Aside
  BY <1>14 DEF Aside, LoopState
<1> QED
  BY <1>1, <1>2, <1>3, <1>4, <1>5, <1>6, <1>7, <1>8, <1>9, <1>10, <1>11, <1>12,
     <1>13, <1>14, AsideSteps DEF Next, BackgroundLoop

-----------------------------------------------------------------------------
(* The adapter *)

(* Most steps leave alone all that AdapterBalanced speaks of.               *)
LEMMA BalanceKept ==
    ASSUME AdapterBalanced, UNCHANGED <<vppConnected, adapterOpen>>,
           loop \notin {"identify", "closing"}, loop' \notin {"identify", "closing"},
           Closers' = Closers
    PROVE  AdapterBalanced'
BY DEF AdapterBalanced, Opening

(* Every step keeps the adapter's Connect and Disconnect in balance.        *)
LEMMA NextAdapterBalanced ==
    ASSUME IInv, [Next]_vars
    PROVE  AdapterBalanced'
<1> USE DEF IInv
<1>1. CASE AdapterConnects
  <2>1. /\ loop = "connect" /\ loop' = "identify" /\ ~vppConnected
        /\ vppConnected' = vppConnected /\ caller' = caller
        /\ adapterOpen' = adapterOpen + 1
    BY <1>1 DEF AdapterConnects, LoopState, doneVars
  <2>2. Closers = {} /\ Closers' = {}
    BY <2>1 DEF Closers, LoopState
  <2>3. adapterOpen = 0
    BY <2>1, <2>2 DEF AdapterBalanced, Opening
  <2> QED
    BY <2>1, <2>2, <2>3 DEF AdapterBalanced, Opening
<1>2. CASE ConnectOk
  <2>1. /\ loop = "identify" /\ loop' \in {"health", "exited"}
        /\ vppConnected' = TRUE /\ caller' = caller /\ adapterOpen' = adapterOpen
    BY <1>2 DEF ConnectOk, doneVars
  <2>2. Closers = {} /\ Closers' = {}
    BY <2>1 DEF Closers, LoopState
  <2>3. adapterOpen = 1
    BY <2>1 DEF AdapterBalanced, Opening
  <2> QED
    BY <2>1, <2>2, <2>3 DEF AdapterBalanced, Opening
<1>3. CASE \/ ConnectFails \/ Retry \/ HealthCheckTerminates \/ ProbeTick
           \/ SendProbe \/ ProbeReply \/ ProbeTimesOut
  <2>1. UNCHANGED <<vppConnected, adapterOpen, caller>>
    BY <1>3 DEF ConnectFails, Retry, HealthCheckTerminates, ProbeTick, SendProbe,
                ProbeReply, ProbeTimesOut, connVars, doneVars
  <2>2. loop \in {"connect", "retry", "health", "sending", "probing"}
    BY <1>3 DEF ConnectFails, Retry, HealthCheckTerminates, ProbeTick, SendProbe,
                ProbeReply, ProbeTimesOut
  <2>3. loop' \in {"connect", "retry", "exited", "health", "sending", "probing", "cleanup"}
    BY <1>3, <2>2
       DEF ConnectFails, AttemptFailed, Retry, HealthCheckTerminates, ProbeTick,
           SendProbe, ProbeReply, ProbeTimesOut, CheckFailed
  <2>4. Closers' = Closers
    BY <2>1 DEF Closers
  <2> QED
    BY <2>1, <2>2, <2>3, <2>4, BalanceKept
<1>4. CASE Cleanup
  <2>1. /\ loop = "cleanup" /\ vppConnected /\ vppConnected' = FALSE
        /\ loop' = "closing" /\ UNCHANGED <<adapterOpen, caller>>
    BY <1>4 DEF Cleanup, swapped, LoopState, doneVars
  <2>2. Closers = {} /\ Closers' = {}
    BY <2>1 DEF Closers, LoopState
  <2>3. adapterOpen = 1
    BY <2>1 DEF AdapterBalanced
  <2> QED
    BY <2>1, <2>2, <2>3 DEF AdapterBalanced, Opening
<1>5. CASE CleanupCloses
  <2>1. /\ loop = "closing" /\ loop' = "connect" /\ adapterOpen' = adapterOpen - 1
        /\ UNCHANGED <<vppConnected, caller>>
    BY <1>5 DEF CleanupCloses, AdapterDisconnects, Reconnecting, doneVars
  <2>2. Closers = {} /\ Closers' = {}
    BY <2>1 DEF Closers, LoopState
  <2>3. adapterOpen = 1 /\ ~vppConnected
    BY <2>1 DEF AdapterBalanced
  <2> QED
    BY <2>1, <2>2, <2>3 DEF AdapterBalanced, Opening
<1>6. ASSUME NEW c \in Callers, DisconnectCall(c)
      PROVE  AdapterBalanced'
  <2>1. /\ caller[c] = "running" /\ caller' = [caller EXCEPT ![c] = "waiting"]
        /\ UNCHANGED <<loop, vppConnected, adapterOpen>>
    BY <1>6 DEF DisconnectCall, loopVars, connVars
  <2>2. Closers' = Closers
    BY <2>1 DEF Closers, TypeOK
  <2> QED
    BY <2>1, <2>2 DEF AdapterBalanced, Opening
<1>7. ASSUME NEW c \in Callers, DisconnectWakes(c)
      PROVE  AdapterBalanced'
  <2>1. /\ caller[c] = "waiting" /\ loop = "exited" /\ vppConnected' = FALSE
        /\ UNCHANGED <<loop, adapterOpen>>
    BY <1>7 DEF DisconnectWakes, loopVars
  <2>2. CASE vppConnected
    <3>1. caller' = [caller EXCEPT ![c] = "closing"]
      BY <1>7, <2>2 DEF DisconnectWakes, swapped
    <3>2. Closers = {}
      BY <2>2 DEF LoopState, Closers
    <3>3. Closers' = {c}
      BY <3>1, <3>2 DEF Closers, TypeOK
    <3>4. adapterOpen = 1
      BY <2>2 DEF AdapterBalanced
    <3> QED
      BY <2>1, <3>3, <3>4 DEF AdapterBalanced, Opening
  <2>3. CASE ~vppConnected
    <3>1. caller' = [caller EXCEPT ![c] = "returned"]
      BY <1>7, <2>3 DEF DisconnectWakes, swapped
    <3>2. Closers' = Closers
      BY <2>1, <3>1 DEF Closers, TypeOK
    <3> QED
      BY <2>1, <2>3, <3>2 DEF AdapterBalanced, Opening
  <2> QED
    BY <2>2, <2>3
<1>8. ASSUME NEW c \in Callers, DisconnectCloses(c)
      PROVE  AdapterBalanced'
  <2>1. /\ caller[c] = "closing" /\ caller' = [caller EXCEPT ![c] = "returned"]
        /\ adapterOpen' = adapterOpen - 1 /\ UNCHANGED <<loop, vppConnected>>
    BY <1>8 DEF DisconnectCloses, AdapterDisconnects, loopVars
  <2>2. c \in Closers /\ loop = "exited" /\ ~vppConnected
    BY <2>1 DEF Closers, LoopState
  <2>3. Closers = {c} /\ adapterOpen = 1
    BY <2>2 DEF AdapterBalanced
  <2>4. Closers' = {}
    BY <2>1, <2>3 DEF Closers, TypeOK
  <2> QED
    BY <2>1, <2>2, <2>3, <2>4 DEF AdapterBalanced, Opening
<1>9. CASE Aside
  BY <1>9 DEF Aside, AdapterBalanced, Opening, Closers
<1> QED
  BY <1>1, <1>2, <1>3, <1>4, <1>5, <1>6, <1>7, <1>8, <1>9, AsideSteps
     DEF Next, BackgroundLoop

-----------------------------------------------------------------------------
(* Events and the loop *)

(* Every step tells the program of an event in a place of the loop where    *)
(* the event belongs, takes an event out of the channel, or leaves the      *)
(* events alone.                                                            *)
LEMMA EventSteps ==
    ASSUME [Next]_vars
    PROVE  \/ UNCHANGED eventVars
           \/ ReceiveEvent
           \/ loop \in {"connect", "identify"} /\ sendConnEvent("Connected")
           \/ loop = "connect" /\ sendConnEvent("Failed")
           \/ loop = "probing" /\ sendConnEvent("Disconnected")
           \/ loop = "probing" /\ sendConnEvent("NotResponding")
<1>1. CASE ConnectOk
  BY <1>1 DEF ConnectOk
<1>2. CASE ConnectFails
  BY <1>2 DEF ConnectFails, AttemptFailed
<1>3. CASE ProbeReply
  BY <1>3 DEF ProbeReply
<1>4. CASE ProbeTimesOut
  <2>1. loop = "probing" /\ (UNCHANGED eventVars \/ CheckFailed)
    BY <1>4 DEF ProbeTimesOut
  <2> QED
    BY <2>1 DEF CheckFailed
<1>5. CASE \/ AdapterConnects \/ Retry \/ HealthCheckTerminates \/ ProbeTick
           \/ SendProbe \/ Cleanup \/ CleanupCloses
  BY <1>5 DEF AdapterConnects, Retry, HealthCheckTerminates, ProbeTick, SendProbe,
              Cleanup, CleanupCloses
<1>6. CASE \E c \in Callers :
              DisconnectCall(c) \/ DisconnectWakes(c) \/ DisconnectCloses(c)
  BY <1>6 DEF DisconnectCall, DisconnectWakes, DisconnectCloses
<1>7. CASE \/ WatcherSendsProbe \/ VppAnswersProbe \/ VppAnswersOthers
           \/ VppChanges \/ UNCHANGED vars
  BY <1>7 DEF WatcherSendsProbe, VppAnswersProbe, VppAnswersOthers, VppChanges, vars
<1> QED
  BY <1>1, <1>2, <1>3, <1>4, <1>5, <1>6, <1>7 DEF Next, BackgroundLoop

(* Every step keeps the end of connChan, or what the program read last,     *)
(* equal to the last event, until one is discarded.                         *)
LEMMA NextTold ==
    ASSUME IInv, [Next]_vars
    PROVE  Told'
<1> USE DEF IInv
<1>1. CASE UNCHANGED eventVars
  BY <1>1 DEF eventVars, Told, LastTold
<1>2. CASE ReceiveEvent
  BY <1>2, ReceiveEventTold
<1>3. ASSUME NEW event \in Events, sendConnEvent(event)
      PROVE  Told'
  BY <1>3, SendConnEvent
<1>4. /\ "Connected" \in Events /\ "Failed" \in Events
      /\ "Disconnected" \in Events /\ "NotResponding" \in Events
  BY DEF Events
<1> QED
  BY <1>1, <1>2, <1>3, <1>4, EventSteps

(* EventOrder, as a formula about one step.                                 *)
EventStep ==
    lastEvent' # lastEvent \/ connChan' # connChan =>
         \/ /\ lastEvent' = lastEvent
            /\ connChan # <<>> /\ connChan' = Tail(connChan)
         \/ /\ lastEvent' \in {"Connected", "Failed"}
            /\ lastEvent \in {"none", "NotResponding", "Disconnected"}
         \/ /\ lastEvent' \in {"NotResponding", "Disconnected"}
            /\ lastEvent = "Connected"

(* Every step reports an event only after one it may follow.                *)
LEMMA NextEventStep ==
    ASSUME IInv, [Next]_vars
    PROVE  EventStep
<1> USE DEF IInv
<1>1. CASE UNCHANGED eventVars
  BY <1>1 DEF eventVars, EventStep
<1>2. CASE ReceiveEvent
  BY <1>2 DEF ReceiveEvent, EventStep
<1>3. CASE /\ loop \in {"connect", "identify"}
           /\ sendConnEvent("Connected") \/ sendConnEvent("Failed")
  BY <1>3 DEF sendConnEvent, LoopState, EventStep
<1>4. CASE /\ loop = "probing"
           /\ sendConnEvent("Disconnected") \/ sendConnEvent("NotResponding")
  BY <1>4 DEF sendConnEvent, LoopState, EventStep
<1> QED
  BY <1>1, <1>2, <1>3, <1>4, EventSteps

-----------------------------------------------------------------------------
(* Theorems *)

(* The parts of the inductive invariant that the proofs above handle one by *)
(* one hold together in every reachable state: where the background loop of *)
(* connectLoop and healthCheckLoop stands tells whether the connection is   *)
(* up, which event was sent last, and what the callers of Disconnect saw.   *)
THEOREM LoopInvariant == Spec => []IInv
<1>1. Init => IInv
  BY InitIInv
<1>2. IInv /\ [Next]_vars => IInv'
  <2> SUFFICES ASSUME IInv, [Next]_vars
               PROVE  IInv'
    OBVIOUS
  <2> QED
    BY NextTypeOK, NextLoopState, NextAdapterBalanced, NextTold DEF IInv
<1> QED
  BY <1>1, <1>2, PTL DEF Spec

(* Every variable keeps its type: connectLoop makes at most MaxAttempts     *)
(* attempts per outage, healthCheckLoop counts no check past its threshold, *)
(* and no event exceeds the buffer of connChan.                             *)
THEOREM TypeCorrect == Spec => []TypeOK
<1>1. IInv => TypeOK
  BY DEF IInv
<1> QED
  BY <1>1, LoopInvariant, PTL

(* disconnectVPP and connectVPP keep the adapter's Connect and Disconnect   *)
(* in balance: it is open exactly while vppConnected says so or one single  *)
(* goroutine is between the two.                                            *)
THEOREM AdapterBalancedCorrect == Spec => []AdapterBalanced
<1>1. IInv => AdapterBalanced
  BY DEF IInv
<1> QED
  BY <1>1, LoopInvariant, PTL

(* Once any Disconnect has returned, the background loop has ended and      *)
(* vppConnected stays false, however many callers there are.                *)
THEOREM DisconnectFinalCorrect == Spec => []DisconnectFinal
<1>1. IInv => DisconnectFinal
  <2> SUFFICES ASSUME IInv, NEW c \in Callers, caller[c] = "returned"
               PROVE  loop = "exited" /\ ~vppConnected /\ (adapterOpen = 0 \/ Closers # {})
    BY DEF DisconnectFinal
  <2>1. loop = "exited" /\ ~vppConnected
    BY DEF IInv, LoopState
  <2>2. Closers = {} => adapterOpen = 0
    BY <2>1 DEF IInv, AdapterBalanced, Opening
  <2> QED
    BY <2>1, <2>2
<1> QED
  BY <1>1, LoopInvariant, PTL

(* While the loop is at work the last event a program has been told of by   *)
(* sendConnEvent is Connected exactly when a connection is being checked,   *)
(* unless events were discarded.                                            *)
THEOREM EventTellsStateCorrect == Spec => []EventTellsState
<1>1. IInv => EventTellsState
  <2> SUFFICES ASSUME IInv, ~discarded, loop # "exited"
               PROVE  LastTold = "Connected" <=> loop \in {"health", "sending", "probing"}
    BY DEF EventTellsState, LastTold
  <2>1. LastTold = lastEvent
    BY DEF IInv, Told
  <2>2. loop \in {"connect", "identify", "retry", "health", "sending", "probing",
                  "cleanup", "closing"}
    BY DEF IInv, TypeOK
  <2> QED
    BY <2>1, <2>2 DEF IInv, LoopState
<1> QED
  BY <1>1, LoopInvariant, PTL

(* Connected and outages alternate in what sendConnEvent is given, and      *)
(* nothing follows Failed.                                                  *)
THEOREM EventOrderCorrect == Spec => EventOrder
<1>1. IInv /\ [Next]_vars => [EventStep]_vars
  BY NextEventStep
<1> QED
  BY <1>1, LoopInvariant, PTL DEF Spec, EventOrder, EventStep

=============================================================================
