-------------------------- MODULE StatsConnection --------------------------
(***************************************************************************)
(* A statistics connection made by AsyncConnectStats (core/stats.go): the  *)
(* health check goroutine monitorSocket, its event channel, and Disconnect *)
(* around the Disconnect of StatsClient.  The reads of ListStats are those *)
(* StatsSegment details for PrepareDir; here only their error counts, and  *)
(* each error a call may meet is an outcome.                               *)
(***************************************************************************)
EXTENDS StatsClient

CONSTANTS ChanSize     \* NotificationChanBufSize

VARIABLES
    health,     \* monitorSocket: "wait", "list" in ListStats, "refused" when
                \* that found no connection, "end"
    lastState,  \* its lastState, "none" before the first
    connChan,   \* the events in the channel
    closed,     \* of {"connChan", "done"}: what Disconnect has closed
    panicked    \* an event was sent on the closed channel

connectionVars == <<health, lastState, connChan, closed, panicked>>

StatsInit == /\ Init
             /\ health = "wait" /\ lastState = "none" /\ closed = {}
             /\ connChan = <<"Connected">> /\ panicked = FALSE

(* sendStatsConnEvent: a full channel discards; a closed one panics.        *)
SendEvent(state) ==
    /\ panicked' = ("connChan" \in closed)
    /\ connChan' = IF "connChan" \notin closed /\ Len(connChan) < ChanSize
                   THEN Append(connChan, state) ELSE connChan

(* ListStats asks isConnected first.                                        *)
HealthTick ==
    /\ health = "wait" /\ health' = IF connected THEN "list" ELSE "refused"
    /\ UNCHANGED <<vars, lastState, connChan, closed, panicked>>

(* It has returned, with what the reads of the segment came to.             *)
Outcomes == CASE health = "list" -> {"Connected", "NotResponding", "Failed"}
              [] health = "refused" -> {"Disconnected"}
              [] OTHER -> {}

HealthResult(state) ==
    /\ state \in Outcomes /\ health' = "wait"
    /\ IF state = lastState
       THEN UNCHANGED <<lastState, connChan, panicked>>
       ELSE lastState' = state /\ SendEvent(state)
    /\ UNCHANGED <<vars, closed>>

HealthDone ==
    /\ health = "wait" /\ "done" \in closed /\ health' = "end"
    /\ SendEvent("Disconnected")
    /\ UNCHANGED <<vars, lastState, closed>>

ReceiveEvent ==
    /\ connChan # <<>> /\ connChan' = Tail(connChan)
    /\ UNCHANGED <<vars, health, lastState, closed, panicked>>

(* Disconnect, after that of the client: close(connChan), close(done).      *)
CloseChannels ==
    /\ user = "returned"
    /\ \/ closed = {} /\ closed' = {"connChan"}
       \/ closed = {"connChan"} /\ closed' = {"connChan", "done"}
    /\ UNCHANGED <<vars, health, lastState, connChan, panicked>>

StatsNext ==
    /\ ~panicked
    /\ \/ Next /\ UNCHANGED connectionVars
       \/ ~faulted /\ \/ HealthTick \/ HealthDone \/ ReceiveEvent \/ CloseChannels
                      \/ \E state \in Outcomes : HealthResult(state)

StatsSpec == StatsInit /\ [][StatsNext]_<<vars, connectionVars>>

(* stats.go:162: "Disconnect disconnects from Stats API and releases all    *)
(* connection-related resources."  The goroutine that watches the           *)
(* connection is one of them: it ends, and the program lives on.            *)
DisconnectReleases == ~panicked
=============================================================================
