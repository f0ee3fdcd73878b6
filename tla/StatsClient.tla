---------------------------- MODULE StatsClient ----------------------------
(***************************************************************************)
(* The statistics client around the reads of StatsSegment: updateStats of  *)
(* core/stats.go; Connect's monitor of the socket file, reconnect,         *)
(* Disconnect and accessLock of adapter/statsclient/statsclient.go.  The   *)
(* model starts when Connect has succeeded.  VPP may exit, crash and start *)
(* again.                                                                  *)
(***************************************************************************)
EXTENDS StatsSegment

CONSTANTS Retries      \* RetryUpdateCount

ASSUME StatsAssumption ==
    /\ Retries \in Nat \ {0} /\ MaxLives \in Nat \ {0} /\ MaxChanges \in Nat
    /\ Names # {} /\ Entries # {}
    /\ IsFiniteSet(Entries) /\ Entries = 1..Cardinality(Entries)

VARIABLES
    up,        \* external: VPP runs
    file,      \* external: the socket file exists
    removals,  \* Remove events the watcher has not delivered
    connected, \* StatsClient.connected
    writer,    \* accessLock is held for writing
    locked,    \* the readers that hold accessLock
    monitor,   \* the goroutine of monitorSocket
    user,      \* where the program is in Disconnect
    faulted,   \* memory that is not mapped was read: the program is dead
    failed     \* ghost: a reconnect has failed

clientVars == <<up, file, removals, connected, writer, locked, monitor, user,
                faulted, failed>>
vars == <<segmentVars, mapped, rd, dir, clientVars>>

(* monitorSocket ends once done is closed, the first thing Disconnect does. *)
done == user # "open"

Init == /\ SegmentInit
        /\ up = TRUE /\ file = TRUE /\ removals = 0
        /\ connected = TRUE /\ writer = FALSE /\ locked = {}
        /\ monitor = "wait" /\ user = "open" /\ faulted = FALSE /\ failed = FALSE

-----------------------------------------------------------------------------
(* Calls of updateStats *)

Call(x) ==
    /\ rd[x].pc = "idle" /\ user = "open"
    /\ rd' = [rd EXCEPT ![x] = [pc |-> "check", tries |-> 1]]
    /\ UNCHANGED <<segmentVars, mapped, dir, clientVars>>

(* isConnected, without the lock; ErrStatsDisconnected is not retried.      *)
Check(x) ==
    /\ rd[x].pc = "check"
    /\ IF connected
       THEN Goes(x, "lock") /\ UNCHANGED dir
       ELSE /\ rd' = [rd EXCEPT ![x] = [pc |-> "idle"]]
            /\ dir' = [dir EXCEPT ![x] = NoDir]
    /\ UNCHANGED <<segmentVars, mapped, clientVars>>

(* accessLock.RLock; a waiting writer keeps new readers out.                *)
RLock(x) ==
    /\ rd[x].pc = "lock" /\ ~writer /\ monitor # "lock"
    /\ locked' = locked \cup {x}
    /\ rd' = [rd EXCEPT ![x] =
         [pc |-> IF dir[x] # NoDir THEN "compare" ELSE "start",
          tries |-> rd[x].tries, access |-> 0, loaded |-> 0, got |-> <<>>,
          err |-> FALSE]]
    /\ UNCHANGED <<segmentVars, mapped, dir, up, file, removals, connected,
                   writer, monitor, user, faulted, failed>>

Access(x) ==
    /\ rd[x].pc \in Touching /\ mapped # 0
    /\ Touch(x)
    /\ UNCHANGED <<segmentVars, mapped, clientVars>>

AccessFaults(x) ==
    /\ rd[x].pc \in Touching /\ mapped = 0
    /\ faulted' = TRUE
    /\ UNCHANGED <<segmentVars, mapped, rd, dir, up, file, removals, connected,
                   writer, locked, monitor, user, failed>>

(* Mutant of MayRetry: every error is retried, for ever.                    *)
RetriesForEver(x) == rd[x].res # "ok"

(* updateStats tries again when the directory is stale or the data busy.    *)
MayRetry(x) == rd[x].res \in {"stale", "busy"} /\ rd[x].tries < Retries

RUnlock(x) ==
    /\ rd[x].pc = "unlock"
    /\ locked' = locked \ {x}
    /\ rd' = [rd EXCEPT ![x] =
                 IF MayRetry(x)
                 THEN [pc |-> "check",
                       tries |-> IF @.tries < Retries THEN @.tries + 1 ELSE Retries]
                 ELSE [pc |-> "idle"]]
    /\ UNCHANGED <<segmentVars, mapped, dir, up, file, removals, connected,
                   writer, monitor, user, faulted, failed>>

-----------------------------------------------------------------------------
(* The adapter's socket monitor                                             *)

MonitorGoes(from, to) == monitor = from /\ monitor' = to

(* Mutant of TakeRemoval: a Remove event is ignored if the file is back.    *)
TakeRemovalIfGone ==
    /\ monitor = "wait" /\ removals > 0
    /\ monitor' = IF file THEN "wait" ELSE "lock"
    /\ removals' = removals - 1
    /\ UNCHANGED <<segmentVars, mapped, rd, dir, up, file, connected, writer,
                   locked, user, faulted, failed>>

TakeRemoval ==
    /\ MonitorGoes("wait", "lock") /\ removals > 0
    /\ removals' = removals - 1
    /\ UNCHANGED <<segmentVars, mapped, rd, dir, up, file, connected, writer,
                   locked, user, faulted, failed>>

(* Mutant of ReconnectLock: readers are not waited for.                     *)
ReconnectLockFree ==
    /\ MonitorGoes("lock", "disconnect")
    /\ writer' = TRUE
    /\ UNCHANGED <<segmentVars, mapped, rd, dir, up, file, removals, connected,
                   locked, user, faulted, failed>>

(* reconnect takes accessLock, ...                                          *)
ReconnectLock ==
    /\ MonitorGoes("lock", "disconnect") /\ locked = {}
    /\ writer' = TRUE
    /\ UNCHANGED <<segmentVars, mapped, rd, dir, up, file, removals, connected,
                   locked, user, faulted, failed>>

(* A reconnect that fails leaves everything as it is, and the lock.         *)
ReconnectFails ==
    /\ monitor' = "wait" /\ writer' = FALSE /\ failed' = TRUE
    /\ UNCHANGED <<mapped, connected>>

(* ... disconnects, which is an error when somebody else has, ...           *)
ReconnectDisconnect ==
    /\ monitor = "disconnect"
    /\ \/ /\ connected
          /\ connected' = FALSE /\ mapped' = 0 /\ monitor' = "socket"
          /\ UNCHANGED <<writer, failed>>
       \/ ~connected /\ ReconnectFails
    /\ UNCHANGED <<segmentVars, rd, dir, up, file, removals, locked, user,
                   faulted>>

(* ... waits for the socket file until a timeout, ...                       *)
WaitForSocket ==
    /\ monitor = "socket"
    /\ \/ file /\ monitor' = "connect" /\ UNCHANGED <<mapped, connected, writer, failed>>
       \/ ~file /\ ReconnectFails
    /\ UNCHANGED <<segmentVars, rd, dir, up, file, removals, locked, user,
                   faulted>>

(* ... and connects, which maps the segment of the VPP that answers.        *)
ReconnectConnect ==
    /\ monitor = "connect"
    /\ \/ /\ up
          /\ connected' = TRUE /\ mapped' = life
          /\ monitor' = "wait" /\ writer' = FALSE
          /\ UNCHANGED failed
       \/ ~up /\ ReconnectFails
    /\ UNCHANGED <<segmentVars, rd, dir, up, file, removals, locked, user,
                   faulted>>

MonitorDone ==
    /\ MonitorGoes("wait", "end") /\ done
    /\ UNCHANGED <<segmentVars, mapped, rd, dir, up, file, removals, connected,
                   writer, locked, user, faulted, failed>>

Monitor == \/ TakeRemoval \/ ReconnectLock \/ ReconnectDisconnect
           \/ WaitForSocket \/ ReconnectConnect \/ MonitorDone

-----------------------------------------------------------------------------
(* Disconnect, which takes no lock: close(done), ...                        *)

UserGoes(from, to) == user = from /\ user' = to

DisconnectDone ==
    /\ UserGoes("open", "check")
    /\ UNCHANGED <<segmentVars, mapped, rd, dir, up, file, removals, connected,
                   writer, locked, monitor, faulted, failed>>

(* ... isConnected and the compare-and-swap of disconnect, ...              *)
DisconnectSwap ==
    /\ user = "check"
    /\ user' = IF connected THEN "unmap" ELSE "returned"
    /\ connected' = FALSE
    /\ UNCHANGED <<segmentVars, mapped, rd, dir, up, file, removals, writer,
                   locked, monitor, faulted, failed>>

(* ... and Munmap.                                                          *)
DisconnectUnmap ==
    /\ UserGoes("unmap", "returned")
    /\ mapped' = 0
    /\ UNCHANGED <<segmentVars, rd, dir, up, file, removals, connected, writer,
                   locked, monitor, faulted, failed>>

User == DisconnectDone \/ DisconnectSwap \/ DisconnectUnmap

-----------------------------------------------------------------------------
(* VPP, external.  One that exits removes its socket file; one that starts  *)
(* removes the file of a crashed one and makes a new segment.               *)

VppStops ==
    /\ up /\ up' = FALSE
    /\ \/ UNCHANGED <<file, removals>>
       \/ file' = FALSE /\ removals' = removals + 1
    /\ UNCHANGED <<segmentVars, mapped, rd, dir, connected, writer, locked,
                   monitor, user, faulted, failed>>

VppStarts ==
    /\ ~up /\ life < MaxLives
    /\ up' = TRUE /\ file' = TRUE /\ life' = life + 1 /\ vpp' = "idle"
    /\ removals' = IF file THEN removals + 1 ELSE removals
    /\ UNCHANGED <<segment, changes, history, mapped, rd, dir, connected,
                   writer, locked, monitor, user, faulted, failed>>

VppRuns == /\ up /\ VppWrites
           /\ UNCHANGED <<mapped, rd, dir, clientVars>>

-----------------------------------------------------------------------------
Reader(x) == Check(x) \/ RLock(x) \/ Access(x) \/ AccessFaults(x) \/ RUnlock(x)

Next == /\ ~faulted
        /\ \/ \E x \in Readers : Call(x) \/ Reader(x)
           \/ Monitor \/ User \/ VppStops \/ VppStarts \/ VppRuns

Spec == Init /\ [][Next]_vars

(* Goroutines that can run do run, and timeouts fire: strong fairness of    *)
(* giving up in accessStart stands for MaxWaitInProgress.  Nothing is asked *)
(* of VPP or of the program.                                                *)
Fairness ==
    /\ \A x \in Readers :
          /\ WF_vars(~faulted /\ Reader(x))
          /\ SF_vars(~faulted /\ Access(x) /\ rd'[x].pc = "unlock")
    /\ WF_vars(~faulted /\ Monitor)

FairSpec == Spec /\ Fairness

-----------------------------------------------------------------------------
(* Properties *)

(* Types; who holds accessLock, read or write, is where it says it is.      *)
TypeOK ==
    /\ life \in Lives /\ mapped \in 0..life
    /\ vpp \in {"idle", "locked", "bumped"} /\ changes \in 0..MaxChanges
    /\ \A l \in Lives : segment[l].entries \in Contents
    /\ \A x \in Readers :
          rd[x].pc \in Touching \cup {"idle", "check", "lock", "unlock"}
    /\ locked = {x \in Readers : rd[x].pc \in Touching \cup {"unlock"}}
    /\ writer <=> monitor \in {"disconnect", "socket", "connect"}
    /\ writer => locked = {}
    /\ removals \in Nat /\ connected \in BOOLEAN /\ faulted \in BOOLEAN

(* Statistics that a call returns without an error are those of one moment  *)
(* between two changes of the directory, whatever VPP did during the call,  *)
(* up to the three windows EndProgress names.                               *)
OneEpoch ==
    \A x \in Readers :
        rd[x].pc = "unlock" /\ rd[x].res = "ok" /\ rd[x].exact =>
            \E k \in DOMAIN history[dir[x].life] :
               dir[x].entries = history[dir[x].life][k]

(* The lock keeps reads and a reconnect that succeeds apart: memory that is *)
(* not mapped is read only after a reconnect has failed, or in a race with  *)
(* Disconnect.                                                              *)
ReconnectProtected == faulted => failed \/ user # "open"

(* A call of updateStats returns: it retries a bounded number of times,     *)
(* waits a bounded time for a VPP that died in the middle of a change, and  *)
(* is not starved by reconnects.                                            *)
CallsReturn ==
    \A x \in Readers : rd[x].pc = "check" ~> rd[x].pc = "idle" \/ faulted

(* After a restart of VPP the client reads the new segment, unless one      *)
(* reconnect has failed: a later one then finds the client disconnected,    *)
(* takes that for an error, and there is no other way back.                 *)
FollowsRestart ==
    up /\ mapped # life ~>
        mapped = life \/ ~up \/ failed \/ user # "open" \/ faulted
=============================================================================
