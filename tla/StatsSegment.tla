---------------------------- MODULE StatsSegment ----------------------------
(***************************************************************************)
(* The shared memory of the VPP stats segment, how VPP changes it, and how *)
(* the statsclient adapter reads it without a lock shared with VPP         *)
(* (adapter/statsclient: accessStart, accessEnd, readErr, PrepareDir,      *)
(* UpdateDir, ListStats; GetEpoch of statseg_v1.go and statseg_v2.go).     *)
(*                                                                         *)
(* VPP raises inProgress, changes the directory, increments the epoch and  *)
(* lowers inProgress.  A reader loads the two words one after the other,   *)
(* before and after it reads the entries one by one.  Module StatsClient   *)
(* adds what is around these steps: connection, lock and retries.          *)
(***************************************************************************)
EXTENDS Naturals, Sequences, FiniteSets

CONSTANTS Readers,    \* goroutines that call updateStats, a directory each
          Entries,    \* indexes of the directory, 1..n
          Names,      \* names an entry may have
          MaxLives,   \* bound: starts of VPP
          MaxChanges  \* bound: changes VPP makes to the directory

Lives == 1..MaxLives

VARIABLES
    segment,  \* external: the segment of each life of VPP
    life,     \* external: the present life
    vpp,      \* external: what VPP is doing with its segment
    changes,  \* bound: changes so far
    history,  \* ghost: the contents each life has had between changes
    mapped,   \* the life whose segment headerData maps, 0 for none
    rd,       \* per reader: the locals of the call in progress
    dir       \* per reader: *statDir, the cached directory, or NoDir

segmentVars == <<segment, life, vpp, changes, history>>

NoDir == [epoch |-> 0]
Contents == [Entries -> [name : Names, gen : 0..MaxChanges]]

SegmentInit ==
    /\ LET contents == [i \in Entries |-> [name |-> CHOOSE n \in Names : TRUE,
                                           gen |-> 0]]
       IN  /\ segment = [l \in Lives |-> [epoch |-> 1, inProgress |-> FALSE,
                                          entries |-> contents]]
           /\ history = [l \in Lives |-> <<contents>>]
    /\ life = 1 /\ vpp = "idle" /\ changes = 0
    /\ mapped = 1
    /\ rd = [x \in Readers |-> [pc |-> "idle"]]
    /\ dir = [x \in Readers |-> NoDir]

-----------------------------------------------------------------------------
(* VPP, external: vlib_stats_segment_lock, changes, _unlock                 *)

VppLock ==
    /\ vpp = "idle" /\ changes < MaxChanges
    /\ vpp' = "locked" /\ changes' = changes + 1
    /\ segment' = [segment EXCEPT ![life].inProgress = TRUE]
    /\ UNCHANGED <<life, history>>

VppChange(i, name) ==
    /\ vpp = "locked" /\ segment[life].entries[i].gen # changes
    /\ segment' = [segment EXCEPT ![life].entries[i] =
                      [name |-> name, gen |-> changes]]
    /\ UNCHANGED <<life, vpp, changes, history>>

VppBumpEpoch ==
    /\ vpp = "locked"
    /\ vpp' = "bumped"
    /\ segment' = [segment EXCEPT ![life].epoch = @ + 1]
    /\ history' = [history EXCEPT ![life] = Append(@, segment[life].entries)]
    /\ UNCHANGED <<life, changes>>

VppUnlock ==
    /\ vpp = "bumped"
    /\ vpp' = "idle"
    /\ segment' = [segment EXCEPT ![life].inProgress = FALSE]
    /\ UNCHANGED <<life, changes, history>>

VppWrites == \/ VppLock \/ VppBumpEpoch \/ VppUnlock
             \/ \E i \in Entries, name \in Names : VppChange(i, name)

-----------------------------------------------------------------------------
(* The reader's loads.  Each of these steps touches the mapped memory.      *)

Seg == segment[mapped]
Goes(x, pc) == rd' = [rd EXCEPT ![x].pc = pc]
(* The call has its result; the deferred RUnlock comes next.                *)
Result(x, res, exact) ==
    rd' = [rd EXCEPT ![x] = [pc |-> "unlock", tries |-> rd[x].tries,
                             res |-> res, exact |-> exact]]

(* UpdateDir compares its directory's epoch first, whatever inProgress is.  *)
CompareEpoch(x) ==
    /\ rd[x].pc = "compare"
    /\ IF dir[x].epoch = Seg.epoch
       THEN Goes(x, "start") /\ UNCHANGED dir
       ELSE Result(x, "stale", TRUE) /\ dir' = [dir EXCEPT ![x] = NoDir]

(* accessStart: GetEpoch loads the epoch, ...                               *)
StartEpoch(x) ==
    /\ rd[x].pc = "start"
    /\ rd' = [rd EXCEPT ![x].pc = "startProgress", ![x].access = Seg.epoch]
    /\ UNCHANGED dir

(* ... then inProgress; while that is up it loads both again, until         *)
(* MaxWaitInProgress is over.                                               *)
StartProgress(x) ==
    /\ rd[x].pc = "startProgress"
    /\ \/ ~Seg.inProgress /\ Goes(x, "read") /\ UNCHANGED dir
       \/ Seg.inProgress /\ Goes(x, "start") /\ UNCHANGED dir
       \/ /\ Seg.inProgress
          /\ Result(x, "failed", TRUE)
          /\ dir' = [dir EXCEPT ![x] = NoDir]

(* The entry of index i as a call leaves it: PrepareDir copies it,          *)
(* UpdateDir refreshes it unless its name has changed.                      *)
Refreshed(x, i) ==
    IF dir[x] = NoDir \/ dir[x].entries[i].name = Seg.entries[i].name
    THEN Seg.entries[i]
    ELSE dir[x].entries[i]

(* One entry after the other.                                               *)
ReadEntry(x) ==
    /\ rd[x].pc = "read"
    /\ LET i == Len(rd[x].got) + 1
       IN  rd' = [rd EXCEPT ![x].got = Append(@, Refreshed(x, i)),
                  ![x].pc = IF i = Cardinality(Entries) THEN "endEpoch" ELSE @]
    /\ UNCHANGED dir

(* Reading memory that VPP changes or has changed may also fail.            *)
ReadFails(x) ==
    /\ rd[x].pc = "read"
    /\ Seg.inProgress \/ Seg.epoch # rd[x].access
    /\ rd' = [rd EXCEPT ![x].err = TRUE, ![x].pc = "endEpoch"]
    /\ UNCHANGED dir

(* accessEnd, and readErr after a failed read: the epoch, ...               *)
EndEpoch(x) ==
    /\ rd[x].pc = "endEpoch"
    /\ rd' = [rd EXCEPT ![x].pc = "endProgress", ![x].loaded = Seg.epoch]
    /\ UNCHANGED dir

(* Mutant of Undisturbed: the epochs are not compared.                      *)
UndisturbedByProgress(x) == ~Seg.inProgress

Undisturbed(x) == rd[x].loaded = rd[x].access /\ ~Seg.inProgress

(* ... then inProgress, and the result.  `exact` is a ghost: it is FALSE in *)
(* the three cases the check of the epoch does not cover.  VPP finished its *)
(* change between the two loads; the epoch moved between CompareEpoch and   *)
(* StartEpoch; the directory is that of an earlier life.                    *)
EndProgress(x) ==
    /\ rd[x].pc = "endProgress"
    /\ LET ok == Undisturbed(x) /\ ~rd[x].err
           exact == /\ Seg.epoch = rd[x].loaded
                    /\ dir[x] # NoDir =>
                          dir[x].epoch = rd[x].access /\ dir[x].life = mapped
       IN  /\ Result(x, IF ok THEN "ok" ELSE IF Undisturbed(x) THEN "error"
                                                               ELSE "busy",
                     exact)
           /\ dir' = [dir EXCEPT ![x] =
                 IF ok THEN [epoch |-> IF @ = NoDir THEN rd[x].access ELSE @.epoch,
                             life |-> IF @ = NoDir THEN mapped ELSE @.life,
                             entries |-> rd[x].got]
                       ELSE NoDir]

Touching == {"compare", "start", "startProgress", "read", "endEpoch", "endProgress"}

Touch(x) == \/ CompareEpoch(x) \/ StartEpoch(x) \/ StartProgress(x)
            \/ ReadEntry(x) \/ ReadFails(x) \/ EndEpoch(x) \/ EndProgress(x)
=============================================================================
