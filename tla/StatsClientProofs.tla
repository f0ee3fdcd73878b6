------------------------- MODULE StatsClientProofs --------------------------
(***************************************************************************)
(* What the statistics client guarantees for any number of readers,        *)
(* entries, changes and restarts of VPP: the check of the epoch and of     *)
(* inProgress around a read does keep apart the contents of two epochs,    *)
(* and accessLock keeps a read and a reconnect apart.                      *)
(***************************************************************************)
EXTENDS StatsClient, FiniteSetTheorems, TLAPS

N     == Cardinality(Entries)
Entry == [name : Names, gen : 0..MaxChanges]
Tries == 1..Retries

Segment == [epoch : Nat \ {0}, inProgress : BOOLEAN, entries : Contents]
StatDir == [epoch : Nat \ {0}, life : Lives, entries : Contents]
InCall  == [pc : {"check", "lock"}, tries : Tries]
InRead  == [pc : Touching, tries : Tries, access : Nat, loaded : Nat,
            got : Seq(Entry), err : BOOLEAN]
Done    == [pc : {"unlock"}, tries : Tries,
            res : {"ok", "stale", "busy", "error", "failed"}, exact : BOOLEAN]

Types ==
    /\ segment \in [Lives -> Segment]
    /\ history \in [Lives -> Seq(Contents)]
    /\ life \in Lives /\ mapped \in 0..life
    /\ vpp \in {"idle", "locked", "bumped"} /\ changes \in 0..MaxChanges
    /\ rd \in [Readers -> [pc : {"idle"}] \cup InCall \cup InRead \cup Done]
    /\ dir \in [Readers -> {NoDir} \cup StatDir]

(* accessLock: a reader holds it while it touches the segment, reconnect    *)
(* while it replaces the mapping.                                           *)
Locks ==
    /\ locked = {x \in Readers : rd[x].pc \in Touching \cup {"unlock"}}
    /\ writer <=> monitor \in {"disconnect", "socket", "connect"}
    /\ writer => locked = {}
    /\ user \in {"open", "check", "unmap", "returned"}
    /\ mapped = 0 => failed \/ user # "open" \/ monitor \in {"socket", "connect"}

(* history has the contents for each epoch; memory differs from it only     *)
(* while a change is in progress.                                           *)
Segments ==
    /\ segment[life].inProgress <=> vpp # "idle"
    /\ vpp = "bumped" => segment[life].entries = history[life][segment[life].epoch]
    /\ \A l \in Lives :
          /\ Len(history[l]) = segment[l].epoch
          /\ segment[l].inProgress \/ segment[l].entries = history[l][segment[l].epoch]
          /\ l > life => ~segment[l].inProgress

(* A directory is that of its epoch, or its epoch is over, or its life is.  *)
Passed(l) == IF mapped = 0 THEN life > l ELSE mapped > l

DirGood(d) ==
    /\ d.life <= life /\ (mapped # 0 => d.life <= mapped)
    /\ d.epoch <= segment[d.life].epoch
    /\ \/ d.entries = history[d.life][d.epoch]
       \/ d.epoch < segment[d.life].epoch
       \/ Passed(d.life)

Dirs == \A x \in Readers : dir[x] # NoDir => DirGood(dir[x])

(* The directory that is to be refreshed is not the cause of a torn one.    *)
Usable(x) == dir[x] # NoDir => dir[x].epoch = rd[x].access /\ dir[x].life = mapped

(* How far the read of x has come.                                          *)
Progress(x) ==
    /\ rd[x].pc \in {"compare", "start", "startProgress"} => rd[x].got = <<>>
    /\ rd[x].pc = "read" => Len(rd[x].got) < N
    /\ rd[x].pc \in {"endEpoch", "endProgress"} => rd[x].err \/ Len(rd[x].got) = N
    /\ rd[x].pc = "compare" => dir[x] # NoDir

(* What x has read so far is the content of the epoch it started in, unless *)
(* VPP has begun a change since; the end of such a change is a new epoch.   *)
Reads(x) ==
    /\ rd[x].pc \in {"startProgress", "read", "endEpoch", "endProgress"} =>
          /\ 0 < rd[x].access /\ rd[x].access <= Seg.epoch
          /\ dir[x] # NoDir /\ dir[x].life = mapped => dir[x].epoch <= rd[x].access
    /\ rd[x].pc \in {"read", "endEpoch", "endProgress"} /\ Seg.epoch = rd[x].access =>
          /\ mapped = life => vpp # "bumped"
          /\ ~Seg.inProgress /\ Usable(x) =>
                \A i \in DOMAIN rd[x].got :
                   rd[x].got[i] = history[mapped][rd[x].access][i]

(* A call without an error has a directory to return.                       *)
Results == \A x \in Readers :
              rd[x].pc = "unlock" /\ rd[x].res = "ok" => dir[x] # NoDir

StatsInvariant ==
    /\ Types /\ Locks /\ Segments /\ Dirs
    /\ \A x \in Readers : rd[x].pc \in Touching =>
          Progress(x) /\ (mapped # 0 => Reads(x))
    /\ Results /\ OneEpoch /\ ReconnectProtected

-----------------------------------------------------------------------------
(* Facts about the data                                                     *)

(* A directory has N entries, numbered from 1.                              *)
LEMMA EntriesCounted == N \in Nat /\ Entries = 1..N
  BY StatsAssumption, FS_CardinalityType DEF N

(* What has been read of all the entries is a content of the directory.     *)
LEMMA GotContents ==
    ASSUME NEW got \in Seq(Entry), Len(got) = N
    PROVE  got \in Contents /\ DOMAIN got = Entries
<1>1. Contents = [Entries -> Entry]
  BY DEF Contents, Entry
<1>2. Entries = 1..Len(got) /\ DOMAIN got = 1..Len(got)
  BY EntriesCounted
<1>3. got \in [1..Len(got) -> Entry]
  OBVIOUS
<1> QED
  BY <1>1, <1>2, <1>3

(* No directory is NoDir, whose epoch is 0.                                 *)
LEMMA NoDirType == NoDir \notin StatDir
<1>1. \A d \in StatDir : d.epoch # 0
  BY DEF StatDir
<1> QED
  BY <1>1 DEF NoDir

-----------------------------------------------------------------------------
(* The invariant holds initially: nothing is being read.                    *)
LEMMA InitInvariant == Init => StatsInvariant
<1> SUFFICES ASSUME Init PROVE StatsInvariant
  OBVIOUS
<1> USE StatsAssumption DEF Init, SegmentInit
<1> DEFINE contents == [i \in Entries |-> [name |-> CHOOSE n \in Names : TRUE,
                                           gen |-> 0]]
<1>1. contents \in Contents
  BY DEF Contents
<1>2. /\ segment = [l \in Lives |-> [epoch |-> 1, inProgress |-> FALSE,
                                     entries |-> contents]]
      /\ history = [l \in Lives |-> <<contents>>]
  OBVIOUS
<1> HIDE DEF contents
<1>a. 1 \in Lives /\ changes = 0 /\ MaxChanges \in Nat
  BY DEF Lives
<1>b. /\ <<contents>> \in Seq(Contents) /\ Len(<<contents>>) = 1
      /\ <<contents>>[1] = contents
  BY <1>1
<1>c. [epoch |-> 1, inProgress |-> FALSE, entries |-> contents] \in Segment
  BY <1>1 DEF Segment
<1>d. segment \in [Lives -> Segment] /\ history \in [Lives -> Seq(Contents)]
  BY <1>2, <1>b, <1>c
<1>3. Types
  BY <1>a, <1>d DEF Types
<1>4. Locks
  BY DEF Locks, Touching
<1>e. \A l \in Lives : /\ segment[l].epoch = 1 /\ segment[l].inProgress = FALSE
                        /\ segment[l].entries = contents
                        /\ history[l] = <<contents>>
  <2> TAKE l \in Lives
  <2>1. segment[l] = [epoch |-> 1, inProgress |-> FALSE, entries |-> contents]
    BY <1>2
  <2>2. history[l] = <<contents>>
    BY <1>2
  <2> QED
    BY <2>1, <2>2
<1>5. Segments
  BY <1>a, <1>b, <1>e DEF Segments
<1>6. Dirs
  BY DEF Dirs
<1>7. \A x \in Readers : rd[x].pc = "idle"
  OBVIOUS
<1> QED
  BY <1>3, <1>4, <1>5, <1>6, <1>7 DEF StatsInvariant, Results, OneEpoch,
                                      ReconnectProtected, Touching

-----------------------------------------------------------------------------
(* Steps of the monitor, of Disconnect and of the VPP process               *)

(* What the steps of the adapter's monitor and of Disconnect do: the        *)
(* mapping goes away, or comes back when no reader holds the lock.          *)
LEMMA MonitorEffect ==
    ASSUME Types, Locks, Monitor \/ User \/ VppStops
    PROVE  /\ Locks' /\ UNCHANGED <<segmentVars, rd, dir, faulted>>
           /\ mapped' \in {mapped, 0, life}
           /\ mapped' \in {mapped, 0} \/ locked = {}
           /\ user # "open" => user' # "open"
           /\ failed => failed'
<1> USE DEF Types, Locks, MonitorGoes, UserGoes
<1>1. CASE TakeRemoval \/ ReconnectLock \/ MonitorDone \/ VppStops
  BY <1>1 DEF TakeRemoval, ReconnectLock, MonitorDone, VppStops
<1>2. CASE ReconnectDisconnect
  <2>1. CASE connected
    BY <1>2, <2>1 DEF ReconnectDisconnect
  <2>2. CASE ~connected
    BY <1>2, <2>2 DEF ReconnectDisconnect, ReconnectFails
  <2> QED
    BY <2>1, <2>2
<1>3. CASE WaitForSocket
  <2>1. CASE ReconnectFails
    BY <1>3, <2>1 DEF WaitForSocket, ReconnectFails
  <2>2. CASE monitor' = "connect" /\ UNCHANGED <<mapped, connected, writer, failed>>
    BY <1>3, <2>2 DEF WaitForSocket
  <2> QED
    BY <1>3, <2>1, <2>2 DEF WaitForSocket
<1>4. CASE ReconnectConnect
  <2>1. life # 0
    BY DEF Lives
  <2> QED
    BY <1>4, <2>1 DEF ReconnectConnect, ReconnectFails
<1>5. CASE User
  BY <1>5 DEF User, DisconnectDone, DisconnectSwap, DisconnectUnmap
<1> QED
  BY <1>1, <1>2, <1>3, <1>4, <1>5 DEF Monitor

(* Mappings only go on to later lives, so directories stay what they are.   *)
LEMMA DirsRemapped ==
    ASSUME Types, Dirs, UNCHANGED <<segmentVars, dir>>, mapped' \in {mapped, 0, life}
    PROVE  Dirs' /\ mapped' \in 0..life'
<1> USE StatsAssumption DEF Types, segmentVars, Lives
<1>1. \A x \in Readers : dir[x] # NoDir => dir[x] \in StatDir
  OBVIOUS
<1>2. ASSUME NEW l \in Lives, Passed(l), l <= life PROVE Passed(l)'
  BY <1>2 DEF Passed
<1>3. ASSUME NEW l \in Lives, l <= life, mapped # 0 => l <= mapped
      PROVE  mapped' # 0 => l <= mapped'
  BY <1>3
<1> QED
  BY <1>1, <1>2, <1>3 DEF Dirs, DirGood, StatDir

(* A reader that holds the lock keeps the mapping it reads, or loses it.    *)
LEMMA StepMonitor ==
    ASSUME StatsInvariant, Monitor \/ User \/ VppStops
    PROVE  StatsInvariant'
<1> USE DEF StatsInvariant
<1>1. Types' /\ Dirs' /\ Locks'
  BY MonitorEffect, DirsRemapped DEF Types, segmentVars
<1>2. Segments'
  BY MonitorEffect DEF Segments, segmentVars
<1>3. ASSUME NEW x \in Readers, rd'[x].pc \in Touching
      PROVE  Progress(x)' /\ (mapped' # 0 => Reads(x)')
  <2>1. rd[x].pc \in Touching /\ x \in locked
    BY <1>3, MonitorEffect DEF Locks
  <2>2. Progress(x)'
    BY <2>1, MonitorEffect DEF Progress
  <2>3. mapped' # 0 => mapped' = mapped
    BY <2>1, MonitorEffect
  <2>4. ASSUME mapped' = mapped, mapped # 0 PROVE Reads(x)'
    BY <2>1, <2>4, MonitorEffect DEF Reads, Seg, Usable, segmentVars
  <2> QED
    BY <2>2, <2>3, <2>4
<1>4. Results' /\ OneEpoch'
  BY MonitorEffect DEF Results, OneEpoch, segmentVars
<1>5. ReconnectProtected'
  BY MonitorEffect DEF ReconnectProtected
<1> QED
  BY <1>1, <1>2, <1>3, <1>4, <1>5

(* A life's segment after one write, given what the write does to it.       *)
LEMMA SegmentWritten ==
    ASSUME Types, NEW l \in Lives, NEW s \in Segment, NEW h \in Seq(Contents),
           segment' = [segment EXCEPT ![l] = s], history' = [history EXCEPT ![l] = h]
    PROVE  /\ segment' \in [Lives -> Segment] /\ history' \in [Lives -> Seq(Contents)]
           /\ segment'[l] = s /\ history'[l] = h
           /\ \A m \in Lives \ {l} : segment'[m] = segment[m] /\ history'[m] = history[m]
  BY DEF Types

(* What a write of VPP does: contents of former epochs stay, and a change   *)
(* that ends has a new epoch.                                               *)
LEMMA VppEffect ==
    ASSUME Types, Segments, VppWrites, UNCHANGED <<mapped, rd, dir>>
    PROVE  /\ Types' /\ Segments' /\ life' = life
           /\ \A l \in Lives \ {life} :
                 segment'[l] = segment[l] /\ history'[l] = history[l]
           /\ segment[life].epoch <= segment'[life].epoch
           /\ \A k \in 1..segment[life].epoch : history'[life][k] = history[life][k]
           /\ segment'[life].epoch = segment[life].epoch =>
                 /\ vpp' = "bumped" => vpp = "bumped"
                 /\ segment'[life].inProgress \/ vpp = "bumped"
<1> USE StatsAssumption
<1> DEFINE s == segment[life]
           h == history[life]
<1>1. /\ life \in Lives /\ s \in Segment /\ h \in Seq(Contents)
      /\ s = [epoch |-> s.epoch, inProgress |-> s.inProgress, entries |-> s.entries]
      /\ s.epoch \in Nat \ {0} /\ s.inProgress \in BOOLEAN /\ s.entries \in Contents
      /\ Len(h) = s.epoch
  BY DEF Types, Segments, Segment
<1>2. segment = [segment EXCEPT ![life] = s] /\ history = [history EXCEPT ![life] = h]
  BY DEF Types
<1>3. CASE VppLock
  <2> DEFINE t == [s EXCEPT !.inProgress = TRUE]
  <2>1. /\ t \in Segment /\ t.epoch = s.epoch /\ t.inProgress = TRUE
        /\ t.entries = s.entries
    BY <1>1 DEF Segment
  <2>2. segment' = [segment EXCEPT ![life] = t] /\ history' = [history EXCEPT ![life] = h]
    BY <1>1, <1>2, <1>3 DEF VppLock, Types, Segment
  <2>3. changes' \in 0..MaxChanges /\ vpp = "idle" /\ vpp' = "locked" /\ life' = life
    BY <1>3 DEF VppLock, Types
  <2> HIDE DEF t
  <2>4. /\ segment' \in [Lives -> Segment] /\ history' \in [Lives -> Seq(Contents)]
        /\ segment'[life] = t /\ history'[life] = h
        /\ \A m \in Lives \ {life} : segment'[m] = segment[m] /\ history'[m] = history[m]
    BY <1>1, <2>1, <2>2, SegmentWritten
  <2>5. Types'
    BY <2>3, <2>4 DEF Types
  <2>6. Segments'
    <3>1. ASSUME NEW l \in Lives
          PROVE  /\ Len(history'[l]) = segment'[l].epoch
                 /\ \/ segment'[l].inProgress
                    \/ segment'[l].entries = history'[l][segment'[l].epoch]
                 /\ l > life => ~segment'[l].inProgress
      <4>1. CASE l = life
        BY <1>1, <2>1, <2>4, <4>1 DEF Lives
      <4>2. CASE l # life
        BY <2>4, <4>2 DEF Segments
      <4> QED
        BY <4>1, <4>2
    <3> QED
      BY <2>1, <2>3, <2>4, <3>1 DEF Segments
  <2> QED
    BY <1>1, <2>1, <2>3, <2>4, <2>5, <2>6
<1>4. ASSUME NEW i \in Entries, NEW name \in Names, VppChange(i, name)
      PROVE  /\ Types' /\ Segments' /\ life' = life
             /\ \A l \in Lives \ {life} :
                   segment'[l] = segment[l] /\ history'[l] = history[l]
             /\ segment[life].epoch = segment'[life].epoch
             /\ history'[life] = history[life]
             /\ vpp' # "bumped" /\ segment'[life].inProgress
  <2> DEFINE c == [s.entries EXCEPT ![i] = [name |-> name, gen |-> changes]]
             t == [s EXCEPT !.entries = c]
  <2>0. c \in Contents
    BY <1>1 DEF Types, Contents
  <2>1. /\ t \in Segment /\ t.epoch = s.epoch /\ t.inProgress = s.inProgress
        /\ t.entries = c
    BY <1>1, <2>0 DEF Segment
  <2>2. segment' = [segment EXCEPT ![life] = t] /\ history' = [history EXCEPT ![life] = h]
    BY <1>1, <1>2, <1>4 DEF VppChange, Types, Segment
  <2>3. vpp = "locked" /\ vpp' = "locked" /\ life' = life /\ changes' = changes
    BY <1>4 DEF VppChange
  <2>4. s.inProgress = TRUE
    BY <1>1, <2>3 DEF Segments
  <2> HIDE DEF c, t
  <2>5. /\ segment' \in [Lives -> Segment] /\ history' \in [Lives -> Seq(Contents)]
        /\ segment'[life] = t /\ history'[life] = h
        /\ \A m \in Lives \ {life} : segment'[m] = segment[m] /\ history'[m] = history[m]
    BY <1>1, <2>1, <2>2, SegmentWritten
  <2>6. Types'
    BY <2>3, <2>5 DEF Types
  <2>7. \A l \in Lives :
          /\ Len(history'[l]) = segment'[l].epoch
          /\ segment'[l].inProgress \/ segment'[l].entries = history'[l][segment'[l].epoch]
          /\ l > life => ~segment'[l].inProgress
    <3> TAKE l \in Lives
    <3>1. CASE l = life
      BY <1>1, <2>1, <2>4, <2>5, <3>1 DEF Lives
    <3>2. CASE l # life
      BY <2>5, <3>2 DEF Segments
    <3> QED
      BY <3>1, <3>2
  <2>8. Segments'
    BY <2>1, <2>3, <2>4, <2>5, <2>7 DEF Segments
  <2> QED
    BY <1>1, <2>1, <2>3, <2>4, <2>5, <2>6, <2>8
<1>5. CASE VppBumpEpoch
  <2> DEFINE t == [s EXCEPT !.epoch = s.epoch + 1]
             g == Append(h, s.entries)
  <2>1. /\ t \in Segment /\ t.epoch = s.epoch + 1 /\ t.inProgress = s.inProgress
        /\ t.entries = s.entries
    BY <1>1 DEF Segment
  <2>4. /\ g \in Seq(Contents) /\ Len(g) = s.epoch + 1
        /\ g[s.epoch + 1] = s.entries /\ \A k \in 1..s.epoch : g[k] = h[k]
    BY <1>1
  <2>2. segment' = [segment EXCEPT ![life] = t] /\ history' = [history EXCEPT ![life] = g]
    BY <1>1, <1>5 DEF VppBumpEpoch, Types, Segment
  <2>3. vpp = "locked" /\ vpp' = "bumped" /\ life' = life /\ changes' = changes
    BY <1>5 DEF VppBumpEpoch
  <2> HIDE DEF g, t
  <2> QED
    BY <1>1, <2>1, <2>2, <2>3, <2>4, SegmentWritten DEF Types, Segments
<1>6. CASE VppUnlock
  <2> DEFINE t == [s EXCEPT !.inProgress = FALSE]
  <2>1. /\ t \in Segment /\ t.epoch = s.epoch /\ t.inProgress = FALSE
        /\ t.entries = s.entries
    BY <1>1 DEF Segment
  <2>2. segment' = [segment EXCEPT ![life] = t] /\ history' = [history EXCEPT ![life] = h]
    BY <1>1, <1>2, <1>6 DEF VppUnlock, Types, Segment
  <2>3. vpp = "bumped" /\ vpp' = "idle" /\ life' = life /\ changes' = changes
    BY <1>6 DEF VppUnlock
  <2> QED
    BY <1>1, <2>1, <2>2, <2>3, SegmentWritten DEF Types, Segments
<1> QED
  BY <1>1, <1>3, <1>4, <1>5, <1>6 DEF VppWrites

(* VPP's steps only add: epochs grow, former contents stay.                 *)
Grows == /\ life <= life'
         /\ \A l \in Lives :
               /\ segment[l].epoch <= segment'[l].epoch
               /\ \A k \in 1..segment[l].epoch : history'[l][k] = history[l][k]

(* So directories stay what they are, and results those of one epoch.       *)
LEMMA DirsGrown ==
    ASSUME StatsInvariant, Types', Segments', Grows, UNCHANGED <<mapped, rd, dir>>
    PROVE  Dirs' /\ OneEpoch'
<1> USE StatsAssumption
<1>1. \A x \in Readers : dir[x] # NoDir =>
         dir[x].life \in Lives /\ dir[x].epoch \in Nat \ {0}
  BY DEF StatsInvariant, Types, StatDir
<1>2. \A l \in Lives : /\ segment[l].epoch \in Nat \ {0}
                       /\ segment'[l].epoch \in Nat \ {0}
                       /\ DOMAIN history[l] = 1..segment[l].epoch
                       /\ DOMAIN history'[l] = 1..segment'[l].epoch
  <2> TAKE l \in Lives
  <2>1. /\ segment[l] \in Segment /\ segment'[l] \in Segment
        /\ history[l] \in Seq(Contents) /\ history'[l] \in Seq(Contents)
    BY DEF StatsInvariant, Types
  <2>2. Len(history[l]) = segment[l].epoch /\ Len(history'[l]) = segment'[l].epoch
    BY DEF StatsInvariant, Segments
  <2> QED
    BY <2>1, <2>2 DEF Segment
<1>3. life \in Nat /\ life' \in Nat /\ mapped \in Nat /\ Lives \subseteq Nat
  BY DEF StatsInvariant, Types, Lives
<1>4. Dirs'
  <2> SUFFICES ASSUME NEW x \in Readers, dir[x] # NoDir
               PROVE  DirGood(dir[x])'
    BY DEF Dirs
  <2>1. Passed(dir[x].life) => Passed(dir[x].life)'
    <3>1. dir[x].life \in Nat
      BY <1>1, <1>3
    <3> QED
      BY <3>1, <1>3 DEF Passed, Grows
  <2>2. /\ dir[x].life <= life /\ (mapped # 0 => dir[x].life <= mapped)
        /\ dir[x].epoch <= segment[dir[x].life].epoch
        /\ \/ dir[x].entries = history[dir[x].life][dir[x].epoch]
           \/ dir[x].epoch < segment[dir[x].life].epoch
           \/ Passed(dir[x].life)
    BY DEF Dirs, DirGood, StatsInvariant
  <2>3. /\ segment[dir[x].life].epoch <= segment'[dir[x].life].epoch
        /\ history'[dir[x].life][dir[x].epoch] = history[dir[x].life][dir[x].epoch]
    BY <1>1, <1>2, <2>2 DEF Grows
  <2>4. dir[x].life \in Nat /\ dir[x].epoch \in Nat
    BY <1>1, <1>3
  <2> QED
    BY <1>1, <1>2, <1>3, <2>1, <2>2, <2>3, <2>4 DEF Grows, DirGood
<1>5. OneEpoch'
  <2> SUFFICES ASSUME NEW x \in Readers,
                      rd[x].pc = "unlock" /\ rd[x].res = "ok" /\ rd[x].exact
               PROVE  \E k \in DOMAIN history'[dir[x].life] :
                         dir[x].entries = history'[dir[x].life][k]
    BY DEF OneEpoch
  <2>1. PICK k \in DOMAIN history[dir[x].life] :
           dir[x].entries = history[dir[x].life][k]
    BY DEF OneEpoch, StatsInvariant
  <2>2. dir[x] # NoDir
    BY DEF StatsInvariant, Results
  <2>3. dir[x].life \in Lives
    BY <1>1, <2>2
  <2>4. k \in DOMAIN history'[dir[x].life]
    BY <1>2, <2>1, <2>3 DEF Grows
  <2>5. history'[dir[x].life][k] = history[dir[x].life][k]
    BY <1>2, <2>1, <2>3 DEF Grows
  <2> QED
    BY <2>1, <2>4, <2>5
<1> QED
  BY <1>4, <1>5

(* A write of VPP spoils no read that its epoch would not give away.        *)
LEMMA StepVppRuns ==
    ASSUME StatsInvariant, VppRuns
    PROVE  StatsInvariant'
<1>1. /\ Types' /\ Segments' /\ life' = life
      /\ \A l \in Lives \ {life} :
            segment'[l] = segment[l] /\ history'[l] = history[l]
      /\ segment[life].epoch <= segment'[life].epoch
      /\ \A k \in 1..segment[life].epoch : history'[life][k] = history[life][k]
      /\ segment'[life].epoch = segment[life].epoch =>
            /\ vpp' = "bumped" => vpp = "bumped"
            /\ segment'[life].inProgress \/ vpp = "bumped"
  BY VppEffect DEF StatsInvariant, VppRuns
<1>2. UNCHANGED <<mapped, rd, dir, clientVars>>
  BY DEF VppRuns
<1>3. /\ life \in Lives /\ Lives \subseteq Nat
      /\ \A l \in Lives : segment[l].epoch \in Nat \ {0} /\ segment'[l].epoch \in Nat \ {0}
  <2>1. life \in Lives /\ Lives \subseteq Nat
    BY StatsAssumption DEF StatsInvariant, Types, Lives
  <2>2. \A l \in Lives : segment[l] \in Segment /\ segment'[l] \in Segment
    BY <1>1 DEF StatsInvariant, Types
  <2> QED
    BY <2>1, <2>2 DEF Segment
<1>4. Grows
  <2>1. ASSUME NEW l \in Lives, l # life
        PROVE  segment[l].epoch <= segment'[l].epoch /\ history'[l] = history[l]
    BY <1>1, <1>3, <2>1
  <2> QED
    BY <1>1, <1>3, <2>1 DEF Grows
<1>5. Dirs' /\ OneEpoch'
  BY <1>1, <1>2, <1>4, DirsGrown
<1>6. Locks' /\ Results' /\ ReconnectProtected'
  BY <1>2 DEF StatsInvariant, Locks, Results, ReconnectProtected, clientVars
<1>7. ASSUME NEW x \in Readers, rd'[x].pc \in Touching
      PROVE  Progress(x)' /\ (mapped' # 0 => Reads(x)')
  <2>1. Progress(x)'
    BY <1>2, <1>7 DEF StatsInvariant, Progress
  <2>2. ASSUME mapped # 0 PROVE Reads(x)'
    <3>1. Reads(x) /\ mapped \in Lives /\ mapped <= life
      <4>1. Reads(x)
        BY <1>2, <1>7, <2>2 DEF StatsInvariant
      <4>2. life \in 1..MaxLives /\ mapped \in 0..life /\ MaxLives \in Nat
        BY StatsAssumption DEF StatsInvariant, Types, Lives
      <4> QED
        BY <2>2, <4>1, <4>2 DEF Lives
    <3>2. CASE mapped # life
      <4>1. Seg' = Seg /\ history'[mapped] = history[mapped]
        BY <1>1, <1>2, <3>1, <3>2 DEF Seg
      <4> QED
        BY <1>1, <1>2, <3>1, <3>2, <4>1 DEF Reads, Usable
    <3>3. CASE mapped = life
      <4>1. /\ Seg.epoch \in Nat /\ Seg'.epoch \in Nat /\ Seg.epoch <= Seg'.epoch
            /\ Seg'.epoch = Seg.epoch =>
                  /\ vpp' = "bumped" => vpp = "bumped"
                  /\ Seg'.inProgress \/ vpp = "bumped"
        BY <1>1, <1>2, <1>3, <3>3 DEF Seg
      <4>2. rd[x].pc = "idle" \/ rd[x] \in InCall \/ rd[x] \in InRead \/ rd[x] \in Done
        BY DEF StatsInvariant, Types
      <4>3. rd[x].pc \in Touching => rd[x].access \in Nat
        BY <4>2 DEF InCall, InRead, Done, Touching
      <4>4. rd[x].access \in Nat
        BY <1>2, <1>7, <4>3
      <4>5. rd[x].pc \in {"startProgress", "read", "endEpoch", "endProgress"} =>
               0 < rd[x].access /\ rd[x].access <= Seg'.epoch
        BY <3>1, <4>1, <4>4 DEF Reads
      <4>6. rd[x].pc \in {"read", "endEpoch", "endProgress"} /\ Seg'.epoch = rd[x].access
               => vpp' # "bumped" /\ Seg'.inProgress
        BY <3>1, <3>3, <4>1, <4>4 DEF Reads
      <4> QED
        BY <1>1, <1>2, <3>1, <3>3, <4>5, <4>6 DEF Reads, Usable
    <3> QED
      BY <3>2, <3>3
  <2> QED
    BY <1>2, <2>1, <2>2
<1> QED
  BY <1>1, <1>5, <1>6, <1>7 DEF StatsInvariant

(* A new VPP has a segment of its own; old memory stays as it was.          *)
LEMMA StepVppStarts ==
    ASSUME StatsInvariant, VppStarts
    PROVE  StatsInvariant'
<1> USE StatsAssumption
<1>1. /\ UNCHANGED <<segment, history, changes, mapped, rd, dir, connected, writer,
                     locked, monitor, user, faulted, failed>>
      /\ life' = life + 1 /\ life < MaxLives /\ vpp' = "idle"
  BY DEF VppStarts
<1>2. Lives \subseteq Nat /\ life \in Nat /\ life' \in Lives /\ mapped \in 0..life
  BY <1>1 DEF StatsInvariant, Types, Lives
<1>3. Types'
  BY <1>1, <1>2 DEF StatsInvariant, Types
<1>4. Segments'
  BY <1>1, <1>2 DEF StatsInvariant, Segments
<1>5. Grows
  BY <1>1, <1>2, <1>3 DEF Grows, Types, Segment
<1>6. Dirs' /\ OneEpoch'
  BY <1>1, <1>3, <1>4, <1>5, DirsGrown
<1>7. Locks' /\ Results' /\ ReconnectProtected'
  BY <1>1 DEF StatsInvariant, Locks, Results, ReconnectProtected
<1>8. ASSUME NEW x \in Readers, rd'[x].pc \in Touching
      PROVE  Progress(x)' /\ (mapped' # 0 => Reads(x)')
  <2>1. Progress(x) /\ (mapped # 0 => Reads(x))
    BY <1>1, <1>8 DEF StatsInvariant
  <2>2. mapped # life'
    BY <1>1, <1>2
  <2> QED
    BY <1>1, <2>1, <2>2 DEF Progress, Reads, Seg, Usable
<1> QED
  BY <1>3, <1>4, <1>6, <1>7, <1>8 DEF StatsInvariant

-----------------------------------------------------------------------------
(* Steps of a reader                                                        *)

(* Where a reader is says which locals it has.                              *)
LEMMA ReaderType ==
    ASSUME Types, NEW x \in Readers
    PROVE  /\ rd[x].pc \in {"check", "lock"} => rd[x] \in InCall
           /\ rd[x].pc \in Touching => rd[x] \in InRead
           /\ rd[x].pc = "unlock" => rd[x] \in Done
<1>1. rd[x] \in [pc : {"idle"}] \cup InCall \cup InRead \cup Done
  BY DEF Types
<1> QED
  BY <1>1 DEF InCall, InRead, Done, Touching

Local(r) == r \in [pc : {"idle"}] \cup InCall \cup InRead \cup Done
Holding  == Touching \cup {"unlock"}

(* A step of a reader is good if the locals and the directory it leaves are.*)
LEMMA StepReader ==
    ASSUME StatsInvariant, NEW x \in Readers, NEW r, NEW d,
           rd' = [rd EXCEPT ![x] = r], dir' = [dir EXCEPT ![x] = d],
           UNCHANGED <<segmentVars, mapped, writer, monitor, user, faulted, failed>>,
           locked' = IF r.pc \in Holding THEN locked \cup {x} ELSE locked \ {x},
           Local(r), r.pc \in Holding => ~writer,
           d \in {NoDir} \cup StatDir, d # NoDir => DirGood(d),
           r.pc \in Touching => Progress(x)' /\ (mapped # 0 => Reads(x)'),
           r.pc = "unlock" /\ r.res = "ok" =>
              /\ d # NoDir
              /\ r.exact => \E k \in DOMAIN history[d.life] :
                               d.entries = history[d.life][k]
    PROVE  StatsInvariant'
<1>1. /\ rd'[x] = r /\ dir'[x] = d
      /\ \A y \in Readers \ {x} : rd'[y] = rd[y] /\ dir'[y] = dir[y]
  BY DEF StatsInvariant, Types
<1>2. Types'
  BY DEF StatsInvariant, Types, Local, segmentVars
<1>3. Locks'
  <2>1. locked' = {y \in Readers : rd'[y].pc \in Holding}
    BY <1>1 DEF StatsInvariant, Locks, Holding
  <2>2. writer => locked' = {}
    <3>1. writer => x \notin locked /\ locked = {}
      BY DEF StatsInvariant, Locks
    <3> QED
      BY <3>1
  <2> QED
    BY <2>1, <2>2 DEF StatsInvariant, Locks, Holding
<1>4. Segments'
  BY DEF StatsInvariant, Segments, segmentVars
<1>5. \A e : DirGood(e) => DirGood(e)'
  BY DEF DirGood, Passed, segmentVars
<1>6. Dirs'
  BY <1>1, <1>5 DEF StatsInvariant, Dirs
<1>7. ASSUME NEW y \in Readers, rd'[y].pc \in Touching
      PROVE  Progress(y)' /\ (mapped' # 0 => Reads(y)')
  <2>1. CASE y = x
    BY <1>1, <1>7, <2>1
  <2>2. CASE y # x
    BY <1>1, <1>7, <2>2 DEF StatsInvariant, Progress, Reads, Usable, Seg, segmentVars
  <2> QED
    BY <2>1, <2>2
<1>8. Results' /\ OneEpoch'
  <2>1. Results'
    BY <1>1 DEF StatsInvariant, Results
  <2>2. ASSUME NEW y \in Readers, rd'[y].pc = "unlock" /\ rd'[y].res = "ok" /\ rd'[y].exact
        PROVE  \E k \in DOMAIN history'[dir'[y].life] :
                  dir'[y].entries = history'[dir'[y].life][k]
    <3>1. history' = history
      BY DEF segmentVars
    <3>2. CASE y = x
      BY <1>1, <2>2, <3>1, <3>2
    <3>3. CASE y # x
      BY <1>1, <2>2, <3>1, <3>3 DEF StatsInvariant, OneEpoch
    <3> QED
      BY <3>2, <3>3
  <2> QED
    BY <2>1, <2>2 DEF OneEpoch
<1>9. ReconnectProtected'
  BY DEF StatsInvariant, ReconnectProtected
<1> QED
  BY <1>2, <1>3, <1>4, <1>6, <1>7, <1>8, <1>9 DEF StatsInvariant

(* A directory that was good is still there.                                *)
LEMMA DirKept ==
    ASSUME StatsInvariant, NEW x \in Readers
    PROVE  /\ dir[x] \in {NoDir} \cup StatDir /\ (dir[x] # NoDir => DirGood(dir[x]))
           /\ dir = [dir EXCEPT ![x] = dir[x]]
  BY DEF StatsInvariant, Types, Dirs

(* Calls begin, take the lock, give it back and are tried again.            *)
LEMMA StepCall ==
    ASSUME StatsInvariant, NEW x \in Readers, Call(x) \/ Check(x) \/ RLock(x) \/ RUnlock(x)
    PROVE  StatsInvariant'
<1> USE StatsAssumption
<1>1. /\ rd[x].pc \in {"check", "lock"} => rd[x] \in InCall
      /\ rd[x].pc = "unlock" => rd[x] \in Done
  BY ReaderType DEF StatsInvariant
<1>2. x \in locked <=> rd[x].pc \in Holding
  BY DEF StatsInvariant, Locks, Holding
<1>3. CASE Call(x)
  <2> DEFINE r == [pc |-> "check", tries |-> 1]
  <2>1. Local(r) /\ r.pc = "check"
    BY DEF Local, InCall, Tries
  <2>2. locked' = locked \ {x}
    BY <1>2, <1>3 DEF Call, Holding, Touching, clientVars
  <2>3. /\ rd' = [rd EXCEPT ![x] = r] /\ dir' = [dir EXCEPT ![x] = dir[x]]
        /\ UNCHANGED <<segmentVars, mapped, writer, monitor, user, faulted, failed>>
    BY <1>3, DirKept DEF Call, clientVars
  <2> HIDE DEF r
  <2> QED
    BY <2>1, <2>2, <2>3, DirKept, StepReader DEF Holding, Touching
<1>4. CASE Check(x)
  <2>1. locked' = locked \ {x}
    BY <1>2, <1>4 DEF Check, Holding, Touching, clientVars
  <2>2. UNCHANGED <<segmentVars, mapped, writer, monitor, user, faulted, failed>>
    BY <1>4 DEF Check, clientVars
  <2>3. CASE connected
    <3> DEFINE r == [rd[x] EXCEPT !.pc = "lock"]
    <3>1. Local(r) /\ r.pc = "lock"
      BY <1>1, <1>4 DEF Check, Local, InCall
    <3>2. rd' = [rd EXCEPT ![x] = r] /\ dir' = [dir EXCEPT ![x] = dir[x]]
      BY <1>4, <2>3, DirKept DEF Check, Goes
    <3> HIDE DEF r
    <3> QED
      BY <2>1, <2>2, <3>1, <3>2, DirKept, StepReader DEF Holding, Touching
  <2>4. CASE ~connected
    <3> DEFINE r == [pc |-> "idle"]
    <3>1. Local(r) /\ r.pc = "idle"
      BY DEF Local
    <3>2. rd' = [rd EXCEPT ![x] = r] /\ dir' = [dir EXCEPT ![x] = NoDir]
      BY <1>4, <2>4 DEF Check
    <3> HIDE DEF r
    <3> QED
      BY <2>1, <2>2, <3>1, <3>2, StepReader DEF Holding, Touching
  <2> QED
    BY <2>3, <2>4
<1>5. CASE RLock(x)
  <2> DEFINE r == [pc |-> IF dir[x] # NoDir THEN "compare" ELSE "start",
                   tries |-> rd[x].tries, access |-> 0, loaded |-> 0, got |-> <<>>,
                   err |-> FALSE]
  <2>1. Local(r) /\ r.pc = (IF dir[x] # NoDir THEN "compare" ELSE "start") /\ r.got = <<>>
    BY <1>1, <1>5 DEF RLock, Local, InCall, InRead, Touching
  <2>2. /\ rd' = [rd EXCEPT ![x] = r] /\ dir' = [dir EXCEPT ![x] = dir[x]]
        /\ UNCHANGED <<segmentVars, mapped, writer, monitor, user, faulted, failed>>
        /\ locked' = locked \cup {x} /\ ~writer
    BY <1>5, DirKept DEF RLock
  <2>3. rd'[x] = r /\ dir'[x] = dir[x]
    BY <2>2 DEF StatsInvariant, Types
  <2> HIDE DEF r
  <2>4. Progress(x)' /\ Reads(x)'
    BY <2>1, <2>3 DEF Progress, Reads
  <2> QED
    BY <2>1, <2>2, <2>4, DirKept, StepReader DEF Holding, Touching
<1>6. CASE RUnlock(x)
  <2> DEFINE r == IF MayRetry(x)
                  THEN [pc |-> "check",
                        tries |-> IF rd[x].tries < Retries THEN rd[x].tries + 1
                                                           ELSE Retries]
                  ELSE [pc |-> "idle"]
  <2>1. Local(r) /\ r.pc \in {"check", "idle"}
    BY <1>1, <1>6 DEF RUnlock, Local, InCall, Done, Tries
  <2>2. /\ rd' = [rd EXCEPT ![x] = r] /\ dir' = [dir EXCEPT ![x] = dir[x]]
        /\ UNCHANGED <<segmentVars, mapped, writer, monitor, user, faulted, failed>>
        /\ locked' = locked \ {x}
    BY <1>6, DirKept DEF RUnlock
  <2> HIDE DEF r
  <2> QED
    BY <2>1, <2>2, DirKept, StepReader DEF Holding, Touching
<1> QED
  BY <1>3, <1>4, <1>5, <1>6

(* What is known while a reader touches the segment that is mapped.         *)
LEMMA Touched ==
    ASSUME StatsInvariant, NEW x \in Readers, rd[x].pc \in Touching, mapped # 0
    PROVE  /\ rd[x] \in InRead /\ Progress(x) /\ Reads(x) /\ ~writer
           /\ locked = locked \cup {x}
           /\ mapped \in Lives /\ Seg \in Segment /\ Seg.epoch \in Nat \ {0}
           /\ history[mapped] \in Seq(Contents) /\ Len(history[mapped]) = Seg.epoch
           /\ Seg.inProgress \/ Seg.entries = history[mapped][Seg.epoch]
           /\ mapped = life /\ ~Seg.inProgress => vpp = "idle"
<1>1. life \in 1..MaxLives /\ mapped \in 0..life /\ MaxLives \in Nat
  BY StatsAssumption DEF StatsInvariant, Types, Lives
<1>2. mapped \in Lives
  BY <1>1 DEF Lives
<1>3. Seg \in Segment /\ history[mapped] \in Seq(Contents)
  BY <1>2 DEF StatsInvariant, Types, Seg
<1>4. x \in locked /\ ~writer
  BY DEF StatsInvariant, Locks
<1>5. /\ Len(history[mapped]) = Seg.epoch
      /\ Seg.inProgress \/ Seg.entries = history[mapped][Seg.epoch]
      /\ mapped = life /\ ~Seg.inProgress => vpp = "idle"
  BY <1>2 DEF StatsInvariant, Segments, Seg
<1>6. rd[x] \in InRead /\ Progress(x) /\ Reads(x)
  BY ReaderType DEF StatsInvariant
<1> QED
  BY <1>2, <1>3, <1>4, <1>5, <1>6 DEF Segment

(* A directory of the mapped life is at most as new as the segment.         *)
LEMMA DirBounds ==
    ASSUME StatsInvariant, NEW x \in Readers, dir[x] # NoDir, mapped # 0
    PROVE  /\ dir[x].life \in Lives /\ dir[x].epoch \in Nat \ {0}
           /\ dir[x].entries \in Contents
           /\ dir[x].life <= mapped
           /\ dir[x].life = mapped =>
                 /\ dir[x].epoch <= Seg.epoch
                 /\ \/ dir[x].entries = history[mapped][dir[x].epoch]
                    \/ dir[x].epoch < Seg.epoch
<1>1. dir[x] \in StatDir /\ DirGood(dir[x])
  BY DirKept
<1>2. dir[x].life \in Nat
  BY <1>1, StatsAssumption DEF StatDir, Lives
<1> QED
  BY <1>1, <1>2 DEF StatDir, DirGood, Passed, Seg

(* One more entry has been read.                                            *)
LEMMA StepReadEntry ==
    ASSUME StatsInvariant, NEW x \in Readers, mapped # 0, ReadEntry(x),
           UNCHANGED <<segmentVars, mapped, clientVars>>
    PROVE  StatsInvariant'
<1> USE StatsAssumption
<1>1. rd[x].pc = "read" /\ rd[x].pc \in Touching
  BY DEF ReadEntry, Touching
<1>2. /\ rd[x] \in InRead /\ Progress(x) /\ Reads(x) /\ ~writer
      /\ locked = locked \cup {x}
      /\ mapped \in Lives /\ Seg \in Segment /\ Seg.epoch \in Nat \ {0}
      /\ history[mapped] \in Seq(Contents) /\ Len(history[mapped]) = Seg.epoch
      /\ Seg.inProgress \/ Seg.entries = history[mapped][Seg.epoch]
  BY <1>1, Touched
<1> DEFINE n == Len(rd[x].got) + 1
           e == Refreshed(x, n)
           got == Append(rd[x].got, e)
           pc == IF n = N THEN "endEpoch" ELSE "read"
           r == [rd[x] EXCEPT !.got = got, !.pc = pc]
<1>3. rd[x].got \in Seq(Entry) /\ Len(rd[x].got) \in Nat /\ Len(rd[x].got) < N
  BY <1>1, <1>2 DEF InRead, Progress
<1>4. n \in 1..N /\ n \in Entries
  BY <1>3, EntriesCounted
<1>5. e \in Entry
  <2>1. Seg.entries \in Contents
    BY <1>2 DEF Segment
  <2>2. dir[x] # NoDir => dir[x].entries \in Contents
    BY DirBounds
  <2> HIDE DEF n
  <2> QED
    BY <1>4, <2>1, <2>2 DEF Refreshed, Contents, Entry
<1> HIDE DEF e
<1>6. /\ got \in Seq(Entry) /\ Len(got) = n /\ DOMAIN got = 1..n
      /\ got[n] = e /\ \A i \in DOMAIN rd[x].got : got[i] = rd[x].got[i]
      /\ \A i \in DOMAIN got : i = n \/ i \in DOMAIN rd[x].got
  BY <1>3, <1>5
<1> HIDE DEF got
<1>7. Local(r) /\ r \in InRead /\ r.pc = pc /\ r.got = got /\ r.access = rd[x].access
  BY <1>2, <1>6 DEF Local, InRead, Touching
<1>8. /\ rd' = [rd EXCEPT ![x] = r] /\ dir' = [dir EXCEPT ![x] = dir[x]]
      /\ UNCHANGED <<segmentVars, mapped, writer, monitor, user, faulted, failed>>
      /\ locked' = locked
  <2>1. rd' = [rd EXCEPT ![x].got = got,
                         ![x].pc = IF n = N THEN "endEpoch" ELSE rd[x].pc]
    BY DEF ReadEntry, got, e, N
  <2>2. rd \in [Readers -> [pc : {"idle"}] \cup InCall \cup InRead \cup Done]
    BY DEF StatsInvariant, Types
  <2>3. rd' = [rd EXCEPT ![x] = r]
    BY <1>1, <2>1, <2>2
  <2> QED
    BY <2>3, DirKept DEF ReadEntry, clientVars
<1>9. rd'[x] = r /\ dir' = dir /\ history' = history /\ Seg' = Seg /\ vpp' = vpp
      /\ life' = life /\ mapped' = mapped
  BY <1>8 DEF StatsInvariant, Types, ReadEntry, Seg, segmentVars
<1>10. Progress(x)'
  <2>1. pc = "read" => Len(got) < N
    BY <1>3, <1>4, <1>6, EntriesCounted
  <2>2. pc = "endEpoch" => Len(got) = N
    BY <1>6
  <2>3. pc \in {"read", "endEpoch"}
    OBVIOUS
  <2> HIDE DEF r, pc
  <2> QED
    BY <1>7, <1>9, <2>1, <2>2, <2>3 DEF Progress
<1>11. Reads(x)'
  <2>1. ASSUME Seg.epoch = rd[x].access, ~Seg.inProgress, Usable(x)
        PROVE  e = history[mapped][rd[x].access][n]
    <3>1. Seg.entries = history[mapped][rd[x].access]
      BY <1>2, <2>1
    <3>2. dir[x] # NoDir => dir[x].entries = history[mapped][rd[x].access]
      BY <1>2, <2>1, DirBounds DEF Usable
    <3> QED
      BY <3>1, <3>2 DEF e, Refreshed
  <2>2. ASSUME Seg.epoch = rd[x].access, ~Seg.inProgress, Usable(x)
        PROVE  \A i \in DOMAIN got : got[i] = history[mapped][rd[x].access][i]
    BY <1>1, <1>2, <1>6, <2>1, <2>2 DEF Reads
  <2>3. Usable(x)' => Usable(x)
    BY <1>7, <1>9 DEF Usable
  <2>4. pc \in {"read", "endEpoch"}
    OBVIOUS
  <2> HIDE DEF r, pc
  <2> QED
    BY <1>1, <1>2, <1>7, <1>9, <2>2, <2>3, <2>4 DEF Reads
<1>12. r.pc \in Touching /\ r.pc # "unlock"
  BY <1>7 DEF Touching
<1> HIDE DEF r
<1> QED
  BY <1>2, <1>7, <1>8, <1>10, <1>11, <1>12, DirKept, StepReader DEF Holding

(* What makes a result: the reader's locals are gone, the lock is still his.*)
LEMMA StepResult ==
    ASSUME StatsInvariant, NEW x \in Readers, rd[x].pc \in Touching, mapped # 0,
           NEW res \in {"ok", "stale", "busy", "error", "failed"},
           NEW exact \in BOOLEAN, NEW d \in {NoDir} \cup StatDir,
           Result(x, res, exact), dir' = [dir EXCEPT ![x] = d],
           UNCHANGED <<segmentVars, mapped, clientVars>>,
           d # NoDir => DirGood(d),
           res = "ok" => /\ d # NoDir
                         /\ exact => \E k \in DOMAIN history[d.life] :
                                        d.entries = history[d.life][k]
    PROVE  StatsInvariant'
<1> DEFINE r == [pc |-> "unlock", tries |-> rd[x].tries, res |-> res, exact |-> exact]
<1>1. rd[x] \in InRead /\ ~writer /\ locked = locked \cup {x}
  BY Touched
<1>2. Local(r) /\ r.pc = "unlock" /\ r.res = res /\ r.exact = exact
  BY <1>1 DEF Local, InRead, Done
<1>3. /\ rd' = [rd EXCEPT ![x] = r]
      /\ UNCHANGED <<segmentVars, mapped, writer, monitor, user, faulted, failed>>
      /\ locked' = locked
  BY DEF Result, clientVars
<1> HIDE DEF r
<1>4. r.pc \in Holding /\ r.pc \notin Touching
  BY <1>2 DEF Holding, Touching
<1> QED
  BY <1>1, <1>2, <1>3, <1>4, StepReader

(* A step within a read that leaves the directory alone.                    *)
LEMMA StepRead ==
    ASSUME StatsInvariant, NEW x \in Readers, rd[x].pc \in Touching, mapped # 0,
           NEW r \in InRead, rd' = [rd EXCEPT ![x] = r], dir' = dir,
           UNCHANGED <<segmentVars, mapped, clientVars>>,
           rd'[x] = r => Progress(x)' /\ Reads(x)'
    PROVE  StatsInvariant'
<1>1. ~writer /\ locked = locked \cup {x}
  BY Touched
<1>2. rd'[x] = r
  BY DEF StatsInvariant, Types
<1>3. Local(r) /\ r.pc \in Touching /\ r.pc \in Holding /\ r.pc # "unlock"
  BY DEF Local, InRead, Holding, Touching
<1>4. UNCHANGED <<segmentVars, mapped, writer, monitor, user, faulted, failed, locked>>
  BY DEF clientVars
<1> QED
  BY <1>1, <1>2, <1>3, <1>4, DirKept, StepReader

(* The steps before the first entry is read.                                *)
LEMMA StepStart ==
    ASSUME StatsInvariant, NEW x \in Readers, mapped # 0,
           CompareEpoch(x) \/ StartEpoch(x) \/ StartProgress(x),
           UNCHANGED <<segmentVars, mapped, clientVars>>
    PROVE  StatsInvariant'
<1> USE StatsAssumption
<1>1. rd[x].pc \in {"compare", "start", "startProgress"} /\ rd[x].pc \in Touching
  BY DEF CompareEpoch, StartEpoch, StartProgress, Touching
<1>2. /\ rd[x] \in InRead /\ Progress(x) /\ Reads(x)
      /\ Seg.epoch \in Nat \ {0} /\ (mapped = life /\ ~Seg.inProgress => vpp = "idle")
  BY <1>1, Touched
<1>3. rd[x].got = <<>> /\ DOMAIN rd[x].got = {} /\ Len(rd[x].got) = 0 /\ 0 < N
  <2>1. rd[x].got = <<>>
    BY <1>1, <1>2 DEF Progress
  <2> QED
    BY <2>1, EntriesCounted
<1>4. Seg' = Seg /\ mapped' = mapped /\ life' = life /\ vpp' = vpp /\ history' = history
  BY DEF Seg, segmentVars
<1>5. ASSUME Result(x, "stale", TRUE) \/ Result(x, "failed", TRUE),
             dir' = [dir EXCEPT ![x] = NoDir]
      PROVE  StatsInvariant'
  BY <1>1, <1>5, StepResult
<1>6. CASE CompareEpoch(x)
  <2>1. CASE dir[x].epoch = Seg.epoch
    <3> DEFINE r == [rd[x] EXCEPT !.pc = "start"]
    <3>1. r \in InRead /\ r.pc = "start" /\ r.got = <<>>
      BY <1>2, <1>3 DEF InRead, Touching
    <3>2. rd' = [rd EXCEPT ![x] = r] /\ dir' = dir
      BY <1>6, <2>1 DEF CompareEpoch, Goes
    <3> HIDE DEF r
    <3>3. rd'[x] = r => Progress(x)' /\ Reads(x)'
      BY <3>1 DEF Progress, Reads
    <3> QED
      BY <1>1, <3>1, <3>2, <3>3, StepRead
  <2>2. CASE dir[x].epoch # Seg.epoch
    BY <1>5, <1>6, <2>2 DEF CompareEpoch
  <2> QED
    BY <2>1, <2>2
<1>7. CASE StartEpoch(x)
  <2> DEFINE r == [rd[x] EXCEPT !.pc = "startProgress", !.access = Seg.epoch]
  <2>1. r \in InRead /\ r.pc = "startProgress" /\ r.access = Seg.epoch /\ r.got = <<>>
    BY <1>2, <1>3 DEF InRead, Touching
  <2>2. rd' = [rd EXCEPT ![x] = r] /\ dir' = dir
    <3>1. rd \in [Readers -> [pc : {"idle"}] \cup InCall \cup InRead \cup Done]
      BY DEF StatsInvariant, Types
    <3> QED
      BY <1>7, <3>1 DEF StartEpoch
  <2> HIDE DEF r
  <2>3. rd'[x] = r => Progress(x)' /\ Reads(x)'
    <3>1. dir[x] # NoDir /\ dir[x].life = mapped => dir[x].epoch <= Seg.epoch
      BY DirBounds
    <3> QED
      BY <1>2, <1>4, <2>1, <2>2, <3>1 DEF Progress, Reads
  <2> QED
    BY <1>1, <2>1, <2>2, <2>3, StepRead
<1>8. CASE StartProgress(x)
  <2>1. ASSUME NEW pc \in {"read", "start"}, Goes(x, pc), dir' = dir,
               pc = "read" => ~Seg.inProgress
        PROVE  StatsInvariant'
    <3> DEFINE r == [rd[x] EXCEPT !.pc = pc]
    <3>1. r \in InRead /\ r.pc = pc /\ r.got = <<>> /\ r.access = rd[x].access
      BY <1>2, <1>3 DEF InRead, Touching
    <3>2. rd' = [rd EXCEPT ![x] = r] /\ dir' = dir
      BY <2>1 DEF Goes
    <3> HIDE DEF r
    <3>3. rd'[x] = r => Progress(x)'
      BY <1>3, <3>1 DEF Progress
    <3>4. rd'[x] = r => Reads(x)'
      <4>1. rd[x].pc = "startProgress"
        BY <1>8 DEF StartProgress
      <4>2. mapped = life /\ pc = "read" => vpp # "bumped"
        BY <1>2, <2>1
      <4> QED
        BY <1>2, <1>3, <1>4, <3>1, <3>2, <4>1, <4>2 DEF Reads
    <3> QED
      BY <1>1, <3>1, <3>2, <3>3, <3>4, StepRead
  <2> QED
    BY <1>5, <1>8, <2>1 DEF StartProgress
<1> QED
  BY <1>6, <1>7, <1>8

(* A read that fails, and the first of the two loads at the end.            *)
LEMMA StepEndEpoch ==
    ASSUME StatsInvariant, NEW x \in Readers, mapped # 0, ReadFails(x) \/ EndEpoch(x),
           UNCHANGED <<segmentVars, mapped, clientVars>>
    PROVE  StatsInvariant'
<1>1. rd[x].pc \in {"read", "endEpoch"} /\ rd[x].pc \in Touching
  BY DEF ReadFails, EndEpoch, Touching
<1>2. rd[x] \in InRead /\ Progress(x) /\ Reads(x) /\ Seg.epoch \in Nat \ {0}
  BY <1>1, Touched
<1>3. /\ Seg' = Seg /\ mapped' = mapped /\ life' = life /\ vpp' = vpp
      /\ history' = history /\ dir' = dir
  BY DEF Seg, segmentVars, ReadFails, EndEpoch
<1>4. rd \in [Readers -> [pc : {"idle"}] \cup InCall \cup InRead \cup Done]
  BY DEF StatsInvariant, Types
<1>5. PICK r \in InRead :
         /\ rd' = [rd EXCEPT ![x] = r] /\ r.pc \in {"endEpoch", "endProgress"}
         /\ r.access = rd[x].access /\ r.got = rd[x].got
         /\ r.err \/ (r.err = rd[x].err /\ rd[x].pc = "endEpoch")
  <2>1. CASE ReadFails(x)
    <3> DEFINE r == [rd[x] EXCEPT !.err = TRUE, !.pc = "endEpoch"]
    <3>1. r \in InRead /\ r.pc = "endEpoch" /\ r.access = rd[x].access /\ r.got = rd[x].got
          /\ r.err
      BY <1>2 DEF InRead, Touching
    <3>2. rd' = [rd EXCEPT ![x] = r]
      BY <1>4, <2>1 DEF ReadFails
    <3> QED
      BY <3>1, <3>2
  <2>2. CASE EndEpoch(x)
    <3> DEFINE r == [rd[x] EXCEPT !.pc = "endProgress", !.loaded = Seg.epoch]
    <3>1. r \in InRead /\ r.pc = "endProgress" /\ r.access = rd[x].access
          /\ r.got = rd[x].got /\ r.err = rd[x].err
      BY <1>2 DEF InRead, Touching
    <3>2. rd' = [rd EXCEPT ![x] = r] /\ rd[x].pc = "endEpoch"
      BY <1>4, <2>2 DEF EndEpoch
    <3> QED
      BY <3>1, <3>2
  <2> QED
    BY <2>1, <2>2
<1>6. rd'[x] = r => Progress(x)'
  BY <1>2, <1>5 DEF Progress
<1>7. rd'[x] = r => Reads(x)'
  BY <1>1, <1>2, <1>3, <1>5 DEF Reads, Usable
<1> QED
  BY <1>1, <1>3, <1>5, <1>6, <1>7, StepRead

(* The end of a read: what passes the check is the content of one epoch,    *)
(* and a directory from it is as good as its epoch and life are recent.     *)
LEMMA StepEndProgress ==
    ASSUME StatsInvariant, NEW x \in Readers, mapped # 0, EndProgress(x),
           UNCHANGED <<segmentVars, mapped, clientVars>>
    PROVE  StatsInvariant'
<1>1. rd[x].pc = "endProgress" /\ rd[x].pc \in Touching
  BY DEF EndProgress, Touching
<1>2. /\ rd[x] \in InRead /\ Progress(x) /\ Reads(x)
      /\ mapped \in Lives /\ Seg.epoch \in Nat \ {0}
      /\ history[mapped] \in Seq(Contents) /\ Len(history[mapped]) = Seg.epoch
  BY <1>1, Touched
<1> DEFINE ok == Undisturbed(x) /\ ~rd[x].err
           exact == /\ Seg.epoch = rd[x].loaded
                    /\ dir[x] # NoDir =>
                          dir[x].epoch = rd[x].access /\ dir[x].life = mapped
           res == IF ok THEN "ok" ELSE IF Undisturbed(x) THEN "error" ELSE "busy"
           new == [epoch |-> IF dir[x] = NoDir THEN rd[x].access ELSE dir[x].epoch,
                   life |-> IF dir[x] = NoDir THEN mapped ELSE dir[x].life,
                   entries |-> rd[x].got]
           d == IF ok THEN new ELSE NoDir
<1>3. Result(x, res, exact) /\ dir' = [dir EXCEPT ![x] = d]
  <2>1. dir \in [Readers -> {NoDir} \cup StatDir]
    BY DEF StatsInvariant, Types
  <2> QED
    BY <2>1 DEF EndProgress
<1>4. exact \in BOOLEAN /\ res \in {"ok", "stale", "busy", "error", "failed"}
  OBVIOUS
<1>5. CASE ~ok
  <2>1. res # "ok" /\ d = NoDir
    BY <1>5
  <2> HIDE DEF res, exact, d
  <2> QED
    BY <1>1, <1>3, <1>4, <2>1, StepResult
<1>6. CASE ok
  <2>1. /\ rd[x].loaded = rd[x].access /\ Seg.inProgress = FALSE /\ ~rd[x].err
        /\ rd[x].access \in Nat \ {0} /\ rd[x].access <= Seg.epoch
    <3>1. Seg.inProgress \in BOOLEAN
      BY <1>1, Touched DEF Segment
    <3> QED
      BY <1>1, <1>2, <1>6, <3>1 DEF Undisturbed, Reads, InRead
  <2>2. rd[x].got \in Contents /\ DOMAIN rd[x].got = Entries
    <3>1. rd[x].got \in Seq(Entry) /\ Len(rd[x].got) = N
      BY <1>1, <1>2, <2>1 DEF InRead, Progress
    <3> QED
      BY <3>1, GotContents
  <2>3. ASSUME Seg.epoch = rd[x].access, Usable(x)
        PROVE  rd[x].got = history[mapped][rd[x].access]
    <3>1. history[mapped][rd[x].access] \in Contents
      BY <1>2, <2>1, <2>3
    <3>2. \A i \in Entries : rd[x].got[i] = history[mapped][rd[x].access][i]
      BY <1>1, <1>2, <2>1, <2>2, <2>3 DEF Reads
    <3> QED
      BY <2>2, <3>1, <3>2 DEF Contents
  <2>4. /\ new \in StatDir /\ new.entries = rd[x].got
        /\ new.epoch = IF dir[x] = NoDir THEN rd[x].access ELSE dir[x].epoch
        /\ new.life = IF dir[x] = NoDir THEN mapped ELSE dir[x].life
    BY <1>2, <2>1, <2>2, DirBounds DEF StatDir
  <2> DEFINE l == new.life
             p == new.epoch
  <2>5. new # NoDir
    BY <2>4, NoDirType
  <2>6. mapped \in Nat /\ life \in Nat /\ mapped <= life
    BY StatsAssumption DEF StatsInvariant, Types, Lives
  <2>7. DirGood(new)
    <3>1. CASE dir[x] = NoDir
      <4>1. new.life = mapped /\ new.epoch = rd[x].access
        BY <2>4, <3>1
      <4>2. Usable(x)
        BY <3>1 DEF Usable
      <4>3. rd[x].access < Seg.epoch \/ rd[x].got = history[mapped][rd[x].access]
        BY <1>2, <2>1, <2>3, <4>2
      <4> HIDE DEF new
      <4> QED
        BY <2>1, <2>4, <2>6, <4>1, <4>3 DEF DirGood, Seg
    <3>2. CASE dir[x] # NoDir /\ dir[x].life # mapped
      <4>1. new.life = dir[x].life /\ new.epoch = dir[x].epoch
        BY <2>4, <3>2
      <4>2. dir[x].life \in Nat /\ dir[x].life < mapped
        BY <2>6, <3>2, DirBounds, StatsAssumption DEF Lives
      <4>3. DirGood(dir[x])
        BY <3>2, DirKept
      <4> HIDE DEF new
      <4> QED
        BY <4>1, <4>2, <4>3 DEF DirGood, Passed
    <3>3. CASE dir[x] # NoDir /\ dir[x].life = mapped
      <4>1. new.life = mapped /\ new.epoch = dir[x].epoch
        BY <2>4, <3>3
      <4>2. /\ dir[x].epoch <= Seg.epoch /\ dir[x].epoch \in Nat
            /\ dir[x].epoch <= rd[x].access
        BY <1>1, <1>2, <3>3, DirBounds DEF Reads
      <4>3. CASE dir[x].epoch < Seg.epoch
        <5> HIDE DEF new
        <5> QED
          BY <2>6, <4>1, <4>2, <4>3 DEF DirGood, Seg
      <4>4. CASE ~(dir[x].epoch < Seg.epoch)
        <5>1. Seg.epoch = rd[x].access /\ dir[x].epoch = rd[x].access
          BY <1>2, <2>1, <4>2, <4>4
        <5>2. rd[x].got = history[mapped][rd[x].access]
          BY <2>3, <3>3, <5>1 DEF Usable
        <5> HIDE DEF new
        <5> QED
          BY <2>4, <2>6, <4>1, <4>2, <5>1, <5>2 DEF DirGood, Seg
      <4> QED
        BY <4>3, <4>4
    <3> QED
      BY <3>1, <3>2, <3>3
  <2>8. exact => \E k \in DOMAIN history[new.life] : new.entries = history[new.life][k]
    <3> SUFFICES ASSUME exact
                 PROVE  \E k \in DOMAIN history[new.life] :
                           new.entries = history[new.life][k]
      OBVIOUS
    <3>1. Seg.epoch = rd[x].access /\ Usable(x) /\ new.life = mapped
      BY <2>1, <2>4 DEF Usable
    <3>2. rd[x].access \in DOMAIN history[mapped]
      BY <1>2, <2>1, <3>1
    <3> HIDE DEF new, exact
    <3> QED
      BY <2>3, <2>4, <3>1, <3>2
  <2>9. res = "ok" /\ d = new
    BY <1>6
  <2> HIDE DEF res, exact, d, new, ok
  <2> QED
    BY <1>1, <1>3, <1>4, <2>4, <2>5, <2>7, <2>8, <2>9, StepResult
<1> QED
  BY <1>5, <1>6

(* Memory that is not mapped is read only where ReconnectProtected allows.  *)
LEMMA StepFaults ==
    ASSUME StatsInvariant, NEW x \in Readers, AccessFaults(x)
    PROVE  StatsInvariant'
<1>1. /\ UNCHANGED <<segmentVars, mapped, rd, dir, up, file, removals, connected,
                     writer, locked, monitor, user, failed>>
      /\ rd[x].pc \in Touching /\ mapped = 0
  BY DEF AccessFaults
<1>2. failed \/ user # "open"
  BY <1>1 DEF StatsInvariant, Locks
<1>3. Types' /\ Locks' /\ Segments' /\ Dirs' /\ Results' /\ OneEpoch'
  BY <1>1 DEF StatsInvariant, Types, Locks, Segments, Dirs, DirGood, Passed, Results,
              OneEpoch, segmentVars
<1>4. ReconnectProtected'
  BY <1>1, <1>2 DEF ReconnectProtected
<1>5. \A y \in Readers : Progress(y)' = Progress(y)
  BY <1>1 DEF Progress
<1> QED
  BY <1>1, <1>3, <1>4, <1>5 DEF StatsInvariant

-----------------------------------------------------------------------------
(* Every step preserves the invariant.                                      *)
LEMMA NextInvariant ==
    ASSUME StatsInvariant, [Next]_vars
    PROVE  StatsInvariant'
<1>1. ASSUME NEW x \in Readers, Access(x) PROVE StatsInvariant'
  BY <1>1, StepStart, StepReadEntry, StepEndEpoch, StepEndProgress DEF Access, Touch
<1>2. CASE UNCHANGED vars
  BY <1>2 DEF StatsInvariant, Types, Locks, Segments, Dirs, DirGood, Passed, Results,
              OneEpoch, ReconnectProtected, Progress, Reads, Usable, Seg, vars,
              segmentVars, clientVars
<1>3. CASE Next
  BY <1>1, <1>3, StepCall, StepFaults, StepMonitor, StepVppRuns, StepVppStarts
     DEF Next, Reader
<1> QED
  BY <1>2, <1>3

(* The readers' locals and directories, the mapping, the lock and the       *)
(* segments are related as above at all times.                              *)
THEOREM StatsInvariantCorrect == Spec => []StatsInvariant
<1>1. Init => StatsInvariant
  BY InitInvariant
<1>2. StatsInvariant /\ [Next]_vars => StatsInvariant'
  BY NextInvariant
<1> QED
  BY <1>1, <1>2, PTL DEF Spec

(* A call of updateStats that succeeds outside of the three windows returns *)
(* the directory and data of one epoch.                                     *)
THEOREM OneEpochCorrect == Spec => []OneEpoch
<1>1. StatsInvariant => OneEpoch
  BY DEF StatsInvariant
<1> QED
  BY <1>1, StatsInvariantCorrect, PTL

(* A reader that holds the lock has its segment mapped, unless a reconnect  *)
(* has failed or the program calls Disconnect.                              *)
THEOREM ReconnectProtectedCorrect == Spec => []ReconnectProtected
<1>1. StatsInvariant => ReconnectProtected
  BY DEF StatsInvariant
<1> QED
  BY <1>1, StatsInvariantCorrect, PTL
=============================================================================
