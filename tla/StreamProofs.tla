---------------------------- MODULE StreamProofs ----------------------------
(***************************************************************************)
(* What streams and Invoke guarantee for any number of users, objects and  *)
(* streams: no Channel object is lost or shared, whichever way a call ends,*)
(* and the replies to one stream's requests stay in order.                 *)
(***************************************************************************)
EXTENDS Stream, SequenceTheorems, FiniteSetTheorems, TLAPS

(* An open stream has an object, and the ID that the map has the object     *)
(* under; no two streams have the same.                                     *)
StreamsOwn ==
    /\ \A u \in Open : /\ object[u] \in Objects /\ id[u] \in 1..opens
                       /\ channels[id[u]] = object[u]
    /\ \A u, v \in Open : id[u] = id[v] => u = v
    /\ IsFiniteSet(Open)

OwnershipInv == TypeOK /\ StreamsOwn /\ ObjectsConserved

-----------------------------------------------------------------------------
(* Messages of one channel in the order VPP sends them.                     *)
Ascending(q) == \A i, j \in DOMAIN q :
                    i < j /\ q[i].id = q[j].id => Earlier(q[i], q[j])

(* Requests of one channel in the order of their numbers.                   *)
Numbered(q) == \A i, j \in DOMAIN q :
                   i < j /\ q[i].id = q[j].id => q[i].seq < q[j].seq

(* Of one channel VPP sends those in A before those in B.                   *)
Before(A, B) == \A m \in A, n \in B : m.id = n.id => Earlier(m, n)

(* The reply in the reader's hand, and all that is still to come.           *)
InHand == IF callback = <<>> THEN {} ELSE {callback[2]}
Late == InHand \cup Range(vppQueue)

(* Replies go from VPP's queue through the reader's hand and the channel of *)
(* an object to the user that has the object, and never overtake.           *)
InOrder ==
    /\ Numbered(vppQueue) /\ Before(InHand, Range(vppQueue))
    /\ \A o \in Objects : Ascending(replyChan[o]) /\ Before(Range(replyChan[o]), Late)
    /\ \A u \in Users : Ascending(got[u]) /\ Before(Range(got[u]), Late)
    /\ \A u \in Open : Before(Range(got[u]), Range(replyChan[object[u]]))

(* Requests so far on the stream that has their ID, if one has it still.    *)
Sent(A) == \A m \in A : /\ m.id <= opens
                        /\ \A u \in Open : id[u] = m.id => m.seq <= sentOn[u]

Everything ==
    {m \in Messages : \/ m \in Late
                      \/ \E o \in Objects : m \in Range(replyChan[o])
                      \/ \E u \in Users : m \in Range(got[u])}

AllSent == Sent(Everything)

OrderInv == OwnershipInv /\ InOrder /\ AllSent

-----------------------------------------------------------------------------
(* Sequences of replies *)

(* What a sequence of messages holds.                                       *)
LEMMA RangeType ==
    ASSUME NEW q \in Seq(Messages)
    PROVE  /\ Range(q) \subseteq Messages /\ DOMAIN q = 1..Len(q) /\ Len(q) \in Nat
           /\ \A i \in 1..Len(q) : q[i] \in Messages
BY DEF Range

(* Messages have an ID, a number and a part.                                *)
LEMMA MessageType ==
    ASSUME NEW m \in Messages
    PROVE  m.id \in 1..MaxOpens /\ m.seq \in 1..MaxSends /\ m.part \in 1..MaxDetails
BY DEF Messages, Ids

(* A reply arrives behind the others.                                       *)
LEMMA AppendReply ==
    ASSUME NEW q \in Seq(Messages), NEW m \in Messages
    PROVE  /\ Append(q, m) \in Seq(Messages) /\ Len(Append(q, m)) = Len(q) + 1
           /\ Range(Append(q, m)) = Range(q) \cup {m}
           /\ Ascending(q) /\ Before(Range(q), {m}) => Ascending(Append(q, m))
<1> DEFINE a == Append(q, m)
<1>1. /\ a \in Seq(Messages) /\ Len(a) = Len(q) + 1 /\ DOMAIN a = 1..Len(q) + 1
      /\ \A i \in 1..Len(q) : a[i] = q[i]
      /\ a[Len(q) + 1] = m
  OBVIOUS
<1>2. DOMAIN q = 1..Len(q) /\ Len(q) \in Nat
  OBVIOUS
<1> HIDE DEF a
<1>3. Range(a) = Range(q) \cup {m}
  BY <1>1, <1>2 DEF Range
<1>4. ASSUME Ascending(q), Before(Range(q), {m})
      PROVE  Ascending(a)
  <2> SUFFICES ASSUME NEW i \in 1..Len(q) + 1, NEW j \in 1..Len(q) + 1,
                      i < j, a[i].id = a[j].id
               PROVE  Earlier(a[i], a[j])
    BY <1>1 DEF Ascending
  <2>1. i \in 1..Len(q) /\ a[i] = q[i]
    BY <1>1, <1>2
  <2>2. CASE j \in 1..Len(q)
    BY <1>1, <1>2, <1>4, <2>1, <2>2 DEF Ascending
  <2>3. CASE j = Len(q) + 1
    <3>1. a[j] = m /\ q[i] \in Range(q)
      BY <1>1, <1>2, <2>1, <2>3 DEF Range
    <3> QED
      BY <1>4, <2>1, <3>1 DEF Before
  <2> QED
    BY <1>2, <2>2, <2>3
<1> QED
  BY <1>1, <1>3, <1>4 DEF a

(* The first one is taken.                                                  *)
LEMMA TakeFirst ==
    ASSUME NEW q \in Seq(Messages), q # <<>>
    PROVE  /\ Head(q) \in Messages /\ Tail(q) \in Seq(Messages)
           /\ Len(Tail(q)) = Len(q) - 1 /\ Len(q) \in Nat
           /\ Head(q) \in Range(q) /\ Range(Tail(q)) \subseteq Range(q)
           /\ Ascending(q) => /\ Ascending(Tail(q))
                              /\ Before({Head(q)}, Range(Tail(q)))
<1> DEFINE a == Tail(q)
           h == Head(q)
<1>1. /\ h \in Messages /\ h = q[1] /\ a \in Seq(Messages) /\ Len(a) = Len(q) - 1
      /\ DOMAIN a = 1..Len(q) - 1
      /\ \A i \in 1..Len(q) - 1 : a[i] = q[i + 1]
  OBVIOUS
<1>2. DOMAIN q = 1..Len(q) /\ Len(q) \in Nat \ {0}
  OBVIOUS
<1> HIDE DEF a, h
<1>3. h \in Range(q) /\ Range(a) \subseteq Range(q)
  <2>1. h \in Range(q)
    BY <1>1, <1>2 DEF Range
  <2>2. ASSUME NEW i \in 1..Len(q) - 1
        PROVE  a[i] \in Range(q)
    <3>1. a[i] = q[i + 1] /\ i + 1 \in 1..Len(q)
      BY <1>1, <1>2
    <3> QED
      BY <1>2, <3>1 DEF Range
  <2>3. Range(a) \subseteq Range(q)
    BY <1>1, <2>2 DEF Range
  <2> QED
    BY <2>1, <2>3
<1>4. ASSUME Ascending(q)
      PROVE  Ascending(a)
  <2> SUFFICES ASSUME NEW i \in 1..Len(q) - 1, NEW j \in 1..Len(q) - 1,
                      i < j, a[i].id = a[j].id
               PROVE  Earlier(a[i], a[j])
    BY <1>1 DEF Ascending
  <2>1. /\ a[i] = q[i + 1] /\ a[j] = q[j + 1] /\ i + 1 < j + 1
        /\ i + 1 \in 1..Len(q) /\ j + 1 \in 1..Len(q)
    BY <1>1, <1>2
  <2> QED
    BY <1>2, <1>4, <2>1 DEF Ascending
<1>5. ASSUME Ascending(q)
      PROVE  Before({h}, Range(a))
  <2> SUFFICES ASSUME NEW i \in 1..Len(q) - 1, h.id = a[i].id
               PROVE  Earlier(h, a[i])
    BY <1>1 DEF Before, Range
  <2>1. a[i] = q[i + 1] /\ 1 < i + 1 /\ 1 \in 1..Len(q) /\ i + 1 \in 1..Len(q)
    BY <1>1, <1>2
  <2> QED
    BY <1>1, <1>2, <1>5, <2>1 DEF Ascending
<1> QED
  BY <1>1, <1>2, <1>3, <1>4, <1>5 DEF a, h

(* A request queues up behind the earlier ones of its stream.               *)
LEMMA AppendRequest ==
    ASSUME NEW q \in Seq(Messages), NEW m \in Messages, Numbered(q),
           \A n \in Range(q) : n.id = m.id => n.seq < m.seq
    PROVE  Numbered(Append(q, m))
<1> DEFINE a == Append(q, m)
<1>1. /\ DOMAIN a = 1..Len(q) + 1 /\ a[Len(q) + 1] = m
      /\ \A i \in 1..Len(q) : a[i] = q[i]
  OBVIOUS
<1>2. DOMAIN q = 1..Len(q) /\ Len(q) \in Nat
  OBVIOUS
<1> HIDE DEF a
<1> SUFFICES ASSUME NEW i \in 1..Len(q) + 1, NEW j \in 1..Len(q) + 1,
                    i < j, a[i].id = a[j].id
             PROVE  a[i].seq < a[j].seq
  BY <1>1 DEF Numbered, a
<1>3. i \in 1..Len(q) /\ a[i] = q[i] /\ q[i] \in Range(q)
  BY <1>1, <1>2 DEF Range
<1>4. CASE j \in 1..Len(q)
  BY <1>1, <1>2, <1>3, <1>4 DEF Numbered
<1>5. CASE j = Len(q) + 1
  BY <1>1, <1>3, <1>5
<1> QED
  BY <1>2, <1>4, <1>5

(* VPP's queue without its first request, in order.                         *)
LEMMA NextRequest ==
    ASSUME NEW q \in Seq(Messages), q # <<>>, Numbered(q)
    PROVE  Numbered(Tail(q)) /\ Before({Head(q)}, Range(Tail(q)))
<1> DEFINE a == Tail(q)
           h == Head(q)
<1>1. /\ h = q[1] /\ DOMAIN a = 1..Len(q) - 1
      /\ \A i \in 1..Len(q) - 1 : a[i] = q[i + 1]
  OBVIOUS
<1>2. DOMAIN q = 1..Len(q) /\ Len(q) \in Nat \ {0}
  OBVIOUS
<1> HIDE DEF a, h
<1>3. ASSUME NEW i \in 1..Len(q) - 1, NEW j \in 1..Len(q) - 1,
             i < j, a[i].id = a[j].id
      PROVE  a[i].seq < a[j].seq
  <2>1. /\ a[i] = q[i + 1] /\ a[j] = q[j + 1] /\ i + 1 < j + 1
        /\ i + 1 \in 1..Len(q) /\ j + 1 \in 1..Len(q)
    BY <1>1, <1>2, <1>3
  <2> QED
    BY <1>2, <1>3, <2>1 DEF Numbered
<1>4. ASSUME NEW i \in 1..Len(q) - 1, h.id = a[i].id
      PROVE  Earlier(h, a[i])
  <2>1. a[i] = q[i + 1] /\ 1 < i + 1 /\ 1 \in 1..Len(q) /\ i + 1 \in 1..Len(q)
    BY <1>1, <1>2
  <2> QED
    BY <1>1, <1>2, <1>4, <2>1 DEF Numbered, Earlier
<1>5. Numbered(a) /\ Before({h}, Range(a))
  BY <1>1, <1>3, <1>4 DEF Numbered, Before, Range
<1> QED
  BY <1>5 DEF a, h

(* Answer n, to the request of h, comes after h and all that is before h.   *)
NextOf(h, n) ==
    /\ n \in Messages /\ n.id = h.id /\ n.seq = h.seq /\ Earlier(h, n)
    /\ \A m \in Messages : m.id = h.id /\ Earlier(m, h) => Earlier(m, n)

(* Queue a has answers to requests of queue q, later than the first of q; it*)
(* is in order if q is, and what was before q still is.                     *)
GoesOn(q, a) ==
    /\ a \in Seq(Messages)
    /\ \A m \in Range(a) : \E x \in Range(q) : m.id = x.id /\ m.seq = x.seq
    /\ Numbered(q) => Numbered(a) /\ Before({q[1]}, Range(a))
    /\ \A A \in SUBSET Messages : Before(A, Range(q)) => Before(A, Range(a))

(* The next answer to a request comes after the last.                       *)
LEMMA NextPart ==
    ASSUME NEW h \in Messages, h.part < MaxDetails,
           NEW n, n = [h EXCEPT !.part = @ + 1]
    PROVE  NextOf(h, n)
<1>1. h.part + 1 \in 1..MaxDetails
  BY MessageType, StreamAssumption
<1>2. n \in Messages /\ n.id = h.id /\ n.seq = h.seq /\ n.part = h.part + 1
  BY <1>1 DEF Messages
<1>3. /\ h.part \in Nat /\ h.seq \in Nat
      /\ \A m \in Messages : m.part \in Nat /\ m.seq \in Nat
  BY MessageType
<1> QED
  BY <1>2, <1>3 DEF NextOf, Earlier

(* VPP's queue with that answer in front: still in order, and what was      *)
(* before the queue still is.                                               *)
LEMMA NextDetail ==
    ASSUME NEW q \in Seq(Messages), q # <<>>, NEW n, NextOf(q[1], n),
           NEW a, a = [q EXCEPT ![1] = n]
    PROVE  GoesOn(q, a)
<1>0. /\ n \in Messages /\ n.id = q[1].id /\ n.seq = q[1].seq /\ Earlier(q[1], n)
      /\ \A m \in Messages : m.id = q[1].id /\ Earlier(m, q[1]) => Earlier(m, n)
  BY DEF NextOf
<1>1. /\ DOMAIN q = 1..Len(q) /\ Len(q) \in Nat \ {0}
      /\ \A i \in 1..Len(q) : q[i] \in Messages
  OBVIOUS
<1>2. a \in Seq(Messages)
  BY <1>0
<1>3. 1 \in 1..Len(q)
  BY <1>1
<1>4. /\ DOMAIN a = 1..Len(q) /\ a[1] = n
      /\ \A i \in 1..Len(q) : i # 1 => a[i] = q[i]
  BY <1>1, <1>3
<1>5. \A i \in 1..Len(q) : a[i].id = q[i].id /\ a[i].seq = q[i].seq
  BY <1>0, <1>4
<1>6. ASSUME Numbered(q)
      PROVE  Numbered(a) /\ Before({q[1]}, Range(a))
  <2>1. Numbered(a)
    BY <1>1, <1>4, <1>5, <1>6 DEF Numbered
  <2>2. ASSUME NEW i \in 1..Len(q), q[1].id = a[i].id
        PROVE  Earlier(q[1], a[i])
    <3>1. CASE i = 1
      BY <1>0, <1>4, <3>1
    <3>2. CASE i # 1
      <4>1. 1 < i /\ a[i] = q[i]
        BY <1>1, <1>4, <3>2
      <4> QED
        BY <1>1, <1>3, <1>6, <2>2, <4>1 DEF Numbered, Earlier
    <3> QED
      BY <3>1, <3>2
  <2> QED
    BY <1>4, <2>1, <2>2 DEF Before, Range
<1>7. ASSUME NEW A \in SUBSET Messages, Before(A, Range(q))
      PROVE  Before(A, Range(a))
  <2> SUFFICES ASSUME NEW m \in A, NEW i \in 1..Len(q), m.id = a[i].id
               PROVE  Earlier(m, a[i])
    BY <1>4 DEF Before, Range
  <2>1. Earlier(m, q[i]) /\ m.id = q[i].id
    BY <1>1, <1>5, <1>7 DEF Before, Range
  <2>2. CASE i = 1
    BY <1>0, <1>4, <2>1, <2>2
  <2>3. CASE i # 1
    BY <1>4, <2>1, <2>3
  <2> QED
    BY <2>2, <2>3
<1>8. \A m \in Range(a) : \E x \in Range(q) : m.id = x.id /\ m.seq = x.seq
  BY <1>1, <1>4, <1>5 DEF Range
<1> QED
  BY <1>2, <1>6, <1>7, <1>8 DEF GoesOn

(* Either way.                                                              *)
LEMMA NextAnswer ==
    ASSUME vppQueue \in Seq(Messages), vppQueue # <<>>, Answered \/ VppSkips
    PROVE  /\ vppQueue' \in Seq(Messages)
           /\ \A m \in Range(vppQueue') : \E n \in Range(vppQueue) :
                 m.id = n.id /\ m.seq = n.seq
           /\ Numbered(vppQueue) => /\ Numbered(vppQueue')
                                    /\ Before({Head(vppQueue)}, Range(vppQueue'))
           /\ \A A \in SUBSET Messages : Before(A, Range(vppQueue)) =>
                                          Before(A, Range(vppQueue'))
<1>1. ASSUME vppQueue' = Tail(vppQueue)
      PROVE  /\ vppQueue' \in Seq(Messages) /\ Range(vppQueue') \subseteq Range(vppQueue)
             /\ Numbered(vppQueue) => /\ Numbered(vppQueue')
                                      /\ Before({Head(vppQueue)}, Range(vppQueue'))
  BY <1>1, TakeFirst, NextRequest
<1>2. CASE vppQueue' = Tail(vppQueue)
  BY <1>1, <1>2 DEF Before
<1>3. CASE /\ Head(vppQueue).part < MaxDetails
           /\ vppQueue' = [vppQueue EXCEPT ![1].part = @ + 1]
  <2>1. Head(vppQueue) = vppQueue[1] /\ vppQueue[1] \in Messages
    OBVIOUS
  <2>2. PICK n : n = [vppQueue[1] EXCEPT !.part = @ + 1]
    OBVIOUS
  <2>3. vppQueue' = [vppQueue EXCEPT ![1] = n]
    BY <1>3, <2>2
  <2>4. NextOf(vppQueue[1], n)
    BY <1>3, <2>1, <2>2, NextPart
  <2>5. GoesOn(vppQueue, vppQueue')
    BY <2>3, <2>4, NextDetail
  <2> QED
    BY <2>1, <2>5 DEF GoesOn
<1> QED
  BY <1>2, <1>3 DEF Answered, VppSkips

(* Nothing is before and after everything.                                  *)
LEMMA NoReply == /\ <<>> \in Seq(Messages) /\ Len(<<>>) = 0 /\ Range(<<>>) = {}
                 /\ Ascending(<<>>) /\ Numbered(<<>>)
BY DEF Ascending, Numbered, Range

-----------------------------------------------------------------------------
(* Objects *)

(* Whether a stream stays open, one is opened, or one is closed.            *)
LEMMA OpenChange ==
    ASSUME NEW u \in Users, \A v \in Users \ {u} : pc'[v] = pc[v]
    PROVE  /\ u \in Open /\ pc'[u] # "idle" => Open' = Open
           /\ u \notin Open /\ pc'[u] # "idle" => Open' = Open \cup {u}
           /\ pc'[u] = "idle" => Open' = Open \ {u}
<1>1. Open' = {v \in Users : pc'[v] # "idle"}
  BY DEF Open
<1> QED
  BY <1>1 DEF Open

(* A step that leaves the objects, their streams and the map alone.         *)
LEMMA OwnershipUnchanged ==
    ASSUME StreamsOwn, ObjectsConserved,
           UNCHANGED <<opens, pool, returning, channels, object, id>>, Open' = Open
    PROVE  StreamsOwn' /\ ObjectsConserved'
BY DEF StreamsOwn, ObjectsConserved

(* NewStream gives an object of the pool and a new ID.                      *)
LEMMA OwnershipNew ==
    ASSUME IsFiniteSet(Objects), OwnershipInv, NEW u \in Users, NewStream(u)
    PROVE  TypeOK' /\ StreamsOwn' /\ ObjectsConserved'
<1>0. TypeOK /\ StreamsOwn /\ ObjectsConserved
  BY DEF OwnershipInv
<1>1. PICK o \in pool : /\ pool' = pool \ {o}
                        /\ channels' = [channels EXCEPT ![opens'] = o]
                        /\ object' = [object EXCEPT ![u] = o]
  BY DEF NewStream
<1>2. /\ opens' = opens + 1 /\ opens \in Nat /\ opens' \in Ids /\ opens' <= MaxOpens
      /\ o \in Objects /\ o # NoObject /\ o \notin returning
  BY <1>0, <1>1, StreamAssumption DEF TypeOK, NewStream, Ids, ObjectsConserved
<1>3. /\ pc' = [pc EXCEPT ![u] = "open"] /\ id' = [id EXCEPT ![u] = opens']
      /\ sentOn' = [sentOn EXCEPT ![u] = 0] /\ got' = [got EXCEPT ![u] = <<>>]
      /\ result' = [result EXCEPT ![u] = "none"]
      /\ UNCHANGED <<returning, replyChan, vppQueue, callback>>
      /\ pc[u] = "idle"
  BY DEF NewStream
<1>4. TypeOK'
  <2>1. /\ opens' \in 0..MaxOpens /\ 0 \in 0..MaxSends /\ opens' \in 0..MaxOpens
    BY <1>2, StreamAssumption
  <2> QED
    BY <1>0, <1>1, <1>2, <1>3, <2>1, NoReply DEF TypeOK
<1>5. Open' = Open \cup {u} /\ u \notin Open
  <2>1. pc'[u] = "open" /\ \A v \in Users \ {u} : pc'[v] = pc[v]
    BY <1>0, <1>3 DEF TypeOK
  <2> QED
    BY <1>3, <2>1, OpenChange DEF Open
<1>6. /\ object'[u] = o /\ id'[u] = opens' /\ channels'[opens'] = o
      /\ \A v \in Open : object'[v] = object[v] /\ id'[v] = id[v]
      /\ \A i \in Ids \ {opens'} : channels'[i] = channels[i]
  <2>1. /\ object \in [Users -> Objects \cup {NoObject}]
        /\ id \in [Users -> 0..MaxOpens]
        /\ channels \in [Ids -> Objects \cup {NoObject}]
    BY <1>0 DEF TypeOK
  <2> QED
    BY <1>1, <1>2, <1>3, <1>5, <2>1 DEF Open
<1>7. \A v \in Open : id[v] \in 1..opens /\ id[v] \in Ids /\ id[v] # opens'
  <2> SUFFICES ASSUME NEW v \in Open
               PROVE  id[v] \in 1..opens /\ id[v] \in 1..MaxOpens /\ id[v] # opens'
    BY DEF Ids
  <2>1. id[v] \in 1..opens
    BY <1>0 DEF StreamsOwn
  <2>2. MaxOpens \in Nat
    BY StreamAssumption
  <2> QED
    BY <1>2, <2>1, <2>2
<1>8. StreamsOwn'
  <2>1. IsFiniteSet(Open')
    BY <1>0, <1>5, FS_AddElement DEF StreamsOwn
  <2>2. \A v \in Open' : /\ object'[v] \in Objects /\ id'[v] \in 1..opens'
                         /\ channels'[id'[v]] = object'[v]
    BY <1>0, <1>2, <1>5, <1>6, <1>7 DEF StreamsOwn
  <2>3. \A v, w \in Open' : id'[v] = id'[w] => v = w
    BY <1>0, <1>5, <1>6, <1>7 DEF StreamsOwn
  <2> QED
    BY <2>1, <2>2, <2>3 DEF StreamsOwn
<1>9. ObjectsConserved'
  <2>1. Cardinality(pool') = Cardinality(pool) - 1 /\ Cardinality(pool) \in Nat
    <3>1. IsFiniteSet(pool)
      BY <1>0, FS_Subset DEF TypeOK
    <3> QED
      BY <1>1, <3>1, FS_RemoveElement, FS_CardinalityType
  <2>2. Cardinality(Open') = Cardinality(Open) + 1 /\ Cardinality(Open) \in Nat
    BY <1>0, <1>5, FS_AddElement, FS_CardinalityType DEF StreamsOwn
  <2>3. Cardinality(returning) \in Nat
    BY <1>0, FS_Subset, FS_CardinalityType DEF TypeOK
  <2>4. Cardinality(pool') + Cardinality(returning') + Cardinality(Open') =
          Cardinality(Objects)
    BY <1>0, <1>3, <2>1, <2>2, <2>3 DEF ObjectsConserved
  <2>5. /\ pool' \cap returning' = {}
        /\ \A v \in Open' : object'[v] \notin pool' \cup returning'
        /\ \A v, w \in Open' : object'[v] = object'[w] => v = w
    BY <1>0, <1>1, <1>2, <1>3, <1>5, <1>6 DEF ObjectsConserved
  <2>6. ASSUME NEW i \in Ids
        PROVE  channels'[i] # NoObject <=> \E v \in Open' : id'[v] = i
    <3>1. CASE i = opens'
      BY <1>2, <1>5, <1>6, <3>1
    <3>2. CASE i # opens'
      BY <1>0, <1>5, <1>6, <1>7, <3>2 DEF ObjectsConserved
    <3> QED
      BY <3>1, <3>2
  <2>7. Cardinality(Open)' = Cardinality(Open')
    OBVIOUS
  <2> QED
    BY <2>4, <2>5, <2>6 DEF ObjectsConserved
<1> QED
  BY <1>4, <1>8, <1>9

(* Close takes the channel out of the map; its object is on its way back.   *)
LEMMA OwnershipClose ==
    ASSUME IsFiniteSet(Objects), OwnershipInv, NEW u \in Users, Close(u)
    PROVE  TypeOK' /\ StreamsOwn' /\ ObjectsConserved'
<1>0. TypeOK /\ StreamsOwn /\ ObjectsConserved
  BY DEF OwnershipInv
<1>1. /\ channels' = [channels EXCEPT ![id[u]] = NoObject]
      /\ pc' = [pc EXCEPT ![u] = "idle"]
      /\ returning' = returning \cup {object[u]}
      /\ UNCHANGED <<opens, pool, object, id, sentOn, got, result, replyChan,
                     vppQueue, callback>>
  BY DEF Close
<1>2. u \in Open /\ object[u] \in Objects /\ id[u] \in Ids
  <2>1. u \in Open
    BY DEF Close, Open
  <2>2. object[u] \in Objects /\ id[u] \in 1..opens /\ opens \in 0..MaxOpens
    BY <1>0, <2>1 DEF StreamsOwn, TypeOK
  <2> QED
    BY <2>1, <2>2, StreamAssumption DEF Ids
<1>3. TypeOK'
  BY <1>0, <1>1, <1>2 DEF TypeOK
<1>4. Open' = Open \ {u}
  <2>1. pc'[u] = "idle" /\ \A v \in Users \ {u} : pc'[v] = pc[v]
    BY <1>0, <1>1 DEF TypeOK
  <2> QED
    BY <2>1, OpenChange
<1>5. /\ channels'[id[u]] = NoObject
      /\ \A i \in Ids \ {id[u]} : channels'[i] = channels[i]
  <2>1. channels \in [Ids -> Objects \cup {NoObject}]
    BY <1>0 DEF TypeOK
  <2> QED
    BY <1>1, <1>2, <2>1
<1>6. \A v \in Open : id[v] \in Ids
  <2> SUFFICES ASSUME NEW v \in Open
               PROVE  id[v] \in 1..MaxOpens
    BY DEF Ids
  <2>1. id[v] \in 1..opens /\ opens \in 0..MaxOpens
    BY <1>0 DEF StreamsOwn, TypeOK
  <2> QED
    BY <2>1, StreamAssumption
<1>7. StreamsOwn'
  <2>1. IsFiniteSet(Open')
    BY <1>0, <1>4, FS_RemoveElement DEF StreamsOwn
  <2>2. \A v \in Open' : /\ object'[v] \in Objects /\ id'[v] \in 1..opens'
                         /\ channels'[id'[v]] = object'[v]
    <3> SUFFICES ASSUME NEW v \in Open, v # u
                 PROVE  /\ object[v] \in Objects /\ id[v] \in 1..opens
                        /\ channels'[id[v]] = object[v]
      BY <1>1, <1>4
    <3>1. id[v] # id[u]
      BY <1>0, <1>2 DEF StreamsOwn
    <3> QED
      BY <1>0, <1>5, <1>6, <3>1 DEF StreamsOwn
  <2>3. \A v, w \in Open' : id'[v] = id'[w] => v = w
    BY <1>0, <1>1, <1>4 DEF StreamsOwn
  <2> QED
    BY <2>1, <2>2, <2>3 DEF StreamsOwn
<1>8. ObjectsConserved'
  <2>1. Cardinality(Open') = Cardinality(Open) - 1 /\ Cardinality(Open) \in Nat
    BY <1>0, <1>2, <1>4, FS_RemoveElement, FS_CardinalityType DEF StreamsOwn
  <2>2. Cardinality(returning') = Cardinality(returning) + 1
    <3>1. IsFiniteSet(returning)
      BY <1>0, FS_Subset DEF TypeOK
    <3>2. object[u] \notin returning
      BY <1>0, <1>2 DEF ObjectsConserved
    <3> QED
      BY <1>1, <3>1, <3>2, FS_AddElement
  <2>3. Cardinality(pool) \in Nat /\ Cardinality(returning) \in Nat
    BY <1>0, FS_Subset, FS_CardinalityType DEF TypeOK
  <2>4. Cardinality(pool') + Cardinality(returning') + Cardinality(Open') =
          Cardinality(Objects)
    BY <1>0, <1>1, <2>1, <2>2, <2>3 DEF ObjectsConserved
  <2>5. /\ pool' \cap returning' = {}
        /\ \A v \in Open' : object'[v] \notin pool' \cup returning'
        /\ \A v, w \in Open' : object'[v] = object'[w] => v = w
    BY <1>0, <1>1, <1>2, <1>4 DEF ObjectsConserved
  <2>6. ASSUME NEW i \in Ids
        PROVE  channels'[i] # NoObject <=> \E v \in Open' : id'[v] = i
    <3>1. CASE i = id[u]
      <4>1. \A v \in Open : v # u => id[v] # i
        BY <1>0, <1>2, <3>1 DEF StreamsOwn
      <4> QED
        BY <1>1, <1>4, <1>5, <3>1, <4>1
    <3>2. CASE i # id[u]
      <4>1. channels'[i] = channels[i]
        BY <1>5, <3>2
      <4>2. channels[i] # NoObject <=> \E v \in Open : id[v] = i
        BY <1>0 DEF ObjectsConserved
      <4> QED
        BY <1>1, <1>4, <3>2, <4>1, <4>2
    <3> QED
      BY <3>1, <3>2
  <2> QED
    BY <2>4, <2>5, <2>6 DEF ObjectsConserved
<1> QED
  BY <1>3, <1>7, <1>8

(* Put completes the way back.                                              *)
LEMMA OwnershipPut ==
    ASSUME IsFiniteSet(Objects), OwnershipInv, NEW o \in Objects, Put(o)
    PROVE  TypeOK' /\ StreamsOwn' /\ ObjectsConserved'
<1>0. TypeOK /\ StreamsOwn /\ ObjectsConserved
  BY DEF OwnershipInv
<1>1. /\ o \in returning /\ returning' = returning \ {o} /\ pool' = pool \cup {o}
      /\ replyChan' = [replyChan EXCEPT ![o] = <<>>]
      /\ UNCHANGED <<opens, channels, userVars, vppQueue, callback>>
  BY DEF Put
<1>2. TypeOK'
  <2>1. \A p \in Objects : Len(replyChan'[p]) <= ReplyBuf
    BY <1>0, <1>1, NoReply, StreamAssumption DEF TypeOK
  <2>2. replyChan' \in [Objects -> Seq(Messages)]
    BY <1>0, <1>1, NoReply DEF TypeOK
  <2> QED
    BY <1>0, <1>1, <2>1, <2>2 DEF TypeOK, userVars
<1>3. Open' = Open
  BY <1>1 DEF Open, userVars
<1>4. StreamsOwn'
  BY <1>0, <1>1, <1>3 DEF StreamsOwn, userVars
<1>5. ObjectsConserved'
  <2>1. /\ IsFiniteSet(pool) /\ IsFiniteSet(returning)
        /\ Cardinality(pool) \in Nat /\ Cardinality(returning) \in Nat
        /\ Cardinality(Open) \in Nat
    BY <1>0, FS_Subset, FS_CardinalityType DEF TypeOK, StreamsOwn
  <2>2. o \notin pool
    BY <1>0, <1>1 DEF ObjectsConserved
  <2>3. /\ Cardinality(pool') = Cardinality(pool) + 1
        /\ Cardinality(returning') = Cardinality(returning) - 1
    BY <1>1, <2>1, <2>2, FS_AddElement, FS_RemoveElement
  <2>4. Cardinality(pool') + Cardinality(returning') + Cardinality(Open') =
          Cardinality(Objects)
    BY <1>0, <1>3, <2>1, <2>3 DEF ObjectsConserved
  <2>5. /\ pool' \cap returning' = {}
        /\ \A v \in Open' : object'[v] \notin pool' \cup returning'
        /\ \A v, w \in Open' : object'[v] = object'[w] => v = w
    BY <1>0, <1>1, <1>3 DEF ObjectsConserved, userVars
  <2>6. \A i \in Ids : channels'[i] # NoObject <=> \E v \in Open' : id'[v] = i
    BY <1>0, <1>1, <1>3 DEF ObjectsConserved, userVars
  <2> QED
    BY <2>4, <2>5, <2>6 DEF ObjectsConserved
<1> QED
  BY <1>2, <1>4, <1>5

(* No way out of a call closes the stream or gives up its object.           *)
LEMMA OwnershipCalls ==
    ASSUME OwnershipInv, NEW u \in Users, Calls(u)
    PROVE  TypeOK' /\ StreamsOwn' /\ ObjectsConserved'
<1>0. TypeOK /\ StreamsOwn /\ ObjectsConserved
  BY DEF OwnershipInv
<1>1. /\ pc[u] = "open"
      /\ UNCHANGED <<opens, pool, returning, channels, object, id>>
      /\ pc' = pc \/ pc' = [pc EXCEPT ![u] = "closing"]
  BY DEF Calls, SendMsg, SendFails, RecvReply, RecvFails, MaySend, Receiving, AfterCall
<1>2. u \in Open /\ object[u] \in Objects /\ id[u] \in Ids
  <2>1. u \in Open
    BY <1>1 DEF Open
  <2>2. object[u] \in Objects /\ id[u] \in 1..opens /\ opens \in 0..MaxOpens
    BY <1>0, <2>1 DEF StreamsOwn, TypeOK
  <2> QED
    BY <2>1, <2>2, StreamAssumption DEF Ids
<1>3. Open' = Open /\ pc' \in [Users -> {"idle", "open", "closing"}]
  <2>1. pc'[u] # "idle" /\ \A v \in Users \ {u} : pc'[v] = pc[v]
    BY <1>0, <1>1 DEF TypeOK
  <2> QED
    BY <1>0, <1>1, <1>2, <2>1, OpenChange DEF TypeOK
<1>4. StreamsOwn' /\ ObjectsConserved'
  BY <1>0, <1>1, <1>3, OwnershipUnchanged
<1>5. CASE SendMsg(u) \/ SendFails(u)
  <2>1. sentOn[u] + 1 \in 1..MaxSends /\ sentOn[u] + 1 \in 0..MaxSends
    BY <1>0, <1>5, StreamAssumption DEF TypeOK, SendMsg, SendFails, MaySend
  <2>2. sentOn' = [sentOn EXCEPT ![u] = sentOn[u] + 1]
    BY <1>5 DEF SendMsg, SendFails
  <2>3. sentOn' \in [Users -> 0..MaxSends] /\ sentOn'[u] = sentOn[u] + 1
    BY <1>0, <2>1, <2>2 DEF TypeOK
  <2>4. result' \in [Users -> {"none", "reply", "error"}]
    BY <1>0, <1>5 DEF TypeOK, SendMsg, SendFails
  <2>5. vppQueue' \in Seq(Messages)
    <3>1. [id |-> id[u], seq |-> sentOn'[u], part |-> 1] \in Messages
      BY <1>2, <2>1, <2>3, StreamAssumption DEF Messages
    <3> HIDE DEF Messages
    <3>2. CASE vppQueue' = Append(vppQueue, [id |-> id[u], seq |-> sentOn'[u], part |-> 1])
      BY <1>0, <3>1, <3>2, AppendReply DEF TypeOK
    <3>3. CASE vppQueue' = vppQueue
      BY <1>0, <3>3 DEF TypeOK
    <3> QED
      BY <1>5, <3>2, <3>3 DEF SendMsg, SendFails
  <2> QED
    BY <1>0, <1>1, <1>3, <1>4, <1>5, <2>3, <2>4, <2>5 DEF TypeOK, SendMsg, SendFails
<1>6. CASE RecvReply(u)
  <2>1. replyChan[object[u]] \in Seq(Messages) /\ Len(replyChan[object[u]]) <= ReplyBuf
    BY <1>0, <1>2 DEF TypeOK
  <2>2. /\ Head(replyChan[object[u]]) \in Messages
        /\ Tail(replyChan[object[u]]) \in Seq(Messages)
        /\ Len(Tail(replyChan[object[u]])) <= ReplyBuf
    BY <1>6, <2>1, TakeFirst, StreamAssumption DEF RecvReply
  <2>3. /\ replyChan' \in [Objects -> Seq(Messages)]
        /\ \A o \in Objects : Len(replyChan'[o]) <= ReplyBuf
    BY <1>0, <1>2, <1>6, <2>2 DEF TypeOK, RecvReply
  <2>4. Append(got[u], Head(replyChan[object[u]])) \in Seq(Messages)
    BY <1>0, <2>2, AppendReply DEF TypeOK
  <2>5. got' \in [Users -> Seq(Messages)]
    BY <1>0, <1>6, <2>4 DEF TypeOK, RecvReply
  <2>6. result' \in [Users -> {"none", "reply", "error"}]
    BY <1>0, <1>6 DEF TypeOK, RecvReply
  <2> QED
    BY <1>0, <1>1, <1>3, <1>4, <1>6, <2>3, <2>5, <2>6 DEF TypeOK, RecvReply
<1>7. CASE RecvFails(u)
  <2>1. result' \in [Users -> {"none", "reply", "error"}]
    BY <1>0, <1>7 DEF TypeOK, RecvFails
  <2> QED
    BY <1>0, <1>1, <1>3, <1>4, <1>7, <2>1 DEF TypeOK, RecvFails
<1> QED
  BY <1>5, <1>6, <1>7 DEF Calls

(* VPP and the reader own nothing.                                          *)
LEMMA OwnershipReader ==
    ASSUME OwnershipInv,
           VppSkips \/ VppReplies \/ sendReply \/ sendReplyGivesUp
    PROVE  TypeOK' /\ StreamsOwn' /\ ObjectsConserved'
<1>0. TypeOK /\ StreamsOwn /\ ObjectsConserved
  BY DEF OwnershipInv
<1>1. UNCHANGED <<opens, pool, returning, channels, userVars>>
  BY DEF VppSkips, VppReplies, sendReply, sendReplyGivesUp
<1>2. Open' = Open
  BY <1>1 DEF Open, userVars
<1>3. StreamsOwn' /\ ObjectsConserved'
  BY <1>0, <1>1, <1>2, OwnershipUnchanged DEF userVars
<1>4. vppQueue' \in Seq(Messages)
  <2>1. CASE VppSkips \/ VppReplies
    <3>1. vppQueue \in Seq(Messages) /\ vppQueue # <<>> /\ (Answered \/ VppSkips)
      BY <1>0, <2>1 DEF TypeOK, VppSkips, VppReplies
    <3> QED
      BY <3>1, NextAnswer
  <2>2. CASE sendReply \/ sendReplyGivesUp
    BY <1>0, <2>2 DEF TypeOK, sendReply, sendReplyGivesUp
  <2> QED
    BY <2>1, <2>2
<1>5. callback' \in {<<>>} \cup (Objects \X Messages)
  <2>1. CASE VppReplies
    <3> DEFINE r == Head(vppQueue)
    <3>1. r \in Messages /\ r.id \in Ids
      BY <1>0, <2>1, TakeFirst DEF TypeOK, VppReplies, Messages
    <3>2. channels[r.id] \in Objects \cup {NoObject}
      BY <1>0, <3>1 DEF TypeOK
    <3>3. callback' = IF channels[r.id] = NoObject THEN <<>> ELSE <<channels[r.id], r>>
      BY <2>1 DEF VppReplies
    <3> QED
      BY <3>1, <3>2, <3>3
  <2> QED
    BY <1>0, <2>1 DEF TypeOK, VppSkips, sendReply, sendReplyGivesUp
<1>6. /\ replyChan' \in [Objects -> Seq(Messages)]
      /\ \A o \in Objects : Len(replyChan'[o]) <= ReplyBuf
  <2>1. CASE sendReply
    <3> DEFINE o == callback[1]
    <3>1. o \in Objects /\ callback[2] \in Messages
      BY <1>0, <2>1 DEF TypeOK, sendReply
    <3>2. replyChan[o] \in Seq(Messages) /\ Len(replyChan[o]) < ReplyBuf
      BY <1>0, <2>1, <3>1 DEF TypeOK, sendReply
    <3>3. /\ Append(replyChan[o], callback[2]) \in Seq(Messages)
          /\ Len(Append(replyChan[o], callback[2])) <= ReplyBuf
      <4>1. Len(replyChan[o]) \in Nat
        BY <3>2
      <4> QED
        BY <3>1, <3>2, <4>1, AppendReply, StreamAssumption
    <3>4. replyChan' = [replyChan EXCEPT ![o] = Append(replyChan[o], callback[2])]
      BY <2>1 DEF sendReply
    <3> QED
      BY <1>0, <3>1, <3>3, <3>4 DEF TypeOK
  <2> QED
    BY <1>0, <2>1 DEF TypeOK, VppSkips, VppReplies, sendReplyGivesUp
<1> QED
  BY <1>0, <1>1, <1>3, <1>4, <1>5, <1>6 DEF TypeOK, userVars

(* Every step keeps the types and what is owned.                            *)
LEMMA OwnershipStep ==
    ASSUME IsFiniteSet(Objects), OwnershipInv, [Next]_vars
    PROVE  OwnershipInv'
<1>1. CASE UNCHANGED vars
  <2>1. TypeOK'
    BY <1>1 DEF vars, userVars, OwnershipInv, TypeOK
  <2>2. Open' = Open
    BY <1>1 DEF vars, userVars, Open
  <2> QED
    BY <1>1, <2>1, <2>2, OwnershipUnchanged DEF vars, userVars, OwnershipInv
<1>2. CASE Next
  BY <1>2, OwnershipNew, OwnershipClose, OwnershipPut, OwnershipCalls, OwnershipReader
     DEF Next, OwnershipInv
<1> QED
  BY <1>1, <1>2

(* All objects are in the pool at first.                                    *)
LEMMA OwnershipInit ==
    ASSUME IsFiniteSet(Objects), Init
    PROVE  OwnershipInv
<1>1. Open = {}
  BY DEF Init, Open
<1>2. IsFiniteSet(Open) /\ Cardinality(Open) = 0 /\ Cardinality({}) = 0
      /\ Cardinality(Objects) \in Nat
  BY <1>1, FS_EmptySet, FS_CardinalityType
<1>3. TypeOK
  BY NoReply, StreamAssumption DEF Init, TypeOK
<1>4. StreamsOwn
  BY <1>1, <1>2 DEF StreamsOwn
<1>5. ObjectsConserved
  BY <1>1, <1>2 DEF Init, ObjectsConserved
<1> QED
  BY <1>3, <1>4, <1>5 DEF OwnershipInv

(* The types, the objects, and the map of channels together, for any number *)
(* of users, finitely many objects, and any buffer size.                    *)
THEOREM OwnershipInvariance ==
    ASSUME IsFiniteSet(Objects)
    PROVE  Spec => []OwnershipInv
<1>1. Init => OwnershipInv
  BY OwnershipInit
<1>2. OwnershipInv /\ [Next]_vars => OwnershipInv'
  BY OwnershipStep
<1> QED
  BY <1>1, <1>2, PTL DEF Spec

(* The model of streams is type correct.                                    *)
THEOREM TypeCorrect ==
    ASSUME IsFiniteSet(Objects)
    PROVE  Spec => []TypeOK
<1>1. OwnershipInv => TypeOK
  BY DEF OwnershipInv
<1> QED
  BY OwnershipInvariance, <1>1, PTL

(* No Channel object is lost or used twice, whichever way a call of Invoke  *)
(* ends and however streams are opened and closed.                          *)
THEOREM ObjectsConservedCorrect ==
    ASSUME IsFiniteSet(Objects)
    PROVE  Spec => []ObjectsConserved
<1>1. OwnershipInv => ObjectsConserved
  BY DEF OwnershipInv
<1> QED
  BY OwnershipInvariance, <1>1, PTL

-----------------------------------------------------------------------------
(* Order *)

(* With fewer messages on either side, or more later ones of them.          *)
LEMMA BeforeSubset ==
    ASSUME NEW A, NEW B, NEW C, NEW D, C \subseteq A, D \subseteq B, Before(A, B)
    PROVE  Before(C, D)
BY DEF Before

LEMMA BeforeUnion ==
    ASSUME NEW A, NEW B, NEW C
    PROVE  /\ Before(A, C) /\ Before(B, C) => Before(A \cup B, C)
           /\ Before(A, B) /\ Before(A, C) => Before(A, B \cup C)
BY DEF Before

LEMMA BeforeNothing == \A A : Before(A, {}) /\ Before({}, A)
BY DEF Before

(* What was sent stays sent: numbers of an open stream only grow, and a new *)
(* stream has a new ID.                                                     *)
LEMMA SentStays ==
    ASSUME NEW A, A \subseteq Messages, TypeOK, Sent(A), opens' >= opens, opens' \in Nat,
           \A u \in Open' :
              \/ u \in Open /\ id'[u] = id[u] /\ sentOn'[u] >= sentOn[u]
                 /\ sentOn'[u] \in Nat
              \/ id'[u] > opens
    PROVE  \A m \in A : /\ m.id <= opens'
                        /\ \A u \in Open' : id'[u] = m.id => m.seq <= sentOn'[u]
<1> SUFFICES ASSUME NEW m \in A
             PROVE  /\ m.id <= opens'
                    /\ \A u \in Open' : id'[u] = m.id => m.seq <= sentOn'[u]
  OBVIOUS
<1>1. m.id \in Nat /\ m.seq \in Nat /\ opens \in Nat
  BY MessageType DEF TypeOK
<1>2. /\ m.id <= opens
      /\ \A u \in Open : id[u] = m.id => m.seq <= sentOn[u]
  BY DEF Sent
<1>3. \A u \in Open : sentOn[u] \in Nat
  BY DEF TypeOK, Open
<1>4. ASSUME NEW u \in Open', id'[u] = m.id
      PROVE  m.seq <= sentOn'[u]
  BY <1>1, <1>2, <1>3, <1>4
<1> QED
  BY <1>1, <1>2, <1>4

(* Messages are where they were, or gone.                                   *)
LEMMA SentKept ==
    ASSUME TypeOK, AllSent, Everything' \subseteq Everything,
           opens' >= opens, opens' \in Nat,
           \A u \in Open' :
              \/ u \in Open /\ id'[u] = id[u] /\ sentOn'[u] >= sentOn[u]
                 /\ sentOn'[u] \in Nat
              \/ id'[u] > opens
    PROVE  AllSent'
<1>1. Everything \subseteq Messages
  BY DEF Everything
<1>2. \A m \in Everything : /\ m.id <= opens'
                            /\ \A u \in Open' : id'[u] = m.id => m.seq <= sentOn'[u]
  BY <1>1, SentStays DEF AllSent
<1> QED
  BY <1>2 DEF AllSent, Sent

(* Late replies are messages.                                               *)
LEMMA LateType ==
    ASSUME TypeOK
    PROVE  /\ InHand \subseteq Messages /\ Range(vppQueue) \subseteq Messages
           /\ callback # <<>> => /\ callback[1] \in Objects /\ callback[2] \in Messages
                                 /\ InHand = {callback[2]}
           /\ callback = <<>> => InHand = {}
<1>1. vppQueue \in Seq(Messages)
  BY DEF TypeOK
<1>2. callback # <<>> => callback[1] \in Objects /\ callback[2] \in Messages
  BY DEF TypeOK
<1> QED
  BY <1>1, <1>2, RangeType DEF InHand

(* Nothing moves; a stream may be closed.                                   *)
LEMMA OrderKept ==
    ASSUME InOrder, UNCHANGED <<got, replyChan, vppQueue, callback, object>>,
           Open' \subseteq Open
    PROVE  InOrder' /\ Everything' = Everything
BY DEF InOrder, Everything, Late, InHand

(* A new stream has no replies yet.                                         *)
LEMMA OrderNew ==
    ASSUME IsFiniteSet(Objects), OrderInv, NEW u \in Users, NewStream(u)
    PROVE  InOrder' /\ AllSent'
<1>0. TypeOK /\ StreamsOwn /\ InOrder /\ AllSent
  BY DEF OrderInv, OwnershipInv
<1>1. /\ UNCHANGED <<replyChan, vppQueue, callback>> /\ pc[u] = "idle"
      /\ opens' = opens + 1 /\ opens \in Nat
      /\ pc'[u] = "open" /\ got'[u] = <<>> /\ id'[u] = opens + 1
      /\ \A v \in Users \ {u} : /\ pc'[v] = pc[v] /\ got'[v] = got[v]
                                /\ object'[v] = object[v] /\ id'[v] = id[v]
                                /\ sentOn'[v] = sentOn[v]
  BY <1>0 DEF TypeOK, NewStream
<1>2. Open' = Open \cup {u} /\ u \notin Open
  BY <1>1, OpenChange DEF Open
<1>3. Late' = Late /\ InHand' = InHand
  BY <1>1 DEF Late, InHand
<1>4. InOrder'
  <2>1. /\ Numbered(vppQueue') /\ Before(InHand', Range(vppQueue'))
        /\ \A o \in Objects : Ascending(replyChan'[o]) /\ Before(Range(replyChan'[o]), Late')
    BY <1>0, <1>1, <1>3 DEF InOrder
  <2>2. \A v \in Users : Ascending(got'[v]) /\ Before(Range(got'[v]), Late')
    BY <1>0, <1>1, <1>3, NoReply, BeforeNothing DEF InOrder
  <2>3. \A v \in Open' : Before(Range(got'[v]), Range(replyChan'[object'[v]]))
    <3>1. Before(Range(got'[u]), Range(replyChan'[object'[u]]))
      BY <1>1, NoReply, BeforeNothing
    <3>2. ASSUME NEW v \in Open
          PROVE  Before(Range(got'[v]), Range(replyChan'[object'[v]]))
      <4>1. v \in Users \ {u} /\ Before(Range(got[v]), Range(replyChan[object[v]]))
        BY <1>0, <1>2 DEF InOrder, Open
      <4> QED
        BY <1>1, <4>1
    <3> QED
      BY <1>2, <3>1, <3>2
  <2> QED
    BY <2>1, <2>2, <2>3 DEF InOrder
<1>5. AllSent'
  <2>1. Everything' \subseteq Everything
    BY <1>1, <1>3, NoReply DEF Everything
  <2>2. \A v \in Open' : \/ v \in Open /\ id'[v] = id[v] /\ sentOn'[v] >= sentOn[v]
                            /\ sentOn'[v] \in Nat
                         \/ id'[v] > opens
    BY <1>0, <1>1, <1>2 DEF Open, TypeOK
  <2> QED
    BY <1>0, <1>1, <2>1, <2>2, SentKept
<1> QED
  BY <1>4, <1>5

(* A request is numbered above all that the stream has sent.                *)
LEMMA OrderSend ==
    ASSUME OrderInv, NEW u \in Users, SendMsg(u)
    PROVE  InOrder' /\ AllSent'
<1>0. TypeOK /\ StreamsOwn /\ InOrder /\ AllSent
  BY DEF OrderInv, OwnershipInv
<1>1. /\ UNCHANGED <<opens, pc, object, id, got, replyChan, callback>>
      /\ u \in Open /\ sentOn[u] \in Nat /\ sentOn[u] + 1 <= MaxSends
      /\ sentOn'[u] = sentOn[u] + 1
      /\ \A v \in Users \ {u} : sentOn'[v] = sentOn[v]
  BY <1>0, StreamAssumption DEF TypeOK, SendMsg, MaySend, Open
<1>2. PICK m : m = [id |-> id[u], seq |-> sentOn[u] + 1, part |-> 1]
  OBVIOUS
<1>3. m.id = id[u] /\ m.seq = sentOn[u] + 1 /\ m \in Messages
  <2>1. id[u] \in 1..opens /\ opens \in 0..MaxOpens
    BY <1>0, <1>1 DEF StreamsOwn, TypeOK
  <2> QED
    BY <1>1, <1>2, <2>1, StreamAssumption DEF Messages, Ids
<1>a. \A n \in Everything : n.id = m.id => n.seq < m.seq
  <2> SUFFICES ASSUME NEW n \in Everything, n.id = m.id
               PROVE  n.seq < m.seq
    OBVIOUS
  <2>1. n.seq \in Nat
    BY MessageType DEF Everything
  <2>2. n.seq <= sentOn[u]
    BY <1>0, <1>1, <1>3 DEF AllSent, Sent
  <2> QED
    BY <1>1, <1>3, <2>1, <2>2
<1>4. Before(Everything, {m})
  BY <1>a DEF Before, Earlier
<1>5. vppQueue \in Seq(Messages) /\ vppQueue' = Append(vppQueue, m)
  BY <1>0, <1>1, <1>2 DEF TypeOK, SendMsg
<1>6. Range(vppQueue') = Range(vppQueue) \cup {m} /\ InHand' = InHand
      /\ Late' = Late \cup {m}
  BY <1>1, <1>3, <1>5, AppendReply DEF Late, InHand
<1>7. /\ Late \subseteq Everything
      /\ \A o \in Objects : Range(replyChan[o]) \subseteq Everything
      /\ \A v \in Users : Range(got[v]) \subseteq Everything
  <2>1. Late \subseteq Messages
    BY <1>0, LateType DEF Late
  <2>2. /\ \A o \in Objects : Range(replyChan[o]) \subseteq Messages
        /\ \A v \in Users : Range(got[v]) \subseteq Messages
    BY <1>0, RangeType DEF TypeOK
  <2> QED
    BY <2>1, <2>2 DEF Everything
<1>8. InOrder'
  <2>1. Numbered(vppQueue') /\ Before(InHand', Range(vppQueue'))
    <3>1. Before(Range(vppQueue), {m}) /\ Before(InHand, {m})
      BY <1>4, <1>7, BeforeSubset DEF Late
    <3>2. Numbered(vppQueue) /\ Before(InHand, Range(vppQueue))
      BY <1>0 DEF InOrder
    <3>3. Numbered(vppQueue')
      BY <1>3, <1>5, <1>a, <1>7, <3>2, AppendRequest DEF Late
    <3>4. Before(InHand, Range(vppQueue) \cup {m})
      BY <3>1, <3>2, BeforeUnion
    <3> QED
      BY <1>6, <3>3, <3>4
  <2>2. ASSUME NEW o \in Objects
        PROVE  Ascending(replyChan'[o]) /\ Before(Range(replyChan'[o]), Late')
    <3>1. Before(Range(replyChan[o]), {m})
      BY <1>4, <1>7, BeforeSubset
    <3> QED
      BY <1>0, <1>1, <1>6, <3>1, BeforeUnion DEF InOrder
  <2>3. ASSUME NEW v \in Users
        PROVE  Ascending(got'[v]) /\ Before(Range(got'[v]), Late')
    <3>1. Before(Range(got[v]), {m})
      BY <1>4, <1>7, BeforeSubset
    <3> QED
      BY <1>0, <1>1, <1>6, <3>1, BeforeUnion DEF InOrder
  <2>4. \A v \in Open' : Before(Range(got'[v]), Range(replyChan'[object'[v]]))
    BY <1>0, <1>1 DEF InOrder, Open
  <2> QED
    BY <2>1, <2>2, <2>3, <2>4 DEF InOrder
<1>9. AllSent'
  <2>1. Everything' \subseteq Everything \cup {m}
    BY <1>1, <1>6 DEF Everything
  <2>2. \A n \in Everything : /\ n.id <= opens'
                              /\ \A v \in Open' : id'[v] = n.id => n.seq <= sentOn'[v]
    <3>1. Everything \subseteq Messages
      BY DEF Everything
    <3>2. opens \in Nat /\ sentOn \in [Users -> 0..MaxSends]
      BY <1>0 DEF TypeOK
    <3>3. Open' = Open
      BY <1>1 DEF Open
    <3>4. \A v \in Open' : v \in Open /\ id'[v] = id[v] /\ sentOn'[v] >= sentOn[v]
                           /\ sentOn'[v] \in Nat
      BY <1>1, <3>2, <3>3 DEF Open
    <3> QED
      BY <1>0, <1>1, <3>1, <3>2, <3>4, SentStays DEF AllSent
  <2>3. m.id <= opens' /\ \A v \in Open' : id'[v] = m.id => m.seq <= sentOn'[v]
    <3>1. id[u] \in 1..opens /\ opens \in 0..MaxOpens
      BY <1>0, <1>1 DEF StreamsOwn, TypeOK
    <3>2. \A v \in Open : id[v] = id[u] => v = u
      BY <1>0, <1>1 DEF StreamsOwn
    <3>3. Open' = Open
      BY <1>1 DEF Open
    <3> QED
      BY <1>1, <1>3, <3>1, <3>2, <3>3
  <2> QED
    BY <2>1, <2>2, <2>3 DEF AllSent, Sent
<1> QED
  BY <1>8, <1>9

(* The oldest reply of the object goes to the one stream that has it.       *)
LEMMA OrderRecv ==
    ASSUME OrderInv, NEW u \in Users, RecvReply(u)
    PROVE  InOrder' /\ Everything' \subseteq Everything
<1>0. TypeOK /\ StreamsOwn /\ InOrder /\ ObjectsConserved
  BY DEF OrderInv, OwnershipInv
<1>1. u \in Open /\ object[u] \in Objects
  <2>1. u \in Open
    BY DEF RecvReply, Receiving, Open
  <2> QED
    BY <1>0, <2>1 DEF StreamsOwn
<1>2. PICK q, r, g : q = replyChan[object[u]] /\ r = Head(q) /\ g = got[u]
  OBVIOUS
<1>3. q \in Seq(Messages) /\ q # <<>> /\ g \in Seq(Messages)
  BY <1>0, <1>1, <1>2 DEF TypeOK, RecvReply
<1>4. /\ UNCHANGED <<object, vppQueue, callback>>
      /\ got'[u] = Append(g, r) /\ replyChan'[object[u]] = Tail(q)
      /\ \A v \in Users \ {u} : got'[v] = got[v]
      /\ \A o \in Objects \ {object[u]} : replyChan'[o] = replyChan[o]
  BY <1>0, <1>1, <1>2 DEF TypeOK, RecvReply
<1>5. Open' = Open
  <2>1. pc'[u] # "idle" /\ \A v \in Users \ {u} : pc'[v] = pc[v]
    BY <1>0 DEF TypeOK, RecvReply, AfterCall, Receiving
  <2> QED
    BY <1>1, <2>1, OpenChange
<1>6. /\ Ascending(q) /\ Before(Range(q), Late)
      /\ Ascending(g) /\ Before(Range(g), Late) /\ Before(Range(g), Range(q))
  BY <1>0, <1>1, <1>2 DEF InOrder
<1>7. /\ r \in Messages /\ r \in Range(q) /\ Range(Tail(q)) \subseteq Range(q)
      /\ Ascending(Tail(q)) /\ Before({r}, Range(Tail(q)))
  BY <1>2, <1>3, <1>6, TakeFirst
<1>8. Range(Append(g, r)) = Range(g) \cup {r} /\ Ascending(Append(g, r))
  <2>1. Before(Range(g), {r})
    BY <1>6, <1>7, BeforeSubset
  <2> QED
    BY <1>3, <1>6, <1>7, <2>1, AppendReply
<1>9. Late' = Late /\ InHand' = InHand
  BY <1>4 DEF Late, InHand
<1>10. ASSUME NEW o \in Objects
       PROVE  Ascending(replyChan'[o]) /\ Before(Range(replyChan'[o]), Late')
  <2>1. CASE o = object[u]
    BY <1>4, <1>6, <1>7, <1>9, <2>1, BeforeSubset
  <2>2. CASE o # object[u]
    BY <1>0, <1>4, <1>9, <2>2 DEF InOrder
  <2> QED
    BY <2>1, <2>2
<1>11. ASSUME NEW v \in Users
       PROVE  Ascending(got'[v]) /\ Before(Range(got'[v]), Late')
  <2>1. CASE v = u
    <3>1. Before({r}, Late)
      BY <1>6, <1>7, BeforeSubset
    <3>2. Before(Range(g) \cup {r}, Late)
      BY <1>6, <3>1, BeforeUnion
    <3> QED
      BY <1>4, <1>8, <1>9, <2>1, <3>2
  <2>2. CASE v # u
    BY <1>0, <1>4, <1>9, <2>2 DEF InOrder
  <2> QED
    BY <2>1, <2>2
<1>12. ASSUME NEW v \in Open
       PROVE  Before(Range(got'[v]), Range(replyChan'[object[v]]))
  <2>1. CASE v = u
    <3>1. Before(Range(g), Range(Tail(q)))
      BY <1>6, <1>7, BeforeSubset
    <3>2. Before(Range(g) \cup {r}, Range(Tail(q)))
      BY <1>7, <3>1, BeforeUnion
    <3> QED
      BY <1>4, <1>8, <2>1, <3>2
  <2>2. CASE v # u
    <3>1. object[v] # object[u] /\ object[v] \in Objects /\ v \in Users
      BY <1>0, <1>1, <2>2 DEF ObjectsConserved, StreamsOwn, Open
    <3>2. Before(Range(got[v]), Range(replyChan[object[v]]))
      BY <1>0 DEF InOrder
    <3> QED
      BY <1>4, <2>2, <3>1, <3>2
  <2> QED
    BY <2>1, <2>2
<1>13. InOrder'
  <2>1. Numbered(vppQueue') /\ Before(InHand', Range(vppQueue'))
    BY <1>0, <1>4, <1>9 DEF InOrder
  <2>2. \A v \in Open' : Before(Range(got'[v]), Range(replyChan'[object'[v]]))
    BY <1>4, <1>5, <1>12
  <2> QED
    BY <2>1, <2>2, <1>10, <1>11 DEF InOrder
<1>14. Everything' \subseteq Everything
  <2>1. \A v \in Users : Range(got'[v]) \subseteq Range(got[v]) \cup Range(q)
    BY <1>2, <1>4, <1>7, <1>8
  <2>2. \A o \in Objects : Range(replyChan'[o]) \subseteq Range(replyChan[o])
    BY <1>1, <1>2, <1>4, <1>7
  <2>3. SUFFICES ASSUME NEW m \in Everything'
                 PROVE  m \in Everything
    OBVIOUS
  <2>4. m \in Messages
    BY DEF Everything
  <2>5. CASE m \in Late'
    BY <1>9, <2>4, <2>5 DEF Everything
  <2>6. ASSUME NEW o \in Objects, m \in Range(replyChan'[o])
        PROVE  m \in Everything
    BY <2>2, <2>4, <2>6 DEF Everything
  <2>7. ASSUME NEW v \in Users, m \in Range(got'[v])
        PROVE  m \in Everything
    <3>1. m \in Range(got[v]) \/ m \in Range(q)
      BY <2>1, <2>7
    <3> QED
      BY <1>1, <1>2, <2>4, <3>1 DEF Everything
  <2> QED
    BY <2>5, <2>6, <2>7 DEF Everything
<1> QED
  BY <1>13, <1>14

(* Replies that wait in an object when it goes back are gone.               *)
LEMMA OrderPut ==
    ASSUME OrderInv, NEW o \in Objects, Put(o)
    PROVE  InOrder' /\ Everything' \subseteq Everything
<1>0. TypeOK /\ InOrder
  BY DEF OrderInv, OwnershipInv
<1>1. /\ UNCHANGED <<pc, object, got, vppQueue, callback>>
      /\ \A p \in Objects : replyChan'[p] = IF p = o THEN <<>> ELSE replyChan[p]
  BY <1>0 DEF TypeOK, Put, userVars
<1>2. Open' = Open /\ Late' = Late /\ InHand' = InHand
  BY <1>1 DEF Open, Late, InHand
<1>3. ASSUME NEW p \in Objects
      PROVE  /\ Range(replyChan'[p]) \subseteq Range(replyChan[p])
             /\ Ascending(replyChan'[p])
  BY <1>0, <1>1, NoReply DEF InOrder
<1>4. ASSUME NEW p \in Objects
      PROVE  Ascending(replyChan'[p]) /\ Before(Range(replyChan'[p]), Late')
  BY <1>0, <1>2, <1>3, BeforeSubset DEF InOrder
<1>5. ASSUME NEW v \in Open
      PROVE  Before(Range(got[v]), Range(replyChan'[object[v]]))
  <2>1. object[v] \in Objects /\ Before(Range(got[v]), Range(replyChan[object[v]]))
    BY <1>0 DEF InOrder, OrderInv, OwnershipInv, StreamsOwn
  <2> QED
    BY <1>3, <2>1, BeforeSubset
<1>6. InOrder'
  <2>1. \A v \in Open' : Before(Range(got'[v]), Range(replyChan'[object'[v]]))
    BY <1>1, <1>2, <1>5
  <2>2. /\ Numbered(vppQueue') /\ Before(InHand', Range(vppQueue'))
        /\ \A v \in Users : Ascending(got'[v]) /\ Before(Range(got'[v]), Late')
    BY <1>0, <1>1, <1>2 DEF InOrder
  <2> QED
    BY <1>4, <2>1, <2>2 DEF InOrder
<1>7. Everything' \subseteq Everything
  BY <1>1, <1>2, <1>3 DEF Everything
<1> QED
  BY <1>6, <1>7

(* The next answer leaves VPP's queue, for the reader's hand or for nothing;*)
(* one that comes up in its place answers the same request.                 *)
LEMMA OrderVpp ==
    ASSUME OrderInv, VppSkips \/ VppReplies
    PROVE  InOrder' /\ AllSent'
<1>0. TypeOK /\ InOrder /\ AllSent
  BY DEF OrderInv, OwnershipInv
<1>1. /\ UNCHANGED <<opens, pc, object, id, sentOn, got, replyChan>>
      /\ vppQueue # <<>> /\ vppQueue \in Seq(Messages)
  BY <1>0 DEF TypeOK, VppSkips, VppReplies, userVars
<1>2. Open' = Open
  BY <1>1 DEF Open
<1>3. /\ vppQueue' \in Seq(Messages) /\ Head(vppQueue) \in Range(vppQueue)
      /\ \A m \in Range(vppQueue') : \E n \in Range(vppQueue) :
            m.id = n.id /\ m.seq = n.seq
      /\ Numbered(vppQueue') /\ Before({Head(vppQueue)}, Range(vppQueue'))
      /\ \A A \in SUBSET Messages : Before(A, Range(vppQueue)) =>
                                     Before(A, Range(vppQueue'))
  <2>1. Answered \/ VppSkips
    BY DEF VppReplies
  <2>2. Numbered(vppQueue)
    BY <1>0 DEF InOrder
  <2> QED
    BY <1>1, <2>1, <2>2, NextAnswer, TakeFirst
<1>4. InHand' \subseteq Late /\ Before(InHand', Range(vppQueue'))
  <2>1. CASE InHand' = InHand
    <3>1. Before(InHand, Range(vppQueue)) /\ InHand \in SUBSET Messages
      BY <1>0, LateType DEF InOrder
    <3> QED
      BY <1>3, <2>1, <3>1 DEF Late
  <2>2. CASE InHand' = {}
    BY <2>2, BeforeNothing
  <2>3. CASE InHand' = {Head(vppQueue)}
    BY <1>3, <2>3 DEF Late
  <2>4. InHand' = InHand \/ InHand' = {} \/ InHand' = {Head(vppQueue)}
    <3>1. CASE UNCHANGED callback
      BY <3>1 DEF InHand
    <3>2. CASE callback' = <<>>
      BY <3>2 DEF InHand
    <3>3. CASE callback' = <<channels[Head(vppQueue).id], Head(vppQueue)>>
      <4>1. callback' # <<>> /\ callback'[2] = Head(vppQueue)
        BY <3>3
      <4> QED
        BY <4>1 DEF InHand
    <3> QED
      BY <3>1, <3>2, <3>3 DEF VppSkips, VppReplies
  <2> QED
    BY <2>1, <2>2, <2>3, <2>4
<1>5. ASSUME NEW A \in SUBSET Messages, Before(A, Late)
      PROVE  Before(A, Late')
  <2>1. Before(A, Range(vppQueue)) /\ Before(A, InHand')
    BY <1>4, <1>5, BeforeSubset DEF Late
  <2>2. Before(A, Range(vppQueue'))
    BY <1>3, <2>1
  <2> QED
    BY <2>1, <2>2, BeforeUnion DEF Late
<1>6. /\ \A o \in Objects : Range(replyChan[o]) \in SUBSET Messages
      /\ \A v \in Users : Range(got[v]) \in SUBSET Messages
  BY <1>0, RangeType DEF TypeOK
<1>7. InOrder'
  <2>1. \A o \in Objects : Ascending(replyChan'[o]) /\ Before(Range(replyChan'[o]), Late')
    BY <1>0, <1>1, <1>5, <1>6 DEF InOrder
  <2>2. \A v \in Users : Ascending(got'[v]) /\ Before(Range(got'[v]), Late')
    BY <1>0, <1>1, <1>5, <1>6 DEF InOrder
  <2>3. \A v \in Open' : Before(Range(got'[v]), Range(replyChan'[object'[v]]))
    BY <1>0, <1>1, <1>2 DEF InOrder
  <2> QED
    BY <1>3, <1>4, <2>1, <2>2, <2>3 DEF InOrder
<1>8. AllSent'
  <2>1. ASSUME NEW m \in Everything'
        PROVE  \E n \in Everything : m.id = n.id /\ m.seq = n.seq
    <3>1. Late \subseteq Messages
      BY <1>0, LateType DEF Late
    <3>2. ASSUME m \in Late'
          PROVE  \E n \in Late : m.id = n.id /\ m.seq = n.seq
      BY <1>3, <1>4, <3>2 DEF Late
    <3>3. /\ m \in Messages
          /\ \/ m \in Late'
             \/ \E o \in Objects : m \in Range(replyChan[o])
             \/ \E v \in Users : m \in Range(got[v])
      BY <1>1 DEF Everything
    <3> QED
      BY <3>1, <3>2, <3>3 DEF Everything
  <2> QED
    BY <1>0, <1>1, <1>2, <2>1 DEF AllSent, Sent
<1> QED
  BY <1>7, <1>8

(* The reader hands its reply over, or drops it.                            *)
LEMMA OrderReply ==
    ASSUME OrderInv, sendReply \/ sendReplyGivesUp
    PROVE  InOrder' /\ Everything' \subseteq Everything
<1>0. TypeOK /\ InOrder
  BY DEF OrderInv, OwnershipInv
<1>1. /\ UNCHANGED <<pc, object, got, vppQueue>>
      /\ callback # <<>> /\ callback' = <<>>
  BY DEF sendReply, sendReplyGivesUp, userVars
<1>2. Open' = Open
  BY <1>1 DEF Open
<1>3. PICK p, m : p = callback[1] /\ m = callback[2]
  OBVIOUS
<1>4. p \in Objects /\ m \in Messages /\ InHand = {m} /\ InHand' = {}
  BY <1>0, <1>1, <1>3, LateType DEF InHand
<1>5. Late' = Range(vppQueue) /\ Late' \subseteq Late /\ {m} \subseteq Late
  BY <1>1, <1>4 DEF Late
<1>6. ASSUME NEW o \in Objects
      PROVE  /\ Ascending(replyChan'[o]) /\ Before(Range(replyChan'[o]), Late')
             /\ Range(replyChan'[o]) \subseteq Range(replyChan[o]) \cup {m}
  <2>1. Ascending(replyChan[o]) /\ Before(Range(replyChan[o]), Late)
    BY <1>0 DEF InOrder
  <2>2. CASE replyChan'[o] = replyChan[o]
    BY <1>5, <2>1, <2>2, BeforeSubset
  <2>3. CASE replyChan'[o] = Append(replyChan[o], m)
    <3>1. replyChan[o] \in Seq(Messages)
      BY <1>0 DEF TypeOK
    <3>2. Before(Range(replyChan[o]), {m}) /\ Before(Range(replyChan[o]), Late')
      BY <1>5, <2>1, BeforeSubset
    <3>3. /\ Ascending(replyChan'[o])
          /\ Range(replyChan'[o]) = Range(replyChan[o]) \cup {m}
      BY <1>4, <2>1, <2>3, <3>1, <3>2, AppendReply
    <3>4. Before({m}, Late')
      BY <1>0, <1>4, <1>5 DEF InOrder
    <3>5. Before(Range(replyChan[o]) \cup {m}, Late')
      BY <3>2, <3>4, BeforeUnion
    <3> QED
      BY <3>3, <3>5
  <2>4. replyChan'[o] = replyChan[o] \/ replyChan'[o] = Append(replyChan[o], m)
    <3>1. CASE sendReply
      <4>1. replyChan' = [replyChan EXCEPT ![p] = Append(replyChan[p], m)]
        BY <1>3, <3>1 DEF sendReply
      <4> QED
        BY <1>0, <1>4, <4>1 DEF TypeOK
    <3>2. CASE sendReplyGivesUp
      BY <3>2 DEF sendReplyGivesUp
    <3> QED
      BY <3>1, <3>2
  <2> QED
    BY <2>2, <2>3, <2>4
<1>7. ASSUME NEW v \in Users
      PROVE  Ascending(got'[v]) /\ Before(Range(got'[v]), Late')
  BY <1>0, <1>1, <1>5, BeforeSubset DEF InOrder
<1>8. ASSUME NEW v \in Open
      PROVE  Before(Range(got[v]), Range(replyChan'[object[v]]))
  <2>1. object[v] \in Objects /\ v \in Users
    BY DEF OrderInv, OwnershipInv, StreamsOwn, Open
  <2>2. /\ Before(Range(got[v]), Range(replyChan[object[v]]))
        /\ Before(Range(got[v]), Late)
    BY <1>0, <2>1 DEF InOrder
  <2>3. Before(Range(got[v]), {m})
    BY <1>5, <2>2, BeforeSubset
  <2>4. Before(Range(got[v]), Range(replyChan[object[v]]) \cup {m})
    BY <2>2, <2>3, BeforeUnion
  <2>5. Range(replyChan'[object[v]]) \subseteq Range(replyChan[object[v]]) \cup {m}
    BY <1>6, <2>1
  <2> QED
    BY <2>4, <2>5, BeforeSubset
<1>9. InOrder'
  <2>1. Numbered(vppQueue') /\ Before(InHand', Range(vppQueue'))
    BY <1>0, <1>1, <1>4, BeforeNothing DEF InOrder
  <2>2. \A v \in Open' : Before(Range(got'[v]), Range(replyChan'[object'[v]]))
    BY <1>1, <1>2, <1>8
  <2> QED
    BY <2>1, <2>2, <1>6, <1>7 DEF InOrder
<1>10. Everything' \subseteq Everything
  <2>1. m \in Everything
    BY <1>4, <1>5 DEF Everything
  <2> SUFFICES ASSUME NEW n \in Everything'
               PROVE  n \in Everything
    OBVIOUS
  <2>2. n \in Messages
    BY DEF Everything
  <2>3. CASE n \in Late'
    BY <1>5, <2>2, <2>3 DEF Everything
  <2>4. ASSUME NEW o \in Objects, n \in Range(replyChan'[o])
        PROVE  n \in Everything
    BY <1>6, <2>1, <2>2, <2>4 DEF Everything
  <2>5. ASSUME NEW v \in Users, n \in Range(got'[v])
        PROVE  n \in Everything
    BY <1>1, <2>2, <2>5 DEF Everything
  <2> QED
    BY <2>3, <2>4, <2>5 DEF Everything
<1> QED
  BY <1>9, <1>10

(* Every step keeps the order.                                              *)
LEMMA OrderStep ==
    ASSUME IsFiniteSet(Objects), OrderInv, [Next]_vars
    PROVE  InOrder' /\ AllSent'
<1>0. TypeOK /\ StreamsOwn /\ InOrder /\ AllSent
  BY DEF OrderInv, OwnershipInv
<1>1. ASSUME Everything' \subseteq Everything, UNCHANGED <<opens, id>>,
             Open' \subseteq Open,
             \/ UNCHANGED sentOn
             \/ \E u \in Users : sentOn[u] < MaxSends
                                 /\ sentOn' = [sentOn EXCEPT ![u] = @ + 1]
      PROVE  AllSent'
  <2>1. opens \in Nat /\ opens' \in Nat /\ opens' >= opens
    BY <1>0, <1>1 DEF TypeOK
  <2>2. \A v \in Users : sentOn[v] \in Nat /\ sentOn'[v] \in Nat /\ sentOn'[v] >= sentOn[v]
    <3>1. sentOn \in [Users -> 0..MaxSends]
      BY <1>0 DEF TypeOK
    <3>2. CASE UNCHANGED sentOn
      BY <3>1, <3>2
    <3>3. ASSUME NEW u \in Users, sentOn' = [sentOn EXCEPT ![u] = @ + 1]
          PROVE  \A v \in Users : /\ sentOn[v] \in Nat /\ sentOn'[v] \in Nat
                                  /\ sentOn'[v] >= sentOn[v]
      BY <3>1, <3>3
    <3> QED
      BY <1>1, <3>2, <3>3
  <2>3. \A v \in Open' : v \in Open /\ id'[v] = id[v] /\ sentOn'[v] >= sentOn[v]
                         /\ sentOn'[v] \in Nat
    BY <1>1, <2>2 DEF Open
  <2> QED
    BY <1>0, <1>1, <2>1, <2>3, SentKept
<1>2. ASSUME NEW u \in Users, SendFails(u) \/ RecvFails(u)
      PROVE  InOrder' /\ AllSent'
  <2>1. UNCHANGED <<opens, id, got, replyChan, vppQueue, callback, object>>
    BY <1>2 DEF SendFails, RecvFails
  <2>2. Open' \subseteq Open
    <3>1. u \in Open /\ \A v \in Users \ {u} : pc'[v] = pc[v]
      BY <1>0, <1>2 DEF SendFails, RecvFails, MaySend, Receiving, AfterCall, Open, TypeOK
    <3> QED
      BY <3>1, OpenChange
  <2>3. InOrder' /\ Everything' = Everything
    BY <1>0, <2>1, <2>2, OrderKept
  <2> QED
    BY <1>1, <1>2, <2>1, <2>2, <2>3 DEF SendFails, RecvFails, MaySend
<1>3. ASSUME NEW u \in Users, RecvReply(u)
      PROVE  InOrder' /\ AllSent'
  <2>1. UNCHANGED <<opens, id, sentOn>>
    BY <1>3 DEF RecvReply
  <2>2. Open' \subseteq Open
    <3>1. u \in Open /\ \A v \in Users \ {u} : pc'[v] = pc[v]
      BY <1>0, <1>3 DEF RecvReply, Receiving, AfterCall, Open, TypeOK
    <3> QED
      BY <3>1, OpenChange
  <2> QED
    BY <1>1, <1>3, <2>1, <2>2, OrderRecv
<1>4. ASSUME NEW u \in Users, Close(u)
      PROVE  InOrder' /\ AllSent'
  <2>1. UNCHANGED <<opens, id, sentOn, got, replyChan, vppQueue, callback, object>>
    BY <1>4 DEF Close
  <2>2. Open' \subseteq Open
    <3>1. pc'[u] = "idle" /\ \A v \in Users \ {u} : pc'[v] = pc[v]
      BY <1>0, <1>4 DEF Close, TypeOK
    <3> QED
      BY <3>1, OpenChange
  <2> QED
    BY <1>0, <1>1, <2>1, <2>2, OrderKept
<1>5. CASE (\E o \in Objects : Put(o)) \/ sendReply \/ sendReplyGivesUp
  <2>1. UNCHANGED <<opens, id, sentOn, pc>>
    BY <1>5 DEF Put, sendReply, sendReplyGivesUp, userVars
  <2>2. Open' \subseteq Open
    BY <2>1 DEF Open
  <2> QED
    BY <1>1, <1>5, <2>1, <2>2, OrderPut, OrderReply
<1>6. CASE UNCHANGED vars
  <2>1. UNCHANGED <<opens, id, sentOn, pc, got, replyChan, vppQueue, callback, object>>
    BY <1>6 DEF vars, userVars
  <2>2. Open' \subseteq Open
    BY <2>1 DEF Open
  <2> QED
    BY <1>0, <1>1, <2>1, <2>2, OrderKept
<1>7. CASE Next
  BY <1>2, <1>3, <1>4, <1>5, <1>7, OrderNew, OrderSend, OrderVpp DEF Next, Calls
<1> QED
  BY <1>6, <1>7

(* Whatever a user receives on a stream, and however late, the replies to   *)
(* one stream's requests come in their order and never twice: for any number*)
(* of users, streams, requests and finitely many objects.                   *)
THEOREM OwnRepliesInOrderCorrect ==
    ASSUME IsFiniteSet(Objects)
    PROVE  Spec => []OwnRepliesInOrder
<1>1. Init => InOrder /\ AllSent
  <2> SUFFICES ASSUME Init
               PROVE  InOrder /\ AllSent
    OBVIOUS
  <2>1. /\ Open = {} /\ InHand = {} /\ Late = {} /\ vppQueue = <<>>
        /\ \A o \in Objects : replyChan[o] = <<>>
        /\ \A u \in Users : got[u] = <<>>
    BY NoReply DEF Init, Open, InHand, Late
  <2>2. Everything = {}
    BY <2>1, NoReply DEF Everything
  <2> QED
    BY <2>1, <2>2, NoReply, BeforeNothing DEF InOrder, AllSent, Sent
<1>2. OwnershipInv /\ InOrder /\ AllSent /\ [Next]_vars => InOrder' /\ AllSent'
  BY OrderStep DEF OrderInv
<1>3. InOrder => OwnRepliesInOrder
  BY DEF InOrder, Ascending, OwnRepliesInOrder
<1> QED
  BY <1>1, <1>2, <1>3, OwnershipInvariance, PTL DEF Spec
=============================================================================
