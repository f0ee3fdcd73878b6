-------------------------- MODULE MemifRingProofs --------------------------
(***************************************************************************)
(* What a memif ring guarantees for any size, any range of the cursors     *)
(* that is a multiple of it, any length of a packet and any number of      *)
(* them, when the writer writes one packet a call (WritePacket, TxBurst =  *)
(* 1): the cursors never lap, the ring is a FIFO queue, the buffers a      *)
(* slave has posted have their full length, and ReadPacket returns whole   *)
(* packets.                                                                *)
(***************************************************************************)
EXTENDS MemifRing, SequenceTheorems, TLAPS

(* Slots that hold something: read and not given back, or published.        *)
Used == Dist(Freed, lastRead) + Unread

(* The locals of the reader at each place of its code.                      *)
ReaderShape ==
    \/ r \in [pc : {"idle"}, got : Seq(Buffer)]
    \/ r \in [pc : {"post"}, got : Seq(Buffer), slot : Nat]
    \/ /\ api = "packet"
       /\ r \in [pc : {"copy", "refill", "error"}, slot : Nat, nSlots : Nat,
                 got : Seq(Buffer)]
       /\ r.pc = "copy" => r.nSlots > 0
    \/ /\ api = "burst"
       /\ \/ r \in [pc : {"refill"}, got : Seq(Buffer)]
          \/ r \in [pc : {"copy"}, slot : Nat, got : Seq(Buffer), nSlots : Nat,
                    clear : BOOLEAN]

(* A writer in the middle of a packet has this one to write.                *)
WriterShape ==
    w.pc = "write" => /\ Len(w.todo) = 1 /\ w.todo[1] \in DOMAIN lens
                      /\ w.n < lens[w.todo[1]]

IInv == TypeOK /\ ReaderShape /\ WriterShape /\ CursorsOrdered

-----------------------------------------------------------------------------
(* An element of a sequence is of its kind.                                 *)
LEMMA SeqElement ==
    ASSUME NEW S, NEW q \in Seq(S), NEW i \in DOMAIN q
    PROVE  q[i] \in S
OBVIOUS

(* A function on the first n numbers is a sequence of length n.             *)
LEMMA FunctionSeq ==
    ASSUME NEW S, NEW n \in Nat, NEW f \in [1..n -> S]
    PROVE  f \in Seq(S) /\ Len(f) = n
<1>1. f \in Seq(S)
  BY SeqDef, Zenon
<1> DEFINE m == Len(f)
<1>2. m \in Nat /\ DOMAIN f = 1..m /\ DOMAIN f = 1..n
  BY <1>1, LenProperties
<1> HIDE DEF m
<1>3. 1..m = 1..n
  BY <1>2, Zenon
<1>4. m = n
  <2>1. \A k \in Nat : k \in 1..m <=> k \in 1..n
    BY <1>3, Zenon
  <2> QED BY <1>2, <2>1
<1> QED BY <1>1, <1>4 DEF m

(* What an element added at the end leaves as it was.                       *)
LEMMA AppendedSeq ==
    ASSUME NEW S, NEW q \in Seq(S), NEW x \in S
    PROVE  /\ Len(Append(q, x)) = Len(q) + 1 /\ Append(q, x)[Len(q) + 1] = x
           /\ \A k \in 1..Len(q) : Append(q, x)[k] = q[k]
BY AppendProperties

(* What is left of a sequence without its first n elements.                 *)
LEMMA SuffixSeq ==
    ASSUME NEW S, NEW q \in Seq(S), NEW n \in 0..Len(q), NEW p \in Seq(S),
           Len(p) = Len(q) - n, \A k \in 1..Len(p) : p[k] = q[n + k]
    PROVE  SubSeq(q, n + 1, Len(q)) = p
<1> DEFINE t == SubSeq(q, n + 1, Len(q))
<1>1. Len(q) \in Nat /\ n \in Nat /\ Len(p) \in Nat
  BY LenProperties
<1>2. \A k \in n + 1..Len(q) : q[k] \in S
  BY <1>1, ElementOfSeq
<1>3. /\ t \in Seq(S)
      /\ Len(t) = IF n + 1 <= Len(q) THEN Len(q) - (n + 1) + 1 ELSE 0
      /\ \A k \in 1..Len(q) - (n + 1) + 1 : t[k] = q[n + 1 + k - 1]
  BY <1>1, <1>2, SubSeqProperties
<1> HIDE DEF t
<1>4. Len(t) = Len(p)
  BY <1>1, <1>3
<1>5. \A k \in 1..Len(t) : t[k] = p[k]
  BY <1>1, <1>3, <1>4
<1> QED BY <1>3, <1>4, <1>5, SeqEqual DEF t

(* The first n elements of a sequence.                                      *)
LEMMA PrefixSeq ==
    ASSUME NEW S, NEW q \in Seq(S), NEW n \in 0..Len(q)
    PROVE  /\ SubSeq(q, 1, n) \in Seq(S) /\ Len(SubSeq(q, 1, n)) = n
           /\ \A k \in 1..n : SubSeq(q, 1, n)[k] = q[k]
<1> DEFINE t == SubSeq(q, 1, n)
<1>1. Len(q) \in Nat /\ n \in Nat
  BY LenProperties
<1>2. \A k \in 1..n : q[k] \in S
  BY <1>1, ElementOfSeq
<1>3. /\ t \in Seq(S)
      /\ Len(t) = IF 1 <= n THEN n - 1 + 1 ELSE 0
      /\ \A k \in 1..n - 1 + 1 : t[k] = q[1 + k - 1]
  BY <1>1, <1>2, SubSeqProperties
<1> HIDE DEF t
<1>4. Len(t) = n
  BY <1>1, <1>3
<1>5. \A k \in 1..n : t[k] = q[k]
  BY <1>1, <1>3
<1> QED BY <1>3, <1>4, <1>5 DEF t

-----------------------------------------------------------------------------
(* Remainders *)

(* The multiple of M between -M and M is 0.                                 *)
LEMMA OnlyZeroFits ==
    ASSUME NEW M \in Nat \ {0}, NEW d \in Int, M * d < M, M * d > -M
    PROVE  d = 0
<1>1. CASE d >= 1
  <2>1. M * d >= M * 1
    BY <1>1
  <2> QED BY <2>1, <1>1
<1>2. CASE d <= -1
  <2>1. M * d <= M * (-1)
    BY <1>2
  <2> QED BY <2>1, <1>2
<1> QED BY <1>1, <1>2

(* A number is a multiple of M and its remainder.                           *)
LEMMA Division ==
    ASSUME NEW M \in Nat \ {0}, NEW x \in Int
    PROVE  x % M \in 0..M - 1 /\ \E q \in Int : x = M * q + (x % M)
<1>1. x \div M \in Int /\ x % M = x - M * (x \div M)
  OBVIOUS
<1>2. M * (x \div M) \in Int /\ x % M \in 0..M - 1
  BY <1>1
<1>3. x = M * (x \div M) + (x % M)
  BY <1>1, <1>2
<1> QED BY <1>1, <1>2, <1>3

(* The remainder is the only one there is.                                  *)
LEMMA RemainderUnique ==
    ASSUME NEW M \in Nat \ {0}, NEW x \in Int, NEW k \in Int, NEW y \in 0..M - 1,
           x = M * k + y
    PROVE  x % M = y
<1>1. PICK q \in Int : x = M * q + (x % M)
  BY Division
<1>2. M * (k - q) = M * k - M * q
  OBVIOUS
<1>3. /\ M * k \in Int /\ M * q \in Int /\ M * (k - q) \in Int /\ k - q \in Int
      /\ x % M \in 0..M - 1
  OBVIOUS
<1>4. M * (k - q) < M /\ M * (k - q) > -M
  BY <1>1, <1>2, <1>3
<1>5. k - q = 0
  BY <1>3, <1>4, OnlyZeroFits
<1>6. k = q
  BY <1>5
<1> QED BY <1>1, <1>3, <1>6

(* Adding a multiple of M does not change the remainder.                    *)
LEMMA RemainderPeriodic ==
    ASSUME NEW M \in Nat \ {0}, NEW x \in Int, NEW k \in Int
    PROVE  (x + k * M) % M = x % M
<1>1. PICK q \in Int : x = M * q + (x % M)
  BY Division
<1>2. k * M \in Int /\ x + k * M \in Int /\ q + k \in Int /\ x % M \in 0..M - 1
  BY Division
<1>3. M * (q + k) = M * q + k * M
  OBVIOUS
<1>4. x + k * M = M * (q + k) + (x % M)
  BY <1>1, <1>2, <1>3
<1> QED BY <1>2, <1>4, RemainderUnique

(* Numbers less than M apart have different remainders.                     *)
LEMMA RemainderInjective ==
    ASSUME NEW M \in Nat \ {0}, NEW x \in Int, NEW y \in Int,
           x % M = y % M, x <= y, y < x + M
    PROVE  x = y
<1>1. PICK q \in Int : x = M * q + (x % M)
  BY Division
<1>2. PICK p \in Int : y = M * p + (y % M)
  BY Division
<1>3. M * (p - q) = M * p - M * q
  OBVIOUS
<1>4. M * p \in Int /\ M * q \in Int /\ p - q \in Int /\ x % M \in Int
  OBVIOUS
<1>5. M * (p - q) = y - x
  BY <1>1, <1>2, <1>3, <1>4
<1>6. p - q = 0
  BY <1>4, <1>5, OnlyZeroFits
<1> QED BY <1>5, <1>6

-----------------------------------------------------------------------------
(* Cursors and slots *)

(* The range of the cursors holds the ring at least twice.                  *)
LEMMA RingTwice ==
    /\ Size \in Nat \ {0} /\ SeqMod \in Nat \ {0} /\ 2 * Size <= SeqMod
    /\ \E turns \in Int : SeqMod = turns * Size
<1>1. PICK turns \in 1..SeqMod : SeqMod = turns * Size
  BY RingAssumption
<1>2. Size \in Nat \ {0} /\ SeqMod \in Nat /\ Size < SeqMod
  BY RingAssumption
<1>3. turns # 1
  BY <1>1, <1>2
<1>4. turns \in Int /\ turns >= 2
  BY <1>1, <1>2, <1>3
<1>5. turns * Size >= 2 * Size
  BY <1>2, <1>4
<1> QED BY <1>1, <1>2, <1>4, <1>5

(* A number within one turn of the cursors is reduced by one turn at most.  *)
LEMMA Reduced ==
    ASSUME NEW x \in Int, -SeqMod <= x, x < 2 * SeqMod
    PROVE  /\ x % SeqMod \in Cursors
           /\ x % SeqMod = IF x < 0 THEN x + SeqMod
                           ELSE IF x < SeqMod THEN x ELSE x - SeqMod
<1>1. SeqMod \in Nat \ {0}
  BY RingTwice
<1>2. CASE x < 0
  BY <1>1, <1>2 DEF Cursors
<1>3. CASE 0 <= x /\ x < SeqMod
  BY <1>1, <1>3 DEF Cursors
<1>4. CASE SeqMod <= x
  BY <1>1, <1>4 DEF Cursors
<1> QED BY <1>1, <1>2, <1>3, <1>4

(* The distance from one cursor to another.                                 *)
LEMMA Distance ==
    ASSUME NEW a \in Cursors, NEW b \in Cursors
    PROVE  /\ Dist(a, b) \in Cursors
           /\ Dist(a, b) = IF a <= b THEN b - a ELSE b - a + SeqMod
<1>1. /\ SeqMod \in Nat /\ a \in Int /\ b \in Int /\ b - a \in Int
      /\ -SeqMod <= b - a /\ b - a < SeqMod
  BY RingTwice DEF Cursors
<1>2. b - a < 2 * SeqMod
  BY <1>1
<1> QED BY <1>1, <1>2, Reduced DEF Dist

(* Moving the nearer cursor n slots on shortens the distance by n.          *)
LEMMA DistanceShrinks ==
    ASSUME NEW a \in Cursors, NEW b \in Cursors, NEW n \in 0..Dist(a, b)
    PROVE  /\ (a + n) % SeqMod \in Cursors
           /\ Dist((a + n) % SeqMod, b) = Dist(a, b) - n
<1> DEFINE c == (a + n) % SeqMod
           d == Dist(a, b)
           e == Dist(c, b)
<1>1. SeqMod \in Nat /\ d \in Cursors /\ d = IF a <= b THEN b - a ELSE b - a + SeqMod
  BY Distance, RingTwice
<1>2. a + n \in Int /\ 0 <= a + n /\ a + n < 2 * SeqMod
  BY <1>1 DEF Cursors
<1>3. c \in Cursors /\ c = IF a + n < SeqMod THEN a + n ELSE (a + n) - SeqMod
  <2> DEFINE x == a + n
  <2>1. x \in Int /\ -SeqMod <= x /\ x < 2 * SeqMod
    BY <1>1, <1>2
  <2>2. ~(x < 0)
    BY <1>2
  <2> HIDE DEF x
  <2>3. x % SeqMod \in Cursors
        /\ x % SeqMod = IF x < 0 THEN x + SeqMod
                        ELSE IF x < SeqMod THEN x ELSE x - SeqMod
    BY <2>1, Reduced
  <2>4. x % SeqMod = IF x < SeqMod THEN x ELSE x - SeqMod
    BY <2>2, <2>3
  <2> QED BY <2>3, <2>4, Zenon DEF x
<1>4. e = IF c <= b THEN b - c ELSE b - c + SeqMod
  BY <1>3, Distance
<1> HIDE DEF c, d, e
<1>5. n \in 0..d
  BY DEF d
<1>6. e = d - n
  BY <1>1, <1>3, <1>4, <1>5 DEF Cursors
<1> QED BY <1>3, <1>6 DEF c, d, e

(* Moving the farther cursor n slots on lengthens it by n.                  *)
LEMMA DistanceGrows ==
    ASSUME NEW a \in Cursors, NEW b \in Cursors, NEW n \in Nat,
           Dist(a, b) + n < SeqMod
    PROVE  /\ (b + n) % SeqMod \in Cursors
           /\ Dist(a, (b + n) % SeqMod) = Dist(a, b) + n
<1> DEFINE c == (b + n) % SeqMod
           d == Dist(a, b)
           e == Dist(a, c)
<1>1. SeqMod \in Nat /\ d \in Cursors /\ d = IF a <= b THEN b - a ELSE b - a + SeqMod
  BY Distance, RingTwice
<1>2. b + n \in Int /\ 0 <= b + n /\ b + n < 2 * SeqMod
  BY <1>1 DEF Cursors
<1>3. c \in Cursors /\ c = IF b + n < SeqMod THEN b + n ELSE (b + n) - SeqMod
  <2> DEFINE x == b + n
  <2>1. x \in Int /\ -SeqMod <= x /\ x < 2 * SeqMod
    BY <1>1, <1>2
  <2>2. ~(x < 0)
    BY <1>2
  <2> HIDE DEF x
  <2>3. x % SeqMod \in Cursors
        /\ x % SeqMod = IF x < 0 THEN x + SeqMod
                        ELSE IF x < SeqMod THEN x ELSE x - SeqMod
    BY <2>1, Reduced
  <2>4. x % SeqMod = IF x < SeqMod THEN x ELSE x - SeqMod
    BY <2>2, <2>3
  <2> QED BY <2>3, <2>4, Zenon DEF x
<1>4. e = IF a <= c THEN c - a ELSE c - a + SeqMod
  BY <1>3, Distance
<1> HIDE DEF c, d, e
<1>5. d + n < SeqMod
  BY DEF d
<1>6. e = d + n
  BY <1>1, <1>3, <1>4, <1>5 DEF Cursors
<1> QED BY <1>3, <1>6 DEF c, d, e

(* Distances less than one turn in all add up.                              *)
LEMMA DistancesAdd ==
    ASSUME NEW a \in Cursors, NEW b \in Cursors, NEW c \in Cursors,
           Dist(a, b) + Dist(b, c) < SeqMod
    PROVE  Dist(a, c) = Dist(a, b) + Dist(b, c)
<1>1. SeqMod \in Nat
  BY RingTwice
<1>2. /\ Dist(a, b) = IF a <= b THEN b - a ELSE b - a + SeqMod
      /\ Dist(b, c) = IF b <= c THEN c - b ELSE c - b + SeqMod
      /\ Dist(a, c) = IF a <= c THEN c - a ELSE c - a + SeqMod
  BY Distance
<1> QED BY <1>1, <1>2 DEF Cursors

(* A slot is one of the ring's, and a turn of the cursors leads back to it. *)
LEMMA SlotOfCursor ==
    ASSUME NEW c \in Int
    PROVE  Slot(c) \in Slots /\ Slot(c % SeqMod) = Slot(c)
<1>1. Size \in Nat \ {0} /\ SeqMod \in Nat \ {0}
  BY RingTwice
<1>2. PICK turns \in Int : SeqMod = turns * Size
  BY RingTwice
<1>3. PICK q \in Int : c = SeqMod * q + (c % SeqMod)
  BY <1>1, Division
<1> DEFINE rest == c % SeqMod
           k == q * turns
<1>4. rest \in Int /\ k \in Int
  BY <1>1, Division
<1>5. SeqMod * q = k * Size
  BY <1>1, <1>2
<1>6. c = rest + k * Size
  BY <1>1, <1>3, <1>4, <1>5
<1>7. rest % Size = c % Size
  <2> HIDE DEF rest, k
  <2>1. (rest + k * Size) % Size = rest % Size
    BY <1>1, <1>4, RemainderPeriodic
  <2> QED BY <1>6, <2>1
<1>8. c % Size \in 0..Size - 1
  BY <1>1, Division
<1> QED BY <1>7, <1>8 DEF Slot, Slots

(* A cursor wrapped on the way leads to the same slot.                      *)
LEMMA SlotShift ==
    ASSUME NEW a \in Int, NEW m \in Int
    PROVE  Slot((a % SeqMod) + m) = Slot(a + m)
<1>1. SeqMod \in Nat \ {0}
  BY RingTwice
<1>2. PICK q \in Int : a = SeqMod * q + (a % SeqMod)
  BY <1>1, Division
<1> DEFINE b == a % SeqMod
           x == b + m
           y == a + m
<1>3. b \in Int /\ x \in Int /\ y \in Int
  BY <1>1, Division
<1>4. y = x + q * SeqMod
  BY <1>1, <1>2, <1>3
<1> HIDE DEF x, y
<1>5. (x + q * SeqMod) % SeqMod = x % SeqMod
  BY <1>1, <1>2, <1>3, RemainderPeriodic, Zenon
<1>6. y % SeqMod = x % SeqMod
  BY <1>4, <1>5
<1>7. Slot(y % SeqMod) = Slot(y) /\ Slot(x % SeqMod) = Slot(x)
  BY <1>3, SlotOfCursor
<1>8. Slot(x) = Slot(y)
  BY <1>6, <1>7
<1> QED BY <1>8 DEF x, y, b

(* Positions less than one ring apart have slots of their own.              *)
LEMMA SlotsApart ==
    ASSUME NEW x \in Int, NEW y \in Int, x < y, y < x + Size
    PROVE  Slot(x) # Slot(y)
<1>1. Size \in Nat \ {0}
  BY RingTwice
<1>2. ASSUME x % Size = y % Size PROVE FALSE
  <2>1. x <= y
    OBVIOUS
  <2>2. x = y
    BY <1>1, <1>2, <2>1, RemainderInjective, Zenon
  <2> QED BY <2>2
<1> QED BY <1>2 DEF Slot

-----------------------------------------------------------------------------
(* What the cursors say about the ring *)

(* The parts of the ring that the two peers hold.                           *)
LEMMA CursorFacts ==
    ASSUME TypeOK, CursorsOrdered
    PROVE  /\ Front \in Cursors /\ Freed \in Cursors /\ lastRead \in Cursors
           /\ Unread \in 0..Size /\ Dist(Freed, lastRead) \in 0..Size
           /\ Used \in 0..Size /\ Used = Dist(Freed, lastRead) + Unread
           /\ Dist(Freed, Front) = Used
<1>1. Front \in Cursors /\ lastRead \in Cursors
  BY DEF TypeOK, Front
<1>2. Freed \in Cursors
  <2>1. CASE kind = "S2M"
    BY <2>1 DEF TypeOK, Freed
  <2>2. CASE kind # "S2M"
    <3> DEFINE x == head - Size
    <3>1. x \in Int /\ -SeqMod <= x /\ x < 2 * SeqMod
      BY RingTwice DEF TypeOK, Cursors
    <3>2. Freed = x % SeqMod
      BY <2>2 DEF Freed
    <3> HIDE DEF x
    <3> QED BY <3>1, <3>2, Reduced
  <2> QED BY <2>1, <2>2
<1>3. Unread = Dist(lastRead, Front) /\ Unread \in Cursors
  BY <1>1, Distance DEF Unread
<1>4. Dist(Freed, lastRead) \in Cursors
  BY <1>1, <1>2, Distance
<1>5. Dist(Freed, lastRead) + Unread <= Size
  BY DEF CursorsOrdered
<1>6. Size \in Nat /\ Size < SeqMod /\ SeqMod \in Nat
  BY RingAssumption
<1>7. Unread \in 0..Size /\ Dist(Freed, lastRead) \in 0..Size
  BY <1>3, <1>4, <1>5, <1>6 DEF Cursors
<1>8. Used \in 0..Size /\ Used = Dist(Freed, lastRead) + Unread
  BY <1>5, <1>6, <1>7 DEF Used
<1>9. Dist(Freed, lastRead) + Dist(lastRead, Front) < SeqMod
  BY <1>3, <1>5, <1>6, <1>7
<1>10. Dist(Freed, Front) = Used
  BY <1>1, <1>2, <1>3, <1>8, <1>9, DistancesAdd
<1> QED BY <1>1, <1>2, <1>7, <1>8, <1>10

(* Twice Size fits in the range of the cursors.                             *)
LEMMA SizeFits == /\ Size \in Nat \ {0} /\ SeqMod \in Nat /\ Size < SeqMod
                  /\ 2 * Size <= SeqMod
BY RingTwice, RingAssumption

(* The free slots are the ones that are not used.                           *)
LEMMA FreeSlots ==
    ASSUME TypeOK, CursorsOrdered
    PROVE  Free = Size - Used
<1>1. /\ head \in Cursors /\ tail \in Cursors /\ Used \in 0..Size
      /\ Dist(Freed, Front) = Used
  BY CursorFacts DEF TypeOK
<1>2. CASE kind = "S2M"
  <2> DEFINE x == Size - head + tail
  <2>1. Dist(tail, head) = Used
    BY <1>1, <1>2 DEF Freed, Front
  <2>2. Used = IF tail <= head THEN head - tail ELSE head - tail + SeqMod
    BY <1>1, <2>1, Distance
  <2>3. x \in Int /\ -SeqMod <= x /\ x < 2 * SeqMod
    BY <1>1, SizeFits DEF Cursors
  <2>4. Free = x % SeqMod
    BY <1>2 DEF Free
  <2>5. \/ x = Size - Used \/ x = Size - Used + SeqMod
    BY <1>1, <2>2, SizeFits DEF Cursors
  <2> HIDE DEF x
  <2>6. x % SeqMod = IF x < 0 THEN x + SeqMod
                     ELSE IF x < SeqMod THEN x ELSE x - SeqMod
    BY <2>3, Reduced
  <2> QED BY <1>1, <2>3, <2>4, <2>5, <2>6, SizeFits
<1>3. CASE kind # "S2M"
  <2> DEFINE y == head - Size
  <2>1. Freed = y % SeqMod /\ Front = tail /\ Free = Dist(tail, head)
    BY <1>3 DEF Freed, Front, Free, Dist
  <2>2. y \in Int /\ -SeqMod <= y /\ y < SeqMod /\ y < 2 * SeqMod
    BY <1>1, SizeFits DEF Cursors
  <2>3. Freed \in Cursors /\ Dist(Freed, tail) = Used
    BY <1>1, <2>1, CursorFacts
  <2>4. Used = IF Freed <= tail THEN tail - Freed ELSE tail - Freed + SeqMod
    BY <1>1, <2>3, Distance
  <2>5. Free = IF tail <= head THEN head - tail ELSE head - tail + SeqMod
    BY <1>1, <2>1, Distance
  <2>6. Freed = IF y < 0 THEN y + SeqMod ELSE y
    <3> HIDE DEF y
    <3>1. y % SeqMod = IF y < 0 THEN y + SeqMod
                       ELSE IF y < SeqMod THEN y ELSE y - SeqMod
      BY <2>2, Reduced
    <3> QED BY <2>1, <2>2, <3>1
  <2> QED BY <1>1, <2>3, <2>4, <2>5, <2>6, SizeFits DEF Cursors
<1> QED BY <1>2, <1>3

(* A slave that has read n buffers since it last moved posts as many slots  *)
(* as it has read and not given back.                                       *)
LEMMA PostableSlots ==
    ASSUME TypeOK, CursorsOrdered, kind = "M2S", NEW n \in 0..Unread
    PROVE  /\ Postable(lastRead + n) = Dist(Freed, lastRead) + n
           /\ Postable(lastRead + n) \in 0..Size
<1> DEFINE last == lastRead + n
           x == Size - head + last
           y == head - Size
           d == Dist(Freed, lastRead)
<1>1. /\ head \in Cursors /\ lastRead \in Cursors /\ Freed \in Cursors
      /\ d \in 0..Size /\ Unread \in 0..Size /\ d + Unread <= Size
  BY CursorFacts DEF TypeOK
<1>2. d = IF Freed <= lastRead THEN lastRead - Freed
                               ELSE lastRead - Freed + SeqMod
  BY <1>1, Distance
<1>3. Freed = y % SeqMod
  BY DEF Freed
<1>4. y \in Int /\ -SeqMod <= y /\ y < SeqMod /\ y < 2 * SeqMod
  BY <1>1, SizeFits DEF Cursors
<1>5. Freed = IF y < 0 THEN y + SeqMod ELSE y
  <2> HIDE DEF y
  <2>1. y % SeqMod = IF y < 0 THEN y + SeqMod
                     ELSE IF y < SeqMod THEN y ELSE y - SeqMod
    BY <1>4, Reduced
  <2> QED BY <1>3, <1>4, <2>1
<1>6. x \in Int /\ -SeqMod <= x /\ x < 2 * SeqMod
  BY <1>1, SizeFits DEF Cursors
<1>7. Postable(last) = x % SeqMod
  BY DEF Postable
<1>8. Postable(last) = IF x < 0 THEN x + SeqMod
                       ELSE IF x < SeqMod THEN x ELSE x - SeqMod
  <2> HIDE DEF x
  <2> QED BY <1>6, <1>7, Reduced
<1> HIDE DEF d
<1>9. d + n \in 0..Size /\ d \in Int /\ n \in Int
  BY <1>1, SizeFits
<1>10. x = d + n \/ x = d + n + SeqMod \/ x = d + n - SeqMod
  BY <1>1, <1>2, <1>5, SizeFits DEF Cursors
<1> HIDE DEF x
<1>11. Postable(last) = d + n
  BY <1>6, <1>8, <1>9, <1>10, SizeFits
<1> QED BY <1>9, <1>11 DEF d

-----------------------------------------------------------------------------
(* The cursors after a step *)

(* The two halves of CursorsOrdered.                                        *)
WriterAhead ==
    /\ Used <= Size
    /\ Writing => w.slot >= Front /\ w.slot - Front + Used <= Size
    /\ w.pc = "write" => w.nFree > 0 /\ w.slot - Front + w.nFree + Used <= Size

ReaderBehind ==
    /\ r.pc \in {"copy", "refill"} /\ api = "packet" =>
          r.slot = lastRead + Len(r.got) /\ Len(r.got) <= Unread
    /\ r.pc = "copy" => /\ r.slot = lastRead + Len(r.got)
                        /\ Len(r.got) + r.nSlots <= Unread
    /\ r.pc = "post" => kind = "M2S" /\ r.slot - head = Dist(Freed, lastRead)

(* Together they are CursorsOrdered.                                        *)
LEMMA Halves == CursorsOrdered <=> WriterAhead /\ ReaderBehind
BY DEF CursorsOrdered, WriterAhead, ReaderBehind, Used

(* The reader only makes room: where it leaves the writer's cursor alone    *)
(* and no more slots are used, the writer stays ahead.                      *)
LEMMA RoomSuffices ==
    ASSUME TypeOK, CursorsOrdered, UNCHANGED <<w>>, Front' = Front,
           Used' \in Nat, Used' <= Used
    PROVE  WriterAhead'
<1>1. WriterAhead /\ Used \in 0..Size /\ Front \in Cursors
  BY Halves, CursorFacts
<1>2. w = [pc |-> "idle"] \/ (w.slot \in Nat /\ w.nFree \in Nat)
  BY DEF TypeOK
<1>3. Size \in Nat /\ Front \in Nat /\ Used \in Nat
  BY <1>1, SizeFits DEF Cursors
<1>4. CASE w = [pc |-> "idle"]
  <2>1. w'.pc = "idle"
    BY <1>4
  <2> QED BY <1>1, <1>3, <2>1 DEF WriterAhead, Writing
<1>5. CASE w.slot \in Nat /\ w.nFree \in Nat
  BY <1>1, <1>3, <1>5 DEF WriterAhead, Writing
<1> QED BY <1>2, <1>4, <1>5

(* Where the cursors stay, so does what is counted between them.            *)
LEMMA SameCursors ==
    ASSUME UNCHANGED <<kind, head, tail, lastRead>>
    PROVE  UNCHANGED <<Front, Freed, Unread, Used>>
           /\ Dist(Freed, lastRead)' = Dist(Freed, lastRead)
BY DEF Front, Freed, Unread, Used, Dist

(* Reading on moves the reader's cursor towards the writer's: on a ring     *)
(* whose slots are given back later nothing changes in all.                 *)
LEMMA ReadOn ==
    ASSUME TypeOK, CursorsOrdered, NEW n \in 0..Unread,
           lastRead' = (lastRead + n) % SeqMod, UNCHANGED <<kind, head>>,
           \/ UNCHANGED tail
           \/ kind = "S2M" /\ tail' = lastRead'
    PROVE  /\ lastRead' \in Cursors /\ Front' = Front
           /\ Unread' = Unread - n
           /\ Used' \in Nat /\ Used' <= Used
           /\ tail' = tail => /\ Freed' = Freed
                              /\ Dist(Freed, lastRead)' = Dist(Freed, lastRead) + n
<1>1. /\ Front \in Cursors /\ Freed \in Cursors /\ lastRead \in Cursors
      /\ Unread \in 0..Size /\ Dist(Freed, lastRead) \in 0..Size
      /\ Used \in 0..Size /\ Used = Dist(Freed, lastRead) + Unread
  BY CursorFacts
<1>2. Front' = Front
  BY DEF Front
<1>3. Unread = Dist(lastRead, Front)
  BY DEF Unread
<1>4. lastRead' \in Cursors /\ Dist(lastRead', Front) = Unread - n
  BY <1>1, <1>3, DistanceShrinks
<1>5. Unread' = Unread - n
  BY <1>2, <1>4 DEF Unread
<1>6. CASE tail' = tail
  <2>1. Freed' = Freed
    BY <1>6 DEF Freed
  <2>2. n \in Nat /\ Dist(Freed, lastRead) + n < SeqMod
    BY <1>1, SizeFits DEF Used, CursorsOrdered
  <2>3. Dist(Freed, lastRead') = Dist(Freed, lastRead) + n
    BY <1>1, <2>2, DistanceGrows
  <2>4. Dist(Freed', lastRead') = Dist(Freed, lastRead) + n
    BY <2>1, <2>3
  <2>5. Used' = Used
    BY <1>1, <1>5, <2>4, SizeFits DEF Used
  <2> QED BY <1>1, <1>2, <1>4, <1>5, <2>1, <2>4, <2>5
<1>7. CASE tail' # tail
  <2>1. Freed' = lastRead'
    BY <1>7 DEF Freed
  <2>2. Dist(lastRead', lastRead') = 0
    BY <1>4, Distance DEF Cursors
  <2>3. Used' = Unread - n
    BY <1>1, <1>5, <2>1, <2>2, SizeFits DEF Used
  <2>4. Unread - n \in Nat /\ Unread - n <= Used
    BY <1>1
  <2> QED BY <1>2, <1>4, <1>5, <1>7, <2>3, <2>4
<1> QED BY <1>6, <1>7

-----------------------------------------------------------------------------
(* The writer's steps *)

(* A step of the writer that moves no cursor leaves the reader as it was.   *)
LEMMA ReaderUndisturbed ==
    ASSUME TypeOK, ReaderShape, CursorsOrdered,
           UNCHANGED <<kind, api, head, tail, lastRead, r>>
    PROVE  ReaderShape' /\ ReaderBehind' /\ Used' = Used /\ Front' = Front
           /\ Unread' = Unread
<1>1. UNCHANGED <<Front, Freed, Unread, Used>>
      /\ Dist(Freed, lastRead)' = Dist(Freed, lastRead)
  BY SameCursors
<1>2. ReaderBehind
  BY Halves
<1>3. ReaderBehind'
  BY <1>1, <1>2 DEF ReaderBehind
<1>4. ReaderShape'
  BY DEF ReaderShape
<1> QED BY <1>1, <1>3, <1>4

(* The start of a packet: the writer claims the slots it has found free.    *)
LEMMA WriteStartKeeps ==
    ASSUME IInv, NEW packets \in [1..1 -> 1..MaxLen], WriteStart(packets)
    PROVE  IInv'
<1>1. TypeOK /\ ReaderShape /\ WriterShape /\ CursorsOrdered
  BY DEF IInv
<1>2. UNCHANGED <<kind, api, irq, head, tail, ring, lastRead, r, received, published>>
  BY DEF WriteStart, config, readerVars
<1>3. ReaderShape' /\ ReaderBehind' /\ Used' = Used /\ Front' = Front
  BY <1>1, <1>2, ReaderUndisturbed
<1>4. event' \in BOOLEAN
  BY <1>1 DEF WriteStart, Interrupt, TypeOK
<1>5. CASE UNCHANGED <<w, lens>>
  <2>1. TypeOK'
    BY <1>1, <1>2, <1>4, <1>5 DEF TypeOK
  <2>2. WriterShape'
    BY <1>1, <1>5 DEF WriterShape
  <2>3. WriterAhead'
    <3>1. WriterAhead
      BY <1>1, Halves
    <3> QED BY <1>3, <1>5, <3>1 DEF WriterAhead, Writing
  <2>4. CursorsOrdered'
    BY <1>3, <2>3, Halves DEF CursorsOrdered, WriterAhead, ReaderBehind, Used
  <2> QED BY <1>3, <2>1, <2>2, <2>4 DEF IInv
<1>6. CASE /\ Free # 0
           /\ w' = [pc |-> "write", slot |-> Front, nFree |-> Free, n |-> 0,
                    todo |-> [k \in DOMAIN packets |-> Len(lens) + k]]
           /\ lens' = lens \o packets
  <2> DEFINE todo == [k \in DOMAIN packets |-> Len(lens) + k]
  <2>1. /\ lens \in Seq(1..MaxLen) /\ Len(lens) \in Nat /\ MaxPackets \in Nat
        /\ packets \in Seq(1..MaxLen) /\ Len(packets) = 1 /\ packets[1] \in 1..MaxLen
        /\ DOMAIN packets = 1..1
        /\ Len(lens) + 1 <= MaxPackets
    <3>1. packets \in Seq(1..MaxLen) /\ DOMAIN packets = 1..1 /\ Len(packets) = 1
      <4> DEFINE Lengths == 1..MaxLen
      <4>1. packets \in [1..1 -> Lengths]
        OBVIOUS
      <4> HIDE DEF Lengths
      <4>2. packets \in Seq(Lengths)
        <5>1. 1 \in Nat
          OBVIOUS
        <5> QED BY <4>1, <5>1, SeqDef, Zenon
      <4>3. Len(packets) \in Nat /\ DOMAIN packets = 1..Len(packets)
            /\ DOMAIN packets = 1..1
        BY <4>1, <4>2, LenProperties
      <4>4. Len(packets) = 1
        BY <4>3
      <4> QED BY <4>2, <4>3, <4>4 DEF Lengths
    <3> QED BY <1>1, <3>1, PacketAssumption DEF TypeOK, WriteStart
  <2>2. /\ lens' \in Seq(1..MaxLen) /\ Len(lens') = Len(lens) + 1
        /\ lens'[Len(lens) + 1] = packets[1]
    <3>1. /\ lens \o packets \in Seq(1..MaxLen)
          /\ Len(lens \o packets) = Len(lens) + Len(packets)
          /\ \A i \in 1..Len(lens) + Len(packets) :
                (lens \o packets)[i] = IF i <= Len(lens) THEN lens[i]
                                       ELSE packets[i - Len(lens)]
      BY <2>1, ConcatProperties
    <3>2. Len(lens) + 1 \in 1..Len(lens) + Len(packets)
          /\ ~(Len(lens) + 1 <= Len(lens)) /\ (Len(lens) + 1) - Len(lens) = 1
      BY <2>1
    <3> QED BY <1>6, <2>1, <3>1, <3>2
  <2>3. todo \in Seq(1..MaxPackets) /\ Len(todo) = 1 /\ todo[1] = Len(lens) + 1
    <3>1. todo \in [1..1 -> 1..MaxPackets] /\ todo[1] = Len(lens) + 1
      BY <2>1
    <3> QED BY <3>1
  <2> HIDE DEF todo
  <2>4. /\ w'.pc = "write" /\ w'.slot = Front /\ w'.nFree = Free /\ w'.n = 0
        /\ w'.todo = todo
    BY <1>6 DEF todo
  <2>5. /\ Front \in Cursors /\ Used \in 0..Size /\ Free = Size - Used
        /\ Free \in Nat \ {0} /\ Front \in Nat /\ Size \in Nat
    BY <1>1, <1>6, CursorFacts, FreeSlots, SizeFits DEF Cursors
  <2>6. w' \in [pc : {"write", "publish"}, slot : Nat, nFree : Nat, n : Nat,
                todo : Seq(1..MaxPackets)]
    BY <1>6, <2>3, <2>5 DEF todo
  <2>7. TypeOK'
    BY <1>1, <1>2, <1>4, <2>1, <2>2, <2>6 DEF TypeOK
  <2>8. WriterShape'
    BY <2>1, <2>2, <2>3, <2>4 DEF WriterShape
  <2>9. WriterAhead'
    BY <1>3, <2>4, <2>5 DEF WriterAhead, Writing
  <2>10. CursorsOrdered'
    BY <1>3, <2>9 DEF CursorsOrdered, WriterAhead, ReaderBehind, Used
  <2> QED BY <1>3, <2>7, <2>8, <2>10 DEF IInv
<1> QED BY <1>5, <1>6 DEF WriteStart

(* The packet a writer is at, and the buffer it fills next.                 *)
LEMMA WriteFacts ==
    ASSUME IInv, w.pc = "write"
    PROVE  LET s      == Slot(w.slot)
               pkt    == Head(w.todo)
               room   == lens[pkt] - CopiedFrom(w.n)
               copied == IF BufferSize(s) < room THEN BufferSize(s) ELSE room
           IN  /\ s \in Slots /\ ring[s] \in Buffer
               /\ pkt \in 1..MaxPackets /\ pkt = w.todo[1] /\ pkt \in DOMAIN lens
               /\ CopiedFrom(w.n) = 0 /\ 0 \in 0..MaxLen
               /\ BufferSize(s) \in 0..PacketBufferSize
               /\ copied \in 0..PacketBufferSize
               /\ lens[pkt] \in 1..MaxLen
               /\ w.slot \in Nat /\ w.nFree \in Nat \ {0} /\ w.n \in Nat
               /\ w.todo \in Seq(1..MaxPackets) /\ Len(w.todo) = 1
               /\ w \in [pc : {"write", "publish"}, slot : Nat, nFree : Nat,
                         n : Nat, todo : Seq(1..MaxPackets)]
<1> DEFINE s      == Slot(w.slot)
           pkt    == Head(w.todo)
           room   == lens[pkt] - CopiedFrom(w.n)
           copied == IF BufferSize(s) < room THEN BufferSize(s) ELSE room
<1>1. TypeOK /\ WriterShape /\ CursorsOrdered
  BY DEF IInv
<1>2. w \in [pc : {"write", "publish"}, slot : Nat, nFree : Nat, n : Nat,
             todo : Seq(1..MaxPackets)]
  BY <1>1 DEF TypeOK
<1>3. w.slot \in Nat /\ w.nFree \in Nat \ {0} /\ w.n \in Nat
  BY <1>1, <1>2 DEF CursorsOrdered
<1>4. w.todo \in Seq(1..MaxPackets) /\ Len(w.todo) = 1 /\ w.todo[1] \in DOMAIN lens
  BY <1>1, <1>2 DEF WriterShape
<1>5. pkt = w.todo[1] /\ pkt \in 1..MaxPackets /\ pkt \in DOMAIN lens
  <2>1. w.todo[1] \in 1..MaxPackets
    <3>1. 1 \in DOMAIN w.todo
      BY <1>4
    <3> QED BY <1>4, <3>1, SeqElement, Zenon
  <2>2. pkt = w.todo[1]
    BY <1>4
  <2> QED BY <1>4, <2>1, <2>2
<1>6. lens[pkt] \in 1..MaxLen
  <2>1. lens \in Seq(1..MaxLen)
    BY <1>1 DEF TypeOK
  <2> QED BY <1>5, <2>1, SeqElement, Zenon
<1>7. s \in Slots /\ ring[s] \in Buffer
  BY <1>1, <1>3, SlotOfCursor DEF TypeOK
<1>8. CopiedFrom(w.n) = 0 /\ 0 \in 0..MaxLen
  BY PacketAssumption DEF CopiedFrom
<1>9. BufferSize(s) \in 0..PacketBufferSize
  BY <1>7, PacketAssumption DEF BufferSize, Buffer
<1>10. room \in 1..MaxLen
  BY <1>6, <1>8
<1> HIDE DEF s, pkt, room
<1>11. copied \in 0..PacketBufferSize
  BY <1>9, <1>10, PacketAssumption
<1> QED BY <1>2, <1>3, <1>4, <1>5, <1>6, <1>7, <1>8, <1>9, <1>11
        DEF s, pkt, room

(* Filling the next buffer keeps the invariant, and so does giving up.      *)
LEMMA WriteBufferKeeps == ASSUME IInv, WriteBuffer PROVE IInv'
<1> DEFINE s      == Slot(w.slot)
           pkt    == Head(w.todo)
           room   == lens[pkt] - CopiedFrom(w.n)
           copied == IF BufferSize(s) < room THEN BufferSize(s) ELSE room
           more   == w.n + copied < lens[pkt]
<1>1. TypeOK /\ ReaderShape /\ WriterShape /\ CursorsOrdered /\ w.pc = "write"
  BY DEF IInv, WriteBuffer
<1>2. UNCHANGED <<kind, api, irq, head, tail, lastRead, r, received, lens, published>>
  BY DEF WriteBuffer, config, readerVars
<1>3. ReaderShape' /\ ReaderBehind' /\ Used' = Used /\ Front' = Front
  BY <1>1, <1>2, ReaderUndisturbed
<1>4. event' \in BOOLEAN
  BY <1>1 DEF WriteBuffer, Interrupt, TypeOK
<1>5. /\ s \in Slots /\ ring[s] \in Buffer
      /\ pkt \in 1..MaxPackets /\ pkt = w.todo[1] /\ pkt \in DOMAIN lens
      /\ CopiedFrom(w.n) = 0 /\ 0 \in 0..MaxLen /\ copied \in 0..PacketBufferSize
      /\ lens[pkt] \in 1..MaxLen
      /\ w.slot \in Nat /\ w.nFree \in Nat \ {0} /\ w.n \in Nat
      /\ w.todo \in Seq(1..MaxPackets) /\ Len(w.todo) = 1
      /\ w \in [pc : {"write", "publish"}, slot : Nat, nFree : Nat,
                n : Nat, todo : Seq(1..MaxPackets)]
  BY <1>1, WriteFacts
<1>6. \/ /\ ring' = [ring EXCEPT ![s].pkt = pkt, ![s].from = CopiedFrom(w.n)]
         /\ w' = [pc |-> "idle"]
      \/ /\ ~(more /\ w.nFree = 1)
         /\ ring' = [ring EXCEPT ![s] = Filled(pkt, CopiedFrom(w.n), more, copied)]
         /\ w' = [w EXCEPT
                !.slot = @ + 1,
                !.nFree = IF more THEN @ - 1 ELSE @,
                !.n = IF more THEN @ + copied ELSE 0,
                !.todo = IF more THEN @ ELSE Tail(@),
                !.pc = IF more \/ Len(w.todo) > 1 THEN @ ELSE "publish"]
  BY DEF WriteBuffer
<1>7. WriterAhead /\ Front \in Nat /\ Used \in Nat /\ Size \in Nat
  BY <1>1, Halves, CursorFacts, SizeFits DEF Cursors
<1> HIDE DEF s, pkt, room, copied
<1>8. more \in BOOLEAN
  OBVIOUS
<1> HIDE DEF more
<1>9. ring' \in [Slots -> Buffer]
  <2>1. ring \in [Slots -> Buffer]
    BY <1>1 DEF TypeOK
  <2>2. [ring[s] EXCEPT !.pkt = pkt, !.from = 0] \in Buffer
    <3>1. ring[s] \in Buffer /\ pkt \in 0..MaxPackets /\ 0 \in 0..MaxLen
      BY <1>5
    <3> QED BY <3>1 DEF Buffer
  <2>3. [pkt |-> pkt, from |-> 0, next |-> more, len |-> copied] \in Buffer
    BY <1>5, <1>8 DEF Buffer
  <2>4. CASE ring' = [ring EXCEPT ![s].pkt = pkt, ![s].from = CopiedFrom(w.n)]
    <3>1. ring' = [ring EXCEPT ![s] = [ring[s] EXCEPT !.pkt = pkt, !.from = 0]]
      BY <2>4, <1>5, <2>1 DEF Buffer
    <3> QED BY <3>1, <2>1, <2>2
  <2>5. CASE ring' = [ring EXCEPT ![s] = Filled(pkt, CopiedFrom(w.n), more, copied)]
    BY <2>1, <2>3, <2>5, <1>5 DEF Filled
  <2> QED BY <1>6, <2>4, <2>5
<1>10. CASE w' = [pc |-> "idle"]
  <2>1. w'.pc = "idle"
    BY <1>10
  <2>2. TypeOK'
    BY <1>1, <1>2, <1>4, <1>9, <1>10 DEF TypeOK
  <2>3. WriterShape' /\ WriterAhead'
    BY <1>3, <1>7, <2>1 DEF WriterShape, WriterAhead, Writing
  <2>4. CursorsOrdered'
    BY <1>3, <2>3 DEF CursorsOrdered, WriterAhead, ReaderBehind, Used
  <2> QED BY <1>3, <2>2, <2>3, <2>4 DEF IInv
<1>11. CASE /\ ~(more /\ w.nFree = 1)
            /\ w' = [w EXCEPT
                !.slot = @ + 1,
                !.nFree = IF more THEN @ - 1 ELSE @,
                !.n = IF more THEN @ + copied ELSE 0,
                !.todo = IF more THEN @ ELSE Tail(@),
                !.pc = IF more \/ Len(w.todo) > 1 THEN @ ELSE "publish"]
  <2>1. /\ w'.slot = w.slot + 1
        /\ w'.nFree = IF more THEN w.nFree - 1 ELSE w.nFree
        /\ w'.n = IF more THEN w.n + copied ELSE 0
        /\ w'.todo = IF more THEN w.todo ELSE Tail(w.todo)
        /\ w'.pc = IF more THEN "write" ELSE "publish"
    BY <1>1, <1>5, <1>11
  <2>2. Tail(w.todo) \in Seq(1..MaxPackets)
    BY <1>5
  <2>3. /\ w'.slot \in Nat /\ w'.nFree \in Nat /\ w'.n \in Nat
        /\ w'.todo \in Seq(1..MaxPackets) /\ w'.pc \in {"write", "publish"}
    <3>1. /\ w.n \in Nat /\ copied \in 0..PacketBufferSize
          /\ w.nFree \in Nat \ {0} /\ w.slot \in Nat
          /\ w.todo \in Seq(1..MaxPackets)
      BY <1>5
    <3>2. w.n + copied \in Nat /\ w.nFree - 1 \in Nat /\ w.slot + 1 \in Nat
      BY <3>1, PacketAssumption
    <3>3. CASE more
      BY <2>1, <3>1, <3>2, <3>3
    <3>4. CASE ~more
      BY <2>1, <2>2, <3>1, <3>2, <3>4
    <3> QED BY <3>3, <3>4
  <2>4. w' \in [pc : {"write", "publish"}, slot : Nat, nFree : Nat, n : Nat,
                todo : Seq(1..MaxPackets)]
    BY <1>5, <1>11, <2>1, <2>3
  <2>5. TypeOK'
    BY <1>1, <1>2, <1>4, <1>9, <2>4 DEF TypeOK
  <2>6. WriterShape'
    <3>1. w'.pc = "write" => more /\ w'.todo = w.todo /\ w'.n = w.n + copied
      BY <1>8, <2>1
    <3> QED BY <1>2, <1>5, <3>1 DEF WriterShape, more
  <2>7. WriterAhead'
    <3>1. /\ w.slot >= Front /\ w.nFree > 0
          /\ w.slot - Front + w.nFree + Used <= Size
      BY <1>1, <1>7 DEF WriterAhead, Writing
    <3>a. w.slot \in Nat /\ w.nFree \in Nat \ {0}
      BY <1>5
    <3>2. w'.slot >= Front /\ w'.slot - Front + Used <= Size
      BY <3>a, <1>7, <2>1, <3>1
    <3>3. more => w'.nFree > 0 /\ w'.slot - Front + w'.nFree + Used <= Size
      <4> SUFFICES ASSUME more
                   PROVE  w'.nFree > 0 /\ w'.slot - Front + w'.nFree + Used <= Size
        OBVIOUS
      <4>1. w'.nFree = w.nFree - 1 /\ w.nFree # 1 /\ w'.slot = w.slot + 1
        BY <1>11, <2>1
      <4> QED BY <3>a, <1>7, <3>1, <4>1
    <3>4. Used <= Size
      BY <1>7 DEF WriterAhead
    <3>5. w'.pc = "write" => more
      BY <1>8, <2>1
    <3> QED BY <1>3, <3>2, <3>3, <3>4, <3>5 DEF WriterAhead, Writing
  <2>8. CursorsOrdered'
    BY <1>3, <2>7 DEF CursorsOrdered, WriterAhead, ReaderBehind, Used
  <2> QED BY <1>3, <2>5, <2>6, <2>8 DEF IInv
<1> QED BY <1>6, <1>10, <1>11

(* Publishing moves the writer's cursor over the buffers it has filled.     *)
LEMMA WritePublishKeeps ==
    ASSUME IInv, WritePublish
    PROVE  /\ IInv'
           /\ Unread' = Unread + (w.slot - Front)
           /\ w.slot - Front \in Nat
<1>1. TypeOK /\ ReaderShape /\ WriterShape /\ CursorsOrdered /\ w.pc = "publish"
  BY DEF IInv, WritePublish
<1>2. /\ UNCHANGED <<kind, api, irq, ring, lastRead, r, received, lens>>
      /\ w' = [pc |-> "idle"] /\ published' = published + (w.slot - Front)
      /\ IF kind = "S2M" THEN head' = w.slot % SeqMod /\ tail' = tail
                         ELSE tail' = w.slot % SeqMod /\ head' = head
  BY DEF WritePublish, config, readerVars
<1> DEFINE n == w.slot - Front
<1>3. /\ WriterAhead /\ ReaderBehind /\ Front \in Cursors /\ Freed \in Cursors
      /\ lastRead \in Cursors /\ Used \in 0..Size /\ Unread \in 0..Size
      /\ Dist(Freed, lastRead) \in 0..Size /\ Used = Dist(Freed, lastRead) + Unread
  BY <1>1, Halves, CursorFacts
<1>4. w.slot \in Nat /\ published \in Nat
  BY <1>1 DEF TypeOK
<1>5. n \in Nat /\ n + Used <= Size /\ Front + n = w.slot
  BY <1>1, <1>3, <1>4 DEF WriterAhead, Writing, Cursors
<1>6. Front' = w.slot % SeqMod /\ Freed' = Freed
  BY <1>2 DEF Front, Freed
<1> HIDE DEF n
<1>7. Dist(lastRead, Front) + n < SeqMod /\ Dist(lastRead, Front) = Unread
  BY <1>3, <1>5, SizeFits DEF Unread
<1>8. (Front + n) % SeqMod \in Cursors
      /\ Dist(lastRead, (Front + n) % SeqMod) = Dist(lastRead, Front) + n
  BY <1>3, <1>5, <1>7, DistanceGrows
<1>9. Front' \in Cursors /\ Unread' = Unread + n
  <2>1. Front' = (Front + n) % SeqMod
    BY <1>5, <1>6
  <2>2. Unread' = Dist(lastRead, Front')
    BY <1>2 DEF Unread
  <2> QED BY <1>7, <1>8, <2>1, <2>2
<1>10. Dist(Freed, lastRead)' = Dist(Freed, lastRead)
  BY <1>2, <1>6 DEF Dist
<1>11. Used' = Used + n
  BY <1>3, <1>5, <1>9, <1>10 DEF Used
<1>12. head' \in Cursors /\ tail' \in Cursors
  BY <1>1, <1>2, <1>6, <1>9 DEF TypeOK
<1>13. event' \in BOOLEAN
  BY <1>1 DEF WritePublish, Interrupt, TypeOK
<1>14. published' \in Nat
  BY <1>2, <1>4, <1>5 DEF n
<1>15. TypeOK'
  BY <1>1, <1>2, <1>12, <1>13, <1>14 DEF TypeOK
<1>16. w'.pc = "idle"
  BY <1>2
<1>17. WriterShape' /\ ReaderShape'
  BY <1>1, <1>2, <1>16 DEF WriterShape, ReaderShape
<1>18. WriterAhead'
  <2>1. Used' <= Size
    BY <1>3, <1>5, <1>11, SizeFits
  <2> QED BY <1>16, <2>1 DEF WriterAhead, Writing
<1>19. ReaderBehind'
  <2>1. r.got \in Seq(Buffer) /\ Len(r.got) \in Nat /\ Unread \in Nat /\ n \in Nat
    <3>1. r.got \in Seq(Buffer)
      BY <1>1 DEF TypeOK
    <3> QED BY <1>3, <1>5, <3>1, SizeFits
  <2>2. CASE r.pc = "copy"
    <3>1. r.nSlots \in Nat
      BY <1>1, <2>2 DEF ReaderShape
    <3> QED BY <1>2, <1>3, <1>9, <2>1, <2>2, <3>1 DEF ReaderBehind
  <2>3. CASE r.pc = "refill"
    BY <1>2, <1>3, <1>9, <2>1, <2>3 DEF ReaderBehind
  <2>4. CASE r.pc = "post"
    <3>1. kind = "M2S" /\ head' = head
      BY <1>2, <1>3, <2>4 DEF ReaderBehind
    <3> QED BY <1>2, <1>3, <1>10, <2>4, <3>1 DEF ReaderBehind
  <2>5. CASE r.pc \notin {"copy", "refill", "post"}
    BY <1>2, <2>5 DEF ReaderBehind
  <2> QED BY <2>2, <2>3, <2>4, <2>5
<1>20. CursorsOrdered'
  BY <1>18, <1>19 DEF CursorsOrdered, WriterAhead, ReaderBehind, Used
<1> QED BY <1>5, <1>9, <1>15, <1>17, <1>20 DEF IInv, n

-----------------------------------------------------------------------------
(* The reader's steps *)

(* What is left to show of a step of the reader.                            *)
LEMMA ReaderStep ==
    ASSUME IInv, UNCHANGED <<kind, api, irq, w, lens, published>>,
           Front' = Front, Used' \in Nat, Used' <= Used,
           head' \in Cursors, tail' \in Cursors, lastRead' \in Cursors,
           event' \in BOOLEAN, ring' \in [Slots -> Buffer],
           received' \in Seq(Buffer), ReaderShape', ReaderBehind'
    PROVE  IInv'
<1>1. TypeOK /\ WriterShape /\ CursorsOrdered
  BY DEF IInv
<1>2. WriterAhead'
  BY <1>1, RoomSuffices
<1>3. CursorsOrdered'
  BY <1>2 DEF CursorsOrdered, WriterAhead, ReaderBehind, Used
<1>4. WriterShape'
  BY <1>1 DEF WriterShape
<1>5. r'.pc \in {"idle", "copy", "refill", "post", "error"} /\ r'.got \in Seq(Buffer)
  BY DEF ReaderShape
<1>6. TypeOK'
  BY <1>1, <1>5 DEF TypeOK
<1> QED BY <1>3, <1>4, <1>6 DEF IInv

(* setDescLength leaves a length within a buffer; it sets the whole length  *)
(* where a buffer is small enough for the bits it writes.                   *)
LEMMA LengthSetWithin ==
    ASSUME NEW old \in 0..PacketBufferSize
    PROVE  /\ LengthSet(old) \in 0..PacketBufferSize
           /\ PacketBufferSize < LenMod => LengthSet(old) = PacketBufferSize
<1> DEFINE P == PacketBufferSize
           M == LenMod
           a == old \div M
           b == P \div M
           d == P % M
<1>1. P \in Nat \ {0} /\ M \in Nat \ {0} /\ old \in Nat /\ old <= P
  BY PacketAssumption
<1> HIDE DEF P, M
<1>2. /\ a \in Int /\ b \in Int /\ d \in 0..M - 1 /\ d = P - M * b
      /\ M * a <= old /\ old < M * a + M
  BY <1>1
<1> HIDE DEF a, b, d
<1>3. ASSUME NEW x \in Int, NEW y \in Int, x <= y
      PROVE  M * x <= M * y /\ M * x \in Int /\ M * y \in Int
  BY <1>1, <1>3
<1>4. a <= b
  <2>1. ASSUME b + 1 <= a PROVE FALSE
    <3>1. M * (b + 1) <= M * a /\ M * (b + 1) = M * b + M /\ M * a \in Int /\ M * b \in Int
      BY <1>1, <1>2, <1>3, <2>1
    <3> QED BY <1>1, <1>2, <3>1
  <2> QED BY <1>2, <2>1
<1>5. 0 <= a
  <2>1. ASSUME a + 1 <= 0 PROVE FALSE
    <3>1. M * (a + 1) <= M * 0 /\ M * (a + 1) = M * a + M /\ M * 0 = 0 /\ M * a \in Int
      BY <1>1, <1>2, <1>3, <2>1
    <3> QED BY <1>1, <1>2, <3>1
  <2> QED BY <1>2, <2>1
<1>6. a * M + d \in 0..P
  <2>1. M * a <= M * b /\ M * 0 <= M * a /\ M * 0 = 0 /\ a * M = M * a
        /\ M * a \in Int /\ M * b \in Int
    BY <1>1, <1>2, <1>3, <1>4, <1>5
  <2> QED BY <1>1, <1>2, <2>1
<1>7. ASSUME P < M
      PROVE  a * M + d = P
  <2>1. ASSUME 1 <= b PROVE FALSE
    <3>1. M * 1 <= M * b /\ M * 1 = M /\ M * b \in Int
      BY <1>1, <1>2, <1>3, <2>1
    <3> QED BY <1>1, <1>2, <1>7, <3>1
  <2>2. a = 0 /\ b = 0
    BY <1>2, <1>4, <1>5, <2>1
  <2> QED BY <1>1, <1>2, <2>2
<1>8. LengthSet(old) = a * M + d
  BY DEF LengthSet, a, d, P, M
<1> QED BY <1>6, <1>7, <1>8 DEF P, M

(* Setting the lengths of descriptors touches nothing else of the ring.     *)
LEMMA LengthsOnly ==
    ASSUME TypeOK, NEW h \in Int, NEW count \in Int
    PROVE  /\ WithLengths(h, count) \in [Slots -> Buffer]
           /\ \A s \in Slots : Stripped(WithLengths(h, count)[s]) = Stripped(ring[s])
<1>1. ASSUME NEW s \in Slots
      PROVE  /\ [ring[s] EXCEPT !.len = LengthSet(@)] \in Buffer
             /\ Stripped([ring[s] EXCEPT !.len = LengthSet(@)]) = Stripped(ring[s])
             /\ ring[s] \in Buffer
  <2>1. ring[s] \in Buffer /\ ring[s].len \in 0..PacketBufferSize
    BY DEF TypeOK, Buffer
  <2>2. PICK n \in 0..PacketBufferSize : n = LengthSet(ring[s].len)
    BY <2>1, LengthSetWithin
  <2> DEFINE b == ring[s]
             c == [ring[s] EXCEPT !.len = n]
  <2>3. c \in Buffer /\ c.pkt = b.pkt /\ c.from = b.from /\ c.next = b.next
    BY <2>1 DEF Buffer
  <2>4. c = [ring[s] EXCEPT !.len = LengthSet(@)]
    BY <2>1, <2>2
  <2> QED BY <2>1, <2>3, <2>4 DEF Stripped
<1> QED BY <1>1 DEF WithLengths

(* A reader in the middle of a packet.                                      *)
LEMMA ReadStartKeeps == ASSUME IInv, ReadStart PROVE IInv'
<1>1. TypeOK /\ CursorsOrdered /\ api = "packet"
  BY DEF IInv, ReadStart
<1>2. UNCHANGED <<kind, api, irq, head, tail, ring, event, w, lens, published,
                  lastRead, received>>
  BY DEF ReadStart, config, writerVars
<1>3. /\ UNCHANGED <<Front, Freed, Unread, Used>>
      /\ Used \in 0..Size /\ Unread \in 0..Size /\ lastRead \in Cursors
  BY <1>1, <1>2, SameCursors, CursorFacts
<1>4. /\ r'.pc = IF Unread = 0 THEN "refill" ELSE "copy"
      /\ r' = [pc |-> r'.pc, slot |-> lastRead, nSlots |-> Unread, got |-> <<>>]
  BY DEF ReadStart
<1>5. Unread \in Nat /\ lastRead \in Nat /\ Used \in Nat /\ Used <= Used
  BY <1>3, SizeFits DEF Cursors
<1>6. ReaderShape'
  <2>1. r'.slot = lastRead /\ r'.nSlots = Unread /\ r'.got = <<>>
    BY <1>4
  <2>2. r' \in [pc : {"copy", "refill", "error"}, slot : Nat, nSlots : Nat,
                got : Seq(Buffer)]
    <3>1. r'.pc \in {"copy", "refill", "error"} /\ <<>> \in Seq(Buffer)
      BY <1>4
    <3>2. r' = [pc |-> r'.pc, slot |-> lastRead, nSlots |-> Unread, got |-> <<>>]
      BY <1>4
    <3>3. \A c \in {"copy", "refill", "error"} :
             [pc |-> c, slot |-> lastRead, nSlots |-> Unread, got |-> <<>>]
             \in [pc : {"copy", "refill", "error"}, slot : Nat, nSlots : Nat,
                  got : Seq(Buffer)]
      BY <1>5, <3>1
    <3> QED BY <3>1, <3>2, <3>3
  <2>3. r'.pc = "copy" => r'.nSlots > 0
    BY <1>4, <1>5, <2>1
  <2> QED BY <1>1, <1>2, <2>2, <2>3 DEF ReaderShape
<1>7. ReaderBehind'
  <2>1. r'.slot = lastRead + Len(r'.got) /\ Len(r'.got) = 0 /\ r'.nSlots = Unread
    BY <1>4, <1>5
  <2>2. r'.pc # "post"
    BY <1>4
  <2> QED BY <1>2, <1>3, <1>5, <2>1, <2>2 DEF ReaderBehind
<1> QED BY <1>1, <1>2, <1>3, <1>5, <1>6, <1>7, ReaderStep DEF TypeOK

(* Where the reader is while it copies.                                     *)
LEMMA CopyFacts ==
    ASSUME IInv, r.pc = "copy"
    PROVE  /\ r.slot \in Nat /\ r.nSlots \in Nat /\ r.got \in Seq(Buffer)
           /\ Len(r.got) \in Nat /\ Unread \in 0..Size
           /\ r.slot = lastRead + Len(r.got) /\ Len(r.got) + r.nSlots <= Unread
           /\ Slot(r.slot) \in Slots /\ ring[Slot(r.slot)] \in Buffer
           /\ Append(r.got, ring[Slot(r.slot)]) \in Seq(Buffer)
           /\ Len(Append(r.got, ring[Slot(r.slot)])) = Len(r.got) + 1
<1>1. TypeOK /\ ReaderShape /\ CursorsOrdered
  BY DEF IInv
<1>2. r.slot \in Nat /\ r.nSlots \in Nat /\ r.got \in Seq(Buffer)
  BY <1>1 DEF ReaderShape
<1>3. Slot(r.slot) \in Slots /\ ring[Slot(r.slot)] \in Buffer
  BY <1>1, <1>2, SlotOfCursor DEF TypeOK
<1>4. Unread \in 0..Size
  BY <1>1, CursorFacts
<1>5. r.slot = lastRead + Len(r.got) /\ Len(r.got) + r.nSlots <= Unread
  BY <1>1 DEF CursorsOrdered
<1> QED BY <1>2, <1>3, <1>4, <1>5

(* Copying one buffer, in ReadPacket.                                       *)
LEMMA ReadBufferKeeps == ASSUME IInv, ReadBuffer PROVE IInv'
<1> DEFINE b == ring[Slot(r.slot)]
<1>1. TypeOK /\ ReaderShape /\ CursorsOrdered /\ api = "packet" /\ r.pc = "copy"
  BY DEF IInv, ReadBuffer
<1>2. UNCHANGED <<kind, api, irq, head, tail, ring, event, w, lens, published,
                  lastRead, received>>
  BY DEF ReadBuffer, config, writerVars
<1>3. /\ UNCHANGED <<Front, Freed, Unread, Used>> /\ Used \in 0..Size
      /\ lastRead \in Nat
  BY <1>1, <1>2, SameCursors, CursorFacts DEF Cursors
<1>4. /\ r.slot \in Nat /\ r.nSlots \in Nat /\ r.got \in Seq(Buffer)
      /\ Len(r.got) \in Nat /\ Unread \in 0..Size
      /\ r.slot = lastRead + Len(r.got) /\ Len(r.got) + r.nSlots <= Unread
      /\ Append(r.got, b) \in Seq(Buffer) /\ Len(Append(r.got, b)) = Len(r.got) + 1
  BY <1>1, CopyFacts
<1>5. /\ r \in [pc : {"copy", "refill", "error"}, slot : Nat, nSlots : Nat,
                got : Seq(Buffer)]
      /\ r.nSlots > 0
  BY <1>1 DEF ReaderShape
<1>6. /\ r'.slot = r.slot + 1 /\ r'.nSlots = r.nSlots - 1
      /\ r'.got = Append(r.got, b)
      /\ r'.pc \in {"refill", "error", "copy"} /\ (r'.pc = "copy" => r.nSlots # 1)
      /\ r' = [pc |-> r'.pc, slot |-> r'.slot, nSlots |-> r'.nSlots, got |-> r'.got]
  BY <1>1, <1>5 DEF ReadBuffer
<1> HIDE DEF b
<1>7. r'.slot \in Nat /\ r'.nSlots \in Nat /\ r'.got \in Seq(Buffer)
      /\ (r'.pc = "copy" => r'.nSlots > 0)
  BY <1>4, <1>5, <1>6
<1>8. ReaderShape'
  <2>1. r' \in [pc : {"copy", "refill", "error"}, slot : Nat, nSlots : Nat,
                got : Seq(Buffer)]
    BY <1>6, <1>7
  <2> QED BY <1>1, <1>2, <1>7, <2>1 DEF ReaderShape
<1>9. ReaderBehind'
  <2>1. /\ r'.slot = lastRead + Len(r'.got)
        /\ Len(r'.got) + r'.nSlots <= Unread /\ Len(r'.got) <= Unread
    BY <1>3, <1>4, <1>5, <1>6
  <2>2. r'.pc # "post"
    BY <1>6
  <2> QED BY <1>2, <1>3, <2>1, <2>2 DEF ReaderBehind
<1>10. Used \in Nat /\ Used <= Used
  BY <1>3, SizeFits
<1> QED BY <1>1, <1>2, <1>3, <1>8, <1>9, <1>10, ReaderStep DEF TypeOK

(* The end of ReadPacket: the packet is handed over, and its slots are      *)
(* given back by a master, or prepared by a slave.                          *)
LEMMA ReadRefillKeeps ==
    ASSUME IInv, ReadRefill
    PROVE  IInv' /\ Len(r.got) \in 0..Unread /\ Unread' = Unread - Len(r.got)
           /\ Front' = Front
<1> DEFINE n == Len(r.got)
<1>1. TypeOK /\ ReaderShape /\ CursorsOrdered /\ api = "packet" /\ r.pc = "refill"
  BY DEF IInv, ReadRefill
<1>2. /\ UNCHANGED <<kind, api, irq, head, event, w, lens, published>>
      /\ lastRead' = r.slot % SeqMod /\ received' = received \o r.got
  BY DEF ReadRefill, config, writerVars
<1>3. r.slot \in Nat /\ r.got \in Seq(Buffer) /\ n \in Nat
  BY <1>1 DEF ReaderShape
<1>4. r.slot = lastRead + n /\ n <= Unread /\ lastRead \in Nat
  BY <1>1 DEF CursorsOrdered, TypeOK, Cursors
<1>5. Unread \in 0..Size /\ n \in 0..Unread
  BY <1>1, <1>3, <1>4, CursorFacts, SizeFits
<1>6. lastRead' = (lastRead + n) % SeqMod
  BY <1>2, <1>4
<1>7. received' \in Seq(Buffer)
  BY <1>1, <1>2, <1>3, ConcatProperties DEF TypeOK
<1> HIDE DEF n
<1>8. CASE kind = "S2M"
  <2>1. tail' = lastRead' /\ r' = [pc |-> "idle", got |-> r.got] /\ ring' = ring
    BY <1>2, <1>8 DEF ReadRefill
  <2>2. /\ lastRead' \in Cursors /\ Front' = Front /\ Unread' = Unread - n
        /\ Used' \in Nat /\ Used' <= Used
    BY <1>1, <1>2, <1>5, <1>6, <1>8, <2>1, ReadOn
  <2>3. ReaderShape'
    BY <1>3, <2>1 DEF ReaderShape
  <2>4. r'.pc = "idle"
    BY <2>1
  <2>5. ReaderBehind'
    BY <2>4 DEF ReaderBehind
  <2>6. IInv'
    BY <1>1, <1>2, <1>7, <2>1, <2>2, <2>3, <2>5, ReaderStep DEF TypeOK
  <2> QED BY <1>5, <2>2, <2>6 DEF n
<1>9. CASE kind = "M2S"
  <2> DEFINE p == Postable(r.slot)
  <2>1. /\ tail' = tail /\ ring' = WithLengths(head, p)
        /\ r' = [pc |-> "post", got |-> r.got, slot |-> head + p]
    BY <1>9 DEF ReadRefill
  <2>2. p = Dist(Freed, lastRead) + n /\ p \in 0..Size
    BY <1>1, <1>4, <1>5, <1>9, PostableSlots
  <2> HIDE DEF p
  <2>3. /\ lastRead' \in Cursors /\ Front' = Front /\ Unread' = Unread - n
        /\ Used' \in Nat /\ Used' <= Used
        /\ Dist(Freed, lastRead)' = Dist(Freed, lastRead) + n
    BY <1>1, <1>2, <1>5, <1>6, <2>1, ReadOn
  <2>4. head \in Nat /\ p \in Nat /\ head \in Int /\ p \in Int
    BY <1>1, <2>2, SizeFits DEF TypeOK, Cursors
  <2>5. ring' \in [Slots -> Buffer]
    BY <1>1, <2>1, <2>4, LengthsOnly
  <2>6. r'.pc = "post" /\ r'.slot = head + p /\ head + p \in Nat
    BY <2>1, <2>4
  <2>7. ReaderShape'
    BY <1>3, <2>1, <2>6 DEF ReaderShape
  <2>8. ReaderBehind'
    <3>1. r'.slot - head' = Dist(Freed, lastRead)'
      BY <1>2, <2>2, <2>3, <2>4, <2>6
    <3> QED BY <1>2, <1>9, <2>6, <3>1 DEF ReaderBehind
  <2>9. IInv'
    BY <1>1, <1>2, <1>7, <2>1, <2>3, <2>5, <2>7, <2>8, ReaderStep DEF TypeOK
  <2> QED BY <1>5, <2>3, <2>9 DEF n
<1> QED BY <1>1, <1>8, <1>9 DEF TypeOK

(* A slave that has posted all the slots it had prepared has given back     *)
(* everything it has read.                                                  *)
LEMMA PostedAll ==
    ASSUME TypeOK, CursorsOrdered, kind = "M2S",
           head' = (head + Dist(Freed, lastRead)) % SeqMod,
           UNCHANGED <<kind, tail, lastRead>>
    PROVE  /\ head' \in Cursors /\ Freed' = lastRead /\ Used' = Unread
           /\ Front' = Front /\ Unread' = Unread
           /\ head' = (lastRead + Size) % SeqMod
<1> DEFINE d == Dist(Freed, lastRead)
           x == head + d
           y == head - Size
           z == head' - Size
           u == lastRead + Size
<1>1. /\ head \in Cursors /\ lastRead \in Cursors /\ Freed \in Cursors
      /\ d \in 0..Size /\ Unread \in 0..Size
  BY CursorFacts DEF TypeOK
<1>2. d = IF Freed <= lastRead THEN lastRead - Freed
                               ELSE lastRead - Freed + SeqMod
  BY <1>1, Distance
<1>3. /\ x \in Int /\ -SeqMod <= x /\ x < 2 * SeqMod /\ 0 <= x
      /\ y \in Int /\ -SeqMod <= y /\ y < SeqMod /\ y < 2 * SeqMod
      /\ u \in Int /\ -SeqMod <= u /\ u < 2 * SeqMod /\ 0 <= u
  BY <1>1, SizeFits DEF Cursors
<1>4. Freed = IF y < 0 THEN y + SeqMod ELSE y
  <2>1. Freed = y % SeqMod
    BY DEF Freed
  <2> HIDE DEF y
  <2>2. y % SeqMod = IF y < 0 THEN y + SeqMod
                     ELSE IF y < SeqMod THEN y ELSE y - SeqMod
    BY <1>3, Reduced
  <2> QED BY <1>3, <2>1, <2>2
<1>5. head' \in Cursors /\ head' = IF x < SeqMod THEN x ELSE x - SeqMod
  <2>1. head' = x % SeqMod
    OBVIOUS
  <2> HIDE DEF x
  <2>2. x % SeqMod \in Cursors
        /\ x % SeqMod = IF x < 0 THEN x + SeqMod
                        ELSE IF x < SeqMod THEN x ELSE x - SeqMod
    BY <1>3, Reduced
  <2> QED BY <1>3, <2>1, <2>2
<1>6. u % SeqMod = IF u < SeqMod THEN u ELSE u - SeqMod
  <2> HIDE DEF u
  <2>1. u % SeqMod = IF u < 0 THEN u + SeqMod
                     ELSE IF u < SeqMod THEN u ELSE u - SeqMod
    BY <1>3, Reduced
  <2> QED BY <1>3, <2>1
<1> HIDE DEF d
<1>7. head' = u % SeqMod
  BY <1>1, <1>2, <1>4, <1>5, <1>6, SizeFits DEF Cursors
<1>8. z \in Int /\ -SeqMod <= z /\ z < SeqMod /\ z < 2 * SeqMod
  BY <1>5, SizeFits DEF Cursors
<1>9. Freed' = IF z < 0 THEN z + SeqMod ELSE z
  <2>1. Freed' = z % SeqMod
    BY DEF Freed
  <2> HIDE DEF z
  <2>2. z % SeqMod = IF z < 0 THEN z + SeqMod
                     ELSE IF z < SeqMod THEN z ELSE z - SeqMod
    BY <1>8, Reduced
  <2> QED BY <1>8, <2>1, <2>2
<1>10. Freed' = lastRead
  BY <1>1, <1>6, <1>7, <1>9, SizeFits DEF Cursors
<1>11. Front' = Front /\ Unread' = Unread
  BY DEF Front, Unread, Dist
<1>12. Used' = Unread
  <2>1. Dist(lastRead, lastRead) = 0
    BY <1>1, Distance DEF Cursors
  <2>2. Used' = Dist(Freed', lastRead') + Unread'
    BY DEF Used
  <2> QED BY <1>1, <1>10, <1>11, <2>1, <2>2, SizeFits
<1> QED BY <1>5, <1>7, <1>10, <1>11, <1>12

(* A slave posts the slots it has prepared.                                 *)
LEMMA PostHeadKeeps == ASSUME IInv, PostHead PROVE IInv'
<1>1. TypeOK /\ ReaderShape /\ CursorsOrdered /\ r.pc = "post"
  BY DEF IInv, PostHead
<1>2. /\ UNCHANGED <<kind, api, irq, tail, ring, event, w, lens, published,
                     lastRead, received>>
      /\ head' = r.slot % SeqMod /\ r' = [pc |-> "idle", got |-> r.got]
  BY DEF PostHead, config, writerVars
<1>3. r.slot \in Nat /\ r.got \in Seq(Buffer)
  BY <1>1 DEF ReaderShape
<1>4. kind = "M2S" /\ r.slot - head = Dist(Freed, lastRead)
  BY <1>1 DEF CursorsOrdered
<1>5. /\ Dist(Freed, lastRead) \in Int /\ head \in Int
      /\ Unread \in Nat /\ Used \in Nat /\ Unread <= Used
  <2>1. /\ Dist(Freed, lastRead) \in 0..Size /\ Unread \in 0..Size
        /\ Used = Dist(Freed, lastRead) + Unread /\ head \in Cursors
    BY <1>1, CursorFacts DEF TypeOK
  <2> QED BY <2>1, SizeFits DEF Cursors
<1>6. r.slot = head + Dist(Freed, lastRead)
  BY <1>3, <1>4, <1>5
<1>7. head' \in Cursors /\ Front' = Front /\ Used' = Unread
  BY <1>1, <1>2, <1>4, <1>6, PostedAll
<1>8. ReaderShape'
  BY <1>2, <1>3 DEF ReaderShape
<1>9. ReaderBehind'
  <2>1. r'.pc = "idle"
    BY <1>2
  <2> QED BY <2>1 DEF ReaderBehind
<1> QED BY <1>1, <1>2, <1>5, <1>7, <1>8, <1>9, ReaderStep DEF TypeOK

(* The start of Rx_burst.                                                   *)
LEMMA BurstStartKeeps == ASSUME IInv, BurstStart PROVE IInv'
<1>1. TypeOK /\ CursorsOrdered /\ api = "burst"
  BY DEF IInv, BurstStart
<1>2. UNCHANGED <<kind, api, irq, head, tail, ring, w, lens, published,
                  lastRead, received>>
  BY DEF BurstStart, config, writerVars
<1>3. /\ UNCHANGED <<Front, Freed, Unread, Used>>
      /\ Used \in 0..Size /\ Unread \in 0..Size /\ lastRead \in Cursors
  BY <1>1, <1>2, SameCursors, CursorFacts
<1>4. Unread \in Nat /\ lastRead \in Nat /\ Used \in Nat /\ Used <= Used
  BY <1>3, SizeFits DEF Cursors
<1>5. event' \in BOOLEAN
  BY <1>1 DEF BurstStart, ClearEvent, TypeOK
<1>6. CASE r' = [pc |-> "idle", got |-> <<>>]
  <2>1. ReaderShape' /\ ReaderBehind'
    BY <1>6 DEF ReaderShape, ReaderBehind
  <2> QED BY <1>1, <1>2, <1>3, <1>4, <1>5, <2>1, ReaderStep DEF TypeOK
<1>7. CASE r' = [pc |-> "copy", slot |-> lastRead, got |-> <<>>,
                 nSlots |-> IF Unread > RxBurst THEN RxBurst ELSE Unread,
                 clear |-> Unread <= RxBurst]
  <2> DEFINE m == IF Unread > RxBurst THEN RxBurst ELSE Unread
             c == Unread <= RxBurst
  <2>1. m \in Nat /\ m <= Unread /\ c \in BOOLEAN
    BY <1>4, PacketAssumption
  <2>2. r' = [pc |-> "copy", slot |-> lastRead, got |-> <<>>, nSlots |-> m,
              clear |-> c]
    BY <1>7
  <2> HIDE DEF m, c
  <2>3. ReaderShape'
    BY <1>1, <1>2, <1>4, <2>1, <2>2 DEF ReaderShape
  <2>4. ReaderBehind'
    <3>1. /\ r'.pc = "copy" /\ r'.slot = lastRead + Len(r'.got)
          /\ Len(r'.got) + r'.nSlots <= Unread
      BY <1>4, <2>1, <2>2
    <3> QED BY <1>1, <1>2, <1>3, <3>1 DEF ReaderBehind
  <2> QED BY <1>1, <1>2, <1>3, <1>4, <1>5, <2>3, <2>4, ReaderStep DEF TypeOK
<1> QED BY <1>6, <1>7 DEF BurstStart

(* Copying one buffer, in Rx_burst.                                         *)
LEMMA BurstBufferKeeps == ASSUME IInv, BurstBuffer PROVE IInv'
<1> DEFINE b == ring[Slot(r.slot)]
<1>1. TypeOK /\ ReaderShape /\ CursorsOrdered /\ api = "burst" /\ r.pc = "copy"
  BY DEF IInv, BurstBuffer
<1>2. UNCHANGED <<kind, api, irq, head, tail, ring, event, w, lens, published,
                  lastRead, received>>
  BY DEF BurstBuffer, config, writerVars
<1>3. /\ UNCHANGED <<Front, Freed, Unread, Used>> /\ Used \in 0..Size
      /\ lastRead \in Nat
  BY <1>1, <1>2, SameCursors, CursorFacts DEF Cursors
<1>4. /\ r.slot \in Nat /\ r.nSlots \in Nat /\ r.got \in Seq(Buffer)
      /\ Len(r.got) \in Nat /\ Unread \in 0..Size
      /\ r.slot = lastRead + Len(r.got) /\ Len(r.got) + r.nSlots <= Unread
      /\ Append(r.got, b) \in Seq(Buffer) /\ Len(Append(r.got, b)) = Len(r.got) + 1
  BY <1>1, CopyFacts
<1>5. r \in [pc : {"copy"}, slot : Nat, got : Seq(Buffer), nSlots : Nat,
             clear : BOOLEAN]
  BY <1>1 DEF ReaderShape
<1>6. /\ r'.slot = r.slot + 1 /\ r'.nSlots = r.nSlots - 1
      /\ r'.got = Append(r.got, b) /\ r'.pc = "copy" /\ r.nSlots > 0
      /\ r' = [pc |-> "copy", slot |-> r'.slot, got |-> r'.got,
               nSlots |-> r'.nSlots, clear |-> r.clear]
  BY <1>1, <1>5 DEF BurstBuffer
<1> HIDE DEF b
<1>7. r'.slot \in Nat /\ r'.nSlots \in Nat /\ r'.got \in Seq(Buffer)
      /\ r.clear \in BOOLEAN
  BY <1>4, <1>5, <1>6
<1>8. ReaderShape'
  <2>1. r' \in [pc : {"copy"}, slot : Nat, got : Seq(Buffer), nSlots : Nat,
                clear : BOOLEAN]
    <3>1. \A x \in Nat, y \in Nat, g \in Seq(Buffer), c \in BOOLEAN :
             [pc |-> "copy", slot |-> x, got |-> g, nSlots |-> y, clear |-> c]
             \in [pc : {"copy"}, slot : Nat, got : Seq(Buffer), nSlots : Nat,
                  clear : BOOLEAN]
      OBVIOUS
    <3>2. \E x \in Nat, y \in Nat, g \in Seq(Buffer), c \in BOOLEAN :
             r' = [pc |-> "copy", slot |-> x, got |-> g, nSlots |-> y, clear |-> c]
      BY <1>6, <1>7
    <3> QED BY <3>1, <3>2
  <2> QED BY <1>1, <1>2, <2>1 DEF ReaderShape
<1>9. ReaderBehind'
  <2>1. r'.slot = lastRead + Len(r'.got) /\ Len(r'.got) + r'.nSlots <= Unread
    <3>1. /\ r'.slot = r.slot + 1 /\ r'.nSlots = r.nSlots - 1
          /\ Len(r'.got) = Len(r.got) + 1
      BY <1>4, <1>6
    <3> QED BY <1>3, <1>4, <3>1
  <2> QED BY <1>1, <1>2, <1>3, <1>6, <2>1 DEF ReaderBehind
<1>10. Used \in Nat /\ Used <= Used
  BY <1>3, SizeFits
<1> QED BY <1>1, <1>2, <1>3, <1>8, <1>9, <1>10, ReaderStep DEF TypeOK

(* The end of Rx_burst: the packets are handed over.                        *)
LEMMA BurstEndKeeps ==
    ASSUME IInv, BurstEnd
    PROVE  IInv' /\ Len(r.got) \in 0..Unread /\ Unread' = Unread - Len(r.got)
           /\ Front' = Front
<1> DEFINE n == Len(r.got)
<1>1. TypeOK /\ ReaderShape /\ CursorsOrdered /\ api = "burst" /\ r.pc = "copy"
  BY DEF IInv, BurstEnd
<1>2. /\ UNCHANGED <<kind, api, irq, head, tail, ring, w, lens, published>>
      /\ lastRead' = (lastRead + n) % SeqMod /\ received' = received \o r.got
      /\ r' = [pc |-> "refill", got |-> r.got]
  BY DEF BurstEnd, config, writerVars
<1>3. event' \in BOOLEAN
  BY <1>1 DEF BurstEnd, ClearEvent, TypeOK
<1>4. /\ r.got \in Seq(Buffer) /\ n \in Nat /\ r.nSlots \in Nat
      /\ Unread \in 0..Size /\ n + r.nSlots <= Unread
  BY <1>1, CopyFacts
<1>5. n \in 0..Unread
  BY <1>4, SizeFits
<1>6. received' \in Seq(Buffer)
  BY <1>1, <1>2, <1>4, ConcatProperties DEF TypeOK
<1> HIDE DEF n
<1>7. /\ lastRead' \in Cursors /\ Front' = Front /\ Unread' = Unread - n
      /\ Used' \in Nat /\ Used' <= Used
  BY <1>1, <1>2, <1>5, ReadOn
<1>8. ReaderShape'
  BY <1>1, <1>2, <1>4 DEF ReaderShape
<1>9. ReaderBehind'
  <2>1. r'.pc = "refill" /\ api' = "burst"
    BY <1>1, <1>2
  <2> QED BY <2>1 DEF ReaderBehind
<1>10. IInv'
  BY <1>1, <1>2, <1>3, <1>6, <1>7, <1>8, <1>9, ReaderStep DEF TypeOK
<1> QED BY <1>5, <1>7, <1>10 DEF n

(* Refill by a master: tail does not pass the reader's own position.        *)
LEMMA GivenBack ==
    ASSUME TypeOK, CursorsOrdered, kind = "S2M", NEW count \in Nat,
           tail' = IF tail + count <= lastRead THEN tail + count ELSE lastRead,
           UNCHANGED <<kind, head, lastRead>>
    PROVE  /\ tail' \in Cursors /\ Front' = Front /\ Unread' = Unread
           /\ Used' \in Nat /\ Used' <= Used
<1>1. /\ tail \in Cursors /\ lastRead \in Cursors /\ Freed = tail
      /\ Dist(Freed, lastRead) \in 0..Size /\ Unread \in 0..Size
      /\ Used = Dist(Freed, lastRead) + Unread
  BY CursorFacts DEF TypeOK, Freed
<1>2. tail' \in Cursors
  BY <1>1, SizeFits DEF Cursors
<1>3. Freed' = tail' /\ Front' = Front /\ Unread' = Unread
  BY DEF Freed, Front, Unread, Dist
<1>4. /\ Dist(tail, lastRead) = IF tail <= lastRead THEN lastRead - tail
                                ELSE lastRead - tail + SeqMod
      /\ Dist(tail', lastRead) = IF tail' <= lastRead THEN lastRead - tail'
                                 ELSE lastRead - tail' + SeqMod
  BY <1>1, <1>2, Distance
<1>5. Dist(tail', lastRead) \in Nat
      /\ Dist(tail', lastRead) <= Dist(tail, lastRead)
  BY <1>1, <1>2, <1>4, SizeFits DEF Cursors
<1>6. Used' = Dist(tail', lastRead) + Unread
  BY <1>3 DEF Used
<1> QED BY <1>1, <1>2, <1>3, <1>5, <1>6, SizeFits

(* The program gives slots back, or posts them, after a burst.              *)
LEMMA RefillKeeps ==
    ASSUME IInv, NEW count \in {0, Len(r.got)}, Refill(count)
    PROVE  IInv'
<1>1. TypeOK /\ ReaderShape /\ CursorsOrdered /\ api = "burst" /\ r.pc = "refill"
  BY DEF IInv, Refill
<1>2. UNCHANGED <<kind, api, irq, head, event, w, lens, published, lastRead,
                  received>>
  BY DEF Refill, config, writerVars
<1>3. r.got \in Seq(Buffer) /\ count \in Nat
  BY <1>1 DEF TypeOK
<1>4. /\ head \in Nat /\ lastRead \in Nat /\ Size \in Nat /\ head \in Int
      /\ Unread \in 0..Size /\ Used \in Nat /\ Used <= Used
  BY <1>1, CursorFacts, SizeFits DEF TypeOK, Cursors
<1>5. CASE kind = "S2M"
  <2>1. /\ tail' = IF tail + count <= lastRead THEN tail + count ELSE lastRead
        /\ ring' = WithLengths(head, Postable(0))
        /\ r' = [pc |-> "idle", got |-> r.got]
    BY <1>5 DEF Refill
  <2>2. Postable(0) \in Int
    BY <1>4, SizeFits DEF Postable
  <2>3. ring' \in [Slots -> Buffer]
    BY <1>1, <1>4, <2>1, <2>2, LengthsOnly
  <2>4. /\ tail' \in Cursors /\ Front' = Front /\ Used' \in Nat /\ Used' <= Used
    BY <1>1, <1>2, <1>3, <1>5, <2>1, GivenBack
  <2>5. ReaderShape'
    BY <1>3, <2>1 DEF ReaderShape
  <2>6. ReaderBehind'
    <3>1. r'.pc = "idle"
      BY <2>1
    <3> QED BY <3>1 DEF ReaderBehind
  <2> QED BY <1>1, <1>2, <2>3, <2>4, <2>5, <2>6, ReaderStep DEF TypeOK
<1>6. CASE kind = "M2S"
  <2> DEFINE p == Postable(lastRead)
             d == Dist(Freed, lastRead)
  <2>1. /\ tail' = tail /\ ring' = WithLengths(head, p)
        /\ r' = [pc |-> "post", got |-> r.got, slot |-> head + p]
    BY <1>6 DEF Refill
  <2>2. p = d /\ p \in 0..Size
    <3>1. 0 \in 0..Unread /\ lastRead + 0 = lastRead
      BY <1>4
    <3>2. Postable(lastRead + 0) = d + 0 /\ Postable(lastRead + 0) \in 0..Size
      BY <1>1, <1>6, <3>1, PostableSlots
    <3>3. d \in 0..Size
      BY <1>1, CursorFacts
    <3> QED BY <1>4, <3>1, <3>2, <3>3
  <2>3. UNCHANGED <<Front, Freed, Unread, Used>> /\ Dist(Freed, lastRead)' = d
    BY <1>2, <2>1, SameCursors
  <2> HIDE DEF p, d
  <2>4. p \in Nat /\ p \in Int /\ head + p \in Nat
    BY <1>4, <2>2
  <2>5. ring' \in [Slots -> Buffer]
    BY <1>1, <1>4, <2>1, <2>4, LengthsOnly
  <2>6. r'.pc = "post" /\ r'.slot = head + p
    BY <2>1
  <2>7. ReaderShape'
    BY <1>3, <2>1, <2>4 DEF ReaderShape
  <2>8. ReaderBehind'
    <3>1. r'.slot - head' = Dist(Freed, lastRead)'
      BY <1>2, <1>4, <2>2, <2>3, <2>4, <2>6
    <3> QED BY <1>2, <1>6, <2>6, <3>1 DEF ReaderBehind
  <2> QED BY <1>1, <1>2, <1>4, <2>1, <2>3, <2>5, <2>7, <2>8, ReaderStep DEF TypeOK
<1> QED BY <1>1, <1>5, <1>6 DEF TypeOK

-----------------------------------------------------------------------------
(* The invariant *)

(* The initial states satisfy it.                                           *)
LEMMA InitIInv == Init => IInv
<1> SUFFICES ASSUME Init PROVE IInv
  OBVIOUS
<1>1. /\ head = 0 /\ tail = 0 /\ lastRead = 0 /\ kind \in {"S2M", "M2S"}
      /\ w = [pc |-> "idle"] /\ api \in {"packet", "burst"}
  BY ChoiceAssumption DEF Init
<1>2. r = [pc |-> IF api = "burst" THEN "refill" ELSE "idle", got |-> <<>>]
  BY DEF Init
<1>3. 0 \in Cursors /\ <<>> \in Seq(Buffer)
  BY SizeFits DEF Cursors
<1>4. TypeOK
  <2>1. [pkt |-> 0, from |-> 0, next |-> FALSE, len |-> PacketBufferSize] \in Buffer
    BY PacketAssumption DEF Buffer
  <2>2. ring \in [Slots -> Buffer]
    BY <2>1 DEF Init
  <2>3. irq \in BOOLEAN /\ event \in BOOLEAN
    BY DEF Init
  <2>4. r.pc \in {"idle", "refill"} /\ r.got = <<>>
    BY <1>2
  <2>5. lens \in Seq(1..MaxLen) /\ Len(lens) <= MaxPackets
    BY PacketAssumption DEF Init
  <2>6. published \in Nat /\ received \in Seq(Buffer)
    BY DEF Init
  <2> QED BY <1>1, <1>3, <2>2, <2>3, <2>4, <2>5, <2>6 DEF TypeOK
<1>5. ReaderShape
  <2>1. CASE api = "burst"
    BY <1>2, <1>3, <2>1 DEF ReaderShape
  <2>2. CASE api = "packet"
    BY <1>2, <1>3, <2>2 DEF ReaderShape
  <2> QED BY <1>1, <2>1, <2>2
<1>6. WriterShape
  BY <1>1 DEF WriterShape
<1>7. Dist(Freed, lastRead) + Unread <= Size
  <2>1. Dist(0, 0) = 0
    BY <1>3, Distance
  <2>2. Unread = 0
    BY <1>1, <2>1 DEF Unread, Front
  <2>3. CASE kind = "S2M"
    BY <1>1, <2>1, <2>2, <2>3, SizeFits DEF Freed
  <2>4. CASE kind = "M2S"
    <3> DEFINE x == 0 - Size
    <3>1. x \in Int /\ -SeqMod <= x /\ x < 2 * SeqMod /\ x < 0
      BY SizeFits
    <3>2. Freed = x % SeqMod
      BY <1>1, <2>4 DEF Freed
    <3>3. x % SeqMod = x + SeqMod
      <4> HIDE DEF x
      <4> QED BY <3>1, Reduced
    <3>4. Freed = SeqMod - Size /\ Freed \in Cursors
      BY <3>2, <3>3, SizeFits DEF Cursors
    <3>5. Dist(Freed, 0) = Size
      BY <1>3, <3>4, Distance, SizeFits
    <3> QED BY <1>1, <2>2, <3>5, SizeFits
  <2> QED BY <1>1, <2>3, <2>4
<1>8. CursorsOrdered
  <2>1. r.pc \in {"idle", "refill"} /\ (r.pc = "refill" => api # "packet") /\ ~Writing
    BY <1>1, <1>2 DEF Writing
  <2> QED BY <1>1, <1>7, <2>1 DEF CursorsOrdered
<1> QED BY <1>4, <1>5, <1>6, <1>8 DEF IInv

(* A step that changes nothing keeps it.                                    *)
LEMMA StutterKeeps == ASSUME IInv, UNCHANGED vars PROVE IInv'
<1>1. UNCHANGED <<kind, api, irq, head, tail, ring, event, lastRead, w, r, lens,
                  published, received>>
  BY DEF vars
<1>2. UNCHANGED <<Front, Freed, Unread, Used>>
      /\ Dist(Freed, lastRead)' = Dist(Freed, lastRead)
  BY <1>1, SameCursors
<1>3. TypeOK' /\ ReaderShape' /\ WriterShape'
  BY <1>1 DEF IInv, TypeOK, ReaderShape, WriterShape
<1>4. WriterAhead' /\ ReaderBehind'
  BY <1>1, <1>2, Halves DEF IInv, WriterAhead, ReaderBehind, Writing
<1>5. CursorsOrdered'
  BY <1>4 DEF CursorsOrdered, WriterAhead, ReaderBehind, Used
<1> QED BY <1>3, <1>5 DEF IInv

(* Every step keeps it when a call of the writer has one packet.            *)
LEMMA IInvKept == ASSUME TxBurst = 1, IInv, [Next]_vars PROVE IInv'
<1>1. ASSUME NEW n \in 1..TxBurst, NEW packets \in [1..n -> 1..MaxLen],
             WriteStart(packets)
      PROVE  IInv'
  <2>1. n = 1
    OBVIOUS
  <2>2. packets \in [1..1 -> 1..MaxLen]
    BY <2>1
  <2> QED BY <1>1, <2>2, WriteStartKeeps
<1>2. CASE WriteBuffer \/ WritePublish
  BY <1>2, WriteBufferKeeps, WritePublishKeeps
<1>3. CASE ReadStart \/ ReadBuffer \/ ReadRefill \/ PostHead
  BY <1>3, ReadStartKeeps, ReadBufferKeeps, ReadRefillKeeps, PostHeadKeeps
<1>4. CASE BurstStart \/ BurstBuffer \/ BurstEnd
  BY <1>4, BurstStartKeeps, BurstBufferKeeps, BurstEndKeeps
<1>5. CASE \E count \in {0, Len(r.got)} : Refill(count)
  BY <1>5, RefillKeeps
<1>6. CASE UNCHANGED vars
  BY <1>6, StutterKeeps
<1> QED BY <1>1, <1>2, <1>3, <1>4, <1>5, <1>6 DEF Next, Writer, Reader

(* The cursors never lap each other, whichever way the buffers go and       *)
(* whichever way they are read: the two peers never work on the same slot,  *)
(* across the wrap of the 16-bit counters.                                  *)
THEOREM CursorsNeverLap == ASSUME TxBurst = 1 PROVE Spec => []RingInvariant
<1>1. IInv /\ [Next]_vars => IInv'
  BY IInvKept
<1>2. IInv => RingInvariant
  BY DEF IInv, RingInvariant
<1> QED BY <1>1, <1>2, InitIInv, PTL DEF Spec

-----------------------------------------------------------------------------
(* The ring is a queue *)

(* The reader is between two looks at the cursors.                          *)
Reading == r.pc = "copy" \/ (r.pc = "refill" /\ api = "packet")

(* What the reader has copied is still at the front of the queue.           *)
GotFresh ==
    Reading => \A k \in 1..Len(r.got) :
                  Stripped(r.got[k]) = Stripped(ring[Slot(lastRead + k - 1)])

QInv == IInv /\ GotFresh

Buffers == [pkt : 0..MaxPackets, from : 0..MaxLen, next : BOOLEAN]
Taken   == [k \in DOMAIN received |-> Stripped(received[k])]

(* The slots from the writer's cursor on, as the reader counts them.        *)
LEMMA FrontSlot ==
    ASSUME TypeOK, CursorsOrdered, NEW m \in Int
    PROVE  Slot(Front + m) = Slot(lastRead + Unread + m)
<1> DEFINE u == lastRead + Unread
<1>1. /\ Front \in Cursors /\ lastRead \in Cursors /\ Unread \in 0..Size
      /\ Unread = Dist(lastRead, Front)
  BY CursorFacts DEF Unread
<1>2. Unread = IF lastRead <= Front THEN Front - lastRead
                                    ELSE Front - lastRead + SeqMod
  BY <1>1, Distance
<1>3. Front \in Int /\ u \in Int /\ (u = Front \/ u = Front + SeqMod)
  BY <1>1, <1>2, SizeFits DEF Cursors
<1> HIDE DEF u
<1>4. CASE u = Front
  BY <1>4 DEF u
<1>5. CASE u = Front + SeqMod
  <2> DEFINE x == Front + m
             y == u + m
  <2>1. x \in Int /\ y \in Int /\ y = x + 1 * SeqMod
    BY <1>3, <1>5, SizeFits
  <2> HIDE DEF x, y
  <2>2. (x + 1 * SeqMod) % SeqMod = x % SeqMod
    <3>1. SeqMod \in Nat \ {0} /\ 1 \in Int
      BY RingTwice
    <3> QED BY <2>1, <3>1, RemainderPeriodic, Zenon
  <2>3. y % SeqMod = x % SeqMod
    BY <2>1, <2>2
  <2>4. Slot(x % SeqMod) = Slot(x) /\ Slot(y % SeqMod) = Slot(y)
    BY <2>1, SlotOfCursor
  <2>5. Slot(x) = Slot(y)
    BY <2>3, <2>4
  <2> QED BY <2>5 DEF x, y, u
<1> QED BY <1>3, <1>4, <1>5

(* The slot the writer fills is none of the published ones.                 *)
LEMMA WriterSlotUnread ==
    ASSUME TypeOK, CursorsOrdered, w.pc = "write", NEW k \in 1..Unread
    PROVE  Slot(lastRead + k - 1) # Slot(w.slot)
<1> DEFINE m == w.slot - Front
           x == lastRead + k - 1
           y == lastRead + Unread + m
<1>1. /\ Front \in Cursors /\ lastRead \in Cursors /\ Unread \in 0..Size
      /\ Used \in 0..Size /\ Used = Dist(Freed, lastRead) + Unread
      /\ Dist(Freed, lastRead) \in 0..Size
  BY CursorFacts
<1>2. w.slot \in Nat /\ w.nFree \in Nat
  BY DEF TypeOK
<1>3. w.slot >= Front /\ w.nFree > 0 /\ w.slot - Front + w.nFree + Used <= Size
  BY Halves DEF WriterAhead, Writing
<1>4. m \in Nat /\ m + Unread < Size /\ Front + m = w.slot
  BY <1>1, <1>2, <1>3, SizeFits DEF Cursors
<1> HIDE DEF m
<1>5. x \in Int /\ y \in Int /\ x < y /\ y < x + Size
  BY <1>1, <1>4, SizeFits DEF Cursors
<1>6. Slot(Front + m) = Slot(y)
  BY <1>4, FrontSlot
<1>7. Slot(x) # Slot(y)
  <2> HIDE DEF x, y
  <2> QED BY <1>5, SlotsApart
<1> QED BY <1>4, <1>6, <1>7

(* The content of the queue is a sequence of buffers.                       *)
ContentsShape ==
    /\ Contents \in Seq(Buffers) /\ Len(Contents) = Unread
    /\ Unread \in 0..Size /\ Unread \in Nat
    /\ \A k \in 1..Unread :
          /\ Contents[k] = Stripped(ring[Slot(lastRead + k - 1)])
          /\ Slot(lastRead + k - 1) \in Slots

(* It is, as long as the cursors are in order.                              *)
LEMMA ContentsSeq == TypeOK /\ CursorsOrdered => ContentsShape
<1> SUFFICES ASSUME TypeOK, CursorsOrdered PROVE ContentsShape
  OBVIOUS
<1>1. Unread \in 0..Size /\ Unread \in Nat /\ lastRead \in Nat
  BY CursorFacts, SizeFits DEF Cursors
<1>2. ASSUME NEW k \in 1..Unread
      PROVE  /\ Slot(lastRead + k - 1) \in Slots
             /\ Stripped(ring[Slot(lastRead + k - 1)]) \in Buffers
  <2>1. lastRead + k - 1 \in Int
    BY <1>1
  <2>2. Slot(lastRead + k - 1) \in Slots
    BY <2>1, SlotOfCursor
  <2>3. ring[Slot(lastRead + k - 1)] \in Buffer
    BY <2>2 DEF TypeOK
  <2> QED BY <2>2, <2>3 DEF Buffer, Buffers, Stripped
<1>3. Contents \in [1..Unread -> Buffers]
  BY <1>2 DEF Contents
<1>4. Contents \in Seq(Buffers) /\ Len(Contents) = Unread
  BY <1>1, <1>3, FunctionSeq, Zenon
<1> QED BY <1>1, <1>2, <1>4 DEF Contents, ContentsShape

(* It is so after a step, too.                                              *)
LEMMA ContentsSeqNext == TypeOK' /\ CursorsOrdered' => ContentsShape'
BY ContentsSeq, PTL

(* So is what has been taken from it.                                       *)
TakenShape ==
    /\ Taken \in Seq(Buffers) /\ Len(Taken) = Len(received)
    /\ Len(received) \in Nat
    /\ \A k \in 1..Len(received) : Taken[k] = Stripped(received[k])

(* What has been taken is a sequence of buffers.                            *)
LEMMA TakenSeq == TypeOK => TakenShape
<1> SUFFICES ASSUME TypeOK PROVE TakenShape
  OBVIOUS
<1>1. received \in Seq(Buffer) /\ Len(received) \in Nat
      /\ DOMAIN received = 1..Len(received)
  BY DEF TypeOK
<1>2. ASSUME NEW k \in 1..Len(received)
      PROVE  Stripped(received[k]) \in Buffers
  <2>1. received[k] \in Buffer
    BY <1>1, SeqElement
  <2> QED BY <2>1 DEF Buffer, Buffers, Stripped
<1>3. Taken \in [1..Len(received) -> Buffers]
  BY <1>1, <1>2 DEF Taken
<1>4. Taken \in Seq(Buffers) /\ Len(Taken) = Len(received)
  BY <1>1, <1>3, FunctionSeq, Zenon
<1> QED BY <1>1, <1>4 DEF Taken, TakenShape

(* It is so after a step, too.                                              *)
LEMMA TakenSeqNext == TypeOK' => TakenShape'
BY TakenSeq, PTL

(* A step that moves neither end of the queue and keeps what is in it, apart*)
(* from its lengths, is no step of the queue.                               *)
LEMMA QueueSame ==
    ASSUME TypeOK, CursorsOrdered,
           lastRead' = lastRead, Unread' = Unread, received' = received,
           \A k \in 1..Unread : Stripped(ring'[Slot(lastRead + k - 1)])
                                   = Stripped(ring[Slot(lastRead + k - 1)])
    PROVE  Contents' = Contents /\ Taken' = Taken
BY DEF Contents, Taken, Stripped

-----------------------------------------------------------------------------
(* What the abstract queue says of the ring, in the ring's own terms.       *)
LEMMA QueueInit == Queue!Init <=> Contents = <<>> /\ Taken = <<>>
BY DEF Queue!Init, Taken

(* The same for a put.                                                      *)
LEMMA QueuePut ==
    ASSUME NEW n
    PROVE  Queue!Put(n) <=> /\ Len(Contents) + n <= Size
                            /\ Contents' \in Seq(Buffers)
                            /\ Len(Contents') = Len(Contents) + n
                            /\ SubSeq(Contents', 1, Len(Contents)) = Contents
                            /\ UNCHANGED Taken
BY DEF Queue!Put, Taken, Buffers

(* The same for a take.                                                     *)
LEMMA QueueTake ==
    ASSUME NEW n
    PROVE  Queue!Take(n) <=>
              /\ Taken' = Taken \o SubSeq(Contents, 1, n)
              /\ Contents' = SubSeq(Contents, n + 1, Len(Contents))
BY DEF Queue!Take, Taken

(* A step of the queue, or none.                                            *)
LEMMA QueueNext ==
    [Queue!Next]_<<Contents, Taken>> <=>
        \/ \E n \in 1..Size : Queue!Put(n)
        \/ \E n \in 1..Len(Contents) : Queue!Take(n)
        \/ UNCHANGED <<Contents, Taken>>
BY DEF Queue!Next

(* The queue's specification, in terms of the ring.                         *)
LEMMA QueueSpec ==
    Queue!Init /\ [][Queue!Next]_<<Contents, Taken>> => ImplementsQueue
<1>1. [Queue!Next]_<<Contents, Taken>> => [Queue!Next]_<<Contents, [k \in DOMAIN received |-> Stripped(received[k])]>>
  BY DEF Taken
<1> QED BY <1>1, PTL DEF ImplementsQueue, Queue!Spec

-----------------------------------------------------------------------------
(* What the reader has copied is part of what is unread.                    *)
LEMMA GotWithin ==
    ASSUME IInv, Reading
    PROVE  /\ Len(r.got) \in 0..Unread /\ Len(r.got) \in Nat
           /\ DOMAIN r.got = 1..Len(r.got)
           /\ r.slot = lastRead + Len(r.got)
           /\ r.pc = "copy" => r.nSlots \in Nat /\ Len(r.got) + r.nSlots <= Unread
<1>1. TypeOK /\ ReaderShape /\ CursorsOrdered
  BY DEF IInv
<1>2. r.got \in Seq(Buffer) /\ Unread \in Nat
  BY <1>1, CursorFacts DEF TypeOK
<1>3. Len(r.got) \in Nat /\ DOMAIN r.got = 1..Len(r.got)
  BY <1>2, LenProperties, Zenon
<1>4. r.slot = lastRead + Len(r.got)
  BY <1>1 DEF CursorsOrdered, Reading
<1>5. r.pc = "copy" => r.nSlots \in Nat /\ Len(r.got) + r.nSlots <= Unread
  BY <1>1 DEF ReaderShape, CursorsOrdered
<1>6. Len(r.got) <= Unread
  <2>1. CASE r.pc = "copy"
    BY <1>2, <1>3, <1>5, <2>1
  <2>2. CASE r.pc = "refill" /\ api = "packet"
    BY <1>1, <2>2 DEF CursorsOrdered
  <2> QED BY <2>1, <2>2 DEF Reading
<1> QED BY <1>2, <1>3, <1>4, <1>5, <1>6

(* A step that keeps the queue keeps what the reader has copied of it.      *)
LEMMA CopiedStays ==
    ASSUME QInv, lastRead' = lastRead,
           \A k \in 1..Unread : Stripped(ring'[Slot(lastRead + k - 1)])
                                   = Stripped(ring[Slot(lastRead + k - 1)]),
           Reading' => Reading, r'.got = r.got
    PROVE  GotFresh'
<1> SUFFICES ASSUME Reading', NEW k \in 1..Len(r'.got)
             PROVE  Stripped(r'.got[k]) = Stripped(ring'[Slot(lastRead' + k - 1)])
  BY DEF GotFresh, Stripped
<1>1. Reading /\ r'.got = r.got /\ k \in 1..Len(r.got)
  OBVIOUS
<1>2. Len(r.got) \in 0..Unread
  BY <1>1, GotWithin DEF QInv
<1>3. Unread \in Nat
  BY CursorFacts DEF QInv, IInv
<1>4. k \in 1..Unread
  BY <1>1, <1>2, <1>3
<1>5. Stripped(r.got[k]) = Stripped(ring[Slot(lastRead + k - 1)])
  BY <1>1 DEF QInv, GotFresh
<1> QED BY <1>1, <1>4, <1>5

(* A reader that starts has copied nothing.                                 *)
LEMMA NothingCopied ==
    ASSUME r'.got = <<>>
    PROVE  GotFresh'
<1> SUFFICES ASSUME Reading', NEW k \in 1..Len(r'.got)
             PROVE  Stripped(r'.got[k]) = Stripped(ring'[Slot(lastRead' + k - 1)])
  BY DEF GotFresh, Stripped
<1> QED OBVIOUS

(* The next buffer the reader copies is the next one of the queue.          *)
LEMMA CopiedNext ==
    ASSUME QInv, r.pc = "copy", UNCHANGED <<lastRead, ring>>,
           r'.got = Append(r.got, ring[Slot(r.slot)])
    PROVE  GotFresh'
<1> DEFINE b == ring[Slot(r.slot)]
           n == Len(r.got)
<1>1. TypeOK /\ IInv /\ Reading
  BY DEF QInv, IInv, Reading
<1>2. n \in Nat /\ r.slot = lastRead + n /\ r.got \in Seq(Buffer)
  BY <1>1, GotWithin DEF TypeOK
<1>3. lastRead \in Nat
  BY <1>1, SizeFits DEF TypeOK, Cursors
<1>4. r.slot \in Int
  BY <1>2, <1>3
<1>5. b \in Buffer
  BY <1>1, <1>4, SlotOfCursor DEF TypeOK
<1>6. /\ Len(r'.got) = n + 1 /\ r'.got[n + 1] = b
      /\ \A k \in 1..n : r'.got[k] = r.got[k]
  <2> HIDE DEF b
  <2>1. /\ Len(Append(r.got, b)) = n + 1 /\ Append(r.got, b)[n + 1] = b
        /\ \A k \in 1..n : Append(r.got, b)[k] = r.got[k]
    BY <1>2, <1>5, AppendedSeq
  <2>2. r'.got = Append(r.got, b)
    BY DEF b
  <2> QED BY <2>1, <2>2, Zenon
<1> SUFFICES ASSUME Reading', NEW k \in 1..Len(r'.got)
             PROVE  Stripped(r'.got[k]) = Stripped(ring'[Slot(lastRead' + k - 1)])
  BY DEF GotFresh, Stripped
<1>7. CASE k = n + 1
  <2>1. lastRead + k - 1 = r.slot
    BY <1>2, <1>3, <1>7
  <2> QED BY <1>6, <1>7, <2>1
<1>8. CASE k \in 1..n
  <2>1. Stripped(r.got[k]) = Stripped(ring[Slot(lastRead + k - 1)])
    BY <1>1, <1>8 DEF QInv, GotFresh
  <2> QED BY <1>6, <1>8, <2>1
<1>9. k = n + 1 \/ k \in 1..n
  <2> HIDE DEF n
  <2> QED BY <1>2, <1>6
<1> QED BY <1>7, <1>8, <1>9

(* Nothing changes at the queue.                                            *)
LEMMA Idles ==
    ASSUME QInv, lastRead' = lastRead, Unread' = Unread, received' = received,
           \A k \in 1..Unread : Stripped(ring'[Slot(lastRead + k - 1)])
                                   = Stripped(ring[Slot(lastRead + k - 1)])
    PROVE  [Queue!Next]_<<Contents, Taken>>
BY QueueSame, QueueNext DEF QInv, IInv

(* Publishing a packet puts its buffers into the queue, all at once.        *)
LEMMA PublishPuts ==
    ASSUME QInv, WritePublish
    PROVE  [Queue!Next]_<<Contents, Taken>>
<1> DEFINE n == w.slot - Front
<1>1. /\ TypeOK /\ CursorsOrdered /\ TypeOK' /\ CursorsOrdered'
      /\ Unread' = Unread + n /\ n \in Nat
  BY WritePublishKeeps DEF QInv, IInv
<1>2. UNCHANGED <<ring, lastRead, received>>
  BY DEF WritePublish, readerVars
<1> HIDE DEF n
<1>3. ContentsShape /\ ContentsShape'
  BY <1>1, ContentsSeq, ContentsSeqNext
<1>4. /\ Contents \in Seq(Buffers) /\ Len(Contents) = Unread
      /\ Contents' \in Seq(Buffers) /\ Len(Contents') = Unread'
      /\ Unread \in Nat /\ Unread' \in Nat /\ Unread' <= Size
  BY <1>3, SizeFits DEF ContentsShape, Buffers
<1>5. ASSUME NEW k \in 1..Unread
      PROVE  Contents'[k] = Contents[k]
  <2>1. k \in 1..Unread'
    BY <1>1, <1>4
  <2>2. Contents[k] = Stripped(ring[Slot(lastRead + k - 1)])
    BY <1>3 DEF ContentsShape
  <2>3. Contents'[k] = Stripped(ring'[Slot(lastRead' + k - 1)])
    BY <1>3, <2>1 DEF ContentsShape, Stripped
  <2> QED BY <1>2, <2>2, <2>3
<1>6. SubSeq(Contents', 1, Len(Contents)) = Contents
  <2> DEFINE c == Contents
             d == Contents'
             u == Unread
  <2>1. /\ c \in Seq(Buffers) /\ d \in Seq(Buffers) /\ Len(c) = u
        /\ u \in 0..Len(d) /\ \A k \in 1..u : d[k] = c[k]
    BY <1>1, <1>4, <1>5
  <2> HIDE DEF c, d, u
  <2>2. /\ SubSeq(d, 1, u) \in Seq(Buffers) /\ Len(SubSeq(d, 1, u)) = u
        /\ \A k \in 1..u : SubSeq(d, 1, u)[k] = d[k]
    BY <2>1, PrefixSeq
  <2>3. SubSeq(d, 1, u) = c
    BY <2>1, <2>2, SeqEqual
  <2>4. SubSeq(d, 1, Len(c)) = c
    BY <2>1, <2>3
  <2> QED BY <2>4 DEF c, d
<1>7. UNCHANGED Taken
  BY <1>2 DEF Taken, Stripped
<1>8. CASE n = 0
  <2>1. Unread' = Unread
    BY <1>1, <1>4, <1>8
  <2>2. Contents' = Contents
    BY <1>4, <1>5, <2>1, SeqEqual
  <2> QED BY <1>7, <2>2, QueueNext
<1>9. CASE n # 0
  <2>1. n \in 1..Size /\ Len(Contents) + n <= Size /\ Len(Contents') = Len(Contents) + n
    BY <1>1, <1>4, <1>9, SizeFits
  <2>2. Queue!Put(n)
    BY <1>4, <1>6, <1>7, <2>1, QueuePut
  <2> QED BY <2>1, <2>2, QueueNext
<1> QED BY <1>8, <1>9

(* The end of a call of the reader takes what it has copied out of the      *)
(* queue, from its front.                                                   *)
LEMMA ReaderTakes ==
    ASSUME QInv, TypeOK', CursorsOrdered', Reading, NEW n \in 0..Unread,
           n = Len(r.got), lastRead' = (lastRead + n) % SeqMod,
           Unread' = Unread - n, received' = received \o r.got,
           \A s \in Slots : Stripped(ring'[s]) = Stripped(ring[s])
    PROVE  [Queue!Next]_<<Contents, Taken>>
<1>1. TypeOK /\ CursorsOrdered
  BY DEF QInv, IInv
<1>2. ContentsShape /\ ContentsShape' /\ TakenShape /\ TakenShape'
  BY <1>1, ContentsSeq, ContentsSeqNext, TakenSeq, TakenSeqNext
<1>3. /\ Contents \in Seq(Buffers) /\ Len(Contents) = Unread
      /\ Contents' \in Seq(Buffers) /\ Len(Contents') = Unread - n
      /\ Unread \in Nat /\ n \in Nat /\ n <= Unread
      /\ Taken \in Seq(Buffers) /\ Len(Taken) = Len(received)
      /\ Taken' \in Seq(Buffers) /\ Len(Taken') = Len(received')
      /\ Len(received) \in Nat /\ lastRead \in Nat
  BY <1>1, <1>2, SizeFits DEF ContentsShape, TakenShape, Buffers, TypeOK, Cursors
<1>4. r.got \in Seq(Buffer) /\ received \in Seq(Buffer)
  BY <1>1 DEF TypeOK
<1>5. /\ Len(received') = Len(received) + n
      /\ \A i \in 1..Len(received) + n :
            received'[i] = IF i <= Len(received) THEN received[i]
                                                 ELSE r.got[i - Len(received)]
  BY <1>4, ConcatProperties
<1>6. ASSUME NEW k \in 1..Unread - n
      PROVE  Contents'[k] = Contents[n + k]
  <2> DEFINE s == Slot(lastRead + (n + k) - 1)
             x == lastRead + (n + k) - 1
             y == lastRead' + k - 1
  <2>1. n + k \in 1..Unread /\ k \in 1..Unread'
    BY <1>3
  <2>2. Contents[n + k] = Stripped(ring[s]) /\ s \in Slots
    BY <1>2, <2>1 DEF ContentsShape
  <2>3. Contents'[k] = Stripped(ring'[Slot(y)])
    BY <1>2, <2>1 DEF ContentsShape, Stripped
  <2>4. Slot(y) = s
    <3> DEFINE a == lastRead + n
               b == a % SeqMod
    <3>1. a \in Int /\ k - 1 \in Int /\ x = a + (k - 1) /\ y = b + (k - 1)
      BY <1>3, SizeFits
    <3> QED BY <3>1, SlotShift
  <2> QED BY <2>2, <2>3, <2>4
<1>7. Contents' = SubSeq(Contents, n + 1, Len(Contents))
  <2> DEFINE c == Contents
             d == Contents'
             u == Unread
  <2>1. /\ c \in Seq(Buffers) /\ d \in Seq(Buffers) /\ n \in 0..Len(c)
        /\ Len(d) = Len(c) - n /\ \A k \in 1..Len(d) : d[k] = c[n + k]
    BY <1>3, <1>6
  <2> HIDE DEF c, d, u
  <2>2. SubSeq(c, n + 1, Len(c)) = d
    BY <2>1, SuffixSeq
  <2> QED BY <2>2 DEF c, d
<1>8. Taken' = Taken \o SubSeq(Contents, 1, n)
  <2> DEFINE c == Contents
             g == SubSeq(c, 1, n)
             t == Taken
             e == Taken'
             m == Len(received)
  <2>1. /\ g \in Seq(Buffers) /\ Len(g) = n
        /\ \A k \in 1..n : g[k] = Contents[k]
    <3>1. c \in Seq(Buffers) /\ n \in 0..Len(c)
      BY <1>3
    <3> HIDE DEF c
    <3>2. g \in Seq(Buffers) /\ Len(g) = n /\ \A k \in 1..n : g[k] = c[k]
      BY <3>1, PrefixSeq
    <3> QED BY <3>2 DEF c
  <2>2. /\ t \in Seq(Buffers) /\ Len(t) = m /\ m \in Nat /\ n \in Nat
        /\ e \in Seq(Buffers) /\ Len(e) = m + n
    BY <1>3, <1>5
  <2>3. /\ t \o g \in Seq(Buffers) /\ Len(t \o g) = m + n
        /\ \A i \in 1..m + n : (t \o g)[i] = IF i <= m THEN t[i] ELSE g[i - m]
    <3>1. t \in Seq(Buffers) /\ Len(t) = m /\ g \in Seq(Buffers) /\ Len(g) = n
      BY <2>1, <2>2
    <3> HIDE DEF t, g, m
    <3>2. /\ t \o g \in Seq(Buffers) /\ Len(t \o g) = Len(t) + Len(g)
          /\ \A i \in 1..Len(t) + Len(g) :
                (t \o g)[i] = IF i <= Len(t) THEN t[i] ELSE g[i - Len(t)]
      BY <3>1, ConcatProperties
    <3> QED BY <3>1, <3>2
  <2>4. ASSUME NEW i \in 1..m + n
        PROVE  e[i] = (t \o g)[i]
    <3>1. i \in 1..Len(received')
      BY <1>5
    <3>2. e[i] = Stripped(received'[i])
      BY <1>2, <3>1 DEF TakenShape, Stripped
    <3>3. CASE i <= m
      <4>1. received'[i] = received[i] /\ (t \o g)[i] = t[i]
        BY <1>5, <2>3, <3>3
      <4>2. i \in 1..m
        BY <2>2, <3>3
      <4>3. t[i] = Stripped(received[i])
        BY <1>2, <4>2 DEF TakenShape
      <4> QED BY <3>2, <4>1, <4>3
    <3>4. CASE ~(i <= m)
      <4> DEFINE k == i - m
      <4>1. received'[i] = r.got[k] /\ (t \o g)[i] = g[k]
        BY <1>5, <2>3, <3>4
      <4>2. k \in 1..n
        BY <2>2, <3>4
      <4>3. k \in 1..Unread
        BY <1>3, <4>2
      <4>4. g[k] = Stripped(ring[Slot(lastRead + k - 1)])
        BY <1>2, <2>1, <4>2, <4>3 DEF ContentsShape
      <4>5. Stripped(r.got[k]) = Stripped(ring[Slot(lastRead + k - 1)])
        BY <4>2 DEF QInv, GotFresh
      <4> QED BY <3>2, <4>1, <4>4, <4>5
    <3> QED BY <3>3, <3>4
  <2>5. e = t \o g
    <3> HIDE DEF t, g, e, m
    <3> QED BY <2>2, <2>3, <2>4, SeqEqual
  <2> QED BY <2>5
<1>9. CASE n = 0
  <2>1. r.got = <<>>
    BY <1>4, <1>9, EmptySeq
  <2>2. received' = received
    BY <1>4, <2>1, ConcatEmptySeq
  <2>3. Taken' = Taken
    BY <2>2 DEF Taken, Stripped
  <2> DEFINE c == Contents
             d == Contents'
             u == Unread
  <2>4. /\ c \in Seq(Buffers) /\ d \in Seq(Buffers) /\ Len(c) = u /\ Len(d) = u
        /\ \A k \in 1..u : c[k] = d[k]
    BY <1>3, <1>6, <1>9
  <2>5. c = d
    <3> HIDE DEF c, d, u
    <3> QED BY <2>4, SeqEqual
  <2> QED BY <2>3, <2>5, QueueNext
<1>10. CASE n # 0
  <2>1. n \in 1..Len(Contents)
    BY <1>3, <1>10
  <2>2. Queue!Take(n)
    BY <1>7, <1>8, QueueTake
  <2> QED BY <2>1, <2>2, QueueNext
<1> QED BY <1>9, <1>10

(* The buffer that is filled is none of the queue's.                        *)
LEMMA FillingHidden ==
    ASSUME IInv, WriteBuffer, NEW k \in 1..Unread
    PROVE  Stripped(ring'[Slot(lastRead + k - 1)])
              = Stripped(ring[Slot(lastRead + k - 1)])
<1> DEFINE s == Slot(w.slot)
           t == Slot(lastRead + k - 1)
<1>1. TypeOK /\ CursorsOrdered /\ w.pc = "write"
  BY DEF IInv, WriteBuffer
<1>2. t # s
  BY <1>1, WriterSlotUnread
<1>3. t \in Slots
  BY <1>1, ContentsSeq DEF ContentsShape
<1>4. ring \in [Slots -> Buffer]
  BY <1>1 DEF TypeOK
<1>5. \/ \E pkt, from : ring' = [ring EXCEPT ![s].pkt = pkt, ![s].from = from]
      \/ \E b : ring' = [ring EXCEPT ![s] = b]
  BY DEF WriteBuffer
<1> HIDE DEF s, t
<1>6. ring'[t] = ring[t]
  BY <1>2, <1>3, <1>4, <1>5
<1> QED BY <1>6 DEF t

(* A step of the writer is a put, or no step of the queue.                  *)
LEMMA WriterQueues ==
    ASSUME QInv,
           \/ \E packets \in [1..1 -> 1..MaxLen] : WriteStart(packets)
           \/ WriteBuffer \/ WritePublish
    PROVE  GotFresh' /\ [Queue!Next]_<<Contents, Taken>>
<1>1. UNCHANGED <<kind, api, lastRead, r, received>>
  BY DEF WriteStart, WriteBuffer, WritePublish, config, readerVars
<1>2. Reading' => Reading
  BY <1>1 DEF Reading
<1>3. ASSUME NEW packets \in [1..1 -> 1..MaxLen], WriteStart(packets)
      PROVE  GotFresh' /\ [Queue!Next]_<<Contents, Taken>>
  <2>1. UNCHANGED <<head, tail, ring>>
    BY <1>3 DEF WriteStart
  <2>2. Unread' = Unread
    BY <1>1, <2>1, SameCursors
  <2> QED BY <1>1, <1>2, <2>1, <2>2, CopiedStays, Idles
<1>4. CASE WriteBuffer
  <2>1. UNCHANGED <<head, tail>>
    BY <1>4 DEF WriteBuffer
  <2>2. Unread' = Unread
    BY <1>1, <2>1, SameCursors
  <2>3. \A k \in 1..Unread : Stripped(ring'[Slot(lastRead + k - 1)])
                                = Stripped(ring[Slot(lastRead + k - 1)])
    BY <1>4, FillingHidden DEF QInv
  <2> QED BY <1>1, <1>2, <2>2, <2>3, CopiedStays, Idles
<1>5. CASE WritePublish
  <2>1. ring' = ring
    BY <1>5 DEF WritePublish
  <2> QED BY <1>1, <1>2, <1>5, <2>1, CopiedStays, PublishPuts
<1> QED BY <1>3, <1>4, <1>5

(* A reader that looks at the cursors, or copies a buffer, leaves the queue *)
(* alone.                                                                   *)
LEMMA CopyingQueues ==
    ASSUME QInv, ReadStart \/ BurstStart \/ ReadBuffer \/ BurstBuffer
    PROVE  GotFresh' /\ [Queue!Next]_<<Contents, Taken>>
<1>1. UNCHANGED <<kind, head, tail, ring, lastRead, received>>
  BY DEF ReadStart, BurstStart, ReadBuffer, BurstBuffer, config
<1>2. Unread' = Unread
  BY <1>1, SameCursors
<1>3. [Queue!Next]_<<Contents, Taken>>
  BY <1>1, <1>2, Idles
<1>4. CASE ReadStart \/ BurstStart
  <2>1. r'.got = <<>>
    BY <1>4 DEF ReadStart, BurstStart
  <2> QED BY <1>3, <2>1, NothingCopied
<1>5. CASE ReadBuffer \/ BurstBuffer
  <2>1. r.pc = "copy"
    BY <1>5 DEF ReadBuffer, BurstBuffer
  <2>2. ReaderShape /\ (ReadBuffer => api = "packet") /\ (BurstBuffer => api = "burst")
    BY DEF QInv, IInv, ReadBuffer, BurstBuffer
  <2>3. r'.got = Append(r.got, ring[Slot(r.slot)])
    BY <1>5, <2>1, <2>2 DEF ReadBuffer, BurstBuffer, ReaderShape
  <2> QED BY <1>1, <1>3, <2>1, <2>3, CopiedNext
<1> QED BY <1>4, <1>5

(* A reader that ends its call takes from the queue.                        *)
LEMMA TakingQueues ==
    ASSUME QInv, ReadRefill \/ BurstEnd
    PROVE  GotFresh' /\ [Queue!Next]_<<Contents, Taken>>
<1> DEFINE n == Len(r.got)
<1>1. IInv /\ TypeOK /\ CursorsOrdered
  BY DEF QInv, IInv
<1>2. IInv' /\ n \in 0..Unread /\ Unread' = Unread - n
  BY <1>1, ReadRefillKeeps, BurstEndKeeps
<1>3. TypeOK' /\ CursorsOrdered'
  BY <1>2 DEF IInv
<1>4. received' = received \o r.got
  BY DEF ReadRefill, BurstEnd
<1>5. Reading
  BY DEF Reading, ReadRefill, BurstEnd
<1>6. lastRead' = (lastRead + n) % SeqMod
  <2>1. r.slot = lastRead + n
    BY <1>1, <1>5, GotWithin
  <2> QED BY <2>1 DEF ReadRefill, BurstEnd
<1>7. \A s \in Slots : Stripped(ring'[s]) = Stripped(ring[s])
  <2>1. CASE ring' = ring
    BY <2>1
  <2>2. CASE ring' = WithLengths(head, Postable(r.slot))
    <3>1. r.slot \in Int /\ head \in Int
      BY <1>1, <1>5, GotWithin, SizeFits DEF TypeOK, Cursors
    <3>2. Postable(r.slot) \in Int
      BY <3>1, SizeFits DEF Postable
    <3> QED BY <1>1, <2>2, <3>1, <3>2, LengthsOnly
  <2> QED BY <2>1, <2>2 DEF ReadRefill, BurstEnd
<1>8. [Queue!Next]_<<Contents, Taken>>
  BY <1>2, <1>3, <1>4, <1>5, <1>6, <1>7, ReaderTakes
<1>9. ~Reading'
  BY DEF Reading, ReadRefill, BurstEnd, config
<1> QED BY <1>8, <1>9 DEF GotFresh

(* A reader that gives slots back leaves the queue alone.                   *)
LEMMA GivingBackQueues ==
    ASSUME QInv, PostHead \/ \E count \in {0, Len(r.got)} : Refill(count)
    PROVE  GotFresh' /\ [Queue!Next]_<<Contents, Taken>>
<1>1. TypeOK /\ CursorsOrdered
  BY DEF QInv, IInv
<1>2. UNCHANGED <<kind, lastRead, received>>
  BY DEF PostHead, Refill, config
<1>3. Front' = Front
  <2>1. CASE PostHead
    <3>1. kind = "M2S" /\ tail' = tail
      BY <1>1, <2>1 DEF PostHead, CursorsOrdered
    <3> QED BY <1>2, <3>1 DEF Front
  <2>2. CASE \E count \in {0, Len(r.got)} : Refill(count)
    <3>1. head' = head /\ (kind # "S2M" => tail' = tail)
      BY <2>2 DEF Refill
    <3> QED BY <1>2, <3>1 DEF Front
  <2> QED BY <2>1, <2>2
<1>4. Unread' = Unread
  BY <1>2, <1>3 DEF Unread, Dist
<1>5. \A s \in Slots : Stripped(ring'[s]) = Stripped(ring[s])
  <2>1. CASE ring' = ring
    BY <2>1
  <2>2. CASE \E last \in {0, lastRead} : ring' = WithLengths(head, Postable(last))
    <3>1. PICK last \in {0, lastRead} : ring' = WithLengths(head, Postable(last))
      BY <2>2
    <3>2. last \in Int /\ head \in Int
      BY <1>1, SizeFits DEF TypeOK, Cursors
    <3>3. Postable(last) \in Int
      BY <3>2, SizeFits DEF Postable
    <3> QED BY <1>1, <3>1, <3>2, <3>3, LengthsOnly
  <2> QED BY <2>1, <2>2 DEF PostHead, Refill
<1>6. \A k \in 1..Unread : Slot(lastRead + k - 1) \in Slots
  BY <1>1, ContentsSeq DEF ContentsShape
<1>7. [Queue!Next]_<<Contents, Taken>>
  BY <1>2, <1>4, <1>5, <1>6, Idles
<1>8. ~Reading'
  BY DEF Reading, PostHead, Refill, config
<1> QED BY <1>7, <1>8 DEF GotFresh

(* Every step keeps what the refinement needs, and is one of the queue or   *)
(* none.                                                                    *)
LEMMA StepQueues ==
    ASSUME TxBurst = 1, QInv, [Next]_vars
    PROVE  QInv' /\ [Queue!Next]_<<Contents, Taken>>
<1>1. IInv'
  BY IInvKept DEF QInv
<1>2. CASE Writer
  <2>1. \/ \E packets \in [1..1 -> 1..MaxLen] : WriteStart(packets)
        \/ WriteBuffer \/ WritePublish
    <3>1. ASSUME NEW n \in 1..TxBurst, NEW packets \in [1..n -> 1..MaxLen],
                 WriteStart(packets)
          PROVE  packets \in [1..1 -> 1..MaxLen]
      <4>1. n = 1
        OBVIOUS
      <4> QED BY <4>1
    <3> QED BY <1>2, <3>1 DEF Writer
  <2> QED BY <1>1, <2>1, WriterQueues DEF QInv
<1>3. CASE Reader
  BY <1>1, <1>3, CopyingQueues, TakingQueues, GivingBackQueues DEF QInv, Reader
<1>4. CASE UNCHANGED vars
  <2>1. UNCHANGED <<kind, api, head, tail, ring, lastRead, r, received>>
    BY <1>4 DEF vars
  <2>2. Unread' = Unread
    BY <2>1, SameCursors
  <2>3. GotFresh' /\ [Queue!Next]_<<Contents, Taken>>
    BY <2>1, <2>2, CopiedStays, Idles DEF Reading
  <2> QED BY <1>1, <2>3 DEF QInv
<1> QED BY <1>2, <1>3, <1>4 DEF Next

(* The queue starts empty.                                                  *)
LEMMA InitQueues == Init => QInv /\ Queue!Init
<1> SUFFICES ASSUME Init PROVE QInv /\ Queue!Init
  OBVIOUS
<1>1. IInv /\ TypeOK /\ CursorsOrdered
  BY InitIInv DEF IInv
<1>2. r.got = <<>> /\ received = <<>>
  BY DEF Init
<1>3. GotFresh
  BY <1>2 DEF GotFresh
<1>4. Unread = 0
  <2>1. Front = 0 /\ lastRead = 0
    BY DEF Init, Front
  <2>2. 0 \in Cursors
    BY SizeFits DEF Cursors
  <2> QED BY <2>1, <2>2, Distance DEF Unread
<1>5. Contents = <<>> /\ Taken = <<>>
  <2>1. ContentsShape /\ TakenShape
    BY <1>1, ContentsSeq, TakenSeq
  <2>2. Contents \in Seq(Buffers) /\ Len(Contents) = 0
        /\ Taken \in Seq(Buffers) /\ Len(Taken) = 0
    BY <1>2, <1>4, <2>1 DEF ContentsShape, TakenShape
  <2> DEFINE c == Contents
             t == Taken
  <2> HIDE DEF c, t
  <2>3. c \in Seq(Buffers) /\ Len(c) = 0 /\ t \in Seq(Buffers) /\ Len(t) = 0
    BY <2>2 DEF c, t
  <2>4. c = <<>> /\ t = <<>>
    BY <2>3, EmptySeq
  <2> QED BY <2>4 DEF c, t
<1> QED BY <1>1, <1>3, <1>5, QueueInit DEF QInv

(* The ring is a FIFO queue of Size buffers: what has been published is     *)
(* never overwritten before it is read, and is read once and in order,      *)
(* across the wrap of the 16-bit cursors and with both peers at work.       *)
THEOREM RingIsAQueue == ASSUME TxBurst = 1 PROVE Spec => ImplementsQueue
<1>1. QInv /\ [Next]_vars => QInv' /\ [Queue!Next]_<<Contents, Taken>>
  BY StepQueues
<1>2. Spec => Queue!Init /\ [][Queue!Next]_<<Contents, Taken>>
  BY <1>1, InitQueues, PTL DEF Spec
<1> QED BY <1>2, QueueSpec, PTL

-----------------------------------------------------------------------------
(* The buffer at a position of the ring.                                    *)
BufferAt(x) == ring[Slot(x)]
Whole(x)    == BufferAt(x).len = PacketBufferSize

(* The slots a slave has posted have their full length, but for those of a  *)
(* packet that is ready to be published: a packet under way has only filled *)
(* buffers to the end.                                                      *)
PostedWhole ==
    \A k \in 0..Free - 1 :
       (w.pc = "publish" => tail + k >= w.slot) => Whole(tail + k)

(* So have the slots it is about to post.                                   *)
BeingPosted == r.pc = "post" => \A k \in 0..r.slot - head - 1 : Whole(head + k)

LengthsInv == IInv /\ (kind = "M2S" => PostedWhole /\ BeingPosted)

-----------------------------------------------------------------------------
(* The free slots of a ring that a slave reads lie between its cursors.     *)
LEMMA PostedSlots ==
    ASSUME IInv, kind = "M2S"
    PROVE  /\ Front = tail /\ tail \in Cursors /\ head \in Cursors
           /\ tail \in Nat /\ head \in Nat
           /\ Free = Dist(tail, head) /\ Free = Size - Used /\ Free \in 0..Size
           /\ Free \in Nat /\ Used \in 0..Size
           /\ Dist(Freed, lastRead) \in 0..Size /\ Dist(Freed, lastRead) <= Used
<1>1. TypeOK /\ CursorsOrdered
  BY DEF IInv
<1>2. /\ Front = tail /\ tail \in Cursors /\ head \in Cursors
      /\ Free = Dist(tail, head)
  BY <1>1 DEF Front, Free, Dist, TypeOK
<1>3. /\ Used \in 0..Size /\ Dist(Freed, lastRead) \in 0..Size
      /\ Used = Dist(Freed, lastRead) + Unread /\ Unread \in 0..Size
      /\ Free = Size - Used
  BY <1>1, CursorFacts, FreeSlots
<1> QED BY <1>2, <1>3, SizeFits DEF Cursors

(* The slots from head on come after the free ones.                         *)
LEMMA HeadSlot ==
    ASSUME IInv, kind = "M2S", NEW m \in Int
    PROVE  Slot(head + m) = Slot(tail + Free + m)
<1> DEFINE a == tail + Free
<1>1. /\ tail \in Cursors /\ head \in Cursors /\ Free \in 0..Size
      /\ Free = Dist(tail, head) /\ tail \in Nat /\ Free \in Nat
  BY PostedSlots
<1>2. Free = IF tail <= head THEN head - tail ELSE head - tail + SeqMod
  BY <1>1, Distance
<1>3. a \in Int /\ -SeqMod <= a /\ a < 2 * SeqMod /\ 0 <= a
  BY <1>1, SizeFits DEF Cursors
<1>4. a = head \/ a = head + SeqMod
  BY <1>1, <1>2, SizeFits DEF Cursors
<1> HIDE DEF a
<1>5. a % SeqMod = IF a < 0 THEN a + SeqMod ELSE IF a < SeqMod THEN a ELSE a - SeqMod
  BY <1>3, Reduced
<1>6. a % SeqMod = head
  BY <1>1, <1>3, <1>4, <1>5, SizeFits DEF Cursors
<1>7. Slot((a % SeqMod) + m) = Slot(a + m)
  BY <1>3, SlotShift
<1> QED BY <1>6, <1>7 DEF a

(* A step that shortens no descriptor and moves no cursor keeps the lengths *)
(* of what is posted.                                                       *)
LEMMA PostedStays ==
    ASSUME IInv, kind = "M2S", PostedWhole, UNCHANGED <<kind, head, tail>>,
           \A s \in Slots : ring[s].len = PacketBufferSize
                               => ring'[s].len = PacketBufferSize,
           w.pc = "publish" => w'.pc = "publish" /\ w'.slot = w.slot,
           w'.pc = "publish" => w.pc = "publish"
    PROVE  PostedWhole'
<1>1. Free' = Free
  BY DEF Free
<1> SUFFICES ASSUME NEW k \in 0..Free - 1, w'.pc = "publish" => tail + k >= w'.slot
             PROVE  ring'[Slot(tail + k)].len = PacketBufferSize
  BY <1>1 DEF PostedWhole, Whole, BufferAt, Slot
<1>2. Whole(tail + k)
  BY DEF PostedWhole
<1>3. tail + k \in Int
  BY PostedSlots
<1>4. Slot(tail + k) \in Slots
  BY <1>3, SlotOfCursor
<1> QED BY <1>2, <1>4 DEF Whole, BufferAt

(* The same of what is about to be posted.                                  *)
LEMMA BeingPostedStays ==
    ASSUME IInv, kind = "M2S", BeingPosted, UNCHANGED head,
           \A s \in Slots : ring[s].len = PacketBufferSize
                               => ring'[s].len = PacketBufferSize,
           r'.pc = "post" => r' = r
    PROVE  BeingPosted'
<1> SUFFICES ASSUME r'.pc = "post", NEW k \in 0..r'.slot - head - 1
             PROVE  ring'[Slot(head + k)].len = PacketBufferSize
  BY DEF BeingPosted, Whole, BufferAt, Slot
<1>1. r' = r
  OBVIOUS
<1>2. Whole(head + k)
  BY <1>1 DEF BeingPosted
<1>3. head + k \in Int
  BY PostedSlots
<1>4. Slot(head + k) \in Slots
  BY <1>3, SlotOfCursor
<1> QED BY <1>2, <1>4 DEF Whole, BufferAt

(* WithLengths sets the lengths it is to set, and shortens none.            *)
LEMMA LengthsSet ==
    ASSUME PacketBufferSize < LenMod, TypeOK, NEW h \in Int, NEW count \in Int
    PROVE  /\ \A s \in Slots : ring[s].len = PacketBufferSize
                  => WithLengths(h, count)[s].len = PacketBufferSize
           /\ \A j \in 0..count - 1 :
                  WithLengths(h, count)[Slot(h + j)].len = PacketBufferSize
<1>1. ASSUME NEW s \in Slots
      PROVE  [ring[s] EXCEPT !.len = LengthSet(@)].len = PacketBufferSize
  <2>1. ring[s] \in Buffer /\ ring[s].len \in 0..PacketBufferSize
    BY DEF TypeOK, Buffer
  <2>2. LengthSet(ring[s].len) = PacketBufferSize
    BY <2>1, LengthSetWithin
  <2> QED BY <2>1, <2>2 DEF Buffer
<1>2. \A s \in Slots : ring[s].len = PacketBufferSize
                  => WithLengths(h, count)[s].len = PacketBufferSize
  BY <1>1 DEF WithLengths
<1>3. ASSUME NEW j \in 0..count - 1
      PROVE  WithLengths(h, count)[Slot(h + j)].len = PacketBufferSize
  <2>1. Slot(h + j) \in Slots
    BY SlotOfCursor
  <2>2. WithLengths(h, count)[Slot(h + j)]
           = [ring[Slot(h + j)] EXCEPT !.len = LengthSet(@)]
    BY <2>1 DEF WithLengths
  <2> QED BY <1>1, <2>1, <2>2
<1> QED BY <1>2, <1>3

(* The buffer the writer fills is one that was posted.                      *)
LEMMA FilledWasPosted ==
    ASSUME LengthsInv, w.pc = "write"
    PROVE  /\ BufferSize(Slot(w.slot)) = PacketBufferSize
           /\ kind = "M2S" => /\ w.slot - tail \in 0..Free - 1
                              /\ ring[Slot(w.slot)].len = PacketBufferSize
<1>1. IInv /\ TypeOK /\ CursorsOrdered /\ kind \in {"S2M", "M2S"}
  BY DEF LengthsInv, IInv, TypeOK
<1>2. CASE kind = "S2M"
  BY <1>2 DEF BufferSize
<1>3. CASE kind = "M2S"
  <2>1. /\ Front = tail /\ tail \in Nat /\ Free \in Nat /\ Free = Size - Used
        /\ Used \in 0..Size
    BY <1>1, <1>3, PostedSlots
  <2>2. w.slot \in Nat /\ w.nFree \in Nat
    BY <1>1 DEF TypeOK
  <2>3. w.slot >= Front /\ w.nFree > 0 /\ w.slot - Front + w.nFree + Used <= Size
    BY <1>1, Halves DEF WriterAhead, Writing
  <2> DEFINE k == w.slot - tail
  <2>4. k \in 0..Free - 1 /\ tail + k = w.slot
    BY <2>1, <2>2, <2>3, SizeFits
  <2>5. Whole(tail + k)
    BY <1>3, <2>4 DEF LengthsInv, PostedWhole
  <2> QED BY <1>3, <2>4, <2>5 DEF Whole, BufferAt, BufferSize
<1> QED BY <1>1, <1>2, <1>3

(* The other buffers within a ring's length stay as they are.               *)
LEMMA OthersUnfilled ==
    ASSUME IInv, WriteBuffer, NEW x \in Int, x # w.slot,
           w.slot - Size < x, x < w.slot + Size
    PROVE  ring'[Slot(x)] = ring[Slot(x)]
<1> DEFINE s == Slot(w.slot)
           t == Slot(x)
<1>1. TypeOK /\ w.pc = "write"
  BY DEF IInv, WriteBuffer
<1>2. w.slot \in Int
  BY <1>1 DEF TypeOK
<1>3. t # s
  <2>1. CASE x < w.slot
    BY <1>2, <2>1, SizeFits, SlotsApart
  <2>2. CASE w.slot < x
    BY <1>2, <2>2, SizeFits, SlotsApart
  <2> QED BY <1>2, <2>1, <2>2
<1>4. t \in Slots
  BY SlotOfCursor
<1>5. ring \in [Slots -> Buffer]
  BY <1>1 DEF TypeOK
<1>6. \/ \E pkt, from : ring' = [ring EXCEPT ![s].pkt = pkt, ![s].from = from]
      \/ \E b : ring' = [ring EXCEPT ![s] = b]
  BY DEF WriteBuffer
<1> HIDE DEF s, t
<1>7. ring'[t] = ring[t]
  BY <1>3, <1>4, <1>5, <1>6
<1> QED BY <1>7 DEF t
(* Filling a buffer of a packet: the call is given up, the packet goes on   *)
(* behind a full buffer, or it is complete.                                 *)
LEMMA Filling ==
    ASSUME LengthsInv, WriteBuffer
    PROVE  LET s   == Slot(w.slot)
               pkt == w.todo[1]
           IN  \/ w'.pc = "idle" /\ \A t \in Slots : ring'[t].len = ring[t].len
               \/ /\ w.n + PacketBufferSize < lens[pkt]
                  /\ ring'[s].pkt = pkt /\ ring'[s].next
                  /\ ring'[s].len = PacketBufferSize
                  /\ w'.pc = "write" /\ w'.slot = w.slot + 1
                  /\ w'.n = w.n + PacketBufferSize /\ w'.todo = w.todo
               \/ /\ w.n + PacketBufferSize >= lens[pkt]
                  /\ ring'[s].pkt = pkt /\ ring'[s].next = FALSE
                  /\ w'.pc = "publish" /\ w'.slot = w.slot + 1
<1> DEFINE s      == Slot(w.slot)
           pkt    == Head(w.todo)
           room   == lens[pkt] - CopiedFrom(w.n)
           copied == IF BufferSize(s) < room THEN BufferSize(s) ELSE room
           more   == w.n + copied < lens[pkt]
<1>1. IInv /\ w.pc = "write" /\ ring \in [Slots -> Buffer]
  BY DEF LengthsInv, IInv, TypeOK, WriteBuffer
<1>2. /\ s \in Slots /\ pkt = w.todo[1] /\ CopiedFrom(w.n) = 0
      /\ lens[pkt] \in 1..MaxLen /\ w.n \in Nat /\ w.slot \in Nat
      /\ w.nFree \in Nat \ {0} /\ Len(w.todo) = 1
      /\ w \in [pc : {"write", "publish"}, slot : Nat, nFree : Nat,
                n : Nat, todo : Seq(1..MaxPackets)]
  BY <1>1, WriteFacts
<1>3. BufferSize(s) = PacketBufferSize /\ PacketBufferSize \in Nat \ {0}
  BY <1>1, FilledWasPosted, PacketAssumption
<1>4. \/ /\ ring' = [ring EXCEPT ![s].pkt = pkt, ![s].from = CopiedFrom(w.n)]
         /\ w' = [pc |-> "idle"]
      \/ /\ ring' = [ring EXCEPT ![s] = Filled(pkt, CopiedFrom(w.n), more, copied)]
         /\ w' = [w EXCEPT
                !.slot = @ + 1,
                !.nFree = IF more THEN @ - 1 ELSE @,
                !.n = IF more THEN @ + copied ELSE 0,
                !.todo = IF more THEN @ ELSE Tail(@),
                !.pc = IF more \/ Len(w.todo) > 1 THEN @ ELSE "publish"]
  BY DEF WriteBuffer
<1>5. room = lens[pkt] /\ room \in Nat
  BY <1>2
<1> HIDE DEF s, pkt, room
<1>6. /\ more => copied = PacketBufferSize /\ w.n + PacketBufferSize < lens[pkt]
      /\ ~more => w.n + PacketBufferSize >= lens[pkt]
  BY <1>2, <1>3, <1>5
<1>7. CASE /\ ring' = [ring EXCEPT ![s].pkt = pkt, ![s].from = CopiedFrom(w.n)]
           /\ w' = [pc |-> "idle"]
  <2>1. ring' = [ring EXCEPT ![s] = [ring[s] EXCEPT !.pkt = pkt,
                                                    !.from = CopiedFrom(w.n)]]
    BY <1>1, <1>2, <1>7 DEF Buffer
  <2>2. [ring[s] EXCEPT !.pkt = pkt, !.from = CopiedFrom(w.n)].len = ring[s].len
    BY <1>1, <1>2 DEF Buffer
  <2>3. \A t \in Slots : ring'[t].len = ring[t].len
    BY <1>1, <1>2, <2>1, <2>2
  <2> QED BY <1>7, <2>3 DEF s, pkt
<1> HIDE DEF copied, more
<1>8. CASE /\ ring' = [ring EXCEPT ![s] = Filled(pkt, CopiedFrom(w.n), more, copied)]
           /\ w' = [w EXCEPT
                !.slot = @ + 1,
                !.nFree = IF more THEN @ - 1 ELSE @,
                !.n = IF more THEN @ + copied ELSE 0,
                !.todo = IF more THEN @ ELSE Tail(@),
                !.pc = IF more \/ Len(w.todo) > 1 THEN @ ELSE "publish"]
  <2>1. /\ w'.slot = w.slot + 1
        /\ w'.n = IF more THEN w.n + copied ELSE 0
        /\ w'.todo = IF more THEN w.todo ELSE Tail(w.todo)
        /\ w'.pc = IF more THEN "write" ELSE "publish"
    BY <1>1, <1>2, <1>8
  <2>2. ring'[s] = [pkt |-> pkt, from |-> CopiedFrom(w.n), next |-> more,
                    len |-> copied]
    BY <1>1, <1>2, <1>8 DEF Filled
  <2>3. ring'[s].pkt = pkt /\ ring'[s].next = more /\ ring'[s].len = copied
    BY <2>2
  <2>4. more \in BOOLEAN
    BY DEF more
  <2> QED BY <1>2, <1>6, <2>1, <2>3, <2>4 DEF s, pkt
<1> QED BY <1>4, <1>7, <1>8

(* Filling a buffer keeps the lengths.                                      *)
LEMMA WriteBufferLengths ==
    ASSUME LengthsInv, WriteBuffer, kind = "M2S"
    PROVE  PostedWhole' /\ BeingPosted'
<1> DEFINE s == Slot(w.slot)
<1>1. IInv /\ TypeOK /\ CursorsOrdered /\ w.pc = "write" /\ PostedWhole /\ BeingPosted
  BY DEF LengthsInv, IInv, WriteBuffer
<1>2. UNCHANGED <<kind, head, tail, r>>
  BY DEF WriteBuffer, config, readerVars
<1>3. /\ tail \in Nat /\ head \in Nat /\ Free \in Nat /\ Free = Size - Used
      /\ Used \in 0..Size /\ Dist(Freed, lastRead) \in 0..Size
      /\ Dist(Freed, lastRead) <= Used
  BY <1>1, PostedSlots
<1>4. w.slot - tail \in 0..Free - 1 /\ ring[s].len = PacketBufferSize
  BY <1>1, FilledWasPosted
<1>5. w.slot \in Nat /\ ring \in [Slots -> Buffer] /\ s \in Slots
  BY <1>1, SlotOfCursor DEF TypeOK
<1>6. Free' = Free
  BY <1>2 DEF Free
<1>7. CASE \A t \in Slots : ring[t].len = PacketBufferSize
                               => ring'[t].len = PacketBufferSize
  <2>1. CASE w'.pc # "publish"
    BY <1>1, <1>2, <1>7, <2>1, PostedStays, BeingPostedStays
  <2>2. CASE w'.pc = "publish"
    <3> SUFFICES PostedWhole'
      BY <1>1, <1>2, <1>7, BeingPostedStays
    <3> SUFFICES ASSUME NEW k \in 0..Free - 1
                 PROVE  ring'[Slot(tail + k)].len = PacketBufferSize
      BY <1>2, <1>6 DEF PostedWhole, Whole, BufferAt, Slot
    <3>1. Whole(tail + k)
      BY <1>1 DEF PostedWhole
    <3>2. Slot(tail + k) \in Slots
      BY <1>3, SlotOfCursor
    <3> QED BY <1>7, <3>1, <3>2 DEF Whole, BufferAt
  <2> QED BY <2>1, <2>2
<1>8. CASE w'.pc = "publish" /\ w'.slot = w.slot + 1
  <2>1. PostedWhole'
    <3> SUFFICES ASSUME NEW k \in 0..Free - 1, tail + k >= w.slot + 1
                 PROVE  ring'[Slot(tail + k)].len = PacketBufferSize
      BY <1>2, <1>6, <1>8 DEF PostedWhole, Whole, BufferAt, Slot
    <3>1. Whole(tail + k)
      BY <1>1 DEF PostedWhole
    <3> DEFINE x == tail + k
    <3>2. x \in Int /\ x # w.slot /\ w.slot - Size < x /\ x < w.slot + Size
      BY <1>3, <1>4, <1>5, SizeFits
    <3> HIDE DEF x
    <3>3. ring'[Slot(x)] = ring[Slot(x)]
      BY <1>1, <3>2, OthersUnfilled
    <3> QED BY <3>1, <3>3 DEF Whole, BufferAt, x
  <2>2. BeingPosted'
    <3> SUFFICES ASSUME r.pc = "post", NEW k \in 0..r.slot - head - 1
                 PROVE  ring'[Slot(head + k)].len = PacketBufferSize
      BY <1>2 DEF BeingPosted, Whole, BufferAt, Slot
    <3>1. Whole(head + k)
      BY <1>1 DEF BeingPosted
    <3>2. r.slot - head = Dist(Freed, lastRead)
      BY <1>1 DEF CursorsOrdered
    <3> DEFINE x == tail + Free + k
    <3>3. x \in Int /\ x # w.slot /\ w.slot - Size < x /\ x < w.slot + Size
      BY <1>3, <1>4, <1>5, <3>2, SizeFits
    <3>4. Slot(head + k) = Slot(x) /\ k \in Int
      BY <1>1, <1>3, <3>2, HeadSlot
    <3> HIDE DEF x
    <3>5. ring'[Slot(x)] = ring[Slot(x)]
      BY <1>1, <3>3, OthersUnfilled
    <3> QED BY <3>1, <3>4, <3>5 DEF Whole, BufferAt
  <2> QED BY <2>1, <2>2
<1>9. ASSUME ring'[s].len = PacketBufferSize, NEW t \in Slots,
             ring[t].len = PacketBufferSize
      PROVE  ring'[t].len = PacketBufferSize
  <2>1. \/ \E pkt, from : ring' = [ring EXCEPT ![s].pkt = pkt, ![s].from = from]
        \/ \E b : ring' = [ring EXCEPT ![s] = b]
    BY DEF WriteBuffer
  <2> HIDE DEF s
  <2>2. t # s => ring'[t] = ring[t]
    BY <1>5, <2>1
  <2> QED BY <1>9, <2>2
<1> QED BY <1>1, <1>7, <1>8, <1>9, Filling

(* Publishing leaves to be filled what comes after the packet.              *)
LEMMA WritePublishLengths ==
    ASSUME LengthsInv, WritePublish, kind = "M2S"
    PROVE  PostedWhole' /\ BeingPosted'
<1> DEFINE n == w.slot - tail
<1>1. IInv /\ CursorsOrdered /\ w.pc = "publish" /\ PostedWhole /\ BeingPosted
  BY DEF LengthsInv, IInv, WritePublish
<1>2. /\ UNCHANGED <<kind, head, ring, r>> /\ tail' = w.slot % SeqMod
      /\ w' = [pc |-> "idle"]
  BY DEF WritePublish, config, readerVars
<1>3. /\ Front = tail /\ tail \in Cursors /\ head \in Cursors /\ tail \in Nat
      /\ Free = Dist(tail, head) /\ Free = Size - Used /\ Free \in Nat
      /\ Used \in 0..Size
  BY <1>1, PostedSlots
<1>4. w.slot \in Nat /\ w.slot >= tail /\ w.slot - tail + Used <= Size
  BY <1>1, <1>3, Halves DEF WriterAhead, Writing, IInv, TypeOK
<1>5. n \in 0..Free /\ tail + n = w.slot /\ n \in Nat
  BY <1>3, <1>4, SizeFits
<1> HIDE DEF n
<1>6. Dist((tail + n) % SeqMod, head) = Free - n
  <2>1. n \in 0..Dist(tail, head) /\ Free = Dist(tail, head)
    BY <1>3, <1>5
  <2>2. Dist((tail + n) % SeqMod, head) = Dist(tail, head) - n
    BY <1>3, <2>1, DistanceShrinks
  <2> QED BY <2>1, <2>2
<1>7. Free' = Free - n
  <2>1. tail' = (tail + n) % SeqMod
    BY <1>2, <1>5, Zenon
  <2>2. Free' = Dist(tail', head)
    BY <1>2 DEF Free, Dist
  <2> QED BY <1>6, <2>1, <2>2, Zenon
<1>8. BeingPosted'
  BY <1>1, <1>2, BeingPostedStays
<1>9. PostedWhole'
  <2> SUFFICES ASSUME NEW k \in 0..Free - n - 1
               PROVE  ring[Slot(tail' + k)].len = PacketBufferSize
    BY <1>2, <1>7 DEF PostedWhole, Whole, BufferAt, Slot
  <2>1. n + k \in 0..Free - 1 /\ tail + (n + k) >= w.slot
        /\ tail + (n + k) = w.slot + k /\ k \in Int /\ w.slot \in Int
    BY <1>3, <1>4, <1>5
  <2>2. Whole(tail + (n + k))
    BY <1>1, <2>1 DEF PostedWhole
  <2>3. Slot(tail' + k) = Slot(w.slot + k)
    BY <1>2, <2>1, SlotShift
  <2> QED BY <2>1, <2>2, <2>3 DEF Whole, BufferAt
<1> QED BY <1>8, <1>9

(* The slots a slave posts have their length already.                       *)
LEMMA PostHeadLengths ==
    ASSUME LengthsInv, PostHead, kind = "M2S"
    PROVE  PostedWhole' /\ BeingPosted'
<1> DEFINE d == Dist(Freed, lastRead)
<1>1. IInv /\ CursorsOrdered /\ r.pc = "post" /\ PostedWhole /\ BeingPosted
      /\ r.slot \in Nat
  BY DEF LengthsInv, IInv, PostHead, ReaderShape
<1>2. /\ UNCHANGED <<kind, tail, ring, w>> /\ head' = r.slot % SeqMod
      /\ r'.pc = "idle"
  BY DEF PostHead, config, writerVars
<1>3. /\ tail \in Cursors /\ head \in Cursors /\ tail \in Nat /\ head \in Nat
      /\ Free = Dist(tail, head) /\ Free = Size - Used /\ Free \in Nat
      /\ Used \in 0..Size /\ d \in 0..Size /\ d <= Used
  BY <1>1, PostedSlots
<1>4. r.slot = head + d /\ r.slot - head = d
  <2>1. r.slot - head = d
    BY <1>1 DEF CursorsOrdered
  <2> HIDE DEF d
  <2> QED BY <1>1, <1>3, <2>1
<1> HIDE DEF d
<1>5. d \in Nat /\ Dist(tail, head) + d < SeqMod
  BY <1>3, SizeFits
<1>6. Dist(tail, (head + d) % SeqMod) = Free + d
  <2>1. Dist(tail, (head + d) % SeqMod) = Dist(tail, head) + d
    BY <1>3, <1>5, DistanceGrows
  <2> QED BY <1>3, <2>1
<1>7. Free' = Free + d
  <2>1. head' = (head + d) % SeqMod
    BY <1>2, <1>4, Zenon
  <2>2. Free' = Dist(tail, head')
    BY <1>2 DEF Free, Dist
  <2> QED BY <1>6, <2>1, <2>2, Zenon
<1>8. BeingPosted'
  BY <1>2 DEF BeingPosted
<1>9. PostedWhole'
  <2>1. ASSUME NEW k \in 0..Free + d - 1,
               w.pc = "publish" => tail + k >= w.slot
        PROVE  ring[Slot(tail + k)].len = PacketBufferSize
    <3>1. CASE k < Free
      <4>1. k \in 0..Free - 1
        BY <1>3, <3>1
      <4> QED BY <1>1, <2>1, <4>1 DEF PostedWhole, Whole, BufferAt
    <3>2. CASE k >= Free
      <4> DEFINE m == k - Free
      <4>1. m \in 0..d - 1 /\ m \in Int /\ tail + Free + m = tail + k
        BY <1>3, <1>5, <3>2
      <4> HIDE DEF m
      <4>2. Whole(head + m)
        BY <1>1, <1>4, <4>1 DEF BeingPosted
      <4>3. Slot(head + m) = Slot(tail + Free + m)
        BY <1>1, <4>1, HeadSlot
      <4> QED BY <4>1, <4>2, <4>3 DEF Whole, BufferAt
    <3> QED BY <1>3, <3>1, <3>2
  <2>2. ASSUME NEW k \in 0..Free' - 1,
               w'.pc = "publish" => tail' + k >= w'.slot
        PROVE  ring'[Slot(tail' + k)].len = PacketBufferSize
    <3>1. k \in 0..Free + d - 1
      BY <1>3, <1>5, <1>7
    <3>2. (w.pc = "publish" => tail + k >= w.slot) /\ tail' = tail /\ ring' = ring
      BY <1>2, <2>2
    <3> QED BY <2>1, <3>1, <3>2
  <2> QED BY <2>2 DEF PostedWhole, Whole, BufferAt, Slot
<1> QED BY <1>8, <1>9

(* A refill prepares all the slots it goes on to post.                      *)
LEMMA RefillLengths ==
    ASSUME PacketBufferSize < LenMod, LengthsInv, kind = "M2S",
           ReadRefill \/ \E count \in {0, Len(r.got)} : Refill(count)
    PROVE  PostedWhole' /\ BeingPosted'
<1>1. IInv /\ TypeOK /\ PostedWhole /\ ReaderShape
  BY DEF LengthsInv, IInv
<1>2. UNCHANGED <<kind, head, tail, w>>
  BY DEF ReadRefill, Refill, config, writerVars
<1>3. PICK last \in Nat : /\ ring' = WithLengths(head, Postable(last))
                          /\ r' = [pc |-> "post", got |-> r.got,
                                   slot |-> head + Postable(last)]
  <2>1. CASE ReadRefill
    <3>1. r.slot \in Nat
      BY <1>1, <2>1 DEF ReadRefill, ReaderShape
    <3> QED BY <2>1, <3>1 DEF ReadRefill
  <2>2. CASE \E count \in {0, Len(r.got)} : Refill(count)
    <3>1. lastRead \in Nat
      BY <1>1, SizeFits DEF TypeOK, Cursors
    <3> QED BY <2>2, <3>1 DEF Refill
  <2> QED BY <2>1, <2>2
<1> DEFINE count == Postable(last)
<1>4. head \in Int /\ count \in Int
  BY <1>1, SizeFits DEF Postable, TypeOK, Cursors
<1> HIDE DEF count
<1>5. /\ ring' = WithLengths(head, count) /\ r'.pc = "post"
      /\ r'.slot = head + count
  BY <1>3 DEF count
<1>6. /\ \A s \in Slots : ring[s].len = PacketBufferSize
            => ring'[s].len = PacketBufferSize
      /\ \A j \in 0..count - 1 : ring'[Slot(head + j)].len = PacketBufferSize
  BY <1>1, <1>4, <1>5, LengthsSet
<1>7. PostedWhole'
  BY <1>1, <1>2, <1>6, PostedStays
<1>8. BeingPosted'
  <2>1. r'.slot - head' = count
    BY <1>2, <1>4, <1>5
  <2> QED BY <1>2, <1>6, <2>1 DEF BeingPosted, Whole, BufferAt, Slot
<1> QED BY <1>7, <1>8

(* Every step keeps the lengths.                                            *)
LEMMA LengthsKept ==
    ASSUME TxBurst = 1, PacketBufferSize < LenMod, LengthsInv, [Next]_vars
    PROVE  LengthsInv'
<1>1. IInv' /\ IInv
  BY IInvKept DEF LengthsInv
<1>2. UNCHANGED kind
  BY DEF Next, Writer, Reader, WriteStart, WriteBuffer, WritePublish, ReadStart,
         ReadBuffer, ReadRefill, PostHead, BurstStart, BurstBuffer, BurstEnd,
         Refill, config, vars
<1> SUFFICES ASSUME kind = "M2S" PROVE PostedWhole' /\ BeingPosted'
  BY <1>1, <1>2 DEF LengthsInv
<1>3. PostedWhole /\ BeingPosted
  BY DEF LengthsInv
<1>4. ASSUME UNCHANGED <<kind, head, tail, ring>>,
             w.pc = "publish" => w'.pc = "publish" /\ w'.slot = w.slot,
             w'.pc = "publish" => w.pc = "publish",
             r'.pc = "post" => r' = r
      PROVE  PostedWhole' /\ BeingPosted'
  <2>1. \A s \in Slots : ring[s].len = PacketBufferSize
                            => ring'[s].len = PacketBufferSize
    BY <1>4
  <2> QED BY <1>1, <1>3, <1>4, <2>1, PostedStays, BeingPostedStays
<1>5. ASSUME NEW n \in 1..TxBurst, NEW packets \in [1..n -> 1..MaxLen],
             WriteStart(packets)
      PROVE  PostedWhole' /\ BeingPosted'
  <2>1. /\ UNCHANGED <<kind, head, tail, ring, r>> /\ w.pc = "idle"
        /\ w'.pc # "publish"
    BY <1>5 DEF WriteStart, config, readerVars
  <2> QED BY <1>4, <2>1
<1>6. CASE ReadStart \/ BurstStart \/ ReadBuffer \/ BurstBuffer \/ BurstEnd
  <2>1. UNCHANGED <<kind, head, tail, ring, w>>
    BY <1>6 DEF ReadStart, BurstStart, ReadBuffer, BurstBuffer, BurstEnd, config,
                writerVars
  <2>2. r'.pc # "post"
    <3>1. CASE ReadStart \/ BurstStart \/ BurstEnd
      BY <3>1 DEF ReadStart, BurstStart, BurstEnd
    <3>2. CASE ReadBuffer
      <4>1. r \in [pc : {"copy", "refill", "error"}, slot : Nat, nSlots : Nat,
                   got : Seq(Buffer)]
        BY <1>1, <3>2 DEF IInv, ReaderShape, ReadBuffer
      <4> QED BY <3>2, <4>1 DEF ReadBuffer
    <3>3. CASE BurstBuffer
      <4>1. r \in [pc : {"copy"}, slot : Nat, got : Seq(Buffer), nSlots : Nat,
                   clear : BOOLEAN]
        BY <1>1, <3>3 DEF IInv, ReaderShape, BurstBuffer
      <4> QED BY <3>3, <4>1 DEF BurstBuffer
    <3> QED BY <1>6, <3>1, <3>2, <3>3
  <2> QED BY <1>4, <2>1, <2>2
<1>7. CASE UNCHANGED vars
  BY <1>4, <1>7 DEF vars
<1>8. CASE WriteBuffer \/ WritePublish
  BY <1>8, WriteBufferLengths, WritePublishLengths
<1>9. CASE ReadRefill \/ PostHead \/ \E count \in {0, Len(r.got)} : Refill(count)
  BY <1>9, RefillLengths, PostHeadLengths
<1> QED BY <1>5, <1>6, <1>7, <1>8, <1>9 DEF Next, Writer, Reader

(* At the start a slave has posted nothing.                                 *)
LEMMA InitLengths == Init => LengthsInv
<1> SUFFICES ASSUME Init PROVE LengthsInv
  OBVIOUS
<1>1. IInv /\ r.pc # "post"
  BY InitIInv DEF Init
<1>2. ASSUME kind = "M2S" PROVE Free = 0
  <2>1. head = 0 /\ tail = 0 /\ 0 \in Cursors /\ Free = Dist(tail, head)
    BY <1>1, <1>2, PostedSlots DEF Init
  <2> QED BY <2>1, Distance
<1> QED BY <1>1, <1>2 DEF LengthsInv, PostedWhole, BeingPosted

(* Every buffer a slave has posted and the writer not filled yet has its    *)
(* full length, so that a writer does not cut a packet short by the length  *)
(* of an earlier one: each refill prepares a descriptor before head passes  *)
(* it, and a call of the writer that is given up has not shortened any.     *)
(* That needs buffers below 2^16 bytes, as setDescLength writes 16 bits.    *)
THEOREM PostedBuffersWholeCorrect ==
    ASSUME TxBurst = 1, PacketBufferSize < LenMod
    PROVE  Spec => []PostedBuffersWhole
<1>1. LengthsInv /\ [Next]_vars => LengthsInv'
  BY LengthsKept
<1>2. LengthsInv => PostedBuffersWhole
  <2> SUFFICES ASSUME LengthsInv, kind = "M2S"
               PROVE  LET first == IF Writing THEN w.slot ELSE tail
                      IN  \A k \in 0..Dist(first % SeqMod, head) - 1 :
                             ring[Slot(first + k)].len = PacketBufferSize
    BY DEF PostedBuffersWhole
  <2> DEFINE first == IF Writing THEN w.slot ELSE tail
             n == first - tail
  <2>1. IInv /\ CursorsOrdered /\ PostedWhole
    BY DEF LengthsInv, IInv
  <2>2. /\ Front = tail /\ tail \in Cursors /\ head \in Cursors /\ tail \in Nat
        /\ Free = Dist(tail, head) /\ Free = Size - Used /\ Free \in Nat
        /\ Used \in 0..Size
    BY <2>1, PostedSlots
  <2>3. Writing => w.slot \in Nat /\ w.slot >= tail /\ w.slot - tail + Used <= Size
    BY <2>1, <2>2, Halves DEF WriterAhead, Writing, IInv, TypeOK
  <2>4. n \in 0..Free /\ n \in Nat /\ tail + n = first
        /\ (w.pc = "publish" => first = w.slot)
    BY <2>2, <2>3, SizeFits DEF Writing
  <2> HIDE DEF n, first
  <2>5. Dist((tail + n) % SeqMod, head) = Free - n
    <3>1. n \in 0..Dist(tail, head) /\ Free = Dist(tail, head)
      BY <2>2, <2>4
    <3>2. Dist((tail + n) % SeqMod, head) = Dist(tail, head) - n
      BY <2>2, <3>1, DistanceShrinks
    <3> QED BY <3>1, <3>2
  <2>6. Dist(first % SeqMod, head) = Free - n
    BY <2>4, <2>5, Zenon
  <2>7. ASSUME NEW k \in 0..Free - n - 1
        PROVE  ring[Slot(first + k)].len = PacketBufferSize
    <3>1. /\ n + k \in 0..Free - 1 /\ tail + (n + k) = first + k
          /\ (w.pc = "publish" => tail + (n + k) >= w.slot)
      BY <2>2, <2>4
    <3>2. Whole(tail + (n + k))
      BY <2>1, <3>1 DEF PostedWhole
    <3> QED BY <3>1, <3>2 DEF Whole, BufferAt
  <2> QED BY <2>6, <2>7 DEF first
<1> QED BY <1>1, <1>2, InitLengths, PTL DEF Spec
-----------------------------------------------------------------------------
(* Packets *)

(* The buffers a packet of n bytes takes.                                   *)
Parts(n) == (n + PacketBufferSize - 1) \div PacketBufferSize

(* The buffers b hold a packet from position x on, where lengths are L.     *)
Packet(b, L, x, pkt) ==
    /\ pkt \in DOMAIN L
    /\ \A j \in 0..Parts(L[pkt]) - 1 :
          /\ b[Slot(x + j)].pkt = pkt
          /\ b[Slot(x + j)].next = (j < Parts(L[pkt]) - 1)

(* In the n buffers from x on there is a packet, and all of it, wherever    *)
(* one may begin: first, and behind a buffer that has no next.              *)
Framed(b, L, x, n) ==
    \A k \in 0..n - 1 :
       k = 0 \/ ~b[Slot(x + (k - 1))].next =>
          LET pkt == b[Slot(x + k)].pkt
          IN  Packet(b, L, x + k, pkt) /\ k + Parts(L[pkt]) <= n

(* What the writer has filled and not published is a packet, or its start.  *)
BeingWritten ==
    /\ w.pc = "write" =>
          /\ w.n = (w.slot - Front) * PacketBufferSize
          /\ \A j \in 0..w.slot - Front - 1 : /\ ring[Slot(Front + j)].pkt = w.todo[1]
                                              /\ ring[Slot(Front + j)].next
    /\ w.pc = "publish" => \E pkt \in DOMAIN lens :
                              /\ Packet(ring, lens, Front, pkt)
                              /\ w.slot - Front = Parts(lens[pkt])

(* What ReadPacket has got is nothing, or all of a packet.                  *)
GotWhole(got, L) ==
    got # <<>> => \E pkt \in DOMAIN L :
                     /\ Len(got) = Parts(L[pkt])
                     /\ \A k \in DOMAIN got : /\ got[k].pkt = pkt
                                              /\ got[k].next = (k < Len(got))

(* It copies one packet, of which it finds all buffers.                     *)
BeingRead ==
    LET pkt == ring[Slot(lastRead)].pkt
    IN  /\ r.pc # "error"
        /\ r.pc = "copy" => /\ pkt \in DOMAIN lens
                            /\ Len(r.got) < Parts(lens[pkt])
                            /\ Parts(lens[pkt]) <= Len(r.got) + r.nSlots
        /\ r.pc = "refill" => \/ r.got = <<>>
                              \/ pkt \in DOMAIN lens /\ Len(r.got) = Parts(lens[pkt])
        /\ r.pc \in {"idle", "post"} => GotWhole(r.got, lens)

FramesInv ==
    /\ QInv /\ LengthsInv /\ BeingWritten
    /\ api = "packet" => Framed(ring, lens, lastRead, Unread) /\ BeingRead

(* A quotient is the only one there is.                                     *)
LEMMA QuotientUnique ==
    ASSUME NEW M \in Nat \ {0}, NEW x \in Int, NEW k \in Int,
           M * k <= x, x < M * k + M
    PROVE  x \div M = k
<1>1. x \div M \in Int /\ x % M = x - M * (x \div M)
  OBVIOUS
<1> DEFINE y == x - M * k
<1>2. M * k \in Int
  OBVIOUS
<1>3. y \in 0..M - 1 /\ x = M * k + y
  BY <1>2
<1> HIDE DEF y
<1>4. x % M = y
  BY <1>3, RemainderUnique
<1> DEFINE q == x \div M
<1>5. M * q \in Int /\ M * (q - k) = M * q - M * k
  BY <1>1
<1>6. M * (q - k) = 0 /\ q - k \in Int
  BY <1>1, <1>2, <1>3, <1>4, <1>5
<1> HIDE DEF q
<1>7. q - k = 0
  BY <1>6, OnlyZeroFits
<1>8. q \in Int
  BY <1>1 DEF q
<1> QED BY <1>7, <1>8 DEF q

(* A packet whose bytes end in buffer m + 1 has m + 1 buffers.              *)
LEMMA PartsCount ==
    ASSUME NEW n \in Nat, NEW m \in Nat,
           m * PacketBufferSize < n, n <= m * PacketBufferSize + PacketBufferSize
    PROVE  Parts(n) = m + 1
<1> DEFINE P == PacketBufferSize
           x == n + P - 1
           k == m + 1
<1>1. P \in Nat \ {0}
  BY PacketAssumption
<1>2. P * k = m * P + P /\ m * P \in Int
  BY <1>1
<1> HIDE DEF P
<1>3. x \in Int /\ k \in Int /\ P * k <= x /\ x < P * k + P
  BY <1>1, <1>2 DEF P
<1> HIDE DEF x, k
<1>4. x \div P = k
  BY <1>1, <1>3, QuotientUnique
<1> QED BY <1>4 DEF Parts, P, x, k

(* A packet has a buffer.                                                   *)
LEMMA PartsPositive ==
    ASSUME NEW n \in Nat \ {0}
    PROVE  Parts(n) \in Nat \ {0}
<1> DEFINE P == PacketBufferSize
           x == n + P - 1
           q == x \div P
<1>1. P \in Nat \ {0}
  BY PacketAssumption
<1>2. x \in Int /\ P <= x
  BY <1>1
<1>3. q \in Int /\ x % P = x - P * q /\ x % P \in 0..P - 1
  <2> HIDE DEF P, x
  <2> QED BY <1>1, <1>2 DEF q
<1>4. ASSUME q <= 0 PROVE FALSE
  <2>1. P * q <= 0 /\ P * q \in Int
    BY <1>1, <1>3, <1>4
  <2> HIDE DEF q
  <2> QED BY <1>1, <1>2, <1>3, <2>1
<1>5. q \in Nat \ {0}
  BY <1>3, <1>4
<1> QED BY <1>5 DEF Parts, P, x, q

(* Buffers that agree in what makes a packet, and lengths that go on.       *)
Alike(a, b)   == a.pkt = b.pkt /\ a.next = b.next
Extends(L, M) == DOMAIN L \subseteq DOMAIN M /\ \A p \in DOMAIN L : M[p] = L[p]

(* Buffers that differ in their lengths only are alike.                     *)
LEMMA StrippedAlike == ASSUME NEW a, NEW b, Stripped(a) = Stripped(b) PROVE Alike(a, b)
<1>1. Stripped(a).pkt = Stripped(b).pkt /\ Stripped(a).next = Stripped(b).next
  OBVIOUS
<1> QED BY <1>1 DEF Stripped, Alike

(* A packet stays one when its buffers stay, or are looked at elsewhere.    *)
LEMMA PacketStays ==
    ASSUME NEW b, NEW c, NEW L, NEW M, NEW x, NEW y, NEW pkt,
           Packet(b, L, x, pkt), Extends(L, M),
           \A j \in 0..Parts(L[pkt]) - 1 : Alike(c[Slot(y + j)], b[Slot(x + j)])
    PROVE  Packet(c, M, y, pkt) /\ M[pkt] = L[pkt]
BY Zenon DEF Packet, Extends, Alike

(* Likewise for a row of packets.                                           *)
LEMMA FramedStays ==
    ASSUME NEW b, NEW c, NEW L \in Seq(1..MaxLen), NEW M, NEW x \in Int, NEW y \in Int,
           NEW n \in Nat, Framed(b, L, x, n), Extends(L, M),
           \A k \in 0..n - 1 : Alike(c[Slot(y + k)], b[Slot(x + k)])
    PROVE  Framed(c, M, y, n)
<1> SUFFICES ASSUME NEW k \in 0..n - 1, k = 0 \/ ~c[Slot(y + (k - 1))].next
             PROVE  LET pkt == c[Slot(y + k)].pkt
                    IN  Packet(c, M, y + k, pkt) /\ k + Parts(M[pkt]) <= n
  BY DEF Framed
<1> DEFINE pkt == b[Slot(x + k)].pkt
           p   == Parts(L[pkt])
<1>1. k = 0 \/ ~b[Slot(x + (k - 1))].next
  <2> SUFFICES ASSUME k # 0 PROVE ~b[Slot(x + (k - 1))].next
    OBVIOUS
  <2>1. k - 1 \in 0..n - 1
    OBVIOUS
  <2>2. Alike(c[Slot(y + (k - 1))], b[Slot(x + (k - 1))])
    BY <2>1
  <2> QED BY <2>2 DEF Alike
<1>2. Packet(b, L, x + k, pkt) /\ k + p <= n
  BY <1>1 DEF Framed
<1>3. c[Slot(y + k)].pkt = pkt
  BY DEF Alike
<1>4. L[pkt] \in Nat \ {0}
  <2>1. pkt \in DOMAIN L
    BY <1>2 DEF Packet
  <2> HIDE DEF pkt
  <2>2. L[pkt] \in 1..MaxLen
    BY <2>1, SeqElement, Zenon
  <2> QED BY <2>2, PacketAssumption
<1>5. p \in Nat
  BY <1>4, PartsPositive
<1> HIDE DEF p
<1>6. ASSUME NEW j \in 0..p - 1
      PROVE  Alike(c[Slot((y + k) + j)], b[Slot((x + k) + j)])
  <2>1. k + j \in 0..n - 1 /\ (y + k) + j = y + (k + j) /\ (x + k) + j = x + (k + j)
    BY <1>2, <1>5
  <2> QED BY <2>1
<1> HIDE DEF pkt
<1>7. Packet(c, M, y + k, pkt) /\ M[pkt] = L[pkt]
  <2> DEFINE u == x + k
             v == y + k
  <2>1. \A j \in 0..Parts(L[pkt]) - 1 : Alike(c[Slot(v + j)], b[Slot(u + j)])
    BY <1>6 DEF p
  <2>2. Packet(b, L, u, pkt)
    BY <1>2
  <2> HIDE DEF u, v
  <2>3. Packet(c, M, v, pkt) /\ M[pkt] = L[pkt]
    BY <2>1, <2>2, PacketStays
  <2> QED BY <2>3 DEF v
<1>8. Packet(c, M, y + k, pkt) /\ k + Parts(M[pkt]) <= n
  BY <1>2, <1>7, Zenon DEF p
<1> QED BY <1>3, <1>8

(* A packet put behind the others is one of them.                           *)
LEMMA FramedPut ==
    ASSUME NEW b, NEW L \in Seq(1..MaxLen), NEW x \in Int, NEW n \in Nat, NEW pkt,
           Framed(b, L, x, n), Packet(b, L, x + n, pkt),
           Parts(L[pkt]) \in Nat \ {0}
    PROVE  Framed(b, L, x, n + Parts(L[pkt]))
<1> DEFINE p == Parts(L[pkt])
<1> SUFFICES ASSUME NEW k \in 0..n + p - 1, k = 0 \/ ~b[Slot(x + (k - 1))].next
             PROVE  LET q == b[Slot(x + k)].pkt
                    IN  Packet(b, L, x + k, q) /\ k + Parts(L[q]) <= n + p
  BY DEF Framed
<1>1. CASE k < n
  <2> DEFINE q == b[Slot(x + k)].pkt
  <2>1. k \in 0..n - 1
    BY <1>1
  <2>2. Packet(b, L, x + k, q) /\ k + Parts(L[q]) <= n
    BY <2>1 DEF Framed
  <2>3. Parts(L[q]) \in Nat
    <3>1. q \in DOMAIN L
      BY <2>2 DEF Packet
    <3> HIDE DEF q
    <3>2. L[q] \in 1..MaxLen
      BY <3>1, SeqElement, Zenon
    <3>3. L[q] \in Nat \ {0}
      BY <3>2, PacketAssumption
    <3>4. Parts(L[q]) \in Nat \ {0}
      BY <3>3, PartsPositive, Zenon
    <3> QED BY <3>4
  <2> QED BY <2>2, <2>3
<1>2. CASE k = n
  <2>1. b[Slot((x + n) + 0)].pkt = pkt /\ (x + n) + 0 = x + k
    BY <1>2 DEF Packet
  <2>2. b[Slot(x + k)].pkt = pkt
    BY <2>1
  <2> QED BY <1>2, <2>2
<1>3. CASE k > n
  <2> DEFINE j == (k - n) - 1
  <2> HIDE DEF p
  <2>1. j \in 0..p - 1 /\ j < p - 1 /\ (x + n) + j = x + (k - 1)
    BY <1>3 DEF p
  <2> HIDE DEF j
  <2>2. b[Slot((x + n) + j)].next
    BY <2>1 DEF Packet, p
  <2>3. b[Slot(x + (k - 1))].next
    BY <2>1, <2>2, Zenon
  <2> QED BY <1>3, <2>3
<1> QED BY <1>1, <1>2, <1>3

(* The first packet, and what is left without it.                           *)
LEMMA FramedTake ==
    ASSUME NEW b, NEW L \in Seq(1..MaxLen), NEW x \in Int, NEW n \in Nat \ {0},
           Framed(b, L, x, n)
    PROVE  LET pkt == b[Slot(x)].pkt
               p   == Parts(L[pkt])
           IN  /\ Packet(b, L, x, pkt) /\ pkt \in DOMAIN L
               /\ p \in Nat \ {0} /\ p <= n
               /\ Framed(b, L, x + p, n - p)
<1> DEFINE pkt == b[Slot(x)].pkt
           p   == Parts(L[pkt])
<1>1. Packet(b, L, x, pkt) /\ p <= n
  <2>1. 0 \in 0..n - 1 /\ x + 0 = x
    OBVIOUS
  <2>2. Packet(b, L, x + 0, b[Slot(x + 0)].pkt)
        /\ 0 + Parts(L[b[Slot(x + 0)].pkt]) <= n
    BY <2>1 DEF Framed
  <2>3. Packet(b, L, x, pkt) /\ 0 + p <= n
    BY <2>1, <2>2
  <2>4. p \in Int
    <3>1. pkt \in DOMAIN L
      BY <2>3 DEF Packet
    <3> HIDE DEF pkt
    <3>2. L[pkt] \in 1..MaxLen
      BY <3>1, SeqElement, Zenon
    <3> QED BY <3>2, PacketAssumption, PartsPositive
  <2> QED BY <2>3, <2>4
<1>2. pkt \in DOMAIN L
  BY <1>1 DEF Packet
<1>3. p \in Nat \ {0}
  <2> HIDE DEF pkt
  <2>1. L[pkt] \in 1..MaxLen
    BY <1>2, SeqElement, Zenon
  <2> QED BY <2>1, PacketAssumption, PartsPositive
<1>4. ~b[Slot(x + (p - 1))].next
  <2> HIDE DEF p
  <2>1. p - 1 \in 0..p - 1 /\ ~(p - 1 < p - 1)
    BY <1>3
  <2>2. b[Slot(x + (p - 1))].next = (p - 1 < p - 1)
    BY <1>1, <2>1 DEF Packet, p
  <2> QED BY <2>1, <2>2
<1> HIDE DEF p, pkt
<1>5. Framed(b, L, x + p, n - p)
  <2> SUFFICES ASSUME NEW k \in 0..n - p - 1,
                      k = 0 \/ ~b[Slot((x + p) + (k - 1))].next
               PROVE  LET q == b[Slot((x + p) + k)].pkt
                      IN  Packet(b, L, (x + p) + k, q) /\ k + Parts(L[q]) <= n - p
    BY DEF Framed
  <2> DEFINE i == p + k
             q == b[Slot(x + i)].pkt
  <2>1. i \in 0..n - 1 /\ (x + p) + k = x + i /\ (x + p) + (k - 1) = x + (i - 1)
    BY <1>1, <1>3
  <2>2. ~b[Slot(x + (i - 1))].next
    <3>1. CASE k = 0
      BY <1>3, <1>4, <3>1
    <3>2. CASE k # 0
      BY <2>1, <3>2
    <3> QED BY <3>1, <3>2
  <2>3. Packet(b, L, x + i, q) /\ i + Parts(L[q]) <= n
    <3> HIDE DEF i
    <3> QED BY <2>1, <2>2 DEF Framed
  <2>4. Parts(L[q]) \in Nat
    <3>1. q \in DOMAIN L
      BY <2>3 DEF Packet
    <3> HIDE DEF q
    <3>2. L[q] \in 1..MaxLen
      BY <3>1, SeqElement, Zenon
    <3>3. L[q] \in Nat \ {0}
      BY <3>2, PacketAssumption
    <3>4. Parts(L[q]) \in Nat \ {0}
      BY <3>3, PartsPositive, Zenon
    <3> QED BY <3>4
  <2>5. k + Parts(L[q]) <= n - p
    BY <1>3, <2>3, <2>4
  <2> QED BY <2>1, <2>3, <2>5
<1> QED BY <1>1, <1>2, <1>3, <1>5 DEF p, pkt

-----------------------------------------------------------------------------
(* What a call has got stays whole when lengths go on.                      *)
LEMMA GotStays ==
    ASSUME NEW got, NEW L, NEW M, GotWhole(got, L), Extends(L, M)
    PROVE  GotWhole(got, M)
<1> SUFFICES ASSUME got # <<>>
             PROVE  \E pkt \in DOMAIN M :
                       /\ Len(got) = Parts(M[pkt])
                       /\ \A k \in DOMAIN got : /\ got[k].pkt = pkt
                                                /\ got[k].next = (k < Len(got))
  BY Zenon DEF GotWhole
<1>1. PICK pkt \in DOMAIN L :
                       /\ Len(got) = Parts(L[pkt])
                       /\ \A k \in DOMAIN got : /\ got[k].pkt = pkt
                                                /\ got[k].next = (k < Len(got))
  BY Zenon DEF GotWhole
<1>2. pkt \in DOMAIN M /\ M[pkt] = L[pkt]
  BY DEF Extends
<1>3. Len(got) = Parts(M[pkt])
  BY <1>1, <1>2, Zenon
<1> QED BY <1>1, <1>2, <1>3, Zenon

(* Lengths that stay go on.                                                 *)
LEMMA LengthsStay == lens' = lens => Extends(lens, lens')
BY DEF Extends

(* A step that leaves the writer and the flags alone leaves the packet that *)
(* is being written.                                                        *)
LEMMA WrittenStays ==
    ASSUME TypeOK, CursorsOrdered, BeingWritten, UNCHANGED <<w, lens>>, Front' = Front,
           \A s \in Slots : Stripped(ring'[s]) = Stripped(ring[s])
    PROVE  BeingWritten'
<1>1. Front \in Int
  BY CursorFacts, SizeFits DEF Cursors
<1>2. ASSUME NEW j \in Int
      PROVE  Alike(ring'[Slot(Front + j)], ring[Slot(Front + j)])
  <2>1. Slot(Front + j) \in Slots
    BY <1>1, SlotOfCursor
  <2> QED BY <2>1, StrippedAlike
<1>3. CASE w.pc = "write"
  <2>1. \A j \in 0..w.slot - Front - 1 : /\ ring'[Slot(Front + j)].pkt = w.todo[1]
                                         /\ ring'[Slot(Front + j)].next
    BY <1>2, <1>3 DEF BeingWritten, Alike
  <2> QED BY <1>3, <2>1 DEF BeingWritten, Slot
<1>4. CASE w.pc = "publish"
  <2>1. PICK pkt \in DOMAIN lens : /\ Packet(ring, lens, Front, pkt)
                                   /\ w.slot - Front = Parts(lens[pkt])
    BY <1>4 DEF BeingWritten
  <2>2. Extends(lens, lens')
    BY LengthsStay
  <2> DEFINE p == Parts(lens[pkt])
  <2>3. \A j \in 0..p - 1 : Alike(ring'[Slot(Front + j)], ring[Slot(Front + j)])
    BY <1>2
  <2>4. Packet(ring', lens', Front, pkt)
    BY <2>1, <2>2, <2>3, PacketStays
  <2>5. w'.pc # "write" /\ w'.slot - Front' = Parts(lens'[pkt]) /\ pkt \in DOMAIN lens'
        /\ Packet(ring', lens', Front', pkt)
    BY <1>4, <2>1, <2>4
  <2> QED BY <2>5, Zenon DEF BeingWritten
<1>5. CASE w.pc \notin {"write", "publish"}
  BY <1>5 DEF BeingWritten
<1> QED BY <1>3, <1>4, <1>5

(* A step that leaves the reader alone leaves the packet it is at.          *)
LEMMA ReadingStays ==
    ASSUME FramesInv, api = "packet", UNCHANGED <<api, r, lastRead>>,
           Extends(lens, lens'),
           Unread # 0 => Alike(ring'[Slot(lastRead)], ring[Slot(lastRead)])
    PROVE  BeingRead'
<1> DEFINE pkt == ring[Slot(lastRead)].pkt
           new == ring'[Slot(lastRead)].pkt
<1>1. IInv /\ BeingRead
  BY DEF FramesInv, QInv
<1>2. CASE r.pc = "copy"
  <2>1. Len(r.got) \in Nat /\ r.nSlots \in Nat /\ Len(r.got) + r.nSlots <= Unread
        /\ r.nSlots > 0 /\ Unread \in 0..Size
    BY <1>1, <1>2, CopyFacts DEF IInv, ReaderShape
  <2>2. Unread # 0
    BY <2>1, SizeFits
  <2>3. new = pkt
    BY <2>2 DEF Alike
  <2>4. /\ pkt \in DOMAIN lens /\ Len(r.got) < Parts(lens[pkt])
        /\ Parts(lens[pkt]) <= Len(r.got) + r.nSlots
    BY <1>1, <1>2 DEF BeingRead
  <2> HIDE DEF pkt, new
  <2>5. lens'[pkt] = lens[pkt] /\ pkt \in DOMAIN lens'
    BY <2>4 DEF Extends
  <2>6. /\ new \in DOMAIN lens' /\ Len(r.got) < Parts(lens'[new])
        /\ Parts(lens'[new]) <= Len(r.got) + r.nSlots
    BY <2>3, <2>4, <2>5, Zenon
  <2> QED BY <1>2, <2>6 DEF BeingRead, new, Slot
<1>3. CASE r.pc = "refill"
  <2>1. CASE r.got = <<>>
    BY <1>3, <2>1 DEF BeingRead
  <2>2. CASE r.got # <<>>
    <3>1. pkt \in DOMAIN lens /\ Len(r.got) = Parts(lens[pkt])
      BY <1>1, <1>3, <2>2 DEF BeingRead
    <3>2. Len(r.got) \in 0..Unread /\ r.got \in Seq(Buffer)
      BY <1>1, <1>3, GotWithin DEF Reading, IInv, TypeOK
    <3>3. Len(r.got) # 0
      BY <2>2, <3>2, EmptySeq
    <3>4. Unread # 0
      BY <3>2, <3>3
    <3>5. new = pkt
      BY <3>4 DEF Alike
    <3> HIDE DEF pkt, new
    <3>6. lens'[pkt] = lens[pkt] /\ pkt \in DOMAIN lens'
      BY <3>1 DEF Extends
    <3>7. new \in DOMAIN lens' /\ Len(r.got) = Parts(lens'[new])
      BY <3>1, <3>5, <3>6, Zenon
    <3> QED BY <1>3, <3>7 DEF BeingRead, new, Slot
  <2> QED BY <2>1, <2>2
<1>4. CASE r.pc \notin {"copy", "refill"}
  <2>1. r'.pc # "error" /\ (r'.pc \in {"idle", "post"} => GotWhole(r.got, lens))
    BY <1>1 DEF BeingRead
  <2>2. r'.pc \in {"idle", "post"} => GotWhole(r'.got, lens')
    BY <2>1, GotStays
  <2> QED BY <1>4, <2>1, <2>2 DEF BeingRead
<1> QED BY <1>2, <1>3, <1>4

(* A step that keeps what is unread keeps its packets.                      *)
LEMMA UnreadStays ==
    ASSUME FramesInv, api = "packet", lastRead' = lastRead, Unread' = Unread,
           Extends(lens, lens'),
           \A k \in 1..Unread : Stripped(ring'[Slot(lastRead + k - 1)])
                                   = Stripped(ring[Slot(lastRead + k - 1)])
    PROVE  /\ Framed(ring', lens', lastRead', Unread')
           /\ Unread # 0 => Alike(ring'[Slot(lastRead)], ring[Slot(lastRead)])
<1>1. TypeOK /\ CursorsOrdered /\ Framed(ring, lens, lastRead, Unread)
  BY DEF FramesInv, QInv, IInv
<1>2. lastRead \in Int /\ Unread \in Nat /\ lens \in Seq(1..MaxLen)
  BY <1>1, CursorFacts, SizeFits DEF TypeOK, Cursors
<1>3. ASSUME NEW k \in 0..Unread - 1
      PROVE  Alike(ring'[Slot(lastRead + k)], ring[Slot(lastRead + k)])
  <2> DEFINE m == k + 1
  <2>1. m \in 1..Unread /\ lastRead + m - 1 = lastRead + k
    BY <1>2
  <2>2. Stripped(ring'[Slot(lastRead + m - 1)]) = Stripped(ring[Slot(lastRead + m - 1)])
    BY <2>1
  <2> QED BY <2>1, <2>2, StrippedAlike
<1>4. Framed(ring', lens', lastRead, Unread)
  <2> DEFINE u == Unread
             c == ring'
             M == lens'
  <2>1. \A k \in 0..u - 1 : Alike(c[Slot(lastRead + k)], ring[Slot(lastRead + k)])
    BY <1>3
  <2>2. u \in Nat /\ Framed(ring, lens, lastRead, u) /\ Extends(lens, M)
    BY <1>1, <1>2
  <2> HIDE DEF u, c, M
  <2> QED BY <1>2, <2>1, <2>2, FramedStays DEF u, c, M
<1>5. Unread # 0 => Alike(ring'[Slot(lastRead)], ring[Slot(lastRead)])
  <2> SUFFICES ASSUME Unread # 0
               PROVE  Alike(ring'[Slot(lastRead)], ring[Slot(lastRead)])
    OBVIOUS
  <2>1. 0 \in 0..Unread - 1 /\ lastRead + 0 = lastRead
    BY <1>2
  <2> QED BY <1>3, <2>1
<1> QED BY <1>4, <1>5

(* The four parts of the invariant that a step may disturb.                 *)
FramesKept ==
    BeingWritten' /\ (api = "packet" =>
                         Framed(ring', lens', lastRead', Unread') /\ BeingRead')

(* A packet that is begun has nothing written yet.                          *)
LEMMA WriteStartFrames ==
    ASSUME FramesInv, NEW packets \in [1..1 -> 1..MaxLen], WriteStart(packets)
    PROVE  FramesKept
<1>1. TypeOK /\ CursorsOrdered /\ BeingWritten /\ w.pc = "idle"
  BY DEF FramesInv, QInv, IInv, WriteStart
<1>2. UNCHANGED <<kind, api, head, tail, ring, lastRead, r>>
  BY DEF WriteStart, config, readerVars
<1>3. Front' = Front /\ Unread' = Unread
  BY <1>2, SameCursors
<1>4. Extends(lens, lens')
  <2>1. CASE lens' = lens
    BY <2>1, LengthsStay
  <2>2. CASE lens' = lens \o packets
    <3> DEFINE S == 1..MaxLen
    <3>1. packets \in [1..1 -> S] /\ 1 \in Nat /\ lens \in Seq(S)
      BY <1>1 DEF TypeOK
    <3> HIDE DEF S
    <3>2. packets \in Seq(S) /\ Len(packets) = 1
      BY <3>1, FunctionSeq, Zenon
    <3>3. /\ lens \o packets \in Seq(S) /\ Len(lens \o packets) = Len(lens) + 1
          /\ \A i \in 1..Len(lens) + 1 :
                (lens \o packets)[i] = IF i <= Len(lens) THEN lens[i]
                                       ELSE packets[i - Len(lens)]
      BY <3>1, <3>2, ConcatProperties
    <3>4. DOMAIN lens = 1..Len(lens) /\ Len(lens) \in Nat
          /\ DOMAIN lens' = 1..Len(lens) + 1
      BY <2>2, <3>1, <3>3
    <3>5. \A p \in DOMAIN lens : lens'[p] = lens[p]
      BY <2>2, <3>3, <3>4
    <3> QED BY <3>4, <3>5 DEF Extends
  <2> QED BY <2>1, <2>2 DEF WriteStart
<1>5. BeingWritten'
  <2>1. CASE w' = w
    BY <1>1, <2>1 DEF BeingWritten
  <2>2. CASE w'.pc = "write" /\ w'.slot = Front /\ w'.n = 0
    <3>1. Front \in Int /\ PacketBufferSize \in Int
      BY <1>1, CursorFacts, SizeFits, PacketAssumption DEF Cursors
    <3>2. w'.slot - Front' = 0
      BY <1>3, <2>2, <3>1
    <3> QED BY <2>2, <3>1, <3>2 DEF BeingWritten
  <2> QED BY <2>1, <2>2 DEF WriteStart
<1>6. api = "packet" => Framed(ring', lens', lastRead', Unread') /\ BeingRead'
  BY <1>2, <1>3, <1>4, UnreadStays, ReadingStays
<1> QED BY <1>5, <1>6 DEF FramesKept

(* A buffer that is filled continues the packet, or ends it.                *)
LEMMA WriteBufferFrames ==
    ASSUME FramesInv, WriteBuffer
    PROVE  FramesKept
<1> DEFINE s   == Slot(w.slot)
           cur == w.todo[1]
           m   == w.slot - Front
<1>1. /\ LengthsInv /\ IInv /\ TypeOK /\ CursorsOrdered /\ BeingWritten
      /\ WriterShape /\ w.pc = "write"
  BY DEF FramesInv, QInv, IInv, WriteBuffer
<1>2. UNCHANGED <<kind, api, head, tail, lastRead, r, lens>>
  BY DEF WriteBuffer, config, readerVars
<1>3. Front' = Front /\ Unread' = Unread
  BY <1>2, SameCursors
<1>4. Extends(lens, lens')
  BY <1>2, LengthsStay
<1>5. /\ Front \in Int /\ w.slot \in Nat /\ m \in Nat /\ m < Size
      /\ Front + m = w.slot
  <2>1. Front \in Cursors /\ Used \in 0..Size
    BY <1>1, CursorFacts
  <2>2. w.slot \in Nat /\ w.nFree \in Nat
    BY <1>1 DEF TypeOK
  <2>3. w.slot >= Front /\ w.nFree > 0 /\ w.slot - Front + w.nFree + Used <= Size
    BY <1>1, Halves DEF WriterAhead, Writing
  <2> QED BY <2>1, <2>2, <2>3, SizeFits DEF Cursors
<1>6. /\ cur \in DOMAIN lens /\ lens[cur] \in Nat /\ w.n < lens[cur] /\ w.n \in Nat
      /\ w.n = m * PacketBufferSize /\ PacketBufferSize \in Nat
      /\ \A j \in 0..m - 1 : /\ ring[Slot(Front + j)].pkt = cur
                             /\ ring[Slot(Front + j)].next
  <2>1. cur \in DOMAIN lens /\ w.n < lens[cur] /\ w.n \in Nat
    BY <1>1 DEF WriterShape, TypeOK
  <2>2. lens[cur] \in 1..MaxLen
    BY <1>1, <2>1, SeqElement, Zenon DEF TypeOK
  <2> QED BY <1>1, <2>1, <2>2, PacketAssumption DEF BeingWritten
<1> HIDE DEF m
<1>7. ASSUME NEW j \in 0..m - 1
      PROVE  ring'[Slot(Front + j)] = ring[Slot(Front + j)]
  <2> DEFINE x == Front + j
  <2>1. x \in Int /\ x # w.slot /\ w.slot - Size < x /\ x < w.slot + Size
    BY <1>5, SizeFits
  <2> HIDE DEF x
  <2>2. ring'[Slot(x)] = ring[Slot(x)]
    BY <1>1, <2>1, OthersUnfilled
  <2> QED BY <2>2 DEF x
<1>8. ASSUME w'.pc = "idle"
      PROVE  BeingWritten'
  <2>1. w'.pc # "write" /\ w'.pc # "publish"
    BY <1>8
  <2> QED BY <2>1, Zenon DEF BeingWritten
<1>9. ASSUME /\ ring'[s].pkt = cur /\ ring'[s].next
           /\ w'.pc = "write" /\ w'.slot = w.slot + 1
           /\ w'.n = w.n + PacketBufferSize /\ w'.todo = w.todo
      PROVE  BeingWritten'
  <2>1. w'.slot - Front' = m + 1
    BY <1>3, <1>5, <1>9
  <2>2. w'.n = (m + 1) * PacketBufferSize
    BY <1>5, <1>6, <1>9
  <2>3. ASSUME NEW j \in 0..m
        PROVE  ring'[Slot(Front + j)].pkt = cur /\ ring'[Slot(Front + j)].next
    <3>1. CASE j = m
      <4>1. Front + j = w.slot
        BY <1>5, <3>1
      <4> QED BY <1>9, <4>1
    <3>2. CASE j # m
      <4>1. j \in 0..m - 1
        BY <1>5, <3>2
      <4> QED BY <1>6, <1>7, <4>1
    <3> QED BY <3>1, <3>2
  <2>4. \A j \in 0..w'.slot - Front' - 1 : /\ ring'[Slot(Front' + j)].pkt = w'.todo[1]
                                           /\ ring'[Slot(Front' + j)].next
    <3>1. \A j \in 0..(m + 1) - 1 : j \in 0..m
      BY <1>5
    <3> QED BY <1>3, <1>9, <2>1, <2>3, <3>1
  <2>5. w'.n = (w'.slot - Front') * PacketBufferSize
    BY <2>1, <2>2
  <2>6. w'.pc # "publish"
    BY <1>9
  <2> QED BY <2>4, <2>5, <2>6, Zenon DEF BeingWritten
<1>10. ASSUME /\ w.n + PacketBufferSize >= lens[cur]
            /\ ring'[s].pkt = cur /\ ring'[s].next = FALSE
            /\ w'.pc = "publish" /\ w'.slot = w.slot + 1
      PROVE  BeingWritten'
  <2>1. Parts(lens[cur]) = m + 1
    <3>1. m * PacketBufferSize < lens[cur]
          /\ lens[cur] <= m * PacketBufferSize + PacketBufferSize
      BY <1>6, <1>10
    <3> DEFINE n == lens[cur]
    <3> HIDE DEF n
    <3>2. n \in Nat /\ m * PacketBufferSize < n
          /\ n <= m * PacketBufferSize + PacketBufferSize
      BY <1>6, <3>1 DEF n
    <3>3. Parts(n) = m + 1
      BY <1>5, <3>2, PartsCount
    <3> QED BY <3>3 DEF n
  <2>2. ASSUME NEW j \in 0..m
        PROVE  /\ ring'[Slot(Front + j)].pkt = cur
               /\ ring'[Slot(Front + j)].next = (j < m)
    <3>1. CASE j = m
      <4>1. Front + j = w.slot /\ ~(j < m)
        BY <1>5, <3>1
      <4>2. (j < m) = FALSE
        BY <4>1
      <4>3. ring'[Slot(Front + j)].pkt = cur /\ ring'[Slot(Front + j)].next = FALSE
        BY <1>10, <4>1
      <4> QED BY <4>2, <4>3, Zenon
    <3>2. CASE j # m
      <4>1. j \in 0..m - 1 /\ j < m
        BY <1>5, <3>2
      <4>2. ring[Slot(Front + j)].next \in BOOLEAN
        <5>1. Slot(Front + j) \in Slots
          BY <1>5, SlotOfCursor
        <5> QED BY <1>1, <5>1 DEF TypeOK, Buffer
      <4> QED BY <1>6, <1>7, <4>1, <4>2
    <3> QED BY <3>1, <3>2
  <2>3. Packet(ring', lens, Front, cur)
    <3>1. \A j \in 0..(m + 1) - 1 : j \in 0..m /\ ((j < (m + 1) - 1) <=> (j < m))
      BY <1>5
    <3> QED BY <1>6, <2>1, <2>2, <3>1 DEF Packet
  <2>4. w'.slot - Front' = Parts(lens'[cur])
    BY <1>2, <1>3, <1>5, <1>10, <2>1
  <2>5. cur \in DOMAIN lens' /\ Packet(ring', lens', Front', cur)
    BY <1>2, <1>3, <1>6, <2>3
  <2>6. w'.pc # "write"
    BY <1>10
  <2> HIDE DEF cur
  <2> QED BY <2>4, <2>5, <2>6, Zenon DEF BeingWritten
<1>11. BeingWritten'
  BY <1>1, <1>8, <1>9, <1>10, Filling
<1>12. api = "packet" => Framed(ring', lens', lastRead', Unread') /\ BeingRead'
  <2>1. \A k \in 1..Unread : Stripped(ring'[Slot(lastRead + k - 1)])
                                = Stripped(ring[Slot(lastRead + k - 1)])
    BY <1>1, FillingHidden
  <2> QED BY <1>2, <1>3, <1>4, <2>1, UnreadStays, ReadingStays
<1> QED BY <1>11, <1>12 DEF FramesKept

(* A packet that is published is the last of what is unread.                *)
LEMMA WritePublishFrames ==
    ASSUME FramesInv, WritePublish
    PROVE  FramesKept
<1>1. IInv /\ TypeOK /\ CursorsOrdered /\ BeingWritten /\ w.pc = "publish"
  BY DEF FramesInv, QInv, IInv, WritePublish
<1>2. UNCHANGED <<api, ring, lastRead, r, lens>> /\ w'.pc = "idle"
  BY DEF WritePublish, config, readerVars
<1>3. BeingWritten'
  BY <1>2 DEF BeingWritten
<1>4. Unread' = Unread + (w.slot - Front)
  BY <1>1, WritePublishKeeps
<1>5. PICK pkt \in DOMAIN lens : /\ Packet(ring, lens, Front, pkt)
                                 /\ w.slot - Front = Parts(lens[pkt])
  BY <1>1 DEF BeingWritten
<1>6. /\ lastRead \in Int /\ Unread \in Nat /\ lens \in Seq(1..MaxLen)
      /\ Front \in Int
  BY <1>1, CursorFacts, SizeFits DEF TypeOK, Cursors
<1>7. Parts(lens[pkt]) \in Nat \ {0}
  <2>1. lens[pkt] \in 1..MaxLen
    BY <1>6, SeqElement, Zenon
  <2>2. lens[pkt] \in Nat \ {0}
    BY <2>1, PacketAssumption
  <2> QED BY <2>2, PartsPositive
<1>8. Extends(lens, lens')
  BY <1>2, LengthsStay
<1> DEFINE u == Unread
           x == lastRead + u
           p == Parts(lens[pkt])
<1>9. Packet(ring, lens, x, pkt)
  <2>1. ASSUME NEW j \in 0..p - 1
        PROVE  Alike(ring[Slot(x + j)], ring[Slot(Front + j)])
    <3>1. Slot(Front + j) = Slot(lastRead + Unread + j)
      BY <1>1, FrontSlot
    <3> QED BY <3>1 DEF Alike
  <2>2. Extends(lens, lens)
    BY DEF Extends
  <2> HIDE DEF x
  <2> QED BY <1>5, <2>1, <2>2, PacketStays
<1>10. ASSUME api = "packet"
       PROVE  Framed(ring', lens', lastRead', Unread') /\ BeingRead'
  <2>1. Framed(ring, lens, lastRead, u)
    BY <1>10 DEF FramesInv
  <2>2. u \in Nat /\ x = lastRead + u
    BY <1>6
  <2> HIDE DEF u, x
  <2>3. Framed(ring, lens, lastRead, u + p)
    BY <1>6, <1>7, <1>9, <2>1, <2>2, FramedPut
  <2>4. Unread' = u + p
    BY <1>4, <1>5 DEF u
  <2>5. Framed(ring', lens', lastRead', Unread')
    <3>1. ring' = ring /\ lens' = lens /\ lastRead' = lastRead
      BY <1>2
    <3> QED BY <2>3, <2>4, <3>1, Zenon
  <2>6. Alike(ring'[Slot(lastRead)], ring[Slot(lastRead)])
    BY <1>2 DEF Alike
  <2> QED BY <1>2, <1>8, <1>10, <2>5, <2>6, ReadingStays
<1> QED BY <1>3, <1>10 DEF FramesKept

(* The packet ReadPacket finds first.                                       *)
LEMMA FirstPacket ==
    ASSUME FramesInv, api = "packet", Unread # 0
    PROVE  LET pkt == ring[Slot(lastRead)].pkt
               p   == Parts(lens[pkt])
           IN  /\ Packet(ring, lens, lastRead, pkt) /\ pkt \in DOMAIN lens
               /\ p \in Nat \ {0} /\ p <= Unread
               /\ Framed(ring, lens, lastRead + p, Unread - p)
<1> DEFINE u == Unread
<1>1. TypeOK /\ CursorsOrdered /\ Framed(ring, lens, lastRead, u)
  BY DEF FramesInv, QInv, IInv
<1>2. lastRead \in Int /\ u \in Nat \ {0} /\ lens \in Seq(1..MaxLen)
  BY <1>1, CursorFacts, SizeFits DEF TypeOK, Cursors
<1>3. Framed(ring, lens, lastRead, u)
  BY <1>1
<1> HIDE DEF u
<1>4. LET pkt == ring[Slot(lastRead)].pkt
          p   == Parts(lens[pkt])
      IN  /\ Packet(ring, lens, lastRead, pkt) /\ pkt \in DOMAIN lens
          /\ p \in Nat \ {0} /\ p <= u
          /\ Framed(ring, lens, lastRead + p, u - p)
  BY <1>2, <1>3, FramedTake
<1> QED BY <1>4 DEF u

(* What a reader leaves alone until it ends its call.                       *)
LEMMA CopyingFrames ==
    ASSUME FramesInv, UNCHANGED <<kind, api, head, tail, ring, lastRead, w, lens>>,
           api = "packet" => BeingRead'
    PROVE  FramesKept
<1>1. TypeOK /\ CursorsOrdered /\ BeingWritten
  BY DEF FramesInv, QInv, IInv
<1>2. Front' = Front /\ Unread' = Unread
  BY SameCursors
<1>3. BeingWritten'
  BY <1>1, <1>2, WrittenStays
<1>4. Extends(lens, lens')
  BY LengthsStay
<1>5. api = "packet" => Framed(ring', lens', lastRead', Unread')
  BY <1>2, <1>4, UnreadStays
<1> QED BY <1>3, <1>5 DEF FramesKept

(* ReadPacket begins with nothing copied and a whole packet in front of it.  *)
LEMMA ReadStartFrames == ASSUME FramesInv, ReadStart PROVE FramesKept
<1>1. UNCHANGED <<kind, api, head, tail, ring, lastRead, w, lens>> /\ api = "packet"
  BY DEF ReadStart, config, writerVars
<1>2. BeingRead'
  <2>1. CASE Unread = 0
    <3>1. r'.pc = "refill" /\ r'.got = <<>>
      BY <2>1 DEF ReadStart
    <3> QED BY <3>1 DEF BeingRead
  <2>2. CASE Unread # 0
    <3> DEFINE cur == ring[Slot(lastRead)].pkt
    <3>1. r'.pc = "copy" /\ r'.got = <<>> /\ r'.nSlots = Unread /\ Len(r'.got) = 0
      BY <2>2 DEF ReadStart
    <3>2. cur \in DOMAIN lens /\ Parts(lens[cur]) \in Nat \ {0}
          /\ Parts(lens[cur]) <= Unread
      BY <1>1, <2>2, FirstPacket
    <3>3. Unread \in Nat
      BY CursorFacts, SizeFits DEF FramesInv, QInv, IInv
    <3>4. Len(r'.got) < Parts(lens[cur]) /\ Parts(lens[cur]) <= Len(r'.got) + r'.nSlots
      <4> DEFINE p == Parts(lens[cur])
      <4>1. p \in Nat \ {0} /\ p <= Unread
        BY <3>2
      <4> HIDE DEF p
      <4>2. 0 < p /\ p <= 0 + Unread
        BY <3>3, <4>1
      <4> QED BY <3>1, <4>2 DEF p
    <3>5. ring'[Slot(lastRead')].pkt = cur /\ lens' = lens
      BY <1>1
    <3> HIDE DEF cur
    <3> QED BY <3>1, <3>2, <3>4, <3>5 DEF BeingRead, Slot
  <2> QED BY <2>1, <2>2
<1> QED BY <1>1, <1>2, CopyingFrames

(* A buffer goes on exactly until the last of its packet, so a chain never  *)
(* ends in the middle.                                                      *)
LEMMA ReadBufferFrames == ASSUME FramesInv, ReadBuffer PROVE FramesKept
<1> DEFINE cur == ring[Slot(lastRead)].pkt
           p   == Parts(lens[cur])
           m   == Len(r.got)
           b   == ring[Slot(r.slot)]
<1>1. UNCHANGED <<kind, api, head, tail, ring, lastRead, w, lens>> /\ api = "packet"
      /\ r.pc = "copy"
  BY DEF ReadBuffer, config, writerVars
<1>2. IInv /\ ReaderShape /\ BeingRead
  BY <1>1 DEF FramesInv, QInv, IInv
<1>3. /\ r.nSlots \in Nat /\ r.nSlots > 0 /\ r.got \in Seq(Buffer) /\ m \in Nat
      /\ r.slot = lastRead + m /\ m + r.nSlots <= Unread /\ Unread \in 0..Size
      /\ Len(Append(r.got, b)) = m + 1
  BY <1>1, <1>2, CopyFacts DEF ReaderShape
<1>4. cur \in DOMAIN lens /\ m < p /\ p <= m + r.nSlots
  BY <1>1, <1>2 DEF BeingRead
<1>5. Unread # 0
  BY <1>3, SizeFits
<1>6. Packet(ring, lens, lastRead, cur) /\ p \in Nat
  BY <1>1, <1>5, FirstPacket
<1>7. b.next = (m < p - 1)
  <2>1. m \in 0..p - 1
    BY <1>3, <1>4, <1>6
  <2>2. ring[Slot(lastRead + m)].next = (m < p - 1)
    BY <1>6, <2>1 DEF Packet
  <2> QED BY <1>3, <2>2
<1>8. /\ r'.got = Append(r.got, b) /\ r'.nSlots = r.nSlots - 1
      /\ r'.pc = IF ~b.next THEN "refill" ELSE IF r.nSlots = 1 THEN "error" ELSE "copy"
  <2>1. r \in [pc : {"copy", "refill", "error"}, slot : Nat, nSlots : Nat,
               got : Seq(Buffer)]
    BY <1>1, <1>2 DEF ReaderShape
  <2> QED BY <1>1, <2>1 DEF ReadBuffer
<1>9. Len(r'.got) = m + 1
  BY <1>3, <1>8
<1> HIDE DEF b, m, p
<1>10. \/ /\ r'.pc = "refill" /\ Len(r'.got) = p
       \/ /\ r'.pc = "copy" /\ Len(r'.got) < p /\ p <= Len(r'.got) + r'.nSlots
  <2>1. CASE m < p - 1
    <3>1. b.next
      BY <1>7, <2>1
    <3>2. r.nSlots # 1
      BY <1>3, <1>4, <1>6, <2>1
    <3>3. r'.pc = "copy"
      BY <1>8, <3>1, <3>2
    <3>4. m + 1 < p /\ p <= (m + 1) + (r.nSlots - 1)
      BY <1>3, <1>4, <1>6, <2>1
    <3>5. Len(r'.got) < p /\ p <= Len(r'.got) + r'.nSlots
      BY <1>8, <1>9, <3>4
    <3> QED BY <3>3, <3>5
  <2>2. CASE ~(m < p - 1)
    <3>1. ~b.next
      BY <1>7, <2>2
    <3>2. r'.pc = "refill"
      BY <1>8, <3>1
    <3>3. m + 1 = p
      BY <1>3, <1>4, <1>6, <2>2
    <3> QED BY <1>9, <3>2, <3>3
  <2> QED BY <2>1, <2>2
<1>11. BeingRead'
  <2>1. ring'[Slot(lastRead')].pkt = cur /\ lens' = lens
    BY <1>1
  <2> HIDE DEF cur
  <2> QED BY <1>4, <1>10, <2>1 DEF BeingRead, Slot, p
<1> QED BY <1>1, <1>11, CopyingFrames

(* Setting lengths changes neither packets nor where they end.              *)
LEMMA RefillStrips ==
    ASSUME FramesInv,
           \/ ReadRefill \/ BurstEnd \/ PostHead
           \/ \E count \in {0, Len(r.got)} : Refill(count)
    PROVE  \A s \in Slots : Stripped(ring'[s]) = Stripped(ring[s])
<1>1. IInv /\ TypeOK /\ CursorsOrdered
  BY DEF FramesInv, QInv, IInv
<1>2. CASE ring' = ring
  BY <1>2
<1>3. CASE \E last \in {0, lastRead, r.slot} :
              last \in Int /\ ring' = WithLengths(head, Postable(last))
  <2>1. PICK last \in {0, lastRead, r.slot} :
               last \in Int /\ ring' = WithLengths(head, Postable(last))
    BY <1>3
  <2>2. head \in Int
    BY <1>1, SizeFits DEF TypeOK, Cursors
  <2>3. Postable(last) \in Int
    BY <2>1, <2>2, SizeFits DEF Postable
  <2> QED BY <1>1, <2>1, <2>2, <2>3, LengthsOnly
<1>4. 0 \in Int /\ lastRead \in Int
  BY <1>1, SizeFits DEF TypeOK, Cursors
<1>5. ReadRefill => r.slot \in Int
  <2> SUFFICES ASSUME ReadRefill PROVE r.slot \in Int
    OBVIOUS
  <2>1. r.pc = "refill" /\ api = "packet"
    BY DEF ReadRefill
  <2>2. r.slot = lastRead + Len(r.got) /\ Len(r.got) \in Nat
    BY <1>1, <2>1, GotWithin DEF Reading
  <2> QED BY <1>4, <2>2
<1>6. ring' = ring \/ \E last \in {0, lastRead, r.slot} :
                         last \in Int /\ ring' = WithLengths(head, Postable(last))
  <2>1. CASE ReadRefill
    BY <1>5, <2>1 DEF ReadRefill
  <2>2. CASE BurstEnd \/ PostHead
    BY <2>2 DEF BurstEnd, PostHead
  <2>3. CASE \E count \in {0, Len(r.got)} : Refill(count)
    BY <1>4, <2>3 DEF Refill
  <2> QED BY <2>1, <2>2, <2>3
<1> QED BY <1>2, <1>3, <1>6

(* What ReadPacket takes is a packet, and packets are left.                 *)
LEMMA ReadRefillFrames == ASSUME FramesInv, ReadRefill PROVE FramesKept
<1> DEFINE n   == Len(r.got)
           cur == ring[Slot(lastRead)].pkt
           p   == Parts(lens[cur])
<1>1. /\ IInv /\ TypeOK /\ CursorsOrdered /\ GotFresh /\ BeingWritten /\ BeingRead
      /\ api = "packet" /\ r.pc = "refill" /\ Reading
      /\ Framed(ring, lens, lastRead, Unread)
  BY DEF FramesInv, QInv, IInv, ReadRefill, Reading
<1>2. UNCHANGED <<kind, api, w, lens>> /\ r'.pc \in {"idle", "post"} /\ r'.got = r.got
      /\ lastRead' = r.slot % SeqMod
  BY DEF ReadRefill, config, writerVars
<1>3. n \in 0..Unread /\ Unread' = Unread - n /\ Front' = Front
  BY <1>1, ReadRefillKeeps
<1>4. \A s \in Slots : Stripped(ring'[s]) = Stripped(ring[s])
  BY RefillStrips
<1>5. BeingWritten'
  BY <1>1, <1>2, <1>3, <1>4, WrittenStays
<1>6. /\ lastRead \in Int /\ Unread \in Nat /\ lens \in Seq(1..MaxLen)
      /\ r.got \in Seq(Buffer) /\ DOMAIN r.got = 1..n /\ n \in Nat
      /\ r.slot = lastRead + n
  BY <1>1, CursorFacts, SizeFits, GotWithin DEF TypeOK, Cursors
<1>7. Framed(ring, lens, lastRead + n, Unread - n) /\ GotWhole(r.got, lens)
  <2>1. CASE r.got = <<>>
    <3>1. lastRead + n = lastRead /\ Unread - n = Unread
      BY <1>6, <2>1
    <3> QED BY <1>1, <2>1, <3>1 DEF GotWhole
  <2>2. CASE r.got # <<>>
    <3>1. n # 0
      BY <1>6, <2>2, EmptySeq
    <3>2. cur \in DOMAIN lens /\ n = p
      BY <1>1, <2>2 DEF BeingRead
    <3>3. Unread # 0
      BY <1>3, <1>6, <3>1
    <3>4. Packet(ring, lens, lastRead, cur)
          /\ Framed(ring, lens, lastRead + p, Unread - p)
      BY <1>1, <3>3, FirstPacket
    <3>5. ASSUME NEW k \in DOMAIN r.got
          PROVE  r.got[k].pkt = cur /\ r.got[k].next = (k < n)
      <4> DEFINE j == k - 1
      <4> HIDE DEF n, p
      <4>1. k \in 1..n /\ j \in 0..p - 1 /\ lastRead + k - 1 = lastRead + j
            /\ ((j < p - 1) = (k < n))
        BY <1>6, <3>2
      <4>2. Stripped(r.got[k]) = Stripped(ring[Slot(lastRead + j)])
        BY <1>1, <4>1 DEF GotFresh, n
      <4>3. Alike(r.got[k], ring[Slot(lastRead + j)])
        BY <4>2, StrippedAlike
      <4>4. /\ ring[Slot(lastRead + j)].pkt = cur
            /\ ring[Slot(lastRead + j)].next = (j < p - 1)
        BY <3>4, <4>1 DEF Packet, p
      <4> HIDE DEF j
      <4> QED BY <4>1, <4>3, <4>4, Zenon DEF Alike
    <3>6. GotWhole(r.got, lens)
      <4> HIDE DEF cur
      <4> QED BY <3>2, <3>5, Zenon DEF GotWhole, n, p
    <3> QED BY <3>2, <3>4, <3>6
  <2> QED BY <2>1, <2>2
<1>8. ASSUME NEW k \in Int
      PROVE  Alike(ring'[Slot(lastRead' + k)], ring[Slot((lastRead + n) + k)])
  <2> DEFINE x == lastRead + n
  <2>1. x \in Int /\ lastRead' = x % SeqMod
    BY <1>2, <1>6
  <2> HIDE DEF x
  <2>2. Slot(lastRead' + k) = Slot(x + k) /\ Slot(x + k) \in Slots
    <3>1. Slot((x % SeqMod) + k) = Slot(x + k)
      BY <2>1, SlotShift
    <3>2. x + k \in Int
      BY <2>1
    <3> QED BY <2>1, <3>1, <3>2, SlotOfCursor
  <2>3. Stripped(ring'[Slot(x + k)]) = Stripped(ring[Slot(x + k)])
    BY <1>4, <2>2
  <2>4. Alike(ring'[Slot(x + k)], ring[Slot(x + k)])
    BY <2>3, StrippedAlike
  <2>5. Alike(ring'[Slot(lastRead' + k)], ring[Slot(x + k)])
    BY <2>2, <2>4
  <2> QED BY <2>5 DEF x
<1>9. Extends(lens, lens')
  BY <1>2, LengthsStay
<1>10. Framed(ring', lens', lastRead', Unread')
  <2> DEFINE x == lastRead + n
             y == lastRead'
             u == Unread - n
             c == ring'
             M == lens'
  <2>1. x \in Int /\ y \in Int /\ u \in Nat
    BY <1>1, <1>2, <1>3, <1>6, SizeFits
  <2>2. \A k \in 0..u - 1 : Alike(c[Slot(y + k)], ring[Slot(x + k)])
    BY <1>8
  <2>3. Framed(ring, lens, x, u) /\ Extends(lens, M)
    BY <1>7, <1>9
  <2> HIDE DEF x, y, u, c, M
  <2>4. Framed(c, M, y, u)
    BY <1>6, <2>1, <2>2, <2>3, FramedStays
  <2> QED BY <1>3, <2>4 DEF u, c, M, y
<1>11. BeingRead'
  <2>1. GotWhole(r'.got, lens')
    BY <1>2, <1>7
  <2>2. r'.pc # "error" /\ r'.pc # "copy" /\ r'.pc # "refill"
    BY <1>2
  <2> QED BY <2>1, <2>2 DEF BeingRead
<1> QED BY <1>5, <1>10, <1>11 DEF FramesKept

(* The other steps of a reader take nothing from a row of packets.          *)
LEMMA GivingBackFrames ==
    ASSUME FramesInv,
           \/ PostHead \/ BurstEnd \/ \E count \in {0, Len(r.got)} : Refill(count)
    PROVE  FramesKept
<1>1. /\ IInv /\ TypeOK /\ CursorsOrdered /\ BeingWritten
      /\ api = "packet" => BeingRead
  BY DEF FramesInv, QInv, IInv
<1>2. UNCHANGED <<kind, api, w, lens>>
  BY DEF PostHead, BurstEnd, Refill, config, writerVars
<1>3. \A s \in Slots : Stripped(ring'[s]) = Stripped(ring[s])
  BY RefillStrips
<1>4. Front' = Front
  <2>1. CASE PostHead
    <3>1. kind = "M2S" /\ tail' = tail
      BY <1>1, <2>1 DEF PostHead, CursorsOrdered
    <3> QED BY <1>2, <3>1 DEF Front
  <2>2. CASE \E count \in {0, Len(r.got)} : Refill(count)
    <3>1. head' = head /\ (kind # "S2M" => tail' = tail)
      BY <2>2 DEF Refill
    <3> QED BY <1>2, <3>1 DEF Front
  <2>3. CASE BurstEnd
    BY <1>1, <2>3, BurstEndKeeps
  <2> QED BY <2>1, <2>2, <2>3
<1>5. BeingWritten'
  BY <1>1, <1>2, <1>3, <1>4, WrittenStays
<1>6. ASSUME api = "packet"
      PROVE  Framed(ring', lens', lastRead', Unread') /\ BeingRead'
  <2>1. PostHead
    BY <1>6 DEF BurstEnd, Refill
  <2>2. UNCHANGED <<ring, lastRead>> /\ r'.pc = "idle" /\ r'.got = r.got
        /\ r.pc = "post"
    BY <2>1 DEF PostHead
  <2>3. Unread' = Unread
    BY <1>4, <2>2 DEF Unread, Dist
  <2>4. Framed(ring', lens', lastRead', Unread')
    BY <1>2, <1>6, <2>2, <2>3, LengthsStay, UnreadStays
  <2>5. GotWhole(r.got, lens)
    BY <1>1, <1>6, <2>2 DEF BeingRead
  <2>6. GotWhole(r'.got, lens')
    BY <1>2, <2>2, <2>5
  <2>7. r'.pc # "error" /\ r'.pc # "copy" /\ r'.pc # "refill"
    BY <2>2
  <2> QED BY <2>4, <2>6, <2>7 DEF BeingRead
<1> QED BY <1>5, <1>6 DEF FramesKept

(* Every step keeps the packets whole.                                      *)
LEMMA FramesStep == ASSUME TxBurst = 1, FramesInv, [Next]_vars PROVE FramesKept
<1>1. CASE Writer
  <2>1. ASSUME NEW n \in 1..TxBurst, NEW packets \in [1..n -> 1..MaxLen],
               WriteStart(packets)
        PROVE  FramesKept
    <3>1. n = 1
      OBVIOUS
    <3>2. packets \in [1..1 -> 1..MaxLen]
      BY <3>1
    <3> QED BY <2>1, <3>2, WriteStartFrames
  <2> QED BY <1>1, <2>1, WriteBufferFrames, WritePublishFrames DEF Writer
<1>2. CASE BurstStart \/ BurstBuffer
  <2>1. UNCHANGED <<kind, api, head, tail, ring, lastRead, w, lens>> /\ api # "packet"
    BY <1>2 DEF BurstStart, BurstBuffer, config, writerVars
  <2> QED BY <2>1, CopyingFrames
<1>3. CASE Reader
  BY <1>2, <1>3, ReadStartFrames, ReadBufferFrames, ReadRefillFrames, GivingBackFrames
     DEF Reader
<1>4. CASE UNCHANGED vars
  <2>1. UNCHANGED <<kind, api, head, tail, ring, lastRead, w, lens, r>>
    BY <1>4 DEF vars
  <2>2. api = "packet" => BeingRead'
    BY <2>1 DEF FramesInv, BeingRead, GotWhole, Parts, Slot
  <2> QED BY <2>1, <2>2, CopyingFrames
<1> QED BY <1>1, <1>3, <1>4 DEF Next

(* The invariant is inductive.                                              *)
LEMMA FramesInvKept ==
    ASSUME TxBurst = 1, PacketBufferSize < LenMod, FramesInv, [Next]_vars
    PROVE  FramesInv'
<1>1. QInv' /\ LengthsInv'
  BY StepQueues, LengthsKept DEF FramesInv
<1>2. FramesKept
  BY FramesStep
<1>3. api' = api
  BY DEF Next, Writer, Reader, WriteStart, WriteBuffer, WritePublish, ReadStart,
         ReadBuffer, ReadRefill, PostHead, BurstStart, BurstBuffer, BurstEnd, Refill,
         config, vars
<1> QED BY <1>1, <1>2, <1>3 DEF FramesInv, FramesKept

(* Nothing is written, copied or unread.                                    *)
LEMMA InitFrames == Init => FramesInv
<1> SUFFICES ASSUME Init PROVE FramesInv
  OBVIOUS
<1>1. QInv /\ LengthsInv /\ IInv
  BY InitQueues, InitLengths DEF QInv
<1>2. w.pc = "idle" /\ r.got = <<>> /\ r.pc \in {"idle", "refill"}
  BY DEF Init
<1>3. BeingWritten
  BY <1>2 DEF BeingWritten
<1>4. BeingRead
  BY <1>2 DEF BeingRead, GotWhole
<1>5. Unread = 0
  <2>1. Front = 0 /\ lastRead = 0
    BY DEF Init, Front
  <2>2. 0 \in Cursors
    BY SizeFits DEF Cursors
  <2> QED BY <2>1, <2>2, Distance DEF Unread
<1>6. Framed(ring, lens, lastRead, Unread)
  <2>1. 0..Unread - 1 = {}
    BY <1>5
  <2> QED BY <2>1 DEF Framed
<1> QED BY <1>1, <1>3, <1>4, <1>6 DEF FramesInv

(* ReadPacket returns the buffers of one packet, all of them and in their   *)
(* order, and never takes a packet that is still being written, or one that *)
(* crosses the end of the ring or of the 16-bit cursors, for a broken one;  *)
(* for buffers below 2^16 bytes, whose posted lengths are whole.            *)
THEOREM PacketsFramedCorrect ==
    ASSUME TxBurst = 1, PacketBufferSize < LenMod
    PROVE  Spec => []PacketsFramed
<1>1. FramesInv /\ [Next]_vars => FramesInv'
  BY FramesInvKept
<1>2. FramesInv => PacketsFramed
  <2> SUFFICES ASSUME FramesInv, api = "packet" PROVE PacketsFramed
    BY DEF PacketsFramed
  <2>1. BeingRead /\ r.got \in Seq(Buffer)
    BY DEF FramesInv, QInv, IInv, TypeOK
  <2>2. r.pc # "error"
    BY <2>1 DEF BeingRead
  <2>3. ASSUME r.pc \in {"idle", "post"}, r.got # <<>>
        PROVE  /\ \A k \in DOMAIN r.got : /\ r.got[k].pkt = r.got[1].pkt
                                          /\ r.got[k].next = (k < Len(r.got))
               /\ Len(r.got) = Parts(lens[r.got[1].pkt])
    <3>1. GotWhole(r.got, lens)
      BY <2>1, <2>3 DEF BeingRead
    <3>2. PICK cur \in DOMAIN lens :
                     /\ Len(r.got) = Parts(lens[cur])
                     /\ \A k \in DOMAIN r.got : /\ r.got[k].pkt = cur
                                                /\ r.got[k].next = (k < Len(r.got))
      BY <2>3, <3>1, Zenon DEF GotWhole
    <3>3. 1 \in DOMAIN r.got
      <4>1. Len(r.got) # 0 /\ DOMAIN r.got = 1..Len(r.got) /\ Len(r.got) \in Nat
        BY <2>1, <2>3, EmptySeq
      <4> QED BY <4>1
    <3>4. r.got[1].pkt = cur
      BY <3>2, <3>3
    <3> QED BY <3>2, <3>4, Zenon
  <2> QED BY <2>2, <2>3 DEF PacketsFramed, Parts
<1> QED BY <1>1, <1>2, InitFrames, PTL DEF Spec
=============================================================================
