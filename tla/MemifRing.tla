----------------------------- MODULE MemifRing -----------------------------
(***************************************************************************)
(* One memif ring of gomemif: the peer that writes packets and the peer    *)
(* that reads them, two processes over shared memory                       *)
(* (extras/gomemif/memif/packet_writer.go, packet_reader.go).              *)
(*                                                                         *)
(* On a ring from slave to master (S2M) the writer publishes buffers by    *)
(* moving head and the reader gives them back by moving tail.  On a ring   *)
(* from master to slave (M2S) the reader posts empty buffers by moving     *)
(* head and the writer publishes by moving tail.  Both cursors are 16-bit  *)
(* counters that wrap; a slot is a cursor masked by the size of the ring.  *)
(*                                                                         *)
(* Each descriptor is written or read in a step of its own, apart from the *)
(* steps that read and move the shared cursors.  Memory is sequentially    *)
(* consistent, as the code has no barriers and relies on its platform.     *)
(***************************************************************************)
EXTENDS Integers, Sequences, FiniteSets

CONSTANTS Size,             \* descriptors in the ring, a power of two
          SeqMod,           \* 2^16, the range of the cursors
          PacketBufferSize, \* bytes of a buffer, a uint32
          LenMod,           \* 2^16, the range setDescLength writes
          Kinds,            \* directions to look at, from {"S2M", "M2S"}
          Apis,             \* ways to read, from {"packet", "burst"}
          MaxLen,           \* bound: bytes of a packet
          MaxPackets,       \* bound: packets written
          TxBurst,          \* packets of one Tx_burst, 1 for WritePacket
          RxBurst           \* len(pkt) of Rx_burst

ASSUME RingAssumption ==
    /\ Size \in Nat \ {0} /\ SeqMod \in Nat /\ Size < SeqMod
    /\ \E turns \in 1..SeqMod : SeqMod = turns * Size
ASSUME PacketAssumption ==
    /\ PacketBufferSize \in Nat \ {0} /\ LenMod \in Nat \ {0} /\ MaxLen \in Nat \ {0}
    /\ MaxPackets \in Nat /\ TxBurst \in Nat \ {0} /\ RxBurst \in Nat \ {0}
ASSUME ChoiceAssumption == Kinds \subseteq {"S2M", "M2S"}
                           /\ Apis \subseteq {"packet", "burst"}

VARIABLES
    kind,      \* ring.ringType
    api,       \* how the reader reads: ReadPacket, or Rx_burst and Refill
    irq,       \* the ring's interrupt flag is clear: the writer interrupts
    head,      \* shared: ring head
    tail,      \* shared: ring tail
    ring,      \* shared: each slot's descriptor and buffer
    event,     \* the eventfd of the queue is readable
    lastRead,  \* the reader's lastHead (S2M) or lastTail (M2S)
    w,         \* the writer's locals
    r,         \* the reader's locals
    lens,      \* ghost: the length of each packet written so far
    published, \* ghost: buffers published
    received   \* ghost: buffers handed to the reader's program

vars == <<kind, api, irq, head, tail, ring, event, lastRead, w, r, lens,
          published, received>>
config == <<kind, api, irq>>
writerVars == <<w, lens, published>>
readerVars == <<lastRead, r, received>>

Slots   == 0..Size - 1
Cursors == 0..SeqMod - 1
Buffer  == [pkt : 0..MaxPackets, from : 0..MaxLen, next : BOOLEAN,
            len : 0..PacketBufferSize]

(* uint16(b - a), the number of slots from cursor a to cursor b.            *)
Dist(a, b) == (b - a) % SeqMod

(* Mutant of Slot: the mask is used as a modulus.                           *)
SlotModMask(c) == c % (Size - 1)

(* The slot of a cursor: slot & mask.                                       *)
Slot(c) == c % Size

(* The cursor the writer publishes.                                         *)
Front == IF kind = "S2M" THEN head ELSE tail

(* Mutant of Free: one slot too many.                                       *)
FreeOneMore == (IF kind = "S2M" THEN Size - head + tail ELSE head - tail) + 1

(* The slots the writer finds free.                                         *)
Free == (IF kind = "S2M" THEN Size - head + tail ELSE head - tail) % SeqMod

(* Mutant of Unread: no wrap.                                               *)
UnreadUnwrapped == IF Front > lastRead THEN Front - lastRead ELSE 0

(* Slots from the reader's cursor to the writer's.                          *)
Unread == Dist(lastRead, Front)

(* Slots a slave that reads may post: q.ring.size - head + q.lastTail.      *)
Postable(last) == (Size - head + last) % SeqMod

Init ==
    /\ kind \in Kinds /\ api \in Apis
    /\ irq \in (IF kind = "M2S" THEN BOOLEAN ELSE {FALSE})
    /\ head = 0 /\ tail = 0 /\ lastRead = 0
    /\ ring = [s \in Slots |-> [pkt |-> 0, from |-> 0, next |-> FALSE,
                                len |-> PacketBufferSize]]
    /\ event = FALSE
    /\ w = [pc |-> "idle"]
    /\ r = [pc |-> IF api = "burst" THEN "refill" ELSE "idle", got |-> <<>>]
    /\ lens = <<>> /\ published = 0 /\ received = <<>>

-----------------------------------------------------------------------------
(* The writer *)

Interrupt == event' = (event \/ irq)

(* WritePacket or Tx_burst up to its first look at both cursors; a full     *)
(* ring makes it return 0.                                                  *)
WriteStart(packets) ==
    /\ w.pc = "idle" /\ Len(lens) + Len(packets) <= MaxPackets
    /\ \/ /\ Free = 0
          /\ Interrupt
          /\ UNCHANGED <<w, lens>>
       \/ /\ Free # 0
          /\ w' = [pc |-> "write", slot |-> Front, nFree |-> Free, n |-> 0,
                   todo |-> [k \in DOMAIN packets |-> Len(lens) + k]]
          /\ lens' = lens \o packets
          /\ UNCHANGED event
    /\ UNCHANGED <<config, head, tail, ring, readerVars, published>>

(* copy() is given pkt[:] for every buffer of a packet, not pkt[n:].        *)
CopiedFrom(n) == 0

(* A master takes the size of a buffer from its descriptor.                 *)
BufferSize(s) == IF kind = "M2S" THEN ring[s].len ELSE PacketBufferSize

(* Mutant of Filled: descFlagNext is not set.                               *)
FilledUnchained(pkt, from, more, copied) ==
    [pkt |-> pkt, from |-> from, next |-> FALSE, len |-> copied]

(* What putDescBuf leaves in a slot.                                        *)
Filled(pkt, from, more, copied) ==
    [pkt |-> pkt, from |-> from, next |-> more, len |-> copied]

(* The next buffer of a packet is filled and its descriptor put.  When the  *)
(* packet goes on and no slot is left the call returns 0, and leaves the    *)
(* data it has written in buffers it has not published.                     *)
WriteBuffer ==
    /\ w.pc = "write"
    /\ LET s      == Slot(w.slot)
           pkt    == Head(w.todo)
           from   == CopiedFrom(w.n)
           room   == lens[pkt] - from
           copied == IF BufferSize(s) < room THEN BufferSize(s) ELSE room
           more   == w.n + copied < lens[pkt]
       IN  \/ /\ more /\ w.nFree = 1
              /\ ring' = [ring EXCEPT ![s].pkt = pkt, ![s].from = from]
              /\ w' = [pc |-> "idle"]
              /\ Interrupt
           \/ /\ ~(more /\ w.nFree = 1)
              /\ ring' = [ring EXCEPT ![s] = Filled(pkt, from, more, copied)]
              /\ w' = [w EXCEPT
                    !.slot = @ + 1,
                    !.nFree = IF more THEN @ - 1 ELSE @,
                    !.n = IF more THEN @ + copied ELSE 0,
                    !.todo = IF more THEN @ ELSE Tail(@),
                    !.pc = IF more \/ Len(w.todo) > 1 THEN @ ELSE "publish"]
              /\ UNCHANGED event
    /\ UNCHANGED <<config, head, tail, readerVars, lens, published>>

(* writeHead or writeTail, q.interrupt() and return.                        *)
WritePublish ==
    /\ w.pc = "publish"
    /\ IF kind = "S2M" THEN head' = w.slot % SeqMod /\ UNCHANGED tail
                       ELSE tail' = w.slot % SeqMod /\ UNCHANGED head
    /\ published' = published + (w.slot - Front)
    /\ w' = [pc |-> "idle"]
    /\ Interrupt
    /\ UNCHANGED <<config, ring, lens, readerVars>>

-----------------------------------------------------------------------------
(* The reader *)

(* In interrupt mode the program reads when its callback is called, which   *)
(* epoll does while the eventfd is readable; otherwise it polls.            *)
Called == irq => event

(* ReadPacket up to its first look at the writer's cursor.                  *)
ReadStart ==
    /\ api = "packet" /\ r.pc \in {"idle", "error"} /\ Called
    /\ r' = [pc |-> IF Unread = 0 THEN "refill" ELSE "copy",
             slot |-> lastRead, nSlots |-> Unread, got |-> <<>>]
    /\ UNCHANGED <<config, head, tail, ring, event, writerVars, lastRead,
                   received>>

(* Copying one buffer; the packet goes on while its descriptors say so.  A  *)
(* chain that ends in the middle is an "Incomplete chained buffer" error:   *)
(* the call returns and nothing is consumed.                                *)
ReadBuffer ==
    /\ api = "packet" /\ r.pc = "copy"
    /\ LET b == ring[Slot(r.slot)]
       IN  r' = [r EXCEPT !.slot = @ + 1, !.nSlots = @ - 1,
                          !.got = Append(@, b),
                          !.pc = IF ~b.next THEN "refill"
                                 ELSE IF r.nSlots = 1 THEN "error" ELSE @]
    /\ UNCHANGED <<config, head, tail, ring, event, writerVars, lastRead,
                   received>>

(* setDescLength: of the 32 bits of a length it writes the lower 16.        *)
LengthSet(old) == (old \div LenMod) * LenMod + (PacketBufferSize % LenMod)

(* Mutant of WithLengths: the last descriptor is left out.                  *)
WithLengthsButLast(h, count) ==
    [s \in Slots |-> IF \E j \in 0..count - 2 : Slot(h + j) = s
                     THEN [ring[s] EXCEPT !.len = LengthSet(@)]
                     ELSE ring[s]]

(* setDescLength on `count` descriptors from cursor h on.                   *)
WithLengths(h, count) ==
    [s \in Slots |-> IF \E j \in 0..count - 1 : Slot(h + j) = s
                     THEN [ring[s] EXCEPT !.len = LengthSet(@)]
                     ELSE ring[s]]

(* The refill of ReadPacket: a master gives its buffers back at once; a     *)
(* slave takes note of its position and prepares the descriptors to post.   *)
ReadRefill ==
    /\ api = "packet" /\ r.pc = "refill"
    /\ lastRead' = r.slot % SeqMod
    /\ received' = received \o r.got
    /\ IF kind = "S2M"
       THEN /\ tail' = r.slot % SeqMod
            /\ r' = [pc |-> "idle", got |-> r.got]
            /\ UNCHANGED ring
       ELSE /\ ring' = WithLengths(head, Postable(r.slot))
            /\ r' = [pc |-> "post", got |-> r.got,
                     slot |-> head + Postable(r.slot)]
            /\ UNCHANGED tail
    /\ UNCHANGED <<config, head, event, writerVars>>

(* writeHead by a slave, at the end of ReadPacket and of Refill.            *)
PostHead ==
    /\ r.pc = "post"
    /\ head' = r.slot % SeqMod
    /\ r' = [pc |-> "idle", got |-> r.got]
    /\ UNCHANGED <<config, tail, ring, event, writerVars, lastRead, received>>

ClearEvent == event' = FALSE

(* Rx_burst up to its first look at the writer's cursor: when the whole     *)
(* backlog fits, the eventfd is read at the end, and at once when nothing   *)
(* is there.                                                                *)
BurstStart ==
    /\ api = "burst" /\ r.pc = "idle" /\ Called
    /\ \/ /\ Unread = 0
          /\ ClearEvent
          /\ r' = [pc |-> "idle", got |-> <<>>]
       \/ /\ Unread > 0
          /\ r' = [pc |-> "copy", slot |-> lastRead, got |-> <<>>,
                   nSlots |-> IF Unread > RxBurst THEN RxBurst ELSE Unread,
                   clear |-> Unread <= RxBurst]
          /\ UNCHANGED event
    /\ UNCHANGED <<config, head, tail, ring, writerVars, lastRead, received>>

(* Each descriptor counts as a packet, whatever its flags.                  *)
BurstBuffer ==
    /\ api = "burst" /\ r.pc = "copy" /\ r.nSlots > 0
    /\ r' = [r EXCEPT !.slot = @ + 1, !.nSlots = @ - 1,
                      !.got = Append(@, ring[Slot(r.slot)])]
    /\ UNCHANGED <<config, head, tail, ring, event, writerVars, lastRead,
                   received>>

BurstEnd ==
    /\ api = "burst" /\ r.pc = "copy" /\ r.nSlots = 0
    /\ lastRead' = (lastRead + Len(r.got)) % SeqMod
    /\ received' = received \o r.got
    /\ IF r.clear THEN ClearEvent ELSE UNCHANGED event
    /\ r' = [pc |-> "refill", got |-> r.got]
    /\ UNCHANGED <<config, head, tail, ring, writerVars>>

(* Refill(count), which a program that uses Rx_burst calls when connected   *)
(* and after each burst.  A master moves tail by count and not past its own *)
(* position, and goes on to set the lengths of descriptors as a slave does, *)
(* from its lastTail, which stays 0.  A slave ignores the count.            *)
Refill(count) ==
    /\ api = "burst" /\ r.pc = "refill"
    /\ IF kind = "S2M"
       THEN /\ tail' = IF tail + count <= lastRead THEN tail + count
                                                   ELSE lastRead
            /\ ring' = WithLengths(head, Postable(0))
            /\ r' = [pc |-> "idle", got |-> r.got]
       ELSE /\ ring' = WithLengths(head, Postable(lastRead))
            /\ r' = [pc |-> "post", got |-> r.got,
                     slot |-> head + Postable(lastRead)]
            /\ UNCHANGED tail
    /\ UNCHANGED <<config, head, event, writerVars, lastRead, received>>

-----------------------------------------------------------------------------
Writer == \/ \E n \in 1..TxBurst : \E packets \in [1..n -> 1..MaxLen] :
                WriteStart(packets)
          \/ WriteBuffer \/ WritePublish

Reader == \/ ReadStart \/ ReadBuffer \/ ReadRefill \/ PostHead
          \/ BurstStart \/ BurstBuffer \/ BurstEnd
          \/ \E count \in {0, Len(r.got)} : Refill(count)

Next == Writer \/ Reader

Spec == Init /\ [][Next]_vars

(* The reader's program goes on reading; nothing is asked of the writer.    *)
FairSpec == Spec /\ WF_vars(Reader)

-----------------------------------------------------------------------------
(* Properties *)

Writing == w.pc # "idle"

TypeOK ==
    /\ kind \in {"S2M", "M2S"} /\ api \in {"packet", "burst"}
    /\ irq \in BOOLEAN /\ event \in BOOLEAN
    /\ head \in Cursors /\ tail \in Cursors /\ lastRead \in Cursors
    /\ ring \in [Slots -> Buffer]
    /\ lens \in Seq(1..MaxLen) /\ Len(lens) <= MaxPackets
    /\ published \in Nat /\ received \in Seq(Buffer)
    /\ \/ w = [pc |-> "idle"]
       \/ w \in [pc : {"write", "publish"}, slot : Nat, nFree : Nat, n : Nat,
                 todo : Seq(1..MaxPackets)]
    /\ r.pc \in {"idle", "copy", "refill", "post", "error"}
    /\ r.got \in Seq(Buffer)

(* The cursor up to which the reader has given slots back.                  *)
Freed == IF kind = "S2M" THEN tail ELSE (head - Size) % SeqMod

(* The cursors follow each other around the ring and never lap: given back, *)
(* read, published, being written, at most Size slots in all, and each      *)
(* peer's snapshot of the other's cursor errs on the safe side.             *)
CursorsOrdered ==
    LET used == Dist(Freed, lastRead) + Unread
    IN  /\ used <= Size
        /\ Writing => w.slot >= Front /\ w.slot - Front + used <= Size
        /\ w.pc = "write" => /\ w.nFree > 0
                             /\ w.slot - Front + w.nFree + used <= Size
        /\ r.pc \in {"copy", "refill"} /\ api = "packet" =>
              r.slot = lastRead + Len(r.got) /\ Len(r.got) <= Unread
        /\ r.pc = "copy" => /\ r.slot = lastRead + Len(r.got)
                            /\ Len(r.got) + r.nSlots <= Unread
        /\ r.pc = "post" => /\ kind = "M2S"
                            /\ r.slot - head = Dist(Freed, lastRead)

RingInvariant == TypeOK /\ CursorsOrdered

Stripped(b) == [pkt |-> b.pkt, from |-> b.from, next |-> b.next]

(* What is between the reader's position and the writer's cursor, oldest    *)
(* first: the content of the abstract queue.                                *)
Contents == [k \in 1..Unread |-> Stripped(ring[Slot(lastRead + k - 1)])]

(* The ring implements a FIFO queue of Size buffers: what has been          *)
(* published is never overwritten before it is read, and is read once and   *)
(* in order, across the wrap of the cursors and with both peers active.     *)
(* Lengths are left to the next property.                                   *)
Queue == INSTANCE PacketQueue WITH
            Buffers  <- [pkt : 0..MaxPackets, from : 0..MaxLen, next : BOOLEAN],
            Capacity <- Size,
            queue    <- Contents,
            taken    <- [k \in DOMAIN received |-> Stripped(received[k])]
ImplementsQueue == Queue!Spec

(* A master fills a buffer up to the length in its descriptor, where the    *)
(* length of an earlier packet would cut it short: every buffer a slave has *)
(* posted, and the writer not yet filled, has its full length.              *)
PostedBuffersWhole ==
    kind = "M2S" =>
        LET first == IF Writing THEN w.slot ELSE tail
        IN  \A k \in 0..Dist(first % SeqMod, head) - 1 :
               ring[Slot(first + k)].len = PacketBufferSize

(* ReadPacket returns the buffers of one packet, all of them, and never     *)
(* takes a packet that is still being written for a broken one.             *)
PacketsFramed ==
    api = "packet" =>
        /\ r.pc # "error"
        /\ r.pc \in {"idle", "post"} /\ r.got # <<>> =>
              /\ \A k \in DOMAIN r.got : /\ r.got[k].pkt = r.got[1].pkt
                                         /\ r.got[k].next = (k < Len(r.got))
              /\ Len(r.got) = (lens[r.got[1].pkt] + PacketBufferSize - 1)
                                 \div PacketBufferSize

(* A polling reader, and one in interrupt mode that uses ReadPacket, gets   *)
(* everything that was published.  Rx_burst in interrupt mode is excepted:  *)
(* it clears the eventfd after its look at the cursor, and what is          *)
(* published in between waits for the next interrupt.                       *)
EventuallyRead ==
    \A k \in 1..2 * MaxPackets :
        (api = "packet" \/ ~irq) /\ published >= k ~> Len(received) >= k
=============================================================================
