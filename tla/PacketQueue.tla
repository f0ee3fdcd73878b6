---------------------------- MODULE PacketQueue ----------------------------
(***************************************************************************)
(* What a memif ring promises its two peers: a FIFO queue of at most       *)
(* Capacity buffers.  A packet enters with all of its buffers at once, and *)
(* buffers leave from the front, each of them once, as they were put in.   *)
(***************************************************************************)
EXTENDS Naturals, Sequences

CONSTANTS Buffers,   \* contents a buffer may have
          Capacity   \* buffers in the queue

VARIABLES queue,     \* put and not yet taken
          taken      \* everything taken so far

Init == queue = <<>> /\ taken = <<>>

(* n buffers of any content enter behind the others.                        *)
Put(n) == /\ Len(queue) + n <= Capacity
          /\ queue' \in Seq(Buffers) /\ Len(queue') = Len(queue) + n
          /\ SubSeq(queue', 1, Len(queue)) = queue
          /\ UNCHANGED taken

Take(n) == /\ taken' = taken \o SubSeq(queue, 1, n)
           /\ queue' = SubSeq(queue, n + 1, Len(queue))

Next == \/ \E n \in 1..Capacity : Put(n)
        \/ \E n \in 1..Len(queue) : Take(n)

Spec == Init /\ [][Next]_<<queue, taken>>
=============================================================================
