-------------------------- MODULE RequestContext --------------------------
(***************************************************************************)
(* The 32-bit context that core/request_handler.go puts in every binary    *)
(* API message, and the cyclic order on sequence numbers.                  *)
(*                                                                         *)
(*   +------------------+-------------------+-----------------------+      *)
(*   | 15b = channel ID | 1b = is multipart | 16b = sequence number |      *)
(*   +------------------+-------------------+-----------------------+      *)
(*                                                                         *)
(* The widths are parameters: SeqMod stands for 2^16 and IdMod for 2^15.   *)
(* The arithmetic keeps them: the context is a number modulo               *)
(* 2 * SeqMod * IdMod (uint32), a sequence number a number modulo SeqMod.  *)
(***************************************************************************)
EXTENDS Integers

CONSTANTS SeqMod,   \* number of sequence numbers (2^16 in the code)
          IdMod     \* number of channel IDs that fit in the context (2^15)

ASSUME SeqModAssumption == SeqMod \in Nat /\ SeqMod > 0 /\ SeqMod % 2 = 0
ASSUME IdModAssumption == IdMod \in Nat \ {0}

SeqNum == 0 .. SeqMod - 1
ContextNum == 0 .. 2 * SeqMod * IdMod - 1

-----------------------------------------------------------------------------

(* uint32(chanID) << 17 keeps only the bits that fit in 32: a channel ID    *)
(* beyond IdMod loses its high bits.                                        *)
packRequestContext(chanID, isMultipart, seqNum) ==
    (chanID % IdMod) * (2 * SeqMod)
        + (IF isMultipart THEN SeqMod ELSE 0)
        + seqNum

unpackRequestContext(context) ==
    [chanID      |-> context \div (2 * SeqMod),
     isMultipart |-> (context \div SeqMod) % 2 # 0,
     seqNum      |-> context % SeqMod]

-----------------------------------------------------------------------------

(* The distance from s1 forward to s2, computed in unsigned arithmetic as   *)
(* the code does, without ever overflowing.                                 *)
Distance(s1, s2) ==
    IF s1 <= s2 THEN s2 - s1 ELSE (SeqMod - 1) - (s1 - s2 - 1)

(* -1, 0, 1 when s1 precedes, equals or succeeds s2 in the cyclic order.    *)
compareSeqNumbers(s1, s2) ==
    IF Distance(s1, s2) = 0 THEN 0
    ELSE IF Distance(s1, s2) <= SeqMod \div 2 THEN -1
    ELSE 1

nextSeqNum(s) == (s + 1) % SeqMod
=============================================================================
