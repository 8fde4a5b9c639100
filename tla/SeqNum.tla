------------------------------- MODULE SeqNum -------------------------------
(***************************************************************************)
(* Sequence numbers of PABotBase.  The client counts messages with a       *)
(* 64-bit number that never wraps; the wire carries that number modulo     *)
(* SeqnumModulus (2^32 in the code).  A message that comes back names only *)
(* the wire number, and the client finds the full one again from the keys  *)
(* of the map it is looking into.                                          *)
(***************************************************************************)
EXTENDS Integers, FiniteSetsExt

CONSTANTS
    SeqnumModulus,      \* 2^32: the number of values of seqnum_t
    MAX_SEQNUM_GAP      \* how far the next number may be ahead of the oldest live one

\* The code takes the gap as a quarter of the range.  All the arithmetic
\* needs is that a window of MAX_SEQNUM_GAP + 1 numbers does not wrap.
ASSUME SeqNumAssumption ==
    /\ SeqnumModulus \in Nat \ {0}
    /\ MAX_SEQNUM_GAP \in Nat
    /\ MAX_SEQNUM_GAP < SeqnumModulus

\* (seqnum_t)seqnum
Wire(seqnum) == seqnum % SeqnumModulus

\* seqnum & 0xffffffff00000000
Epoch(seqnum) == seqnum - (seqnum % SeqnumModulus)

\* Mutant: the upper half is always taken from the oldest key.
InferFromOldestOnly(keys, q) == Epoch(Min(keys)) + q

\* Mutant: a number below the oldest key is taken for the oldest key itself.
InferClamped(keys, q) ==
    IF Epoch(Min(keys)) + q >= Min(keys) THEN Epoch(Min(keys)) + q
    ELSE IF Epoch(Max(keys)) + q \in keys THEN Epoch(Max(keys)) + q ELSE Min(keys)

\* The full number that the wire number q stands for, given the keys of a
\* map that is not empty.
InferFullSeqnum(keys, q) ==
    LET lo == Min(keys)
        hi == Max(keys)
    IN  IF Epoch(lo) + q >= lo THEN Epoch(lo) + q ELSE Epoch(hi) + q
=============================================================================
