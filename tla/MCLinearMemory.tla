--------------------------- MODULE MCLinearMemory ---------------------------
(* LinearMemory with pages of 8 bytes, at most 8 of them: an i32 has 64     *)
(* values, as 2^16 pages of 2^16 bytes make 2^32.                           *)
EXTENDS LinearMemory

MCSegments == {[at |-> 5, len |-> 2], [at |-> 20, len |-> 4]}
NoSegments == {}
FullSegment == {[at |-> 0, len |-> 8]}
MCAddress == {-1, 0, 3, 7}
\* -1 is left to GrowNegative and GrowFullMemory: it is answered wrongly.
MCDelta == {-2, 0, 1, 4}
NegativeDelta == {-1}
=============================================================================
