------------------------------- MODULE Leb128 -------------------------------
(***************************************************************************)
(* The variable-length integers of lib/include/decoder.hh.  A byte has     *)
(* Group bits of the number and a bit above them that says that more       *)
(* follow; an int has IntWidth bits.                                       *)
(***************************************************************************)
EXTENDS Integers, SequencesExt

CONSTANTS Group, IntWidth

More == 2 ^ Group

\* retrievePackedLEB128Bytes: up to the first byte without the bit.
Packed(bytes) ==
  SubSeq(bytes, 1, CHOOSE k \in DOMAIN bytes : bytes[k] < More /\ \A j \in 1 .. k - 1 : bytes[j] >= More)

\* Mutant: the bit above the group is taken for a bit of the number.
EncodeVaruintOneMore(n) ==
  LET bytes[k \in Nat] == IF k <= More THEN <<k>> ELSE <<(k % More) + More>> \o bytes[k \div More]
  IN  bytes[n]

EncodeVaruint(n) ==
  LET bytes[k \in Nat] == IF k < More THEN <<k>> ELSE <<(k % More) + More>> \o bytes[k \div More]
  IN  bytes[n]

\* The groups ORed at their shifts, into a T of w bits.
Accumulated(v, w) ==
  FoldRight(LAMBDA byte, val : (byte % More) + More * val, v, 0) % 2 ^ w

DecodeVaruint(bytes, w) == Accumulated(Packed(bytes), w)

\* Mutant: the sign is the highest bit of the byte.
DecodeVarintHighBit(bytes, w) ==
  LET v == Packed(bytes)
      val == Accumulated(v, w)
      shift == Group * Len(v)
      k == shift % IntWidth
      filled == IF shift < w /\ Last(v) >= More THEN (val % 2 ^ k) + 2 ^ w - 2 ^ k ELSE val
  IN  IF filled < 2 ^ (w - 1) THEN filled ELSE filled - 2 ^ w

\* ~0 is an int: shifted by more than its width, which is undefined, it is
\* shifted by the rest, as the instruction set does; then widened with its sign.
DecodeVarint(bytes, w) ==
  LET v == Packed(bytes)
      val == Accumulated(v, w)
      shift == Group * Len(v)
      k == shift % IntWidth
      filled == IF shift < w /\ Last(v) >= More \div 2 THEN (val % 2 ^ k) + 2 ^ w - 2 ^ k ELSE val
  IN  IF filled < 2 ^ (w - 1) THEN filled ELSE filled - 2 ^ w
=============================================================================
