------------------------------ MODULE MCNumeric ------------------------------
(***************************************************************************)
(* The instructions on i32 of 4 bits with every operand, on i64 of 8 bits  *)
(* with operands at the edges and a few between; on floats of a short and  *)
(* of a long significand; and on encodings of up to 6 bytes.  Left out are *)
(* the inputs on which the engine departs from the standard: RemLeast,     *)
(* NaNBehind, UnlikeZeros, FirstAbove, AboveUnsigned and LongConstants.    *)
(***************************************************************************)
EXTENDS Numeric, SequencesExt, FiniteSetsExt

IntsOf(w) == -(2 ^ (w - 1)) .. 2 ^ (w - 1) - 1
Edges(w) == {-(2 ^ (w - 1)), 1 - 2 ^ (w - 1), -w, -1, 0, 1, 3, w - 1, w, w + 1, 2 ^ (w - 1) - 1}
IntInput(op, x, y, w) == [class |-> "int", op |-> op, x |-> x, y |-> y, w |-> w]

RemLeast == {IntInput("rem_s", Ints!Least(w), -1, w) : w \in {4, 8}}
MCIntInputs ==
  (   {IntInput(op, x, y, 4) : op \in Ints!Binaries, x \in IntsOf(4), y \in IntsOf(4)}
    \cup {IntInput(op, x, y, 8) : op \in Ints!Binaries, x \in Edges(8) \cup {-100, -64, -33, 85, 100}, y \in Edges(8)}
    \cup {IntInput(op, x, 0, w) : op \in Ints!Unaries, x \in IntsOf(8), w \in {8}}
    \cup {IntInput("wrap", 256 * a + b, 0, 16) : a \in {-128, -2, -1, 0, 1, 127}, b \in 0 .. 255}
    \cup {IntInput(op, x, 0, 8) : op \in {"extend_s", "extend_u"}, x \in IntsOf(8)}) \ RemLeast

\* Magnitudes that a significand of p bits holds, half of 0 to 39, and the others.
Magnitudes(p) == {0} \cup {m \in 1 .. 79 : \E e \in 0 .. 6 : m % 2 ^ e = 0 /\ m \div 2 ^ e < 2 ^ p}
FloatsOf(p) == {[neg |-> s, mag |-> m] : s \in BOOLEAN, m \in Magnitudes(p) \cup {80, 81}}
FloatInput(op, x, y, p) == [class |-> "float", op |-> op, x |-> x, y |-> y, w |-> 4, precision |-> p]
One == [neg |-> FALSE, mag |-> 2]
TwoOperands == {FloatInput(op, x, y, 2) : op \in FloatRelations \cup FloatBinaries, x \in FloatsOf(2), y \in FloatsOf(2)}
OneOperand == {FloatInput(op, x, One, 2) : op \in FloatUnaries, x \in FloatsOf(7)}
Truncations == {FloatInput(op, x, One, p) : op \in {"trunc_s", "trunc_u"}, x \in FloatsOf(7), p \in {7}}
  \cup {FloatInput(op, x, One, 2) : op \in {"trunc_s", "trunc_u"}, x \in FloatsOf(2)}

NaNBehind == {i \in TwoOperands : i.op \in {"min", "max"} /\ i.y.mag = 81 /\ i.x.mag < 81}
UnlikeZeros == {i \in TwoOperands : i.x.mag = 0 /\ i.y.mag = 0 /\ i.x.neg # i.y.neg
                                     /\ i.op = (IF i.x.neg THEN "max" ELSE "min")}
FirstAbove == {i \in Truncations : i.op = "trunc_s" /\ i.precision = 2 /\ ~i.x.neg /\ i.x.mag = 16}
AboveUnsigned == {i \in Truncations : i.op = "trunc_u" /\ ~i.x.neg /\ i.x.mag \in 32 .. 79}
MCFloatInputs ==
  (TwoOperands \cup OneOperand \cup Truncations)
    \ (NaNBehind \cup UnlikeZeros \cup FirstAbove \cup AboveUnsigned)

\* Bytes of groups g, the last without the bit that says that more follow.
Bytes(g) == [k \in DOMAIN g |-> IF k < Len(g) THEN g[k] + 2 ^ Group ELSE g[k]]
Groups(n) == UNION {[1 .. k -> {0, 3, 4, 7}] : k \in 1 .. n}
ConstInput(g, w) == [class |-> "leb", op |-> "const", bytes |-> Bytes(g), n |-> 0, w |-> w]
Constants == {i \in {ConstInput(g, w) : g \in Groups(6), w \in {IntWidth, LongWidth}} : Wasm!Encodes(i.bytes, i.w)}
LongConstants ==
  {i \in Constants : /\ i.w = LongWidth /\ Last(i.bytes) \in 4 .. 7
                     /\ Group * Len(i.bytes) \in IntWidth .. LongWidth - 1}
MCLebInputs == (Constants \ LongConstants)
  \cup {[class |-> "leb", op |-> "driver", bytes |-> <<b>>, n |-> n, w |-> IntWidth] : b \in {0, 7, 15}, n \in 0 .. 255}
None == {}
=============================================================================
