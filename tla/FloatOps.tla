------------------------------ MODULE FloatOps ------------------------------
(***************************************************************************)
(* The floating-point instructions of lib/interpreter.cc whose results are *)
(* exact: comparisons, min, max, copysign, abs, neg, the four roundings to *)
(* an integer, and the truncations to i32 and i64.  A float is [neg, mag]: *)
(* its sign, and its magnitude in halves, Infinity or NaN.                 *)
(***************************************************************************)
EXTENDS Integers

CONSTANTS Infinity   \* beyond all magnitudes

NaN == Infinity + 1

Float(neg, mag) == [neg |-> neg, mag |-> mag]
IsNaN(x) == x.mag = NaN

\* The number in halves; both zeros are 0.
Half(x) == IF x.neg THEN -x.mag ELSE x.mag

\* C++ comparisons: false of NaN, but for !=.
Less(x, y) == ~IsNaN(x) /\ ~IsNaN(y) /\ Half(x) < Half(y)
Same(x, y) == ~IsNaN(x) /\ ~IsNaN(y) /\ Half(x) = Half(y)

FloatRelation(op, x, y) ==
  CASE op = "eq" -> Same(x, y)
    [] op = "ne" -> ~Same(x, y)
    [] op = "lt" -> Less(x, y)
    [] op = "gt" -> Less(y, x)
    [] op = "le" -> Less(x, y) \/ Same(x, y)
    [] op = "ge" -> Less(y, x) \/ Same(x, y)

\* Mutant: max is min with the arguments exchanged.
FloatBinaryMaxAsMin(op, x, y) ==
  CASE op = "min" -> IF Less(y, x) THEN y ELSE x
    [] op = "max" -> IF Less(x, y) THEN x ELSE y
    [] op = "copysign" -> Float(y.neg, x.mag)

\* std::min and std::max return their first argument unless they find the
\* second to be less, or greater.
FloatBinary(op, x, y) ==
  CASE op = "min" -> IF Less(y, x) THEN y ELSE x
    [] op = "max" -> IF Less(x, y) THEN y ELSE x
    [] op = "copysign" -> Float(y.neg, x.mag)

\* Away from zero for the odd halves that ceil, floor or ties to even round up.
Rounded(op, x) ==
  LET whole == x.mag \div 2
      up == CASE op = "trunc" -> FALSE
              [] op = "ceil" -> ~x.neg
              [] op = "floor" -> x.neg
              [] op = "nearest" -> whole % 2 = 1
  IN  IF x.mag >= Infinity \/ x.mag % 2 = 0 THEN x
      ELSE Float(x.neg, 2 * (whole + (IF up THEN 1 ELSE 0)))

FloatUnary(op, x) ==
  CASE op = "abs" -> Float(FALSE, x.mag)
    [] op = "neg" -> Float(~x.neg, x.mag)
    [] OTHER -> Rounded(op, x)

-----------------------------------------------------------------------------
(* Truncation.                                                             *)

\* static_cast<U> of the greatest integer of w bits: 2^(w-1) - 1 rounds up to
\* 2^(w-1) when the significand is too short for it.
GreatestAsFloat(w, precision) ==
  IF w - 1 > precision THEN 2 ^ (w - 1) ELSE 2 ^ (w - 1) - 1

\* Util::floatInRange: an unsigned type has no upper limit.
FloatInRange(v, signed, w, precision) ==
  IF signed THEN v >= -(2 ^ (w - 1)) /\ v <= GreatestAsFloat(w, precision)
  ELSE v >= 0

\* The outcomes of DECLARE_TRUNC_OP_METHOD; the cast of what the integer type
\* cannot hold is undefined, and yields any of its numbers.
Truncated(x, signed, w, precision) ==
  LET v == Half(Rounded("trunc", x)) \div 2
      held == IF signed THEN -(2 ^ (w - 1)) .. 2 ^ (w - 1) - 1 ELSE 0 .. 2 ^ w - 1
      Register(n) == IF n < 2 ^ (w - 1) THEN n ELSE n - 2 ^ w
  IN  IF x.mag >= Infinity \/ ~FloatInRange(v, signed, w, precision)
      THEN {[trap |-> "FLOAT_UNREPRESENTABLE", val |-> 0]}
      ELSE {[trap |-> "none", val |-> Register(n)] : n \in IF v \in held THEN {v} ELSE held}
=============================================================================
