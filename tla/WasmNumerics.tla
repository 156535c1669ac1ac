---------------------------- MODULE WasmNumerics ----------------------------
(***************************************************************************)
(* What the standard says of the floating-point instructions of FloatOps   *)
(* and of the LEB128 numbers of Leb128.                                    *)
(***************************************************************************)
EXTENDS WasmInts, Sequences

CONSTANTS Infinity, Group

\* Floats as in FloatOps: [neg, mag], the magnitude in halves.
Nan(x) == x.mag > Infinity
Real(x) == IF x.neg THEN 0 - x.mag ELSE x.mag
Ordered(x, y) == ~Nan(x) /\ ~Nan(y)

Related(op, x, y) ==
  IF ~Ordered(x, y) THEN op = "ne"
  ELSE CASE op = "eq" -> Real(x) = Real(y) [] op = "ne" -> Real(x) # Real(y)
         [] op = "lt" -> Real(x) < Real(y) [] op = "gt" -> Real(x) > Real(y)
         [] op = "le" -> Real(x) <= Real(y) [] op = "ge" -> Real(x) >= Real(y)

\* The zero of negative sign is below the other.
Below(x, y) == Real(x) < Real(y) \/ (Real(x) = Real(y) /\ x.neg /\ ~y.neg)

\* A NaN is the result of min and max whenever it is an operand.
FloatChoice(op, x, y, result) ==
  CASE op \in {"min", "max"} /\ ~Ordered(x, y) -> Nan(result)
    [] op = "min" /\ Ordered(x, y) -> result = (IF Below(x, y) THEN x ELSE y)
    [] op = "max" /\ Ordered(x, y) -> result = (IF Below(x, y) THEN y ELSE x)
    [] op = "copysign" -> result = [x EXCEPT !.neg = y.neg]

\* The integer a number in halves is rounded to.
Integral(op, h) ==
  CASE op = "floor" -> h \div 2
    [] op = "ceil" -> -((0 - h) \div 2)
    [] op = "trunc" -> IF h < 0 THEN -((0 - h) \div 2) ELSE h \div 2
    [] op = "nearest" ->
         CHOOSE n \in h \div 2 .. h \div 2 + 1 :
           \/ h - 2 * n = 0
           \/ h - 2 * n \in {-1, 1} /\ n % 2 = 0

\* The sign of a number survives its rounding, to zero too.
FloatImage(op, x) ==
  CASE op = "abs" -> [x EXCEPT !.neg = FALSE]
    [] op = "neg" -> [x EXCEPT !.neg = ~x.neg]
    [] OTHER -> IF x.mag >= Infinity THEN x
                ELSE LET n == Integral(op, Real(x))
                     IN  [x EXCEPT !.mag = 2 * (IF n < 0 THEN -n ELSE n)]

\* Trap unless the integer type holds the number without its fraction.
Truncation(x, signed, n) ==
  LET v == Integral("trunc", Real(x))
      held == IF signed THEN -(2 ^ (n - 1)) .. 2 ^ (n - 1) - 1 ELSE 0 .. 2 ^ n - 1
  IN  IF x.mag < Infinity /\ v \in held THEN Yields(NumberOf(BitsOf(v, n), n)) ELSE Traps

-----------------------------------------------------------------------------
(* sN of the binary format.                                                *)

SignedOf(bytes) ==
  LET num[k \in DOMAIN bytes] ==
        LET b == bytes[k] % 2 ^ Group
        IN  IF k < Len(bytes) THEN b + 2 ^ Group * num[k + 1]
            ELSE IF b < 2 ^ (Group - 1) THEN b ELSE b - 2 ^ Group
  IN  num[1]

\* An encoding of a number of n bits: not longer than the number needs.
Encodes(bytes, n) ==
  /\ (Len(bytes) - 1) * Group < n
  /\ SignedOf(bytes) \in -(2 ^ (n - 1)) .. 2 ^ (n - 1) - 1
=============================================================================
