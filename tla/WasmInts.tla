------------------------------ MODULE WasmInts ------------------------------
(***************************************************************************)
(* The integer instructions as the WebAssembly standard defines them, on   *)
(* the bits of their operands.  Independent of IntOps.  A result is        *)
(* [defined, val]; an instruction that is not defined traps.               *)
(***************************************************************************)
EXTENDS Integers, FiniteSetsExt

BitsOf(x, n) == [i \in 0 .. n - 1 |-> (x \div 2 ^ i) % 2]

\* Two's complement: the highest bit counts negative.
NumberOf(b, n) ==
  MapThenSumSet(LAMBDA i : b[i] * 2 ^ i, 0 .. n - 2) - b[n - 1] * 2 ^ (n - 1)

Traps == [defined |-> FALSE, val |-> 0]
Yields(v) == [defined |-> TRUE, val |-> v]
Bool(b) == IF b THEN 1 ELSE 0

\* The quotient that leaves a remainder less than j2, of the sign of j1.
QuotientOf(j1, j2, n) ==
  CHOOSE q \in -(2 ^ n) .. 2 ^ n :
    LET r == j1 - q * j2
        m == IF j2 < 0 THEN -j2 ELSE j2
    IN  r \in (IF j1 < 0 THEN -m + 1 .. 0 ELSE 0 .. m - 1)

Division(op, x, y, n) ==
  LET j1 == IF op \in {"div_u", "rem_u"} THEN x % 2 ^ n ELSE x
      j2 == IF op \in {"div_u", "rem_u"} THEN y % 2 ^ n ELSE y
      q == QuotientOf(j1, j2, n)
  IN  IF y = 0 \/ (op = "div_s" /\ q = 2 ^ (n - 1)) THEN Traps
      ELSE Yields(NumberOf(BitsOf(IF op \in {"div_s", "div_u"} THEN q ELSE j1 - q * j2, n), n))

\* Bit i of the result of an instruction that moves or combines bits.
MovedBit(op, b, c, k, i, n) ==
  CASE op = "and" -> Bool(b[i] = 1 /\ c[i] = 1)
    [] op = "or"  -> Bool(b[i] = 1 \/ c[i] = 1)
    [] op = "xor" -> Bool(b[i] # c[i])
    [] op = "shl" -> IF i < k THEN 0 ELSE b[i - k]
    [] op = "shr_u" -> IF i + k < n THEN b[i + k] ELSE 0
    [] op = "shr_s" -> b[IF i + k < n THEN i + k ELSE n - 1]
    [] op = "rotl" -> b[(i - k) % n]
    [] op = "rotr" -> b[(i + k) % n]

Compared(op, x, y, n) ==
  LET u == x % 2 ^ n
      v == y % 2 ^ n
  IN  CASE op = "eq" -> x = y [] op = "ne" -> ~(x = y)
        [] op = "lt_s" -> x < y [] op = "ge_s" -> ~(x < y) [] op = "gt_s" -> y < x [] op = "le_s" -> ~(y < x)
        [] op = "lt_u" -> u < v [] op = "ge_u" -> ~(u < v) [] op = "gt_u" -> v < u [] op = "le_u" -> ~(v < u)

BinaryInt(op, x, y, n) ==
  IF op \in {"div_s", "div_u", "rem_s", "rem_u"} THEN Division(op, x, y, n)
  ELSE Yields(
    CASE op = "add" -> NumberOf(BitsOf(x + y, n), n)
      [] op = "sub" -> NumberOf(BitsOf(x - y, n), n)
      [] op = "mul" -> NumberOf(BitsOf(x * y, n), n)
      [] op \in {"and", "or", "xor", "shl", "shr_u", "shr_s", "rotl", "rotr"} ->
           NumberOf([i \in 0 .. n - 1 |->
                       MovedBit(op, BitsOf(x, n), BitsOf(y, n), (y % 2 ^ n) % n, i, n)], n)
      [] OTHER -> Bool(Compared(op, x, y, n)))

UnaryInt(op, x, n) ==
  LET b == BitsOf(x, n) IN
  CASE op = "eqz" -> Bool(\A i \in 0 .. n - 1 : b[i] = 0)
    [] op = "clz" -> Cardinality({i \in 0 .. n - 1 : \A j \in i .. n - 1 : b[j] = 0})
    [] op = "ctz" -> Cardinality({i \in 0 .. n - 1 : \A j \in 0 .. i : b[j] = 0})
    [] op = "popcnt" -> MapThenSumSet(LAMBDA i : b[i], 0 .. n - 1)

\* From m bits to n: those kept, and for the new ones zeros or the sign.
Converted(op, x, m, n) ==
  LET b == BitsOf(x, m) IN
  NumberOf([i \in 0 .. n - 1 |-> IF i < m THEN b[i]
                                 ELSE IF op = "extend_s" THEN b[m - 1] ELSE 0], n)
=============================================================================
