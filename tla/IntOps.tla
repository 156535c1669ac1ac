------------------------------- MODULE IntOps -------------------------------
(***************************************************************************)
(* The integer instructions as the engine computes them (the operator      *)
(* table and the handlers of lib/interpreter.cc, lib/include/util.hh), for *)
(* integers of w bits.  A register holds a signed number; make_unsigned is *)
(* Unsigned.  Signed overflow, undefined in C++, wraps in the builds; so   *)
(* does a shift by the whole width, whose result rotl ORs away.            *)
(***************************************************************************)
EXTENDS Integers, FiniteSetsExt

\* What an instruction comes to: a value, or an error that ends the process.
Value(v) == [trap |-> "none", val |-> v]
Trap(error) == [trap |-> error, val |-> 0]

Unsigned(x, w) == x % 2 ^ w
Signed(x, w) == LET u == Unsigned(x, w) IN IF u < 2 ^ (w - 1) THEN u ELSE u - 2 ^ w

Truth(b) == IF b THEN 1 ELSE 0
Least(w) == -(2 ^ (w - 1))

\* Bit by bit: bit i of the result is set where the pair of bits is in `table`.
Bit(x, i, w) == (Unsigned(x, w) \div 2 ^ i) % 2
Bitwise(table, x, y, w) ==
  MapThenSumSet(LAMBDA i : IF <<Bit(x, i, w), Bit(y, i, w)>> \in table THEN 2 ^ i ELSE 0, 0 .. w - 1)
OrTable == {<<0, 1>>, <<1, 0>>, <<1, 1>>}

\* C++ division: towards zero.
Abs(x) == IF x < 0 THEN -x ELSE x
Quotient(x, y) == IF (x < 0) = (y < 0) THEN Abs(x) \div Abs(y) ELSE -(Abs(x) \div Abs(y))
Remainder(x, y) == x - y * Quotient(x, y)

-----------------------------------------------------------------------------
Comparisons == {"eq", "ne", "lt_s", "lt_u", "gt_s", "gt_u", "le_s", "le_u", "ge_s", "ge_u"}
Totals == {"add", "sub", "mul", "and", "or", "xor"} \cup Comparisons

\* ITERATE_SIMPLE_BINOP, compared as signed or as unsigned numbers.
Total(op, x, y, w) ==
  LET ux == Unsigned(x, w)
      uy == Unsigned(y, w)
  IN  CASE op = "add" -> Signed(x + y, w)
        [] op = "sub" -> Signed(x - y, w)
        [] op = "mul" -> Signed(x * y, w)
        [] op = "and" -> Signed(Bitwise({<<1, 1>>}, x, y, w), w)
        [] op = "or"  -> Signed(Bitwise(OrTable, x, y, w), w)
        [] op = "xor" -> Signed(Bitwise({<<0, 1>>, <<1, 0>>}, x, y, w), w)
        [] op = "eq" -> Truth(x = y)       [] op = "ne" -> Truth(x # y)
        [] op = "lt_s" -> Truth(x < y)     [] op = "lt_u" -> Truth(ux < uy)
        [] op = "gt_s" -> Truth(x > y)     [] op = "gt_u" -> Truth(ux > uy)
        [] op = "le_s" -> Truth(x <= y)    [] op = "le_u" -> Truth(ux <= uy)
        [] op = "ge_s" -> Truth(x >= y)    [] op = "ge_u" -> Truth(ux >= uy)

Divisions == {"div_s", "div_u", "rem_s", "rem_u"}

\* Mutant: only the divisor is looked at.
DivideUnchecked(op, x, y, w) ==
  IF y = 0 THEN {Trap("DIVISION_BY_ZERO")}
  ELSE CASE op = "div_u" -> {Value(Signed(Unsigned(x, w) \div Unsigned(y, w), w))}
         [] op = "rem_u" -> {Value(Signed(Unsigned(x, w) % Unsigned(y, w), w))}
         [] op = "div_s" -> {Value(Signed(Quotient(x, y), w))}
         [] op = "rem_s" -> {Value(Remainder(x, y))}

\* doI32DivS, doI32DivU, doI32RemS, doI32RemU and those of i64.  The least
\* number % -1 is undefined: the division of x86 faults, others yield 0.
Divide(op, x, y, w) ==
  IF y = 0 THEN {Trap("DIVISION_BY_ZERO")}
  ELSE CASE op = "div_u" -> {Value(Signed(Unsigned(x, w) \div Unsigned(y, w), w))}
         [] op = "rem_u" -> {Value(Signed(Unsigned(x, w) % Unsigned(y, w), w))}
         [] op = "div_s" -> IF y = -1 /\ x = Least(w) THEN {Trap("VAL_NOT_REPRESENTABLE")}
                            ELSE {Value(Quotient(x, y))}
         [] op = "rem_s" -> {Value(Remainder(x, y))}
              \cup IF y = -1 /\ x = Least(w) THEN {Trap("SIGFPE")} ELSE {}

Shifts == {"shl", "shr_s", "shr_u", "rotl", "rotr"}

\* doI32Shl .. doI32Rotr and those of i64: w is a power of two, & 0x1f is % w.
Shift(op, x, y, w) ==
  LET k == Unsigned(y, w) % w
      ux == Unsigned(x, w)
      Left(u, n) == (u * 2 ^ n) % 2 ^ w
      Right(u, n) == u \div 2 ^ n
  IN  CASE op = "shl" -> Signed(Left(ux, k), w)
        [] op = "shr_s" -> x \div 2 ^ k
        [] op = "shr_u" -> Signed(Right(ux, k), w)
        [] op = "rotl" -> Signed(Bitwise(OrTable, Left(ux, k), Right(ux, w - k), w), w)
        [] op = "rotr" -> Signed(Bitwise(OrTable, Right(ux, k), Left(ux, (w - y) % w), w), w)

Binaries == Totals \cup Divisions \cup Shifts

\* The outcomes of a binary instruction.
Binary(op, x, y, w) ==
  IF op \in Divisions THEN Divide(op, x, y, w)
  ELSE IF op \in Shifts THEN {Value(Shift(op, x, y, w))}
  ELSE {Value(Total(op, x, y, w))}

-----------------------------------------------------------------------------
(* One operand.                                                            *)

Unaries == {"eqz", "clz", "ctz", "popcnt"}

\* The builtins, which know no answer for 0, and the answer the code has for it.
Unary(op, x, w) ==
  LET set == {i \in 0 .. w - 1 : Bit(x, i, w) = 1}
  IN  CASE op = "eqz" -> Truth(x = 0)
        [] op = "clz" -> IF x = 0 THEN w ELSE w - 1 - Max(set)
        [] op = "ctz" -> IF x = 0 THEN w ELSE Min(set)
        [] op = "popcnt" -> Cardinality(set)

\* Between the widths: v & 0xffffffff, and the casts by signedness.
Wrap(x, w) == Signed(Unsigned(x, w), w)
ExtendU(x, w) == Unsigned(x, w)
ExtendS(x) == x

Conversions == {"wrap", "extend_s", "extend_u"}

\* doI32WrapI64 and DECLARE_CONVERT_OP_METHOD: between w bits and more.
Convert(op, x, w) ==
  CASE op = "wrap" -> Wrap(x, w)
    [] op = "extend_u" -> ExtendU(x, w)
    [] op = "extend_s" -> ExtendS(x)
=============================================================================
