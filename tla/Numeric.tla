------------------------------- MODULE Numeric -------------------------------
(***************************************************************************)
(* Each numeric instruction, applied to each of its inputs: what the       *)
(* engine computes, against what the standard defines.                     *)
(***************************************************************************)
EXTENDS Naturals, Sequences

CONSTANTS IntInputs,    \* [class, op, x, y, w] with integers x, y of w bits
          FloatInputs,  \* [class, op, x, y, w, precision] with floats x, y
          LebInputs,    \* [class, op, bytes, n, w]
          Infinity, Group, IntWidth, LongWidth

VARIABLES input, outcome   \* the outcome: <<>> before the instruction

numericVars == <<input, outcome>>

Ints == INSTANCE IntOps
Floats == INSTANCE FloatOps
Leb == INSTANCE Leb128
Wasm == INSTANCE WasmNumerics

ApplyInt ==
  /\ input.class = "int"
  /\ LET i == input IN
     \/ i.op \in Ints!Binaries /\ \E o \in Ints!Binary(i.op, i.x, i.y, i.w) : outcome' = <<o>>
     \/ i.op \in Ints!Unaries /\ outcome' = <<Ints!Value(Ints!Unary(i.op, i.x, i.w))>>
     \/ i.op \in Ints!Conversions /\ outcome' = <<Ints!Value(Ints!Convert(i.op, i.x, IntWidth))>>

FloatRelations == {"eq", "ne", "lt", "gt", "le", "ge"}
FloatBinaries == {"min", "max", "copysign"}
FloatUnaries == {"abs", "neg", "ceil", "floor", "trunc", "nearest"}

ApplyFloat ==
  /\ input.class = "float"
  /\ LET i == input IN
     \/ i.op \in FloatRelations /\ outcome' = <<Floats!FloatRelation(i.op, i.x, i.y)>>
     \/ i.op \in FloatBinaries /\ outcome' = <<Floats!FloatBinary(i.op, i.x, i.y)>>
     \/ i.op \in FloatUnaries /\ outcome' = <<Floats!FloatUnary(i.op, i.x)>>
     \/ /\ i.op \in {"trunc_s", "trunc_u"}
        /\ \E o \in Floats!Truncated(i.x, i.op = "trunc_s", i.w, i.precision) : outcome' = <<o>>

\* Constants are decoded signed; the index of the driver's call is encoded, and
\* decoded again by doCall, with other bytes behind it.
ApplyLeb ==
  /\ input.class = "leb"
  /\ \/ input.op = "const" /\ outcome' = <<Leb!DecodeVarint(input.bytes, input.w)>>
     \/ input.op = "driver"
        /\ LET bytes == Leb!EncodeVaruint(input.n) \o input.bytes
           IN  outcome' = <<Leb!DecodeVaruint(bytes, input.w), Len(Leb!Packed(bytes))>>

NumericInit == outcome = <<>> /\ (input \in IntInputs \/ input \in FloatInputs \/ input \in LebInputs)
Apply == outcome = <<>> /\ UNCHANGED input /\ (ApplyInt \/ ApplyFloat \/ ApplyLeb)
NumericSpec == NumericInit /\ [][Apply]_numericVars

-----------------------------------------------------------------------------
(* Properties.                                                             *)

Applied == outcome # <<>>

\* A trap where the standard has one, the same value elsewhere.
Agrees(o, standard) == (o.trap = "none") = standard.defined /\ o.val = standard.val

\* Every integer instruction of the engine computes what the standard defines,
\* at the edges too: the least number, divisors 0 and -1, shifts beyond the width.
IntegersAsStandard ==
  Applied /\ input.class = "int" =>
    LET i == input IN
    /\ i.op \in Ints!Binaries => Agrees(outcome[1], Wasm!BinaryInt(i.op, i.x, i.y, i.w))
    /\ i.op \in Ints!Unaries => outcome[1].val = Wasm!UnaryInt(i.op, i.x, i.w)
    /\ i.op = "wrap" => outcome[1].val = Wasm!Converted("wrap", i.x, LongWidth, IntWidth)
    /\ i.op \in {"extend_s", "extend_u"} =>
         outcome[1].val = Wasm!Converted(i.op, i.x, IntWidth, LongWidth)

\* So does every floating-point instruction whose result is exact, of signed
\* zeros, infinities and NaNs too, and a truncation traps where it must.
FloatsAsStandard ==
  Applied /\ input.class = "float" =>
    LET i == input IN
    /\ i.op \in FloatRelations => outcome[1] = Wasm!Related(i.op, i.x, i.y)
    /\ i.op \in FloatBinaries => Wasm!FloatChoice(i.op, i.x, i.y, outcome[1])
    /\ i.op \in FloatUnaries => outcome[1] = Wasm!FloatImage(i.op, i.x)
    /\ i.op \in {"trunc_s", "trunc_u"} =>
         Agrees(outcome[1], Wasm!Truncation(i.x, i.op = "trunc_s", i.w))

\* A constant is the number its bytes encode, however many they are.
ConstantsDecoded ==
  Applied /\ input.class = "leb" /\ input.op = "const" => outcome = <<Wasm!SignedOf(input.bytes)>>

\* The call of the driver calls the function whose index it was given, and
\* leaves the bytes behind the index alone.
DriverCallsEntry ==
  Applied /\ input.class = "leb" /\ input.op = "driver" =>
    outcome = <<input.n, Len(Leb!EncodeVaruint(input.n))>>
=============================================================================
