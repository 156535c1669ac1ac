------------------------ MODULE InterpreterRefinement ------------------------
(***************************************************************************)
(* The interpreter implements WasmControl: forget the continuation and the *)
(* arity stored in each label, the index vectors, the counter, the cache   *)
(* of crawls and the engine status.                                        *)
(***************************************************************************)
EXTENDS Interpreter

Wasm == INSTANCE WasmControl WITH
  frames <- [p \in DOMAIN stack |->
               IF stack[p].kind = "label" THEN [kind |-> "label"] ELSE stack[p]]

\* Every run of the engine is a run the standard allows: each instruction finds
\* the operands, each branch the target and each result the value that the
\* nesting of the code prescribes, and no valid step is refused.
RefinesWasm == Wasm!Spec

-----------------------------------------------------------------------------
(* The part of the language that the engine runs as the standard            *)
(* prescribes.  Divergences has a module for each exclusion.                *)

IntTypes == {"i32", "i64"}
IntsOf(w) == -(2 ^ (w - 1)) .. 2 ^ (w - 1) - 1
InRange(v) == v.type \in IntTypes => v.val \in IntsOf(WidthOf(v.type))

\* The depths an instruction may branch to.
Depths(i) ==
  IF i.op \in {"br", "br_if"} THEN {i.n}
  ELSE IF i.op = "br_table" THEN {i.e[j] : j \in DOMAIN i.e} ELSE {}

\* An instruction as the decoder leaves it, with a number its type can hold.
WellTyped(i) ==
  /\ i.op = "const" => InRange([type |-> i.t, val |-> i.n])
  /\ i.op \in Ints!Binaries \cup Ints!Unaries => i.t \in IntTypes
  /\ i.op = "wrap" => i.t = "i32"
  /\ i.op \in {"extend_s", "extend_u"} => i.t = "i64"

\* No call within a block, no `if` without an else, no branch to a loop with a
\* result, none whose last byte is that of `end`, and no rem_s, which may fault.
ConformingCode(code) ==
  \A k \in 1 .. Len(code) :
    /\ WellTyped(code[k]) /\ code[k].op # "rem_s"
    /\ code[k].op \in {"call", "call_indirect"} => Nesting(code, k) = 0
    /\ code[k].op = "if" => OwnElses(code, k + 1) # {}
    /\ code[k].op \in {"br", "br_if", "br_table"} => code[k].last # EndByte
    /\ \A d \in Depths(code[k]) : d < Nesting(code, k) =>
         LET o == Enclosing(code, k, d) IN code[o].op = "loop" => code[o].t = "void"

\* No branch out of the entry function, one parameter and one result at most,
\* and a table that is the identity.
Conforming(m) ==
  /\ \A i \in 1 .. Len(m.funcs) : ConformingCode(m.funcs[i].code)
  /\ LET entry == m.funcs[m.entry + 1].code
     IN  \A k \in 1 .. Len(entry) : \A d \in Depths(entry[k]) : d < Nesting(entry, k)
  /\ \A i \in 1 .. Len(m.types) : Len(m.types[i].params) <= 1 /\ Len(m.types[i].results) <= 1
  /\ \A i \in 1 .. Len(m.table) : m.table[i] = i - 1
  /\ \A i \in 1 .. Len(m.args) : InRange(m.args[i])
  /\ \A i \in 1 .. Len(m.globals) : InRange(m.globals[i].init)

\* On integers of w bits the engine's arithmetic is the standard's: it traps where
\* the standard does, and yields the standard's number elsewhere.
Agrees(o, standard, w) ==
  /\ (o.trap = "none") = standard.defined
  /\ o.trap = "none" => o.val = standard.val /\ o.val \in IntsOf(w)
ResultWidth(op, w) == IF op \in Ints!Comparisons \cup {"eqz"} THEN Width ELSE w

ArithmeticAgrees(w) ==
  /\ 0 \in IntsOf(w)
  /\ \A x, y \in IntsOf(w) :
       /\ \A op \in Ints!Binaries \ {"rem_s"} : \A o \in Ints!Binary(op, x, y, w) :
            Agrees(o, Wasm!Std!BinaryInt(op, x, y, w), ResultWidth(op, w))
       /\ \A op \in Ints!Unaries :
            Agrees(Ints!Value(Ints!Unary(op, x, w)), Wasm!Std!Yields(Wasm!Std!UnaryInt(op, x, w)),
                   ResultWidth(op, w))

\* So are the conversions between i32 and i64.
ConversionsAgree ==
  /\ \A x \in IntsOf(LongWidth) :
       Agrees(Ints!Value(Ints!Convert("wrap", x, Width)),
              Wasm!Std!Yields(Wasm!Std!Converted("wrap", x, LongWidth, Width)), Width)
  /\ \A x \in IntsOf(Width), op \in {"extend_s", "extend_u"} :
       Agrees(Ints!Value(Ints!Convert(op, x, Width)),
              Wasm!Std!Yields(Wasm!Std!Converted(op, x, Width, LongWidth)), LongWidth)
=============================================================================
