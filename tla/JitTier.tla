------------------------------- MODULE JitTier -------------------------------
(***************************************************************************)
(* The tiers of the engine under --jit: doCall counts the calls of each    *)
(* function, has the JIT compiler (lib/jit_compiler.cc) translate a        *)
(* function from its Threshold-th call on, and runs the machine code of a  *)
(* function that was translated.  Every other instruction is Interpreter's. *)
(*                                                                         *)
(* The machine code is what translateToIR makes of the body: straight code *)
(* on a stack of the compiler's own, up to the first `end` or `return`.    *)
(* LLVM is external: its initialisation, and adding or looking up a        *)
(* function, may fail at any call.  It compiles without validation; the    *)
(* translation of ill-typed operands, undefined in LLVM, is left out.      *)
(***************************************************************************)
EXTENDS Interpreter

CONSTANT Threshold   \* the call from which on a function is compiled

\* The driver's call, which is the first call of all, never compiles (the code
\* has 100).
ASSUME ThresholdAssumption == Threshold \in Nat \ {0, 1}

VARIABLES executionCount,  \* calls of each function, at most Threshold
          isJitCompiled    \* the functions with machine code

tierVars == <<executionCount, isJitCompiled>>

-----------------------------------------------------------------------------
(* The translation.                                                        *)

\* The instructions translateToIR knows.
TranslatedOps == {"add", "sub", "mul", "eq", "lt_s", "gt_s"}
Translated(i) ==
  \/ i.op \in {"local.get", "local.set", "local.tee"}
  \/ i.op = "const" /\ i.t = "i32"
  \/ i.op \in TranslatedOps /\ i.t = "i32"

\* The part of a body that is read.
StraightPart(code) ==
  LET stop == CHOOSE k \in DOMAIN code :
                /\ code[k].op \in {"end", "return"}
                /\ \A j \in 1 .. k - 1 : code[j].op \notin {"end", "return"}
  IN  SubSeq(code, 1, stop - 1)

Straight(idx) == StraightPart(mod.funcs[idx + 1].code)

\* Mutant: calls are taken for translated.
TranslatableWithCalls(idx) ==
  \A k \in DOMAIN Straight(idx) : Translated(Straight(idx)[k]) \/ Straight(idx)[k].op = "call"

Translatable(idx) == \A k \in DOMAIN Straight(idx) : Translated(Straight(idx)[k])

\* Mutant: the operands of an operator come in the order they are popped.
EmitPopped(m, i) ==
  LET n == Len(m.stack)
      known == i.n < Len(m.locals)
  IN  CASE i.op = "const" -> [m EXCEPT !.stack = Append(@, I32(i.n))]
        [] i.op = "local.get" /\ known -> [m EXCEPT !.stack = Append(@, m.locals[i.n + 1])]
        [] i.op = "local.set" /\ known /\ n > 0 ->
             [stack |-> Front(m.stack), locals |-> [m.locals EXCEPT ![i.n + 1] = Last(m.stack)]]
        [] i.op = "local.tee" /\ known /\ n > 0 ->
             [m EXCEPT !.locals = [@ EXCEPT ![i.n + 1] = Last(m.stack)]]
        [] i.op \in TranslatedOps /\ n > 1 ->
             [m EXCEPT !.stack = Append(SubSeq(@, 1, n - 2),
                I32(Ints!Total(i.op, m.stack[n].val, m.stack[n - 1].val, Width)))]
        [] OTHER -> m

\* The effect of the code emitted for one instruction on the compiler's stack
\* and the locals: one whose operands or local are missing emits none.
Emit(m, i) ==
  LET n == Len(m.stack)
      known == i.n < Len(m.locals)
  IN  CASE i.op = "const" -> [m EXCEPT !.stack = Append(@, I32(i.n))]
        [] i.op = "local.get" /\ known -> [m EXCEPT !.stack = Append(@, m.locals[i.n + 1])]
        [] i.op = "local.set" /\ known /\ n > 0 ->
             [stack |-> Front(m.stack), locals |-> [m.locals EXCEPT ![i.n + 1] = Last(m.stack)]]
        [] i.op = "local.tee" /\ known /\ n > 0 ->
             [m EXCEPT !.locals = [@ EXCEPT ![i.n + 1] = Last(m.stack)]]
        [] i.op \in TranslatedOps /\ n > 1 ->
             [m EXCEPT !.stack = Append(SubSeq(@, 1, n - 2),
                I32(Ints!Total(i.op, m.stack[n - 1].val, m.stack[n].val, Width)))]
        [] OTHER -> m

\* What the machine code of a function returns: the top of the stack, or null.
Native(idx, params) ==
  LET zeros == [k \in DOMAIN mod.funcs[idx + 1].locals |-> Zero(mod.funcs[idx + 1].locals[k])]
      m == FoldLeft(Emit, [stack |-> <<>>, locals |-> params \o zeros], Straight(idx))
  IN  IF m.stack = <<>> THEN Zero("i32") ELSE Last(m.stack)

-----------------------------------------------------------------------------
(* Calls.                                                                  *)

\* executeJITFunction: every parameter is popped as an i32; code of another
\* signature than i32 -> i32 is not run, and nothing else is.
ExecuteJIT(s, idx) ==
  LET type == FuncType(mod, idx)
      n == Len(type.params)
  IN  IF ~(ValuesOnTop(s, n) /\ \A i \in 1 .. n : IsType(s[Len(s) - i + 1], "i32"))
      THEN Mismatch
      ELSE IF n = 1 /\ type.results = <<"i32">>
      THEN Leave(Append(DropTop(s, 1), ValueFrame(Native(idx, <<Last(s).value>>))))
      ELSE Leave(DropTop(s, n))

\* Mutant: the machine code is filed under the next function.
CompileNext(idx) ==
  isJitCompiled' \in
    IF Translatable(idx) /\ executionCount'[idx + 1] = Threshold
    THEN {isJitCompiled, isJitCompiled \cup {idx + 1}} ELSE {isJitCompiled}

\* compileFunction, reached on every call from the Threshold-th on.
Compile(idx) ==
  isJitCompiled' \in
    IF Translatable(idx) /\ executionCount'[idx + 1] = Threshold
    THEN {isJitCompiled, isJitCompiled \cup {idx}} ELSE {isJitCompiled}

\* doCall with JIT.
TieredCall(s, idx) ==
  IF idx >= Len(mod.funcs) THEN Halt("std::out_of_range") /\ UNCHANGED tierVars
  ELSE /\ executionCount' = [executionCount EXCEPT ![idx + 1] = Min({@ + 1, Threshold})]
       /\ Compile(idx)
       /\ IF idx \in isJitCompiled' THEN ExecuteJIT(s, idx) ELSE Invoke(s, idx)

TierCall == Fetch("call") /\ TieredCall(stack, Instr.n)

TierCallIndirect ==
  /\ Fetch("call_indirect")
  /\ IF IndirectError = "none" THEN TieredCall(Under, TopVal)
     ELSE Halt(IndirectError) /\ UNCHANGED tierVars

-----------------------------------------------------------------------------
TierInit ==
  /\ Init
  /\ executionCount = [i \in 1 .. Len(mod.funcs) |-> 0]
  /\ isJitCompiled = {}

TierStep == (StepWithin /\ UNCHANGED tierVars) \/ TierCall \/ TierCallIndirect

TierSpec == TierInit /\ [][TierStep]_<<vars, tierVars>>

-----------------------------------------------------------------------------
(* Properties.                                                             *)

TierTypeOK ==
  /\ executionCount \in [1 .. Len(mod.funcs) -> 0 .. Threshold]
  /\ isJitCompiled \subseteq 0 .. Len(mod.funcs) - 1

\* No activation runs a function by the interpreter that has machine code: a
\* function is compiled only when none of its calls is under way, so the two
\* tiers of one function are never active at once.
TiersExclusive ==
  Live => \A i \in DOMAIN activMap : RunBy(i) - 1 \notin isJitCompiled
=============================================================================
