------------------------------ MODULE JitProofs ------------------------------
(***************************************************************************)
(* Proofs about JitTier, under the assumptions of InterpreterProofs: what  *)
(* was proved of the frames and of control without --jit holds with it,    *)
(* although a compiled call pushes no activation, and no function is       *)
(* compiled, or run by its machine code, while the interpreter runs it.    *)
(***************************************************************************)
EXTENDS InterpreterProofs, JitTransparency

-----------------------------------------------------------------------------
(* The inductive invariant.                                                *)

Stops == {"end", "return"}

\* No instruction before a position ends what is translated of the code.
BeforeStop(code, at) == \A k \in 1 .. at - 1 : code[k].op \notin Stops

\* The machine code is of functions of straight code only, and a function of
\* straight code is never below another one: it calls none.  While it runs it
\* opens no block, and is over at the first instruction that is not translated.
TierInv ==
  /\ TierTypeOK
  /\ ~Running => isJitCompiled = {}
  /\ ~Running /\ outcome = "running" => \A i \in 1 .. Len(mod.funcs) : executionCount[i] = 0
  /\ \A idx \in isJitCompiled : Translatable(idx)
  /\ \A i \in 1 .. Len(activMap) - 1 : ~Translatable(RunBy(i) - 1)
  /\ Running => pc.fn - 1 \notin isJitCompiled
  /\ Running /\ outcome = "running" /\ Translatable(pc.fn - 1) =>
       labelCount = 0 /\ BeforeStop(Code(mod, pc.fn), pc.at)

-----------------------------------------------------------------------------
(* What is translated.                                                     *)

\* The smaller of two numbers.
LEMMA MinOfTwo ==
  ASSUME NEW a \in Int, NEW b \in Int
  PROVE  Min({a, b}) = IF a <= b THEN a ELSE b
<1> DEFINE c == IF a <= b THEN a ELSE b
           P(x) == x \in {a, b} /\ \A y \in {a, b} : x <= y
<1>1. P(c) /\ \A x : P(x) => x = c
  OBVIOUS
<1>2. Min({a, b}) = CHOOSE x : P(x)
  BY DEF Min
<1> HIDE DEF P, c
<1>3. P(CHOOSE x : P(x))
  BY <1>1
<1> QED BY <1>1, <1>2, <1>3 DEF c

\* The translation stops at the first `end` or `return` of a structured body.
LEMMA StraightIs ==
  ASSUME NEW code, Structured(code)
  PROVE  \E stop \in 1 .. Len(code) :
           /\ code[stop].op \in Stops /\ BeforeStop(code, stop)
           /\ StraightPart(code) = SubSeq(code, 1, stop - 1)
<1> DEFINE L == Len(code)
           IsStop(k) == /\ k \in DOMAIN code /\ code[k].op \in {"end", "return"}
                        /\ \A j \in 1 .. k - 1 : code[j].op \notin {"end", "return"}
           T == {k \in 1 .. L : code[k].op \in Stops}
<1>1. L \in Nat \ {0} /\ code[L].op = "end"
  BY BodyNested
<1>2. DOMAIN code = 1 .. L
  BY DEF Structured
<1> HIDE DEF L
<1>3. L \in T /\ T \in SUBSET Nat
  BY <1>1 DEF Stops
<1>4. PICK k \in T : \A m \in T : k <= m
  BY <1>3, LeastElement
<1>5. IsStop(k)
  <2>1. ASSUME NEW j \in 1 .. k - 1 PROVE code[j].op \notin {"end", "return"}
    <3>1. j \in 1 .. L /\ ~(k <= j)
      BY <1>1, <1>4
    <3> QED BY <1>4, <3>1 DEF Stops
  <2> QED BY <1>2, <1>4, <2>1 DEF Stops
<1> DEFINE stop == CHOOSE x : IsStop(x)
<1> HIDE DEF IsStop, T
<1>6. IsStop(stop)
  BY <1>5
<1>7. StraightPart(code) = SubSeq(code, 1, stop - 1)
  BY DEF StraightPart, IsStop
<1> HIDE DEF stop
<1>8. stop \in 1 .. L /\ code[stop].op \in Stops /\ BeforeStop(code, stop)
  BY <1>2, <1>6 DEF IsStop, Stops, BeforeStop
<1> QED BY <1>7, <1>8 DEF L

\* A function of straight code that has not stopped is at an instruction that is
\* translated, or stops there.
LEMMA StraightInstr ==
  ASSUME NEW fn \in Nat \ {0}, NEW code, code = mod.funcs[fn].code, Structured(code),
         Translatable(fn - 1), NEW at \in 1 .. Len(code), BeforeStop(code, at)
  PROVE  code[at].op \in Stops \/ Translated(code[at])
<1>1. Straight(fn - 1) = StraightPart(code)
  <2>1. fn - 1 + 1 = fn
    OBVIOUS
  <2> QED BY <2>1 DEF Straight
<1>2. PICK stop \in 1 .. Len(code) :
        /\ code[stop].op \in Stops
        /\ StraightPart(code) = SubSeq(code, 1, stop - 1)
  BY StraightIs
<1>3. at <= stop
  <2>1. stop \notin 1 .. at - 1
    BY <1>2 DEF BeforeStop
  <2> QED BY <1>2, <2>1
<1>4. CASE at = stop
  BY <1>2, <1>4
<1>5. CASE at < stop
  <2>1. code \in Seq([op : STRING, n : Int, t : STRING, e : Seq(Nat), last : Nat]) /\ Len(code) \in Nat
    BY DEF Structured
  <2>2. /\ DOMAIN SubSeq(code, 1, stop - 1) = 1 .. stop - 1
        /\ SubSeq(code, 1, stop - 1)[at] = code[at]
    BY <1>2, <1>5, <2>1
  <2>3. at \in 1 .. stop - 1
    BY <1>2, <1>5, <2>1
  <2> QED BY <1>1, <1>2, <2>2, <2>3 DEF Translatable
<1> QED BY <1>3, <1>4, <1>5

\* What is translated does not change while a module runs.
LEMMA TranslatableKept ==
  ASSUME mod' = mod
  PROVE  \A idx : Translatable(idx)' <=> Translatable(idx)
BY DEF Translatable, Straight

-----------------------------------------------------------------------------
(* The steps that call no function.                                        *)

\* They push no activation, and pop one of a callee only.
ActivsStay == \/ activMap' = activMap
              \/ TopActiv # 1 /\ activMap' = DropTop(activMap, 1)

LEMMA LeaveStays ==
  ASSUME NEW s, Leave(s)
  PROVE  activMap' = activMap /\ labelCount' = labelCount /\ pc' = After /\ mod' = mod
BY DEF Leave, Continue, Dispatch, KeepFrames, trackVars

LEMMA HaltStays ==
  ASSUME NEW error, Halt(error)
  PROVE  activMap' = activMap /\ mod' = mod /\ outcome' = error
BY DEF Halt

LEMMA ReturnStays ==
  ASSUME NEW s, NEW depth, ReturnWith(s, depth)
  PROVE  ActivsStay /\ mod' = mod
<1>1. CASE KeepFrames(s) /\ Dispatch(After)
  BY <1>1 DEF ActivsStay, KeepFrames, trackVars, Dispatch
<1>2. CASE TopActiv # 1 /\ RetFromActiv(s, depth) /\ Dispatch(s[TopActiv].cont)
  BY <1>2 DEF ActivsStay, RetFromActiv, Dispatch
<1>3. CASE ArityFails(s, s[TopActiv].arity)
  BY <1>3, HaltStays DEF ArityFails, ActivsStay
<1> QED BY <1>1, <1>2, <1>3 DEF ReturnWith

LEMMA BranchStays ==
  ASSUME NEW s, NEW depth, BranchTo(s, depth)
  PROVE  ActivsStay /\ mod' = mod
<1>1. CASE RetFromLabel(s, depth) /\ \E next : Dispatch(next)
  BY <1>1 DEF ActivsStay, RetFromLabel, Dispatch
<1>2. CASE \E arity : ArityFails(s, arity)
  BY <1>2, HaltStays DEF ArityFails, ActivsStay
<1>3. CASE Halt("ILLEGAL_BREAK_LVL")
  BY <1>3, HaltStays DEF ActivsStay
<1>4. CASE ReturnWith(s, depth)
  BY <1>4, ReturnStays
<1> QED BY <1>1, <1>2, <1>3, <1>4 DEF BranchTo

LEMMA OperandsStay ==
  ASSUME \/ DoUnreachable \/ DoNop \/ DoConst \/ DoDrop \/ DoSelect
         \/ DoLocalGet \/ DoLocalSet \/ DoLocalTee \/ DoGlobalGet \/ DoGlobalSet
         \/ DoBinary \/ DoUnary \/ DoConvert \/ OutOfMemory \/ PostProcess
  PROVE  activMap' = activMap /\ mod' = mod
<1>1. CASE DoUnreachable \/ DoNop \/ DoConst \/ DoDrop \/ DoSelect \/ OutOfMemory \/ PostProcess
  BY <1>1, LeaveStays, HaltStays
     DEF DoUnreachable, DoNop, DoConst, DoDrop, DoSelect, OutOfMemory, PostProcess, PushVal, Mismatch
<1>2. CASE DoLocalGet \/ DoLocalSet \/ DoLocalTee \/ DoGlobalGet
  BY <1>2, LeaveStays, HaltStays
     DEF DoLocalGet, DoLocalSet, DoLocalTee, DoGlobalGet, AssignTop, PushVal, Mismatch
<1>3. CASE DoGlobalSet
  BY <1>3, HaltStays DEF DoGlobalSet, Mismatch, KeepFrames, trackVars, Dispatch
<1>4. CASE DoBinary \/ DoUnary \/ DoConvert
  BY <1>4, LeaveStays, HaltStays DEF DoBinary, DoUnary, DoConvert, Mismatch
<1> QED BY <1>1, <1>2, <1>3, <1>4

LEMMA ControlStays ==
  ASSUME \/ DoBlock \/ DoLoop \/ DoIf \/ DoElse \/ DoEnd
         \/ DoBr \/ DoBrIf \/ DoBrTable \/ DoReturn
  PROVE  ActivsStay /\ mod' = mod
<1>1. CASE DoBlock \/ DoLoop \/ DoIf
  BY <1>1, HaltStays DEF DoBlock, DoLoop, DoIf, PushLabel, Continue, Dispatch, Mismatch, ActivsStay
<1>2. CASE DoElse \/ DoEnd \/ DoBr \/ DoReturn
  BY <1>2, BranchStays, ReturnStays DEF DoElse, DoEnd, DoBr, DoReturn
<1>3. CASE DoBrIf \/ DoBrTable
  BY <1>3, BranchStays, LeaveStays, HaltStays DEF DoBrIf, DoBrTable, Mismatch, ActivsStay
<1> QED BY <1>1, <1>2, <1>3

LEMMA StepWithinStays ==
  ASSUME StepWithin
  PROVE  ActivsStay /\ mod' = mod
BY OperandsStay, ControlStays DEF StepWithin, ActivsStay

\* Only the end of the run takes no instruction.
LEMMA StepWithinRuns ==
  ASSUME StepWithin, outcome' = "running"
  PROVE  outcome = "running"
BY DEF StepWithin, PostProcess, OutOfMemory, Fetch, DoUnreachable, DoNop, DoBlock, DoLoop, DoIf,
       DoElse, DoEnd, DoBr, DoBrIf, DoBrTable, DoReturn, DoDrop, DoSelect, DoLocalGet,
       DoLocalSet, DoLocalTee, DoGlobalGet, DoGlobalSet, DoConst, DoBinary, DoUnary, DoConvert

\* An instruction that is translated leads to the next one.
LEMMA TranslatedStep ==
  ASSUME StepWithin, outcome = "running", Translated(Instr), outcome' = "running"
  PROVE  pc' = After /\ labelCount' = labelCount
<1>1. Instr.op \in {"local.get", "local.set", "local.tee", "const"} \cup TranslatedOps
  BY DEF Translated
<1>2. CASE DoConst \/ DoLocalGet \/ DoLocalSet \/ DoLocalTee
  BY <1>2, LeaveStays, HaltStays
     DEF DoConst, DoLocalGet, DoLocalSet, DoLocalTee, AssignTop, PushVal, Mismatch
<1>3. CASE DoBinary
  <2>1. PICK op \in Ints!Binaries : Fetch(op)
    BY <1>3 DEF DoBinary
  <2>2. Instr.op = op
    BY <2>1 DEF Fetch
  <2>3. \A x, o : o \in Ints!Binary(Instr.op, x, TopVal, WidthOf(Instr.t)) /\ o.trap # "none"
                  => o.trap \in Errors
    BY <2>1, <2>2, BinaryTraps DEF Errors, ErrorType, Signals
  <2>4. "running" \notin Errors
    BY DEF Errors, ErrorType, Signals, Uncaught
  <2> QED BY <1>3, <2>3, <2>4, LeaveStays, HaltStays DEF DoBinary, Mismatch
<1>4. CASE OutOfMemory \/ PostProcess
  BY <1>4, HaltStays DEF OutOfMemory, PostProcess
<1>5. CASE DoUnary \/ DoConvert
  BY <1>1, <1>5 DEF DoUnary, DoConvert, Fetch, TranslatedOps, Ints!Unaries, Ints!Conversions
<1>6. CASE \/ DoUnreachable \/ DoNop \/ DoBlock \/ DoLoop \/ DoIf \/ DoElse \/ DoEnd
           \/ DoBr \/ DoBrIf \/ DoBrTable \/ DoReturn \/ DoDrop \/ DoSelect
           \/ DoGlobalGet \/ DoGlobalSet
  <2>1. \E op \in {"unreachable", "nop", "block", "loop", "if", "else", "end", "br", "br_if", "br_table",
                   "return", "drop", "select", "global.get", "global.set"} : Instr.op = op
    BY <1>6 DEF Fetch, DoUnreachable, DoNop, DoBlock, DoLoop, DoIf, DoElse, DoEnd,
                DoBr, DoBrIf, DoBrTable, DoReturn, DoDrop, DoSelect, DoGlobalGet, DoGlobalSet
  <2> QED BY <1>1, <2>1 DEF TranslatedOps
<1> QED BY <1>2, <1>3, <1>4, <1>5, <1>6 DEF StepWithin

\* One that stops the translation leaves the function.
LEMMA StopStep ==
  ASSUME StepWithin, outcome = "running", Instr.op \in Stops, labelCount = 0, outcome' = "running"
  PROVE  TopActiv # 1 /\ activMap' = DropTop(activMap, 1)
<1>1. ASSUME ReturnWith(stack, 0) PROVE TopActiv # 1 /\ activMap' = DropTop(activMap, 1)
  <2>1. CASE status' = "STOPPED" /\ Dispatch(After)
    <3>1. outcome' = "stopped"
      BY <2>1 DEF Dispatch, Stops
    <3> QED BY <3>1
  <2>2. CASE TopActiv # 1 /\ RetFromActiv(stack, 0)
    BY <2>2 DEF RetFromActiv
  <2>3. CASE ArityFails(stack, stack[TopActiv].arity)
    BY <2>3, HaltStays DEF ArityFails
  <2> QED BY <1>1, <2>1, <2>2, <2>3 DEF ReturnWith
<1>2. CASE DoEnd \/ DoReturn
  BY <1>1, <1>2, HaltStays DEF DoEnd, DoReturn, BranchTo
<1>3. CASE OutOfMemory \/ PostProcess
  BY <1>3, HaltStays DEF OutOfMemory, PostProcess
<1>4. CASE DoBinary \/ DoUnary \/ DoConvert
  <2>1. \A op \in Ints!Binaries \cup Ints!Unaries \cup Ints!Conversions : op \notin Stops
    BY DEF Ints!Binaries, Ints!Unaries, Ints!Conversions, Ints!Totals, Ints!Comparisons,
           Ints!Divisions, Ints!Shifts, Stops
  <2> QED BY <1>4, <2>1 DEF DoBinary, DoUnary, DoConvert, Fetch
<1>5. CASE \/ DoUnreachable \/ DoNop \/ DoBlock \/ DoLoop \/ DoIf \/ DoElse
           \/ DoBr \/ DoBrIf \/ DoBrTable \/ DoDrop \/ DoSelect
           \/ DoGlobalGet \/ DoGlobalSet \/ DoConst \/ DoLocalGet \/ DoLocalSet \/ DoLocalTee
  BY <1>5 DEF Stops, Fetch, DoUnreachable, DoNop, DoBlock, DoLoop, DoIf, DoElse,
              DoBr, DoBrIf, DoBrTable, DoDrop, DoSelect, DoGlobalGet, DoGlobalSet,
              DoConst, DoLocalGet, DoLocalSet, DoLocalTee
<1> QED BY <1>2, <1>3, <1>4, <1>5 DEF StepWithin

\* The functions of the activations that stay, the running one the last.
LEMMA RunsAre ==
  ASSUME EngineInv, NEW i \in 1 .. Len(activMap)
  PROVE  RunBy(i) = FnAt(pc.fn, stack, activMap, i)
BY DEF RunBy, FnAt

\* A function that the interpreter runs and that could be compiled is at an
\* instruction that is translated, or stops there.
LEMMA RunsStraight ==
  ASSUME AtWork, TierInv, Translatable(pc.fn - 1)
  PROVE  /\ labelCount = 0 /\ BeforeStop(Code(mod, pc.fn), pc.at)
         /\ Instr.op \in Stops \/ Translated(Instr)
<1>1. Running /\ outcome = "running"
  BY DEF AtWork
<1>2. /\ pc.fn \in 1 .. Len(mod.funcs) /\ pc.at \in 1 .. Len(Code(mod, pc.fn)) /\ pc \in Position
      /\ Structured(Code(mod, pc.fn)) /\ Instr = Code(mod, pc.fn)[pc.at]
  BY InstrFacts
<1>3. Code(mod, pc.fn) = mod.funcs[pc.fn].code /\ pc.fn \in Nat \ {0}
  BY <1>2 DEF Code, Position
<1>4. labelCount = 0 /\ BeforeStop(Code(mod, pc.fn), pc.at)
  BY <1>1 DEF TierInv
<1> QED BY <1>2, <1>3, <1>4, StraightInstr

LEMMA StepWithinKeepsTiers ==
  ASSUME EngineInv, ControlInv, TierInv, StepWithin, UNCHANGED tierVars
  PROVE  Preserves /\ TierInv'
<1> DEFINE n == Len(activMap)
           fnAfter(i) == FnAt(pc'.fn, stack', activMap', i)
           fnNow(i) == FnAt(pc.fn, stack, activMap, i)
<1>1. Preserves /\ ActivsStay /\ mod' = mod
  BY StepWithinPreserves, StepWithinStays
<1>2. isJitCompiled' = isJitCompiled /\ executionCount' = executionCount
  BY DEF tierVars
<1>3. \A i \in 0 .. n : i <= Len(activMap') => fnAfter(i) = fnNow(i)
  BY <1>1 DEF Preserves, RunsKept
<1>4. n \in Nat /\ (Running <=> n # 0) /\ (Running => activMap[1] = 1)
  BY TrackedFrames DEF EngineInv, Running, EntryAtBottom
<1>5. TierTypeOK' /\ \A idx \in isJitCompiled' : Translatable(idx)'
  BY <1>1, <1>2, TranslatableKept DEF TierInv, TierTypeOK
<1>6. CASE activMap' = activMap
  <2>1. \A i \in 1 .. n : fnAfter(i) = fnNow(i)
    BY <1>3, <1>4, <1>6
  <2>2. \A i \in 1 .. n : RunBy(i) = fnNow(i) /\ RunBy(i)' = fnAfter(i)
    BY DEF RunBy, FnAt
  <2>3. Running => pc'.fn = pc.fn
    <3>1. fnNow(n) = IF n = 0 THEN 0 ELSE pc.fn
      BY DEF FnAt
    <3>2. fnAfter(n) = IF n = 0 THEN 0 ELSE pc'.fn
      BY <1>6 DEF FnAt
    <3> HIDE DEF fnNow, fnAfter, n
    <3>3. n # 0 => n \in 1 .. n
      BY <1>4
    <3> QED BY <1>4, <2>1, <3>1, <3>2, <3>3
  <2>4. Running' <=> Running
    BY <1>6 DEF Running
  <2>5. \A i \in 1 .. n - 1 : ~Translatable(RunBy(i)' - 1)
    BY <1>4, <2>1, <2>2 DEF TierInv
  <2>6. ASSUME Running', outcome' = "running", Translatable(pc'.fn - 1)
        PROVE  labelCount' = 0 /\ BeforeStop(Code(mod, pc'.fn), pc'.at)
    <3>1. AtWork
      BY <2>4, <2>6, StepWithinRuns DEF AtWork
    <3>2. pc'.fn = pc.fn /\ Translatable(pc.fn - 1)
      BY <2>3, <2>4, <2>6
    <3>3. /\ labelCount = 0 /\ BeforeStop(Code(mod, pc.fn), pc.at)
          /\ Instr.op \in Stops \/ Translated(Instr)
      BY <3>1, <3>2, RunsStraight
    <3>4. CASE Instr.op \in Stops
      <4>1. activMap' = DropTop(activMap, 1)
        BY <2>6, <3>1, <3>3, <3>4, StopStep DEF AtWork
      <4>2. Len(DropTop(activMap, 1)) = n - 1
        BY <1>4, <2>4, <2>6, DropTopKeeps DEF EngineInv, MapsOK
      <4> QED BY <1>4, <1>6, <4>1, <4>2
    <3>5. CASE Translated(Instr)
      <4>1. pc' = After /\ labelCount' = labelCount
        BY <2>6, <3>1, <3>5, TranslatedStep DEF AtWork
      <4>2. Instr.op \notin Stops
        BY <3>5 DEF Translated, TranslatedOps, Stops
      <4>3. pc'.at = pc.at + 1 /\ Instr = Code(mod, pc.fn)[pc.at] /\ pc.at \in Nat
        BY <3>1, <4>1, InstrFacts DEF After, At
      <4>4. BeforeStop(Code(mod, pc.fn), pc.at + 1)
        BY <3>3, <4>2, <4>3 DEF BeforeStop
      <4> QED BY <3>2, <3>3, <4>1, <4>3, <4>4
    <3> QED BY <3>3, <3>4, <3>5
  <2> HIDE DEF n, fnAfter, fnNow
  <2>7. ~Running' /\ outcome' = "running" => outcome = "running"
    BY StepWithinRuns
  <2> QED BY <1>1, <1>2, <1>5, <1>6, <2>3, <2>4, <2>5, <2>6, <2>7, TranslatableKept DEF TierInv, n
<1>7. CASE Running /\ TopActiv # 1 /\ activMap' = DropTop(activMap, 1)
  <2>1. n # 1
    BY <1>4, <1>7 DEF TopActiv
  <2>2. Len(activMap') = n - 1
    BY <1>4, <1>7, DropTopKeeps DEF EngineInv, MapsOK
  <2>3. \A i \in 1 .. n - 1 : fnAfter(i) = fnNow(i)
    BY <1>3, <1>4, <2>2
  <2>4. \A i \in 1 .. n - 1 : RunBy(i) = fnNow(i) /\ RunBy(i)' = fnAfter(i)
    BY DEF RunBy, FnAt
  <2>5. fnAfter(n - 1) = pc'.fn
    BY <1>4, <1>7, <2>1, <2>2 DEF FnAt
  <2> HIDE DEF fnAfter, fnNow, n
  <2>6. n - 1 \in 1 .. n - 1
    BY <1>4, <1>7, <2>1
  <2>7. ~Translatable(pc'.fn - 1)
    BY <2>3, <2>4, <2>5, <2>6 DEF TierInv, n
  <2>8. \A i \in 1 .. Len(activMap') - 1 : ~Translatable(RunBy(i)' - 1)
    <3> SUFFICES ASSUME NEW i \in 1 .. Len(activMap') - 1 PROVE ~Translatable(RunBy(i)' - 1)
      OBVIOUS
    <3>1. i \in 1 .. n - 1
      BY <1>4, <2>2
    <3> QED BY <2>3, <2>4, <3>1 DEF TierInv, n
  <2>9. pc'.fn - 1 \notin isJitCompiled'
    BY <1>2, <2>7 DEF TierInv
  <2>10. Running'
    BY <2>2, <2>6 DEF Running
  <2> QED BY <1>1, <1>2, <1>5, <2>7, <2>8, <2>9, <2>10, TranslatableKept DEF TierInv
<1>8. ~Running => DropTop(activMap, 1) = activMap
  BY DEF Running, DropTop
<1> QED BY <1>1, <1>6, <1>7, <1>8 DEF ActivsStay

-----------------------------------------------------------------------------
(* Calls.                                                                  *)

\* A call that is run by machine code moves operands only.
LEMMA ExecuteJITPreserves ==
  ASSUME AtWork, Instr.op \in {"call", "call_indirect"}, NEW s, Moved(s),
         NEW idx \in Nat, idx < Len(mod.funcs), ExecuteJIT(s, idx)
  PROVE  Preserves /\ activMap' = activMap /\ mod' = mod
<1> DEFINE type == FuncType(mod, idx)
           n == Len(type.params)
<1>1. EngineInv /\ ControlInv /\ Running /\ mod \in Modules /\ Instr.op \notin Openers \cup {"end"}
  BY DEF AtWork, ControlInv, Openers
<1>2. CASE Mismatch
  BY <1>2, MismatchStep, HaltStays DEF Mismatch
<1>3. ASSUME NEW u, Moved(u), Leave(u)
      PROVE  Preserves /\ activMap' = activMap /\ mod' = mod
  <2>1. KeepFrames(u) /\ Dispatch(After) /\ contStore' = contStore
    BY <1>3 DEF Leave, Continue
  <2> QED BY <1>1, <1>3, <2>1, KeepPreserves, LeaveStays
<1>4. ASSUME ValuesOnTop(s, n)
      PROVE  Moved(DropTop(s, n))
  BY <1>1, <1>4, MovedPop
<1>5. CASE ValuesOnTop(s, n) /\ n = 1
           /\ \E v : Leave(Append(DropTop(s, 1), ValueFrame(v)))
  <2>1. PICK v : Leave(Append(DropTop(s, 1), ValueFrame(v)))
    BY <1>5
  <2>2. Moved(Append(DropTop(s, 1), ValueFrame(v)))
    BY <1>1, <1>4, <1>5, AreFrames, MovedPush
  <2> QED BY <1>3, <2>1, <2>2
<1>6. CASE ValuesOnTop(s, n) /\ Leave(DropTop(s, n))
  BY <1>3, <1>4, <1>6
<1> QED BY <1>2, <1>5, <1>6 DEF ExecuteJIT

\* A call that is interpreted.
LEMMA InvokeMoves ==
  ASSUME NEW s, NEW idx, Invoke(s, idx)
  PROVE  /\ mod' = mod
         /\ \/ /\ pc' = At(idx + 1, 1) /\ labelCount' = 0
               /\ \E a : activMap' = Append(activMap, a)
            \/ activMap' = activMap /\ pc' = pc /\ outcome' # "running"
<1>1. ASSUME NEW error, error # "running", Halt(error)
      PROVE  activMap' = activMap /\ pc' = pc /\ outcome' # "running" /\ mod' = mod
  BY <1>1 DEF Halt
<1>2. \A params : ParamError(s, params) # "running"
  BY DEF ParamError
<1> QED BY <1>1, <1>2 DEF Invoke, PushActiv, Dispatch

\* The count of a call that is counted, and what may be compiled.
LEMMA Counted ==
  ASSUME TierTypeOK, NEW idx, idx + 1 \in 1 .. Len(mod.funcs),
         executionCount' = [executionCount EXCEPT ![idx + 1] = Min({@ + 1, Threshold})],
         idx \in 0 .. Len(mod.funcs) - 1, Compile(idx)
  PROVE  /\ executionCount' \in [1 .. Len(mod.funcs) -> 0 .. Threshold]
         /\ isJitCompiled' \subseteq 0 .. Len(mod.funcs) - 1
         /\ (isJitCompiled' = isJitCompiled
             \/ (Translatable(idx) /\ isJitCompiled' = isJitCompiled \cup {idx}))
         /\ executionCount[idx + 1] = 0 => isJitCompiled' = isJitCompiled
<1> DEFINE c == executionCount[idx + 1]
<1>1. c \in 0 .. Threshold /\ Threshold \in Nat \ {0, 1}
  BY ThresholdAssumption DEF TierTypeOK
<1>2. Min({c + 1, Threshold}) = IF c + 1 <= Threshold THEN c + 1 ELSE Threshold
  <2>1. c + 1 \in Int /\ Threshold \in Int
    BY <1>1
  <2> QED BY <2>1, MinOfTwo
<1>3. Min({c + 1, Threshold}) \in 0 .. Threshold /\ (c = 0 => Min({c + 1, Threshold}) # Threshold)
  BY <1>1, <1>2
<1>4. executionCount'[idx + 1] = Min({c + 1, Threshold})
  BY DEF TierTypeOK
<1>5. executionCount' \in [1 .. Len(mod.funcs) -> 0 .. Threshold]
  BY <1>3 DEF TierTypeOK
<1>6. isJitCompiled' = isJitCompiled
      \/ (Translatable(idx) /\ isJitCompiled' = isJitCompiled \cup {idx})
  BY DEF Compile
<1>7. c = 0 => isJitCompiled' = isJitCompiled
  BY <1>3, <1>4 DEF Compile
<1> HIDE DEF c
<1>8. isJitCompiled' \subseteq 0 .. Len(mod.funcs) - 1
  BY <1>6 DEF TierTypeOK
<1> QED BY <1>5, <1>6, <1>7, <1>8 DEF c

\* An error leaves the tiers alone.
LEMMA HaltKeepsTiers ==
  ASSUME EngineInv, ControlInv, TierInv, NEW error, error # "running", Halt(error), UNCHANGED tierVars
  PROVE  Preserves /\ TierInv'
<1>1. Preserves
  BY HaltPreserves
<1>2. /\ stack' = stack /\ activMap' = activMap /\ pc' = pc /\ mod' = mod /\ outcome' # "running"
      /\ isJitCompiled' = isJitCompiled /\ executionCount' = executionCount
  BY DEF Halt, tierVars
<1>3. \A i : RunBy(i)' = RunBy(i)
  BY <1>2 DEF RunBy
<1>4. TierInv'
  BY <1>2, <1>3, TranslatableKept DEF TierInv, TierTypeOK, Running
<1> QED BY <1>1, <1>4

\* The running function calls, hence is never compiled: nor are its callers.
LEMMA CallsKeepTiers ==
  ASSUME EngineInv, TierInv, ~Translatable(pc.fn - 1), Preserves, activMap' = activMap, mod' = mod,
         TierTypeOK', \A idx \in isJitCompiled' : Translatable(idx), Running
  PROVE  TierInv'
<1> DEFINE n == Len(activMap)
<1>1. n \in Nat /\ n # 0
  BY TrackedFrames DEF Running, EngineInv
<1>2. \A i \in 1 .. n : FnAt(pc'.fn, stack', activMap', i) = FnAt(pc.fn, stack, activMap, i)
  BY <1>1 DEF Preserves, RunsKept
<1>3. \A i \in 1 .. n : RunBy(i) = FnAt(pc.fn, stack, activMap, i)
                      /\ RunBy(i)' = FnAt(pc'.fn, stack', activMap', i)
  BY DEF RunBy, FnAt
<1>4. FnAt(pc'.fn, stack', activMap', n) = pc'.fn /\ FnAt(pc.fn, stack, activMap, n) = pc.fn
  BY <1>1 DEF FnAt
<1> HIDE DEF n
<1>5. n \in 1 .. n /\ \A i \in 1 .. n - 1 : i \in 1 .. n
  BY <1>1
<1>6. pc'.fn = pc.fn
  BY <1>2, <1>4, <1>5
<1>7. \A i \in 1 .. n - 1 : ~Translatable(RunBy(i)' - 1)
  BY <1>2, <1>3, <1>5 DEF TierInv, n
<1>8. Running'
  BY DEF Running
<1> QED BY <1>6, <1>7, <1>8, TranslatableKept DEF TierInv, n

\* doCall with JIT.
LEMMA TieredCallKeepsTiers ==
  ASSUME EngineInv, ControlInv, TierInv, outcome = "running", NEW s, NEW idx \in Nat,
         Caller(s, idx), TieredCall(s, idx)
  PROVE  Preserves /\ TierInv'
<1> DEFINE n == Len(activMap)
<1>1. Len(mod.funcs) \in Int /\ mod.entry \in 0 .. Len(mod.funcs) - 1
  BY ModulesAssumption DEF ControlInv, Startable
<1>2. CASE idx >= Len(mod.funcs)
  BY <1>2, HaltKeepsTiers DEF TieredCall
<1>3. CASE ~(idx >= Len(mod.funcs))
  <2>1. /\ executionCount' = [executionCount EXCEPT ![idx + 1] = Min({@ + 1, Threshold})]
        /\ Compile(idx)
        /\ idx \in isJitCompiled' => ExecuteJIT(s, idx)
        /\ idx \notin isJitCompiled' => Invoke(s, idx)
    BY <1>3 DEF TieredCall
  <2>2. idx < Len(mod.funcs) /\ idx + 1 \in 1 .. Len(mod.funcs) /\ idx \in 0 .. Len(mod.funcs) - 1
    BY <1>1, <1>3
  <2>3. /\ executionCount' \in [1 .. Len(mod.funcs) -> 0 .. Threshold]
        /\ isJitCompiled' \subseteq 0 .. Len(mod.funcs) - 1
        /\ (isJitCompiled' = isJitCompiled
             \/ (Translatable(idx) /\ isJitCompiled' = isJitCompiled \cup {idx}))
        /\ executionCount[idx + 1] = 0 => isJitCompiled' = isJitCompiled
    BY <2>1, <2>2, Counted DEF TierInv
  <2>4. /\ mod' = mod => TierTypeOK'
        /\ \A i \in isJitCompiled' : Translatable(i)
    BY <2>3 DEF TierInv, TierTypeOK
  <2>5. At(idx + 1, 1).fn = idx + 1 /\ At(idx + 1, 1).at = 1 /\ (idx + 1) - 1 = idx
        /\ \A code : BeforeStop(code, 1)
    BY DEF At, BeforeStop
  <2>6. n \in Nat /\ activMap \in Seq(Nat \ {0})
    BY TrackedFrames DEF EngineInv, MapsOK
  <2>7. CASE ~Running
    <3>1. isJitCompiled' = {} /\ Invoke(s, idx)
      BY <2>1, <2>2, <2>3, <2>7 DEF TierInv
    <3>2. Preserves
      BY <3>1, InvokePreserves
    <3>3. CASE pc' = At(idx + 1, 1) /\ labelCount' = 0 /\ \E a : activMap' = Append(activMap, a)
      <4>1. Len(activMap') = 1
        BY <2>6, <2>7, <3>3 DEF Running
      <4>2. Running'
        BY <4>1 DEF Running
      <4>3. mod' = mod
        BY <3>1, InvokeMoves
      <4> QED BY <2>4, <2>5, <3>1, <3>2, <3>3, <4>1, <4>2, <4>3, TranslatableKept DEF TierInv
    <3>4. CASE activMap' = activMap /\ pc' = pc /\ outcome' # "running"
      <4>1. ~Running' /\ Len(activMap') = 0
        BY <2>7, <3>4 DEF Running
      <4>2. mod' = mod
        BY <3>1, InvokeMoves
      <4> QED BY <2>4, <3>1, <3>2, <3>4, <4>1, <4>2 DEF TierInv
    <3> QED BY <3>1, <3>3, <3>4, InvokeMoves
  <2>8. CASE Running
    <3>1. AtWork /\ Moved(s) /\ Instr.op \in {"call", "call_indirect"}
      BY <2>8 DEF Caller
    <3>2. ~Translatable(pc.fn - 1)
      BY <3>1, RunsStraight DEF Stops, Translated, TranslatedOps
    <3>3. CASE ExecuteJIT(s, idx)
      <4>1. Preserves /\ activMap' = activMap /\ mod' = mod
        BY <2>2, <3>1, <3>3, ExecuteJITPreserves
      <4> QED BY <2>4, <2>8, <3>2, <4>1, CallsKeepTiers
    <3>4. CASE idx \notin isJitCompiled' /\ Invoke(s, idx)
      <4>1. Preserves /\ mod' = mod
        BY <3>4, InvokePreserves, InvokeMoves
      <4>2. CASE activMap' = activMap
        BY <2>4, <2>8, <3>2, <4>1, <4>2, CallsKeepTiers
      <4>3. CASE pc' = At(idx + 1, 1) /\ labelCount' = 0 /\ \E a : activMap' = Append(activMap, a)
        <5>1. PICK a : activMap' = Append(activMap, a)
          BY <4>3
        <5>2. Len(activMap') = n + 1 /\ Running' /\ n # 0
          BY <2>6, <2>8, <5>1 DEF Running
        <5>3. \A i \in 1 .. n : FnAt(pc'.fn, stack', activMap', i) = FnAt(pc.fn, stack, activMap, i)
          BY <2>6, <4>1, <5>2 DEF Preserves, RunsKept
        <5>4. \A i \in 1 .. n : RunBy(i) = FnAt(pc.fn, stack, activMap, i)
                               /\ RunBy(i)' = FnAt(pc'.fn, stack', activMap', i)
          BY <2>6 DEF RunBy, FnAt
        <5>5. RunBy(n) = pc.fn
          BY DEF RunBy
        <5> HIDE DEF n
        <5>6. \A i \in 1 .. n : ~Translatable(RunBy(i) - 1)
          <6> SUFFICES ASSUME NEW i \in 1 .. n PROVE ~Translatable(RunBy(i) - 1)
            OBVIOUS
          <6>1. i = n \/ i \in 1 .. n - 1
            BY <2>6
          <6> QED BY <3>2, <5>5, <6>1 DEF TierInv, n
        <5>7. \A i \in 1 .. Len(activMap') - 1 : ~Translatable(RunBy(i)' - 1)
          <6>1. Len(activMap') - 1 = n
            BY <2>6, <5>2
          <6> QED BY <5>3, <5>4, <5>6, <6>1
        <5>8. pc'.fn - 1 \notin isJitCompiled'
          BY <2>5, <3>4, <4>3
        <5> QED BY <2>4, <2>5, <4>1, <4>3, <5>2, <5>7, <5>8, TranslatableKept DEF TierInv
      <4> QED BY <3>4, <4>2, <4>3, InvokeMoves
    <3> QED BY <2>1, <3>3, <3>4
  <2> QED BY <2>7, <2>8
<1> QED BY <1>2, <1>3

-----------------------------------------------------------------------------
(* The induction, and the properties.                                      *)

TiersSoundInv == EngineInv /\ ControlInv /\ TierInv

LEMMA TierStepPreserves ==
  ASSUME TiersSoundInv, TierStep
  PROVE  Preserves /\ TierInv'
<1>1. EngineInv /\ ControlInv /\ TierInv
  BY DEF TiersSoundInv
<1>2. CASE StepWithin /\ UNCHANGED tierVars
  BY <1>1, <1>2, StepWithinKeepsTiers
<1>3. CASE TierCall
  BY <1>1, <1>3, CallFetched, TieredCallKeepsTiers DEF TierCall
<1>4. CASE TierCallIndirect
  <2>1. Fetch("call_indirect")
    BY <1>4 DEF TierCallIndirect
  <2>2. CASE IndirectError = "none"
    <3>1. TieredCall(Under, TopVal)
      BY <1>4, <2>2 DEF TierCallIndirect
    <3> QED BY <1>1, <2>1, <2>2, <3>1, IndirectFetched, TieredCallKeepsTiers
  <2>3. CASE IndirectError # "none"
    <3>1. Halt(IndirectError) /\ UNCHANGED tierVars
      BY <1>4, <2>3 DEF TierCallIndirect
    <3> QED BY <1>1, <2>1, <3>1, IndirectFetched, HaltKeepsTiers
  <2> QED BY <2>2, <2>3
<1> QED BY <1>2, <1>3, <1>4 DEF TierStep

LEMMA TierStutters ==
  ASSUME TiersSoundInv, UNCHANGED <<vars, tierVars>>
  PROVE  TiersSoundInv'
<1>1. /\ stack' = stack /\ activMap' = activMap /\ labelCount' = labelCount /\ pc' = pc /\ mod' = mod
      /\ outcome' = outcome /\ isJitCompiled' = isJitCompiled /\ executionCount' = executionCount
  BY DEF vars, tierVars
<1>2. \A i : RunBy(i)' = RunBy(i)
  BY <1>1 DEF RunBy
<1>3. TierInv'
  BY <1>1, <1>2, TranslatableKept DEF TiersSoundInv, TierInv, TierTypeOK, Running
<1>4. EngineInv' /\ ControlInv'
  BY StutterPreserves DEF TiersSoundInv
<1> QED BY <1>3, <1>4 DEF TiersSoundInv

LEMMA TierStarts ==
  ASSUME TierInit
  PROVE  TiersSoundInv
<1>1. Init /\ executionCount = [i \in 1 .. Len(mod.funcs) |-> 0] /\ isJitCompiled = {}
  BY DEF TierInit
<1>2. ~Running /\ Len(activMap) = 0
  BY <1>1 DEF Init, Running
<1>3. TierTypeOK
  BY <1>1, ThresholdAssumption DEF TierTypeOK
<1>4. TierInv
  BY <1>1, <1>2, <1>3 DEF TierInv
<1> QED BY <1>1, <1>4, StartsSound DEF TiersSoundInv

\* With --jit the index vectors and the counter describe the stack as they do
\* without, and the tiers keep apart.
THEOREM TiersSound == TierSpec => []TiersSoundInv
<1>1. TierInit => TiersSoundInv
  BY TierStarts
<1>2. TiersSoundInv /\ [TierStep]_<<vars, tierVars>> => TiersSoundInv'
  BY TierStepPreserves, TierStutters DEF Preserves, TiersSoundInv
<1> QED BY <1>1, <1>2, PTL DEF TierSpec

\* Under --jit too: a branch or a return never meets a frame of another kind, the
\* engine never counts more labels than there are blocks around it, and every
\* activation returns behind the call that made it.
THEOREM TieredControlSound ==
  TierSpec => [](ActivTracked /\ LabelTracked /\ EntryAtBottom
                 /\ LabelsWithinNesting /\ ControlLinked /\ ContsStructural)
<1>1. TiersSoundInv => /\ ActivTracked /\ LabelTracked /\ EntryAtBottom
                       /\ LabelsWithinNesting /\ ControlLinked /\ ContsStructural
  BY TrackedBoth, LabelsWithin, LinkedControl, StructuralConts DEF TiersSoundInv
<1> QED BY <1>1, TiersSound, PTL

\* Nor does a callee, compiled or not, reach the frames of its callers.
THEOREM TieredFramesIsolated == TierSpec => FrameIsolation
<1>1. TiersSoundInv /\ [TierStep]_<<vars, tierVars>> => [CallerUntouched]_frameVars
  <2>1. UNCHANGED <<vars, tierVars>> => UNCHANGED frameVars
    BY DEF vars, frameVars
  <2> QED BY <2>1, TierStepPreserves DEF Preserves
<1> QED BY <1>1, TiersSound, PTL DEF TierSpec, FrameIsolation

\* The second of two runs of a program is a run with --jit.
LEMMA TwinIsTiered == TwinSpec => TierSpec
<1>1. TwinInit => TierInit
  BY DEF TwinInit
<1>2. [TwinNext]_<<vars, tierVars, offVars>> => [TierStep]_<<vars, tierVars>>
  BY DEF TwinNext
<1> QED BY <1>1, <1>2, PTL DEF TwinSpec, TierSpec

\* A count never passes Threshold, and machine code is only of functions that
\* there are.
THEOREM TierTypesCorrect == TwinSpec => []TierTypeOK
<1>1. TiersSoundInv => TierTypeOK
  BY DEF TiersSoundInv, TierInv
<1> QED BY <1>1, TiersSound, TwinIsTiered, PTL

\* No activation runs a function by the interpreter that has machine code.
THEOREM TiersStayApart == TwinSpec => []TiersExclusive
<1>1. ASSUME TiersSoundInv PROVE TiersExclusive
  <2> DEFINE n == Len(activMap)
  <2>1. EngineInv /\ TierInv
    BY <1>1 DEF TiersSoundInv
  <2>2. n \in Nat /\ DOMAIN activMap = 1 .. n /\ (n # 0 => Running)
    BY <2>1, TrackedFrames DEF EngineInv, MapsOK, Running
  <2>3. RunBy(n) = pc.fn
    BY DEF RunBy
  <2> HIDE DEF n
  <2>4. ASSUME NEW i \in 1 .. n PROVE RunBy(i) - 1 \notin isJitCompiled
    <3>1. i = n \/ i \in 1 .. n - 1
      BY <2>2
    <3>2. CASE i = n
      BY <2>1, <2>2, <2>3, <3>2 DEF TierInv
    <3>3. CASE i \in 1 .. n - 1
      BY <2>1, <3>3 DEF TierInv, n
    <3> QED BY <3>1, <3>2, <3>3
  <2> QED BY <2>2, <2>4 DEF TiersExclusive
<1> QED BY <1>1, TiersSound, TwinIsTiered, PTL
=============================================================================
