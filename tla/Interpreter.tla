----------------------------- MODULE Interpreter -----------------------------
(***************************************************************************)
(* The interpreter (lib/interpreter.cc) on the tracked frame stack: the    *)
(* driver's call of the entry function, the dispatch loop, the handlers of *)
(* the control, parametric, variable, constant and integer instructions,   *)
(* the crawl for the continuations of a block, and postProcess.            *)
(*                                                                         *)
(* Each dispatched instruction is one step: the engine is single threaded. *)
(* Exception::terminate ends the process; `outcome` then holds the error.  *)
(* JIT is off, as it is without --jit.  Data, Addr and Locals, which bound *)
(* the choices of FrameNext, play no part here: programs make the choices. *)
(***************************************************************************)
EXTENDS FrameStack, SequencesExt, WasmModule

CONSTANTS Modules,   \* the modules that may be executed
          Width,     \* bits of an i32
          LongWidth  \* bits of an i64

\* What instantiation guarantees of a module that is executed: a function has a
\* type of the module, a global an initial value and an entry of the table an
\* index, the entry is one of the functions, and the stack holds one argument
\* for each parameter of it.
Startable(m) ==
  /\ m.types \in Seq([params : Seq(STRING), results : Seq(STRING)])
  /\ \A i \in 1 .. Len(m.funcs) : m.funcs[i].type \in 0 .. Len(m.types) - 1
                                 /\ m.funcs[i].locals \in Seq(ValType)
  /\ m.globals \in Seq([mutable : BOOLEAN, init : [type : ValType, val : Int]])
  /\ m.table \in Seq(Int)
  /\ m.entry \in 0 .. Len(m.funcs) - 1
  /\ m.args \in Seq([type : ValType, val : Int])
  /\ Len(m.args) = Len(FuncType(m, m.entry).params)

\* What the binary format says of a function body, and nobody tests: its blocks
\* are nested, its own `end` comes last, and the immediates that are depths,
\* indices and tables of depths are unsigned.
Structured(code) ==
  /\ code \in Seq([op : STRING, n : Int, t : STRING, e : Seq(Nat), last : Nat])
  /\ \A k \in 1 .. Len(code) : /\ code[k].op # "const" => code[k].n \in Nat
                               /\ code[k].op = "br_table" => code[k].e # <<>>
  /\ WellNested(code)

ASSUME ModulesAssumption ==
  \A m \in Modules : Startable(m) /\ \A i \in 1 .. Len(m.funcs) : Structured(m.funcs[i].code)

VARIABLES mod,        \* the instantiated module
          pc,         \* position of the next instruction
          globals,    \* rtGlobals
          contStore,  \* continuations found by earlier crawls
          status,     \* EngineStatus (CRAWLING never outlives a handler)
          outcome,    \* "running", "stopped", "done", or an error
          result      \* what execute returns: <<>> or <<value>>

Ints == INSTANCE IntOps

vars == <<stack, labelMap, activMap, labelCount,
          mod, pc, globals, contStore, status, outcome, result>>

\* Exceptions no handler catches end the process too.
Uncaught == {"std::out_of_range", "std::bad_variant_access", "std::bad_alloc"}
Signals == {"SIGFPE"}
ErrorType == {"STACK_VAL_TYPE_MISMATCH", "ARITY_TYPE_MISMATCH", "MISSING_FUNC_PARAMS",
              "ILLFORMED_STRUCTURE", "ILLEGAL_BREAK_LVL", "ILLEGAL_LOCAL_IDX",
              "GLOBAL_ACCESS_OOB", "IMMUTABLE_GLOBAL_MUTATION", "FUNC_TYPE_ACCESS_OOB",
              "NO_AVAILABLE_TABLES_EXIST", "FUNC_TYPE_MISMATCH", "UNREACHABLE",
              "DIVISION_BY_ZERO", "VAL_NOT_REPRESENTABLE"}
Errors == ErrorType \cup Uncaught \cup Signals

-----------------------------------------------------------------------------
(* Fetching and leaving an instruction.                                    *)

Instr == Code(mod, pc.fn)[pc.at]
After == At(pc.fn, pc.at + 1)

Fetch(op) == outcome = "running" /\ HasRoom /\ Instr.op = op

\* Exception::terminate, or an exception nobody catches.
Halt(error) ==
  /\ outcome' = error
  /\ UNCHANGED <<stack, labelMap, activMap, labelCount,
                 mod, pc, globals, contStore, status, result>>

\* Go on at `next`: of the handlers only those of `end` and `return` are
\* followed by a test of the engine's status.
Dispatch(next) ==
  /\ pc' = next
  /\ outcome' = IF Instr.op \in {"end", "return"} /\ status' # "EXECUTING"
                THEN "stopped" ELSE outcome
  /\ UNCHANGED <<mod, result>>

Continue == Dispatch(After) /\ UNCHANGED <<globals, contStore, status>>

-----------------------------------------------------------------------------
(* Operands.                                                               *)

IsType(f, t) == f.kind = "value" /\ f.value.type = t

\* retStackValOfRTType<rt_i32_t>: the test, the value and the stack left.
I32OnTop == stack # <<>> /\ IsType(Last(stack), "i32")
TopVal == Last(stack).value.val
Under == DropTop(stack, 1)
Mismatch == Halt("STACK_VAL_TYPE_MISMATCH")

\* The operands left are s.
Leave(s) == KeepFrames(s) /\ Continue
PushVal(v) == Leave(Append(stack, ValueFrame(v)))

I32(n) == [type |-> "i32", val |-> n]
Zero(t) == [type |-> t, val |-> 0]

-----------------------------------------------------------------------------
(* Continuations of a block: [after each own Else, after End].             *)

\* Mutant: a loop does not open a block.
CrawlOverPastLoops(s, op, next) ==
  CASE op = "block" -> [s EXCEPT !.ends = @ + 1]
    [] op = "if" -> [s EXCEPT !.ends = @ + 1, !.elses = @ + 1]
    [] op = "else" /\ s.elses = 0 -> [s EXCEPT !.conts = Append(@, next)]
    [] op = "else" /\ s.elses > 0 -> [s EXCEPT !.elses = @ - 1]
    [] op = "end" /\ s.ends = 0 -> [s EXCEPT !.conts = Append(@, next), !.crawling = FALSE]
    [] op = "end" /\ s.ends > 0 -> [s EXCEPT !.ends = @ - 1]
    [] OTHER -> s

\* One turn of the crawl: the counts are of the inner blocks that are open and
\* of the inner ifs that wait for an else.
CrawlOver(s, op, next) ==
  CASE op \in {"block", "loop"} -> [s EXCEPT !.ends = @ + 1]
    [] op = "if" -> [s EXCEPT !.ends = @ + 1, !.elses = @ + 1]
    [] op = "else" /\ s.elses = 0 -> [s EXCEPT !.conts = Append(@, next)]
    [] op = "else" /\ s.elses > 0 -> [s EXCEPT !.elses = @ - 1]
    [] op = "end" /\ s.ends = 0 -> [s EXCEPT !.conts = Append(@, next), !.crawling = FALSE]
    [] op = "end" /\ s.ends > 0 -> [s EXCEPT !.ends = @ - 1]
    [] OTHER -> s

\* The crawl from position p.at on: what it found when it stopped.
CrawlState == [conts : Seq([fn : Nat, at : Nat]), ends : Nat, elses : Nat, crawling : BOOLEAN]
CrawlStart == [conts |-> <<>>, ends |-> 0, elses |-> 0, crawling |-> TRUE]

Crawl(p) ==
  LET code == Code(mod, p.fn)
      turn == [n \in Nat |-> [s \in CrawlState |->
                IF s.crawling THEN CrawlOver(s, code[p.at + n - 1].op, At(p.fn, p.at + n)) ELSE s]]
      after[n \in Nat] == IF n = 0 THEN CrawlStart ELSE turn[n][after[n - 1]]
  IN  after[Len(code) - p.at + 1].conts

\* lookupLabelContFromPC: a crawl leaves the engine EXECUTING, whatever it was.
LookupConts(p) ==
  IF p \in DOMAIN contStore
  THEN UNCHANGED <<contStore, status>>
  ELSE /\ contStore' = [q \in DOMAIN contStore \cup {p} |->
                          IF q = p THEN Crawl(p) ELSE contStore[q]]
       /\ status' = "EXECUTING"

-----------------------------------------------------------------------------
(* Branches and returns.                                                   *)

ArityFails(s, arity) ==
  /\ ~ArityHolds(s, arity)
  /\ Halt(IF ValuesOnTop(s, Len(arity)) THEN "ARITY_TYPE_MISMATCH"
          ELSE "STACK_VAL_TYPE_MISMATCH")

\* The byte doBr takes for the opcode it runs for is the last one read: the
\* opcode itself, or the last byte of the immediates.
EndByte == 11
ReadEndByte ==
  \/ Instr.op = "end"
  \/ Instr.op \in {"br", "br_if", "br_table"} /\ Instr.last = EndByte

\* doReturn, of `depth` labels.
ReturnWith(s, depth) ==
  \/ /\ TopActiv = 1
     /\ KeepFrames(s)
     /\ status' = "STOPPED"
     /\ Dispatch(After) /\ UNCHANGED <<globals, contStore>>
  \/ /\ TopActiv # 1
     /\ RetFromActiv(s, depth)
     /\ UNCHANGED <<globals, contStore, status>>
     /\ Dispatch(s[TopActiv].cont)
  \/ TopActiv # 1 /\ ArityFails(s, s[TopActiv].arity)

\* Mutant: the innermost label only is consumed, whatever the depth.
BranchToPopsOne(s, depth) ==
  \/ /\ labelCount > depth
     /\ RetFromLabel(s, 0)
     /\ UNCHANGED <<globals, contStore, status>>
     /\ Dispatch(IF ReadEndByte THEN After ELSE s[TrackedLabel(depth)].cont)
  \/ labelCount > depth /\ ArityFails(s, s[TrackedLabel(depth)].arity)
  \/ labelCount = depth /\ ReturnWith(s, depth)
  \/ labelCount < depth /\ Halt("ILLEGAL_BREAK_LVL")

\* doBr with its depth decoded.
BranchTo(s, depth) ==
  \/ /\ labelCount > depth
     /\ RetFromLabel(s, depth)
     /\ UNCHANGED <<globals, contStore, status>>
     /\ Dispatch(IF ReadEndByte THEN After ELSE s[TrackedLabel(depth)].cont)
  \/ labelCount > depth /\ ArityFails(s, s[TrackedLabel(depth)].arity)
  \/ labelCount = depth /\ ReturnWith(s, depth)
  \/ labelCount < depth /\ Halt("ILLEGAL_BREAK_LVL")

DoBr == Fetch("br") /\ BranchTo(stack, Instr.n)
DoElse == Fetch("else") /\ BranchTo(stack, 0)
DoEnd == Fetch("end") /\ BranchTo(stack, 0)
DoReturn == Fetch("return") /\ ReturnWith(stack, labelCount)

DoBrIf ==
  /\ Fetch("br_if")
  /\ \/ I32OnTop /\ TopVal # 0 /\ BranchTo(Under, Instr.n)
     \/ I32OnTop /\ TopVal = 0 /\ Leave(Under)
     \/ ~I32OnTop /\ Mismatch

\* Mutant: the entries are numbered from one.
DoBrTableFromOne ==
  /\ Fetch("br_table")
  /\ \/ I32OnTop /\ BranchTo(Under, IF TopVal \in 1 .. Len(Instr.e)
                                   THEN Instr.e[TopVal] ELSE Last(Instr.e))
     \/ ~I32OnTop /\ Mismatch

\* The operand is compared unsigned with the entries, the default included.
DoBrTable ==
  /\ Fetch("br_table")
  /\ \/ I32OnTop /\ BranchTo(Under, IF TopVal \in 0 .. Len(Instr.e) - 1
                                   THEN Instr.e[TopVal + 1] ELSE Last(Instr.e))
     \/ ~I32OnTop /\ Mismatch

-----------------------------------------------------------------------------
(* Blocks.                                                                 *)

DoBlock ==
  /\ Fetch("block")
  /\ LookupConts(After)
  /\ PushLabel(stack, Last(contStore'[After]), BlockArity(Instr.t))
  /\ Dispatch(After) /\ UNCHANGED globals

\* Mutant: the continuation is the first instruction of the body.
DoLoopIntoBody ==
  /\ Fetch("loop")
  /\ PushLabel(stack, After, BlockArity(Instr.t))
  /\ Continue

\* The continuation of a loop is the Loop opcode: it opens its label again.
DoLoop ==
  /\ Fetch("loop")
  /\ PushLabel(stack, pc, BlockArity(Instr.t))
  /\ Continue

\* Refused without an else of its own.
DoIf ==
  /\ Fetch("if")
  /\ LET conts == IF After \in DOMAIN contStore THEN contStore[After] ELSE Crawl(After) IN
     \/ Len(conts) < 2 /\ Halt("ILLFORMED_STRUCTURE")
     \/ Len(conts) >= 2 /\ ~I32OnTop /\ Mismatch
     \/ /\ Len(conts) >= 2 /\ I32OnTop
        /\ LookupConts(After)
        /\ PushLabel(Under, Last(conts), BlockArity(Instr.t))
        /\ Dispatch(IF TopVal = 0 THEN Head(conts) ELSE After)
        /\ UNCHANGED globals

-----------------------------------------------------------------------------
(* Calls.                                                                  *)

\* The first parameter, in the order they are popped, that is not on top.
ParamError(s, params) ==
  LET Bad(i) == i > Len(s) \/ ~IsType(s[Len(s) - i + 1], params[i])
      first == CHOOSE i \in 1 .. Len(params) : Bad(i) /\ \A j \in 1 .. i - 1 : ~Bad(j)
  IN  IF first <= Len(s) /\ s[Len(s) - first + 1].kind = "value"
      THEN "MISSING_FUNC_PARAMS" ELSE "STACK_VAL_TYPE_MISMATCH"

\* Mutant: the activation is given the parameter types for its result types.
InvokeForParams(s, idx) ==
  IF idx >= Len(mod.funcs) THEN Halt("std::out_of_range")
  ELSE LET type == FuncType(mod, idx)
           n == Len(type.params)
           vars0 == mod.funcs[idx + 1].locals
           popped == [i \in 1 .. n |-> s[Len(s) - i + 1].value]
       IN  IF /\ ValuesOnTop(s, n)
              /\ \A i \in 1 .. n : popped[i].type = type.params[i]
           THEN /\ PushActiv(DropTop(s, n),
                             popped \o [i \in DOMAIN vars0 |-> Zero(vars0[i])],
                             After, type.params)
                /\ UNCHANGED <<globals, contStore, status>>
                /\ Dispatch(At(idx + 1, 1))
           ELSE Halt(ParamError(s, type.params))

\* doCall without JIT: local i is the i-th value popped.
Invoke(s, idx) ==
  IF idx >= Len(mod.funcs) THEN Halt("std::out_of_range")
  ELSE LET type == FuncType(mod, idx)
           n == Len(type.params)
           vars0 == mod.funcs[idx + 1].locals
           popped == [i \in 1 .. n |-> s[Len(s) - i + 1].value]
       IN  IF /\ ValuesOnTop(s, n)
              /\ \A i \in 1 .. n : popped[i].type = type.params[i]
           THEN /\ PushActiv(DropTop(s, n),
                             popped \o [i \in DOMAIN vars0 |-> Zero(vars0[i])],
                             After, type.results)
                /\ UNCHANGED <<globals, contStore, status>>
                /\ Dispatch(At(idx + 1, 1))
           ELSE Halt(ParamError(s, type.params))

DoCall == Fetch("call") /\ Invoke(stack, Instr.n)

\* The tests of doCallIndirect, in their order: "none" if all hold.
IndirectError ==
  IF Instr.n >= Len(mod.types) THEN "FUNC_TYPE_ACCESS_OOB"
  ELSE IF ~I32OnTop THEN "STACK_VAL_TYPE_MISMATCH"
  ELSE IF TopVal \notin 0 .. Len(mod.table) - 1 THEN "NO_AVAILABLE_TABLES_EXIST"
  ELSE IF TopVal >= Len(mod.funcs) THEN "std::out_of_range"
  ELSE IF FuncType(mod, TopVal) # mod.types[Instr.n + 1] THEN "FUNC_TYPE_MISMATCH"
  ELSE "none"

\* The operand, if below the size of the table, is used as a function index.
DoCallIndirect ==
  /\ Fetch("call_indirect")
  /\ IF IndirectError = "none" THEN Invoke(Under, TopVal) ELSE Halt(IndirectError)

-----------------------------------------------------------------------------
(* Operands, locals, globals, integers.                                     *)

DoUnreachable == Fetch("unreachable") /\ Halt("UNREACHABLE")
DoNop == Fetch("nop") /\ Leave(stack)
DoConst == Fetch("const") /\ PushVal([type |-> Instr.t, val |-> Instr.n])

DoDrop ==
  /\ Fetch("drop")
  /\ IF ValuesOnTop(stack, 1) THEN Leave(Under) ELSE Mismatch

\* The condition and one of the two values below it go.
DoSelect ==
  /\ Fetch("select")
  /\ LET n == Len(stack) IN
     IF /\ I32OnTop /\ ValuesOnTop(stack, 3)
        /\ IsType(stack[n - 2], stack[n - 1].value.type)
     THEN Leave(IF TopVal = 0 THEN Append(DropTop(stack, 3), stack[n - 1])
                ELSE DropTop(stack, 2))
     ELSE Mismatch

CurrentLocals == stack[TopActiv].locals

DoLocalGet ==
  /\ Fetch("local.get")
  /\ IF Instr.n < Len(CurrentLocals) THEN PushVal(CurrentLocals[Instr.n + 1])
     ELSE Halt("ILLEGAL_LOCAL_IDX")

\* Mutant: assigns to the first recorded activation.
AssignTopOfEntry(s) ==
  IF ~ValuesOnTop(stack, 1) THEN Mismatch
  ELSE IF Instr.n >= Len(CurrentLocals) THEN Halt("std::out_of_range")
  ELSE IF ~IsType(Last(stack), CurrentLocals[Instr.n + 1].type) THEN Mismatch
  ELSE LET locals == [CurrentLocals EXCEPT ![Instr.n + 1] = Last(stack).value]
       IN  Leave([s EXCEPT ![activMap[1]].locals = locals])

\* doLocalSet; s is the stack it leaves, with the value still on for local.tee.
AssignTop(s) ==
  IF ~ValuesOnTop(stack, 1) THEN Mismatch
  ELSE IF Instr.n >= Len(CurrentLocals) THEN Halt("std::out_of_range")
  ELSE IF ~IsType(Last(stack), CurrentLocals[Instr.n + 1].type) THEN Mismatch
  ELSE LET locals == [CurrentLocals EXCEPT ![Instr.n + 1] = Last(stack).value]
       IN  Leave([s EXCEPT ![TopActiv].locals = locals])

DoLocalSet == Fetch("local.set") /\ AssignTop(Under)
DoLocalTee == Fetch("local.tee") /\ AssignTop(stack)

DoGlobalGet ==
  /\ Fetch("global.get")
  /\ IF Instr.n < Len(globals) THEN PushVal(globals[Instr.n + 1])
     ELSE Halt("GLOBAL_ACCESS_OOB")

DoGlobalSet ==
  /\ Fetch("global.set")
  /\ IF Instr.n >= Len(globals) THEN Halt("GLOBAL_ACCESS_OOB")
     ELSE IF ~ValuesOnTop(stack, 1) THEN Mismatch
     ELSE IF mod.globals[Instr.n + 1].mutable /\ IsType(Last(stack), globals[Instr.n + 1].type)
     THEN /\ KeepFrames(Under)
          /\ globals' = [globals EXCEPT ![Instr.n + 1] = Last(stack).value]
          /\ Dispatch(After) /\ UNCHANGED <<contStore, status>>
     ELSE Halt("IMMUTABLE_GLOBAL_MUTATION")

\* Integer instructions: Instr.t is the type of the operands, and of the result
\* unless it is a truth value.
WidthOf(t) == IF t = "i32" THEN Width ELSE LongWidth
IntResult(v) ==
  [type |-> IF Instr.op \in Ints!Comparisons \cup {"eqz"} THEN "i32" ELSE Instr.t, val |-> v]

\* opHandlerFTRO, and the handlers of division and shift.
DoBinary ==
  /\ \E op \in Ints!Binaries : Fetch(op)
  /\ LET n == Len(stack) IN
     IF ValuesOnTop(stack, 2) /\ IsType(stack[n], Instr.t) /\ IsType(stack[n - 1], Instr.t)
     THEN \E o \in Ints!Binary(Instr.op, stack[n - 1].value.val, TopVal, WidthOf(Instr.t)) :
            IF o.trap = "none"
            THEN Leave(Append(DropTop(stack, 2), ValueFrame(IntResult(o.val))))
            ELSE Halt(o.trap)
     ELSE Mismatch

\* opHandlerFORO, and the handlers that count bits.
DoUnary ==
  /\ \E op \in Ints!Unaries : Fetch(op)
  /\ IF ValuesOnTop(stack, 1) /\ IsType(Last(stack), Instr.t)
     THEN Leave(Append(Under, ValueFrame(IntResult(Ints!Unary(Instr.op, TopVal, WidthOf(Instr.t))))))
     ELSE Mismatch

\* Between i32 and i64: Instr.t is the type of the result.
DoConvert ==
  /\ \E op \in Ints!Conversions : Fetch(op)
  /\ IF ValuesOnTop(stack, 1) /\ IsType(Last(stack), IF Instr.t = "i32" THEN "i64" ELSE "i32")
     THEN Leave(Append(Under, ValueFrame([type |-> Instr.t,
                                          val |-> Ints!Convert(Instr.op, TopVal, Width)])))
     ELSE Mismatch

-----------------------------------------------------------------------------
(* Starting and ending.                                                    *)

\* Runtime::stack holds the arguments; the driver's `call` is fetched first.
Init ==
  /\ mod \in Modules
  /\ stack = [i \in DOMAIN mod.args |-> ValueFrame(mod.args[i])]
  /\ labelMap = <<>> /\ activMap = <<>> /\ labelCount = 0
  /\ pc = At(0, 1)
  /\ globals = [i \in DOMAIN mod.globals |-> mod.globals[i].init]
  /\ contStore = << >>
  /\ status = "EXECUTING" /\ outcome = "running" /\ result = <<>>

\* postProcess: the value on top, if the top activation has a result type.
PostProcess ==
  /\ outcome = "stopped"
  /\ IF stack[TopActiv].arity = <<>>
     THEN outcome' = "done" /\ UNCHANGED result
     ELSE IF ValuesOnTop(stack, 1)
     THEN outcome' = "done" /\ result' = <<Last(stack).value>>
     ELSE outcome' = "std::bad_variant_access" /\ UNCHANGED result
  /\ UNCHANGED <<stack, labelMap, activMap, labelCount, mod, pc, globals, contStore, status>>

\* A vector cannot grow any more.
OutOfMemory == outcome = "running" /\ ~HasRoom /\ Halt("std::bad_alloc")

Ended == outcome \notin {"running", "stopped"}

\* The steps that call no function.
StepWithin ==
  \/ DoUnreachable \/ DoNop \/ DoBlock \/ DoLoop \/ DoIf \/ DoElse \/ DoEnd
  \/ DoBr \/ DoBrIf \/ DoBrTable \/ DoReturn
  \/ DoDrop \/ DoSelect \/ DoLocalGet \/ DoLocalSet \/ DoLocalTee
  \/ DoGlobalGet \/ DoGlobalSet \/ DoConst \/ DoBinary \/ DoUnary \/ DoConvert
  \/ OutOfMemory \/ PostProcess

Step == StepWithin \/ DoCall \/ DoCallIndirect

Next == Step \/ (Ended /\ UNCHANGED vars)

Spec == Init /\ [][Next]_vars

\* The process runs on: nothing else competes with the one thread.
FairSpec == Spec /\ WF_vars(Step)

-----------------------------------------------------------------------------
(* Properties.                                                             *)

Live == outcome \in {"running", "stopped"}

TypeOK ==
  /\ \A p \in DOMAIN stack : stack[p].kind \in {"value", "label", "activ"}
  /\ labelMap \in Seq(Nat \ {0}) /\ activMap \in Seq(Nat \ {0}) /\ labelCount \in Nat
  /\ pc.fn \in 0 .. Len(mod.funcs)
  /\ \A i \in DOMAIN globals : globals[i].type = mod.globals[i].init.type
  /\ status \in {"EXECUTING", "STOPPED"}
  /\ outcome \in {"running", "stopped", "done"} \cup Errors
  /\ Len(result) <= 1

\* The engine never fetches beyond a function's body, and never counts more
\* labels than the blocks around the instruction it is about to run: a label
\* too many would make the final `end` fall off the body.
LabelsWithinNesting ==
  outcome = "running" =>
    /\ pc.at \in 1 .. Len(Code(mod, pc.fn))
    /\ labelCount <= Nesting(Code(mod, pc.fn), pc.at)

\* The function each activation runs: the top one the function of the pc, each
\* other one the function its callee returns into.
RunBy(i) == IF i = Len(activMap) THEN pc.fn ELSE stack[activMap[i + 1]].cont.fn

\* Every activation returns behind the call that made it, with the result types
\* and the locals of the function it runs, and every counted label continues in
\* the function that opened it.
ControlLinked ==
  Live =>
    /\ \A i \in DOMAIN activMap :
         LET f == stack[activMap[i]]
             caller == IF i = 1 THEN 0 ELSE RunBy(i - 1)
             call == Code(mod, f.cont.fn)[f.cont.at - 1]
         IN  /\ f.cont.fn = caller
             /\ \/ call.op = "call" /\ call.n + 1 = RunBy(i)
                \/ call.op = "call_indirect"
             /\ f.arity = FuncType(mod, RunBy(i) - 1).results
             /\ [k \in DOMAIN f.locals |-> f.locals[k].type] =
                  FuncType(mod, RunBy(i) - 1).params \o mod.funcs[RunBy(i)].locals
    /\ \A k \in Len(labelMap) - labelCount + 1 .. Len(labelMap) :
         stack[labelMap[k]].cont.fn = pc.fn

\* What the crawl finds, and every later entry of the block reuses, is what the
\* nesting of the code says: the position after the block's own `end`, preceded
\* by the one after its own `else` when the block is an `if` the engine accepts.
ContsStructural ==
  \A p \in DOMAIN contStore :
    LET code == Code(mod, p.fn)
        conts == contStore[p]
    IN  /\ Last(conts).at = ClosingEnd(code, p.at) + 1
        /\ code[p.at - 1].op = "if" =>
             {conts[k].at - 1 : k \in 1 .. Len(conts) - 1} = OwnElses(code, p.at)

\* An engine that was stopped runs no further instruction.
StopIsFinal == [][status = "STOPPED" => outcome' # "running" /\ status' = status]_vars

\* The program ends, and with the outcome and the result that are expected of it.
EndsAsExpected == <>(outcome = mod.outcome /\ result = mod.result)
=============================================================================
