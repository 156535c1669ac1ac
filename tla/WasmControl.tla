----------------------------- MODULE WasmControl -----------------------------
(***************************************************************************)
(* What WebAssembly 1.0 promises of the instructions that Interpreter      *)
(* models: structured control.  The target of a branch, the values it      *)
(* carries and the end of a block are read off the nesting of the code;    *)
(* the stack holds values, bare label marks and activations.  There are no *)
(* continuations in labels, no index vectors, no counter, no cache and no  *)
(* engine status: those are the interpreter's means, and Interpreter is    *)
(* checked to implement this module.                                       *)
(*                                                                         *)
(* The standard gives no meaning to code that does not validate.  A step   *)
(* whose operands are not the ones the standard requires is Undefined: it  *)
(* may end in any way, but not go on.  Running out of memory is allowed.   *)
(***************************************************************************)
EXTENDS WasmModule, SequencesExt

CONSTANTS Width, LongWidth

VARIABLES mod, pc, frames, globals, outcome, result

Std == INSTANCE WasmInts

vars == <<mod, pc, frames, globals, outcome, result>>

code == Code(mod, pc.fn)
instr == code[pc.at]
next == At(pc.fn, pc.at + 1)

Exec(op) == outcome = "running" /\ instr.op = op

Undefined ==
  /\ outcome' \notin {"running", "stopped"}
  /\ UNCHANGED <<mod, pc, frames, globals>>

\* Go on at p with the frames fs, or, where the standard requires it not, Undefined.
Reduce(required, fs, p) ==
  IF required
  THEN frames' = fs /\ pc' = p /\ UNCHANGED <<mod, globals, outcome, result>>
  ELSE Undefined

-----------------------------------------------------------------------------
(* The stack.                                                              *)

Val(v) == [kind |-> "value", value |-> v]

\* The values of the given types are on top, in this order.
Operands(fs, types) ==
  /\ Len(types) <= Len(fs)
  /\ \A i \in DOMAIN types :
       LET f == fs[Len(fs) - Len(types) + i] IN f.kind = "value" /\ f.value.type = types[i]

Pop(fs, n) == SubSeq(fs, 1, Len(fs) - n)
Popped(fs, n) == SubSeq(fs, Len(fs) - n + 1, Len(fs))
TopInt == Last(frames).value.val

\* The innermost activation, and the d-th label above it.
Current(fs) ==
  CHOOSE p \in DOMAIN fs : fs[p].kind = "activ" /\ \A q \in p + 1 .. Len(fs) : fs[q].kind # "activ"
Label(fs, d) ==
  CHOOSE p \in DOMAIN fs :
    /\ fs[p].kind = "label"
    /\ Cardinality({q \in p + 1 .. Len(fs) : fs[q].kind = "label"}) = d

\* Leave the frame at p and all above it with the results on top.
Unwind(fs, p, results) == SubSeq(fs, 1, p - 1) \o Popped(fs, Len(results))

-----------------------------------------------------------------------------
(* Control instructions.                                                   *)

\* Leave the function: hand the results over, or stop if nobody called it.
FinishFunction(fs) ==
  LET a == Current(fs) IN
  IF a = 1
  THEN outcome' = "stopped" /\ frames' = fs /\ pc' = next /\ UNCHANGED <<mod, globals, result>>
  ELSE Reduce(Operands(fs, fs[a].arity), Unwind(fs, a, fs[a].arity), fs[a].cont)

\* A branch to a loop starts it again and carries nothing; one to another block
\* goes behind its end and carries its result.
BranchOut(fs, d) ==
  IF d >= Nesting(code, pc.at)
  THEN IF d = Nesting(code, pc.at) THEN FinishFunction(fs) ELSE Undefined
  ELSE LET o == Enclosing(code, pc.at, d)
           carried == IF code[o].op = "loop" THEN <<>> ELSE BlockArity(code[o].t)
           target == IF code[o].op = "loop" THEN o ELSE ClosingEnd(code, o + 1) + 1
       IN  Reduce(Operands(fs, carried), Unwind(fs, Label(fs, d), carried), At(pc.fn, target))

\* The end of a block, reached from inside it, or the end of the function.
EndBlock ==
  IF Nesting(code, pc.at) = 0 THEN FinishFunction(frames)
  ELSE LET o == Enclosing(code, pc.at, 0)
           t == BlockArity(code[o].t)
       IN  Reduce(Operands(frames, t), Unwind(frames, Label(frames, 0), t),
                  At(pc.fn, ClosingEnd(code, o + 1) + 1))

Mark(fs) == Append(fs, [kind |-> "label"])

\* The first instruction of the branch of an `if` that is taken on zero.
OnZero ==
  LET elses == OwnElses(code, pc.at + 1)
  IN  IF elses = {} THEN ClosingEnd(code, pc.at + 1) ELSE 1 + CHOOSE k \in elses : TRUE

Control ==
  \/ Exec("block") /\ Reduce(TRUE, Mark(frames), next)
  \/ Exec("loop") /\ Reduce(TRUE, Mark(frames), next)
  \/ Exec("if") /\ Reduce(Operands(frames, <<"i32">>), Mark(Pop(frames, 1)),
                          IF TopInt = 0 THEN At(pc.fn, OnZero) ELSE next)
  \/ (Exec("end") \/ Exec("else")) /\ EndBlock
  \/ Exec("br") /\ BranchOut(frames, instr.n)
  \/ Exec("br_if") /\ IF ~Operands(frames, <<"i32">>) THEN Undefined
                      ELSE IF TopInt = 0 THEN Reduce(TRUE, Pop(frames, 1), next)
                      ELSE BranchOut(Pop(frames, 1), instr.n)
  \/ Exec("br_table") /\ IF ~Operands(frames, <<"i32">>) THEN Undefined
                         ELSE BranchOut(Pop(frames, 1),
                                        IF TopInt \in 0 .. Len(instr.e) - 2
                                        THEN instr.e[TopInt + 1] ELSE Last(instr.e))
  \/ Exec("return") /\ FinishFunction(frames)
  \/ Exec("unreachable") /\ Undefined
  \/ Exec("nop") /\ Reduce(TRUE, frames, next)

\* The arguments become the first locals, in the order they were pushed.
CallFunction(fs, idx) ==
  LET type == FuncType(mod, idx)
      n == Len(type.params)
      declared == mod.funcs[idx + 1].locals
  IN  Reduce(Operands(fs, type.params),
             Append(Pop(fs, n),
                    [kind |-> "activ",
                     locals |-> [i \in 1 .. n |-> Popped(fs, n)[i].value]
                                  \o [i \in DOMAIN declared |-> [type |-> declared[i], val |-> 0]],
                     cont |-> next, arity |-> type.results]),
             At(idx + 1, 1))

Calls ==
  \/ /\ Exec("call")
     /\ IF instr.n < Len(mod.funcs) THEN CallFunction(frames, instr.n) ELSE Undefined
  \/ /\ Exec("call_indirect")
     /\ IF /\ instr.n < Len(mod.types) /\ Operands(frames, <<"i32">>)
           /\ TopInt \in 0 .. Len(mod.table) - 1
           /\ mod.table[TopInt + 1] \in 0 .. Len(mod.funcs) - 1
           /\ FuncType(mod, mod.table[TopInt + 1]) = mod.types[instr.n + 1]
        THEN CallFunction(Pop(frames, 1), mod.table[TopInt + 1]) ELSE Undefined

-----------------------------------------------------------------------------
(* Values and variables.                                                   *)

LocalVars == frames[Current(frames)].locals
LocalsSet(fs) == [fs EXCEPT ![Current(fs)].locals[instr.n + 1] = Last(frames).value]
SameType(l, f) == f.kind = "value" /\ l.type = f.value.type

IntWidth(t) == IF t = "i32" THEN Width ELSE LongWidth
Binaries == {"add", "sub", "mul", "div_s", "div_u", "rem_s", "rem_u", "and", "or", "xor",
             "shl", "shr_s", "shr_u", "rotl", "rotr"}
Relations == {"eq", "ne", "lt_s", "lt_u", "gt_s", "gt_u", "le_s", "le_u", "ge_s", "ge_u"}

\* An instruction on operands of the types ts that yields v of type t.
Yield(ts, t, v) ==
  Reduce(Operands(frames, ts) /\ v.defined,
         Append(Pop(frames, Len(ts)), Val([type |-> t, val |-> v.val])), next)
TopBut(k) == frames[Len(frames) - k].value.val

Integer ==
  LET t == instr.t
      n == IntWidth(t)
      binary == Std!BinaryInt(instr.op, TopBut(1), TopBut(0), n)
      unary == Std!Yields(Std!UnaryInt(instr.op, TopBut(0), n))
      Conv(m) == Std!Yields(Std!Converted(instr.op, TopBut(0), m, n))
  IN  \/ (\E op \in Binaries : Exec(op)) /\ Yield(<<t, t>>, t, binary)
      \/ (\E op \in Relations : Exec(op)) /\ Yield(<<t, t>>, "i32", binary)
      \/ Exec("eqz") /\ Yield(<<t>>, "i32", unary)
      \/ (\E op \in {"clz", "ctz", "popcnt"} : Exec(op)) /\ Yield(<<t>>, t, unary)
      \/ Exec("wrap") /\ Yield(<<"i64">>, "i32", Conv(LongWidth))
      \/ (Exec("extend_s") \/ Exec("extend_u")) /\ Yield(<<"i32">>, "i64", Conv(Width))

Values ==
  \/ Exec("const") /\ Reduce(TRUE, Append(frames, Val([type |-> instr.t, val |-> instr.n])), next)
  \/ Exec("drop") /\ Reduce(Last(frames).kind = "value", Pop(frames, 1), next)
  \/ /\ Exec("select")
     /\ LET n == Len(frames)
            ok == /\ Operands(frames, <<"i32">>) /\ n >= 3
                  /\ frames[n - 1].kind = "value" /\ frames[n - 2].kind = "value"
                  /\ frames[n - 1].value.type = frames[n - 2].value.type
        IN  Reduce(ok, Append(Pop(frames, 3), frames[IF TopInt = 0 THEN n - 1 ELSE n - 2]), next)
  \/ Exec("local.get") /\ Reduce(instr.n < Len(LocalVars), Append(frames, Val(LocalVars[instr.n + 1])), next)
  \/ Exec("local.set") /\ Reduce(instr.n < Len(LocalVars) /\ SameType(LocalVars[instr.n + 1], Last(frames)),
                                 LocalsSet(Pop(frames, 1)), next)
  \/ Exec("local.tee") /\ Reduce(instr.n < Len(LocalVars) /\ SameType(LocalVars[instr.n + 1], Last(frames)),
                                 LocalsSet(frames), next)
  \/ Exec("global.get") /\ Reduce(instr.n < Len(globals), Append(frames, Val(globals[instr.n + 1])), next)
  \/ /\ Exec("global.set")
     /\ IF /\ instr.n < Len(globals) /\ mod.globals[instr.n + 1].mutable
           /\ SameType(globals[instr.n + 1], Last(frames))
        THEN /\ frames' = Pop(frames, 1) /\ pc' = next
             /\ globals' = [globals EXCEPT ![instr.n + 1] = Last(frames).value]
             /\ UNCHANGED <<mod, outcome, result>>
        ELSE Undefined

-----------------------------------------------------------------------------
(* A run: the entry function is called, its results are the result.        *)

Init ==
  /\ frames = [i \in DOMAIN mod.args |-> Val(mod.args[i])]
  /\ pc = At(0, 1)
  /\ globals = [i \in DOMAIN mod.globals |-> mod.globals[i].init]
  /\ outcome = "running" /\ result = <<>>

Deliver ==
  /\ outcome = "stopped"
  /\ LET results == frames[1].arity IN
     IF Operands(frames, results)
     THEN /\ outcome' = "done"
          /\ result' = [i \in DOMAIN results |-> Popped(frames, Len(results))[i].value]
          /\ UNCHANGED <<mod, pc, frames, globals>>
     ELSE Undefined

OutOfMemory ==
  /\ outcome = "running" /\ outcome' = "std::bad_alloc"
  /\ UNCHANGED <<mod, pc, frames, globals, result>>

Next == Control \/ Calls \/ Integer \/ Values \/ Deliver \/ OutOfMemory

Spec == Init /\ [][Next]_vars
=============================================================================
