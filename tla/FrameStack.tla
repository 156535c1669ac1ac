----------------------------- MODULE FrameStack -----------------------------
(***************************************************************************)
(* The tracked frame stack of the execution engine                         *)
(* (lib/include/executor.hh, lib/executor.cc).                             *)
(*                                                                         *)
(* One vector, `stack`, holds operand values, label frames and activation  *)
(* frames.  The engine never searches it: the positions of the label and   *)
(* of the activation frames are recorded in two index vectors              *)
(* (frameBitmap[LABEL], frameBitmap[ACTIVATION]) and the number of labels  *)
(* above the running activation in one counter.  This module has the       *)
(* methods of Executor that touch these four, and the steps that the       *)
(* opcode handlers compose of them, for ANY bytecode: the engine performs  *)
(* no validation, so nothing is assumed about the program.  Interpreter    *)
(* extends this module with programs.                                      *)
(*                                                                         *)
(* Positions are 1-based here, 0-based in the C++ vector.                  *)
(***************************************************************************)
EXTENDS Integers, Sequences

CONSTANTS ValType,   \* the alternatives of runtime_value_t
          Data,      \* the payloads a value can carry
          Addr,      \* continuations: values of the program counter
          Arity,     \* the result types of the blocks and functions at hand
          Locals,    \* the vectors of locals an activation can hold
          Capacity   \* bound of both vectors: past it an allocation fails

Value == [type : ValType, val : Data]

ASSUME ArityAssumption == Arity \subseteq Seq(ValType)
ASSUME LocalsAssumption == Locals \subseteq Seq(Value)
ASSUME CapacityAssumption == Capacity \in Nat

VARIABLES stack,       \* rtIns->stack, top last
          labelMap,    \* frameBitmap[LABEL]: positions of label frames
          activMap,    \* frameBitmap[ACTIVATION]: positions of activations
          labelCount   \* labelAboveActivFrameCount

frameVars == <<stack, labelMap, activMap, labelCount>>
trackVars == <<labelMap, activMap, labelCount>>

-----------------------------------------------------------------------------
(* Frames: the alternatives of stack_frame_t.                              *)

ValueFrame(v) == [kind |-> "value", value |-> v]
LabelFrame(cont, arity) == [kind |-> "label", cont |-> cont, arity |-> arity]
ActivFrame(locals, cont, arity) ==
  [kind |-> "activ", locals |-> locals, cont |-> cont, arity |-> arity]

Frame == [kind : {"value"}, value : Value]
           \cup [kind : {"label"}, cont : Addr, arity : Arity]
           \cup [kind : {"activ"}, locals : Locals, cont : Addr, arity : Arity]

-----------------------------------------------------------------------------
(* Operators on the vectors.                                               *)

\* n pop_back()s; also the erase of the last n entries of an index vector.
DropTop(s, n) == SubSeq(s, 1, Len(s) - n)

\* The top n frames hold values: what a handler checks of each frame it pops.
ValuesOnTop(s, n) ==
  /\ n \in 0 .. Len(s)
  /\ \A i \in Len(s) - n + 1 .. Len(s) : s[i].kind = "value"

\* Erase from `start` up to the `keep` topmost frames, which move down.
EraseRange(s, start, keep) ==
  SubSeq(s, 1, start - 1) \o SubSeq(s, Len(s) - keep + 1, Len(s))

\* validateArity: the top frames hold values of the types the arity lists.
ArityHolds(s, arity) ==
  /\ ValuesOnTop(s, Len(arity))
  /\ \A i \in 1 .. Len(arity) : s[Len(s) - i + 1].value.type = arity[i]

\* The frames refTrackedTopFrameByType finds through the index vectors.
TopActiv == activMap[Len(activMap)]
TrackedLabel(depth) == labelMap[Len(labelMap) - depth]

-----------------------------------------------------------------------------
(* Methods of Executor, on the stack `s` a handler has already popped from. *)

\* Only operands moved: no index changes.
KeepFrames(s) == stack' = s /\ UNCHANGED trackVars

\* pushToStack<RTLabelFrame>
PushLabel(s, cont, arity) ==
  /\ stack' = Append(s, LabelFrame(cont, arity))
  /\ labelMap' = Append(labelMap, Len(s) + 1)
  /\ labelCount' = labelCount + 1
  /\ UNCHANGED activMap

\* Mutant: the count goes on over the callee's labels.
PushActivKeepsCount(s, locals, cont, arity) ==
  /\ stack' = Append(s, ActivFrame(locals, cont, arity))
  /\ activMap' = Append(activMap, Len(s) + 1)
  /\ UNCHANGED <<labelMap, labelCount>>

\* pushToStack<RTActivFrame>: the labels of the caller are no longer counted.
PushActiv(s, locals, cont, arity) ==
  /\ stack' = Append(s, ActivFrame(locals, cont, arity))
  /\ activMap' = Append(activMap, Len(s) + 1)
  /\ labelCount' = 0
  /\ UNCHANGED labelMap

\* retFromFrameWithCont<RTLabelFrame>(depth), its arity check passed.
RetFromLabel(s, depth) ==
  LET p == TrackedLabel(depth) IN
  /\ ArityHolds(s, s[p].arity)
  /\ stack' = EraseRange(s, p, Len(s[p].arity))
  /\ labelMap' = DropTop(labelMap, depth + 1)
  /\ labelCount' = labelCount - (depth + 1)
  /\ UNCHANGED activMap

\* Mutant: counts like a branch, which leaves one label more.
RetFromActivCountsOneMore(s, depth) ==
  /\ ArityHolds(s, s[TopActiv].arity)
  /\ stack' = EraseRange(s, TopActiv, Len(s[TopActiv].arity))
  /\ labelMap' = DropTop(labelMap, depth)
  /\ activMap' = DropTop(activMap, 1)
  /\ labelCount' = labelCount - (depth + 1)

\* Mutant: the erased activation stays recorded.
RetFromActivKeepsIndex(s, depth) ==
  /\ ArityHolds(s, s[TopActiv].arity)
  /\ stack' = EraseRange(s, TopActiv, Len(s[TopActiv].arity))
  /\ labelMap' = DropTop(labelMap, depth)
  /\ labelCount' = labelCount - depth
  /\ UNCHANGED activMap

\* retFromFrameWithCont<RTActivFrame>(depth), its arity check passed.
RetFromActiv(s, depth) ==
  /\ ArityHolds(s, s[TopActiv].arity)
  /\ stack' = EraseRange(s, TopActiv, Len(s[TopActiv].arity))
  /\ labelMap' = DropTop(labelMap, depth)
  /\ activMap' = DropTop(activMap, 1)
  /\ labelCount' = labelCount - depth

-----------------------------------------------------------------------------
(* The steps the opcode handlers take with them.  n is the number of       *)
(* operands the handler pops before it touches a frame.                    *)

Running == activMap # <<>>
HasRoom == Len(stack) < Capacity /\ Len(labelMap) < Capacity

\* Mutant: the arguments stay below the activation.
StartKeepsArguments(locals, cont, arity) ==
  /\ ~Running
  /\ PushActiv(stack, locals, cont, arity)

\* The driver's call: the operands are the arguments of the entry function.
Start(locals, cont, arity) ==
  /\ ~Running
  /\ PushActiv(DropTop(stack, Len(stack)), locals, cont, arity)

\* Operators, drop, select, constants, reads of locals and globals.
Evaluate(n) ==
  /\ Running /\ ValuesOnTop(stack, n)
  /\ \/ KeepFrames(DropTop(stack, n))
     \/ \E v \in Value : KeepFrames(Append(DropTop(stack, n), ValueFrame(v)))

\* Mutant: takes the first recorded activation for the running one.
AssignLocalOfEntry(n, locals) ==
  /\ Running /\ ValuesOnTop(stack, n)
  /\ KeepFrames([DropTop(stack, n) EXCEPT ![activMap[1]].locals = locals])

\* local.set, local.tee: the activation frame is changed in place.
AssignLocal(n, locals) ==
  /\ Running /\ ValuesOnTop(stack, n)
  /\ KeepFrames([DropTop(stack, n) EXCEPT ![TopActiv].locals = locals])

\* block, loop, if.
OpenLabel(n, cont, arity) ==
  /\ Running /\ ValuesOnTop(stack, n)
  /\ PushLabel(DropTop(stack, n), cont, arity)

\* br, br_if, br_table, else, end to a label.
Branch(n, depth) ==
  /\ Running /\ ValuesOnTop(stack, n)
  /\ labelCount > depth
  /\ RetFromLabel(DropTop(stack, n), depth)

\* call, call_indirect: the parameters are popped too.
Call(n, locals, cont, arity) ==
  /\ Running /\ ValuesOnTop(stack, n)
  /\ PushActiv(DropTop(stack, n), locals, cont, arity)

\* doReturn of an activation above the entry function's.
Return(n) ==
  /\ Running /\ ValuesOnTop(stack, n)
  /\ TopActiv # 1
  /\ RetFromActiv(DropTop(stack, n), labelCount)

FrameInit ==
  /\ \E args \in Locals : stack = [i \in 1 .. Len(args) |-> ValueFrame(args[i])]
  /\ labelMap = <<>>
  /\ activMap = <<>>
  /\ labelCount = 0

FrameNext ==
  \/ \E locals \in Locals, cont \in Addr, arity \in Arity : Start(locals, cont, arity)
  \/ \E n \in 0 .. Len(stack) :
       \/ HasRoom /\ Evaluate(n)
       \/ \E locals \in Locals : AssignLocal(n, locals)
       \/ \E cont \in Addr, arity \in Arity : HasRoom /\ OpenLabel(n, cont, arity)
       \/ \E depth \in 0 .. labelCount : Branch(n, depth)
       \/ \E locals \in Locals, cont \in Addr, arity \in Arity :
            HasRoom /\ Call(n, locals, cont, arity)
       \/ Return(n)

FrameSpec == FrameInit /\ [][FrameNext]_frameVars

-----------------------------------------------------------------------------
(* Properties.                                                             *)

\* Every vector holds what its C++ type says; positions are positions.
FrameTypeOK ==
  /\ stack \in Seq(Frame)
  /\ labelMap \in Seq(Nat \ {0})
  /\ activMap \in Seq(Nat \ {0})
  /\ labelCount \in Nat

\* frameBitmap[ACTIVATION] lists exactly the activation frames of the stack,
\* bottom up: no return can pop, and no local access can reach, the wrong one.
ActivTracked ==
  /\ \A i, j \in 1 .. Len(activMap) : i < j => activMap[i] < activMap[j]
  /\ \A i \in 1 .. Len(activMap) :
       activMap[i] <= Len(stack) /\ stack[activMap[i]].kind = "activ"
  /\ \A p \in 1 .. Len(stack) :
       stack[p].kind = "activ" => \E i \in 1 .. Len(activMap) : activMap[i] = p

\* The entry function's activation, once pushed, stays at the bottom: the test
\* `*activIdx == 0` of doReturn recognises it.
EntryAtBottom == Running => activMap[1] = 1

\* The counted labels are label frames of the running activation, bottom up.
\* So a branch that passes the counter's test finds a label frame above the
\* activation, never the value or the erased position of a stale index.
LabelTracked ==
  /\ labelCount <= Len(labelMap)
  /\ \A i \in Len(labelMap) - labelCount + 1 .. Len(labelMap) :
       /\ Running /\ TopActiv < labelMap[i]
       /\ labelMap[i] <= Len(stack) /\ stack[labelMap[i]].kind = "label"
  /\ \A i, j \in Len(labelMap) - labelCount + 1 .. Len(labelMap) :
       i < j => labelMap[i] < labelMap[j]

\* A callee works above its own activation frame.  Until it returns, the frames
\* of its callers keep every operand, label and local; when it returns they are
\* followed by the values of its result types and nothing else.
CallerUntouched ==
  Running =>
    /\ \A p \in 1 .. TopActiv - 1 : p <= Len(stack') /\ stack'[p] = stack[p]
    /\ Len(activMap') < Len(activMap) =>
         /\ activMap' = DropTop(activMap, 1)
         /\ Len(stack') = TopActiv - 1 + Len(stack[TopActiv].arity)
         /\ \A p \in TopActiv .. Len(stack') :
              /\ stack'[p].kind = "value"
              /\ stack'[p].value.type = stack[TopActiv].arity[Len(stack') - p + 1]

FrameIsolation == [][CallerUntouched]_frameVars
=============================================================================
