----------------------------- MODULE WasmModule -----------------------------
(***************************************************************************)
(* The executable module the interpreter walks (struct Module and struct   *)
(* Runtime of lib/include/structs.hh, as the instantiator leaves them),    *)
(* and the static structure of its code.                                   *)
(*                                                                         *)
(* A module is a record                                                    *)
(*   types    sequence of [params, results]            (funcTypes)         *)
(*   funcs    sequence of [type, locals, code]         (rtFuncDescriptor)  *)
(*   globals  sequence of [mutable, init]              (globals)           *)
(*   table    sequence of function indices             (rtTables[0])       *)
(*   entry    index of the entry function              (rtEntryIdx)        *)
(*   args     the values on the initial stack          (inputArgs)         *)
(* Indices inside it are the 0-based indices of the binary format.  Code   *)
(* is a sequence of decoded instructions; a position is an index into it.  *)
(***************************************************************************)
EXTENDS Integers, Sequences, FiniteSets

\* An instruction: opcode, integer immediate, type immediate, br_table entries,
\* and the last byte of its immediates, which matters in a branch only.  The byte
\* does not follow from the number: a LEB128 may be padded.
Ins(op, n, t, e) == [op |-> op, n |-> n, t |-> t, e |-> e, last |-> 0]

\* A program counter: function (0 is the driver stub) and position.
At(fn, at) == [fn |-> fn, at |-> at]

\* The driver stub of Executor::execute: a call of the entry function.
Code(m, fn) ==
  IF fn = 0 THEN <<Ins("call", m.entry, "void", <<>>)>> ELSE m.funcs[fn].code

FuncType(m, idx) == m.types[m.funcs[idx + 1].type + 1]

\* collectArities: the result types of a block, at most one.
BlockArity(t) == IF t = "void" THEN <<>> ELSE <<t>>

-----------------------------------------------------------------------------
(* Static structure.                                                       *)

Openers == {"block", "loop", "if"}

\* Blocks open at a position: those opened before it and not closed.
Nesting(code, at) ==
  LET Before(ops) == Cardinality({k \in 1 .. at - 1 : code[k].op \in ops})
  IN  Before(Openers) - Before({"end"})

\* Blocks opened and not closed by the positions from .. to.
Balance(code, from, to) == Nesting(code, to + 1) - Nesting(code, from)

\* The `end` that closes the construct whose first inner position is `at`.
ClosingEnd(code, at) ==
  CHOOSE e \in at .. Len(code) :
    /\ Balance(code, at, e) = -1
    /\ \A k \in at .. e - 1 : Balance(code, at, k) >= 0

\* The `else`s of the construct whose first inner position is `at`.
OwnElses(code, at) ==
  {k \in at .. ClosingEnd(code, at) : code[k].op = "else" /\ Balance(code, at, k) = 0}

\* The opener of the d-th block around a position, innermost first.
Enclosing(code, at, d) ==
  CHOOSE o \in 1 .. at - 1 :
    /\ code[o].op \in Openers
    /\ Nesting(code, o) = Nesting(code, at) - d - 1
    /\ ClosingEnd(code, o + 1) >= at

\* Every block is closed, the function's own `end` is its last instruction, and
\* an `else` belongs to an `if`, which has no other.
WellNested(code) ==
  /\ \A k \in 1 .. Len(code) - 1 : Nesting(code, k + 1) >= 0
  /\ code # <<>> /\ Balance(code, 1, Len(code)) = -1
  /\ \A k \in 1 .. Len(code) : code[k].op = "else" =>
       \E o \in 1 .. k - 1 : code[o].op = "if" /\ OwnElses(code, o + 1) = {k}
=============================================================================
