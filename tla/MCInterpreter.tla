---------------------------- MODULE MCInterpreter ----------------------------
(* Interpreter on every short main function, valid or not, that can call    *)
(* itself and a function with a parameter and a block.                      *)
EXTENDS Interpreter, Programs

MCValType == {"i32", "i64"}
MCArity == {<<>>} \cup {<<t>> : t \in MCValType}

ConstI64 == Ins("const", 1, "i64", <<>>)

\* Called with one i32: returns it from inside a block, or 0 after it.
Callee == Func(1, <<"i64">>, <<Blk("block", "i32"), Imm("local.get", 0), Imm("local.tee", 0), Imm("local.get", 0),
                               Imm("br_if", 1), End, Op("drop"), Const(0), End>>)

Main(code) ==
  [types |-> <<ToI32, I32ToI32>>, funcs |-> <<Func(0, <<"i32">>, Append(code, End)), Callee>>,
   globals |-> <<[mutable |-> TRUE, init |-> ValI32(0)], [mutable |-> FALSE, init |-> ValI32(0)]>>,
   table |-> <<1, 1, 1, 1>>, entry |-> 0, args |-> <<>>, outcome |-> "done", result |-> <<>>]

\* Control: blocks, branches, calls.
Control == {Const(1), Imm("br", 0), Imm("br", 1), Imm("br_if", 0), Imm("call", 1)}

\* Every instruction, with immediates within and beyond their ranges.
All == Control \cup
  {Op("drop"), Const(0), Const(2), ConstI64, Op("nop"), Op("unreachable"), Op("return"), Op("select"),
   BrTable(<<1, 0>>),
   Imm("call", 0), Imm("call", 2), Imm("call_indirect", 1), Imm("call_indirect", 0),
   Imm("call_indirect", 2)}
  \cup {I32Op(op) : op \in {"add", "ge_s", "div_s", "rem_u", "shl", "eqz", "clz", "wrap"}}
  \cup {Ins(op, 0, "i64", <<>>) : op \in {"sub", "lt_u", "eqz", "ctz", "extend_s", "extend_u"}}
  \cup {Imm(op, n) : op \in {"local.get", "local.set", "local.tee"}, n \in {0, 1}}
  \cup {Imm(op, n) : op \in {"global.get", "global.set"}, n \in {0, 1, 2}}

\* What a body begins with, and what follows.
Bodies ==
  ({<<>>} \X UpTo(Control, AnyBlocks({"void", "i32"}), Ifs({"void", "i32"}), 5))
    \cup ({<<Const(1)>>} \X UpTo(All, AnyBlocks({"void"}), Ifs({"void"}), 2))

MCModules == {Main(body[1] \o body[2]) : body \in Bodies}
=============================================================================
