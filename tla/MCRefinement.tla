---------------------------- MODULE MCRefinement ----------------------------
(* The refinement on the modules of the test suite and on every short       *)
(* function in the part of the language that the engine implements as the   *)
(* standard prescribes: the function is called (the entry function only     *)
(* ends), calls stand outside of blocks and have one parameter, loops have  *)
(* no result, an `if` has an else, and the table is the identity.           *)
(* Divergences has a module for each of these exclusions; the remainder     *)
(* rem_s, which may fault, is in Numeric.                                   *)
EXTENDS InterpreterRefinement, Programs

MCValType == {"i32", "i64", "f32", "f64"}
MCArity == {<<>>} \cup {<<t>> : t \in MCValType}

\* Returns its argument out of a block, or 0.
Callee == Func(1, <<"i64">>, <<Blk("block", "i32"), Imm("local.get", 0), Imm("local.get", 0),
                               Imm("br_if", 1), End, Op("drop"), Const(0), End>>)
Entry == Func(0, <<>>, <<Const(1), Imm("call", 1), End>>)

Main(code) ==
  [types |-> <<ToI32, I32ToI32>>,
   funcs |-> <<Entry, Func(1, <<"i32">>, Append(code, End)), Callee>>,
   globals |-> <<[mutable |-> TRUE, init |-> ValI32(0)], [mutable |-> FALSE, init |-> ValI32(0)]>>,
   table |-> <<0, 1, 2>>, entry |-> 0, args |-> <<>>, outcome |-> "done", result |-> <<>>]

\* Bodies of blocks, loops and ifs, with branches of every kind.
Control == {Const(1), Imm("br", 0), Imm("br", 1), Imm("br_if", 0), Imm("local.get", 0)}
Blocks == {Blk("block", "void"), Blk("block", "i32"), Blk("loop", "void")}
Nested(n) == UpTo(Control, Blocks, Ifs({"void", "i32"}), n)

\* Straight code around a call, and every other instruction.
Simple == {Const(0), Imm("br_if", 0), Op("return"), Op("drop"), Imm("local.set", 1),
           Imm("local.get", 1), Imm("local.tee", 0), Op("select"), BrTable(<<0, 1>>),
           Imm("global.set", 0), Imm("global.set", 1), Imm("global.get", 0)}
  \cup {I32Op(op) : op \in {"sub", "lt_s", "div_u", "eqz", "wrap"}}
  \cup {Ins(op, 0, "i64", <<>>) : op \in {"extend_s", "add"}}
Numerics == {Ins(op, 0, t, <<>>) : op \in (Ints!Binaries \ {"rem_s"}) \cup Ints!Unaries, t \in {"i32", "i64"}}
  \cup {I32Op("wrap"), Ins("extend_u", 0, "i64", <<>>), Ins("extend_s", 0, "i64", <<>>)}
Behind == {I32Op("shr_u"), I32Op("eqz"), I32Op("wrap"), Ins("extend_s", 0, "i64", <<>>),
           Ins("div_s", 0, "i64", <<>>), Ins("lt_u", 0, "i64", <<>>)}
Calls == {Imm("call", 2), Imm("call_indirect", 1), Imm("call", 3)}
Around == UpTo({Const(2), Imm("local.get", 0), Imm("br", 0)}, Blocks, {}, 2)

\* What a body begins with, and what follows.
Bodies ==
  ({<<>>} \X Nested(5))
    \cup ({<<Const(1), Const(2)>>} \X UpTo(Simple, Blocks, {}, 3))
    \cup ({<<Ins("const", -127, t, <<>>), Ins("const", y, t, <<>>)>> : t \in {"i32", "i64"}, y \in {0, 3}}
             \X ({<<>>} \cup {<<i>> : i \in Numerics} \cup {<<i, j>> : i \in Numerics, j \in Behind}))
    \cup (Around \X {<<c>> \o y : c \in Calls, y \in Around})

MCModules == GtestModules \cup FurtherModules \cup {Main(body[1] \o body[2]) : body \in Bodies}

\* The hypotheses of the proof hold here, but for the modules of the test suite
\* that use rem_s or a table whose other entries are not their own index.
ASSUME MCArithmetic == ArithmeticAgrees(4) /\ ConversionsAgree
ASSUME MCConforming ==
  \A m \in MCModules \ (IntModules \cup {CallIndirectWasm}) : Conforming(m)
=============================================================================
