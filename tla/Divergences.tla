---------------------------- MODULE Divergences ----------------------------
(***************************************************************************)
(* One valid WebAssembly module for each construct that the engine does not *)
(* run as the standard prescribes, with the result the standard gives it.   *)
(***************************************************************************)
EXTENDS TestModules

One(code) == {Returns(code, 1)}
Second == Func(0, <<>>, <<Const(1), End>>)

\* f1 = block (call f2) end ; const 2 ; add: f2 returns into an open block of f1,
\* and the entry function adds what f2 returns.
CallInsideBlock ==
  {Plain(<<ToI32>>, <<Func(0, <<>>, <<Imm("call", 1), Imm("call", 2), I32Op("add"), End>>),
                      Func(0, <<>>, <<Blk("block", "i32"), Imm("call", 2), End,
                                      Const(2), I32Op("add"), End>>), Second>>,
         0, <<>>, "done", <<ValI32(4)>>)}

\* br 0 leaves the entry function.
BranchOutOfEntry == One(<<Const(1), Imm("br", 0), Const(2), Op("drop"), End>>)

\* The depth of a branch ends in the byte of `end`: br 11, in one byte.
BranchElevenBlocks == {OutOfTwelve(Imm("br", 11))}

\* loop (result i32): local 0 counts one turn, br 0 starts it again.
LoopWithResult ==
  {Plain(<<ToI32>>,
         <<Func(0, <<"i32">>,
                <<Blk("loop", "i32"), Imm("local.get", 0), I32Op("eqz"), Blk("if", "void"),
                  Const(1), Imm("local.set", 0), Imm("br", 1), Op("else"), End,
                  Imm("local.get", 0), End, End>>)>>,
         0, <<>>, "done", <<ValI32(1)>>)}

\* if without else.
IfWithoutElse == One(<<Const(1), Blk("if", "void"), Op("nop"), End, Const(1), End>>)

\* f(3, 2) = 3 - 2.
TwoParameters ==
  {Plain(<<ToI32, [params |-> <<"i32", "i32">>, results |-> <<"i32">>]>>,
         <<Func(0, <<>>, <<Const(3), Const(2), Imm("call", 1), End>>),
           Func(1, <<>>, <<Imm("local.get", 0), Imm("local.get", 1), I32Op("sub"), End>>)>>,
         0, <<>>, "done", <<ValI32(1)>>)}

\* Entry 0 of the table is function 1.
TableOfOne ==
  {[Plain(<<ToI32>>, <<Func(0, <<>>, <<Const(0), Imm("call_indirect", 0), End>>), Second>>,
          0, <<>>, "done", <<ValI32(1)>>) EXCEPT !.table = <<1>>]}

\* What the engine makes of them instead.
Engine(ms, outcome, result) == {[m EXCEPT !.outcome = outcome, !.result = result] : m \in ms}
EngineRuns ==
  Engine(CallInsideBlock, "done", <<ValI32(2)>>)
    \cup Engine(BranchElevenBlocks, "UNREACHABLE", <<>>)
    \cup Engine(LoopWithResult, "STACK_VAL_TYPE_MISMATCH", <<>>)
    \cup Engine(IfWithoutElse, "ILLFORMED_STRUCTURE", <<>>)
    \cup Engine(TwoParameters, "done", <<ValI32(-1)>>)
    \cup Engine(TableOfOne, "std::bad_alloc", <<>>)
=============================================================================
