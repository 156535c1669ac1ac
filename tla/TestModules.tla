---------------------------- MODULE TestModules ----------------------------
(***************************************************************************)
(* The modules of tests/modules that use the instructions of Interpreter,  *)
(* disassembled, with the outcome and result tests/gtest_all.cc expects.   *)
(* Payloads other than i32 are opaque: 10123 stands for the f64 10.123.    *)
(* Two more modules come behind them.                                      *)
(***************************************************************************)
EXTENDS WasmModule

Leb == INSTANCE Leb128 WITH Group <- 7, IntWidth <- 32

\* The last byte of an immediate that is encoded in as few bytes as can be, and
\* an instruction with an immediate that is padded with groups of zeros.
LastByte(n) == Leb!Last(Leb!EncodeVaruint(n))
Padded(i) == [i EXCEPT !.last = 0]

Op(op) == Ins(op, 0, "void", <<>>)
I32Op(op) == Ins(op, 0, "i32", <<>>)
Imm(op, n) == [Ins(op, n, "void", <<>>) EXCEPT !.last = LastByte(n)]
Blk(op, t) == Ins(op, 0, t, <<>>)
Const(n) == Ins("const", n, "i32", <<>>)
ConstF64(n) == Ins("const", n, "f64", <<>>)
BrTable(e) == [Ins("br_table", 0, "void", e) EXCEPT !.last = LastByte(e[Len(e)])]
End == Op("end")

ToI32 == [params |-> <<>>, results |-> <<"i32">>]
ToF64 == [params |-> <<>>, results |-> <<"f64">>]
I32ToI32 == [params |-> <<"i32">>, results |-> <<"i32">>]
ToNone == [params |-> <<>>, results |-> <<>>]
ValI32(n) == [type |-> "i32", val |-> n]

Func(type, locals, code) == [type |-> type, locals |-> locals, code |-> code]

\* A module without globals and table.
Plain(types, funcs, entry, args, outcome, result) ==
  [types |-> types, funcs |-> funcs, globals |-> <<>>, table |-> <<>>, entry |-> entry,
   args |-> args, outcome |-> outcome, result |-> result]

\* A module with one function of no parameters that returns n.
Returns(code, n) == Plain(<<ToI32>>, <<Func(0, <<>>, code)>>, 0, <<>>, "done", <<ValI32(n)>>)

BlockWasm == Returns(<<Blk("block", "i32"), Blk("block", "i32"), Blk("block", "i32"),
                       Const(10), End, End, End, End>>, 10)
LoopWasm == Returns(<<Blk("loop", "i32"), Const(10), End, End>>, 10)
IfWasm(c, n) == Returns(<<Const(c), Blk("if", "i32"), Const(7), Op("else"), Const(8), End, End>>, n)
BrWasm == Returns(<<Blk("block", "i32"), Blk("block", "i32"), Const(10), Imm("br", 0),
                    End, End, End>>, 10)
BrIfCode(c) == <<Blk("block", "i32"), Const(10), Blk("block", "void"), Const(c), Imm("br_if", 0),
                 Op("unreachable"), End, End, End>>
BrIfWasm == Plain(<<ToI32>>, <<Func(0, <<"i32">>, BrIfCode(1))>>, 0, <<>>, "done", <<ValI32(10)>>)
BrIfUnreachableWasm ==
  Plain(<<ToI32>>, <<Func(0, <<"i32">>, BrIfCode(0))>>, 0, <<>>, "UNREACHABLE", <<>>)
BrTableWasm ==
  Plain(<<ToI32>>,
        <<Func(0, <<"i32">>,
               <<Const(0), Imm("local.set", 0), Blk("block", "void"), Blk("block", "void"),
                 Imm("local.get", 0), BrTable(<<1, 0>>), Const(21), Op("return"), End,
                 Const(20), Op("return"), End, Const(22), End>>)>>,
        0, <<>>, "done", <<ValI32(22)>>)
ReturnWasm ==
  Plain(<<ToI32>>, <<Func(0, <<>>, <<Const(10), Op("return"), Op("unreachable"), End>>),
                     Func(0, <<>>, <<Imm("call", 0), Op("return"), Op("unreachable"), End>>)>>,
        1, <<>>, "done", <<ValI32(10)>>)
CallIndirectWasm ==
  [Plain(<<ToI32>>, <<Func(0, <<>>, <<Const(10), End>>),
                      Func(0, <<>>, <<Const(0), Imm("call_indirect", 0), End>>)>>,
         1, <<>>, "done", <<ValI32(10)>>) EXCEPT !.table = <<0, 0, 0, 0, 0>>]
DropWasm == Returns(<<Const(10), Const(20), Op("drop"), End>>, 10)
SelectWasm == Returns(<<Const(10), Const(20), Const(0), Op("select"), End>>, 20)
LocalWasm ==
  Plain(<<ToF64>>,
        <<Func(0, <<"i32", "f64">>,
               <<Const(10), Imm("local.set", 0), ConstF64(10123), Imm("local.set", 1),
                 Imm("local.get", 1), Imm("local.tee", 1), Imm("local.tee", 1),
                 Imm("local.tee", 1), End>>)>>,
        0, <<>>, "done", <<[type |-> "f64", val |-> 10123]>>)
GlobalWasm ==
  [Plain(<<ToI32>>, <<Func(0, <<>>, <<Const(10), Imm("global.set", 0), Imm("global.get", 0), End>>)>>,
         0, <<>>, "done", <<ValI32(10)>>) EXCEPT !.globals = <<[mutable |-> TRUE, init |-> ValI32(1)]>>]
FibonacciWasm(n, fib) ==
  Plain(<<I32ToI32>>,
        <<Func(0, <<>>,
               <<Blk("block", "void"), Imm("local.get", 0), Const(2), I32Op("ge_s"),
                 Imm("br_if", 0), Imm("local.get", 0), Op("return"), End,
                 Imm("local.get", 0), Const(-1), I32Op("add"), Imm("call", 0),
                 Imm("local.get", 0), Const(-2), I32Op("add"), Imm("call", 0),
                 I32Op("add"), End>>),
          Func(0, <<>>, <<Imm("local.get", 0), Imm("call", 0), End>>)>>,
        1, <<ValI32(n)>>, "done", <<ValI32(fib)>>)
NopWasm == Plain(<<ToNone>>, <<Func(0, <<>>, <<Op("nop"), End>>)>>, 0, <<>>, "done", <<>>)
UnreachableWasm ==
  Plain(<<ToNone>>, <<Func(0, <<>>, <<Op("unreachable"), End>>)>>, 0, <<>>, "UNREACHABLE", <<>>)

\* The tests of the integer instructions whose result does not depend on the
\* width: that of op on the operands, of type t, is n.
IntWasm(t, operands, op, n) ==
  LET yields == IF op \in {"eqz", "eq", "ne", "lt_s", "lt_u", "gt_s", "gt_u", "le_s", "le_u",
                           "ge_s", "ge_u"} THEN "i32" ELSE t
  IN  Plain(<<[params |-> <<>>, results |-> <<yields>>]>>,
            <<Func(0, <<>>, [i \in DOMAIN operands |-> Ins("const", operands[i], t, <<>>)]
                              \o <<Ins(op, 0, t, <<>>), End>>)>>,
            0, <<>>, "done", <<[type |-> yields, val |-> n]>>)
IntModules ==
  {IntWasm(t, c[1], c[2], c[3]) : t \in {"i32", "i64"}, c \in
     {<<<<0>>, "eqz", 1>>, <<<<10, 10>>, "eq", 1>>, <<<<9, 10>>, "ne", 1>>,
      <<<<-9, 10>>, "lt_s", 1>>, <<<<-9, 10>>, "lt_u", 0>>, <<<<-9, 10>>, "gt_s", 0>>,
      <<<<-9, 10>>, "gt_u", 1>>, <<<<10>>, "ctz", 1>>, <<<<10>>, "popcnt", 2>>}
     \cup {<<<<-10, -10>>, op, 1>> : op \in {"le_s", "le_u", "ge_s", "ge_u"}}
     \cup {<<<<-10, 10>>, r[1], r[2]>> : r \in
             {<<"div_s", -1>>, <<"rem_s", 0>>, <<"rem_u", 6>>, <<"and", 2>>, <<"or", -2>>, <<"xor", -4>>}}}
  \cup {IntWasm("i32", <<-10, 10>>, r[1], r[2]) : r \in {<<"add", 0>>, <<"sub", -20>>, <<"mul", -100>>}}
  \cup {IntWasm("i64", <<10, 10>>, r[1], r[2]) : r \in {<<"add", 20>>, <<"sub", 0>>, <<"mul", 100>>}}
  \cup {IntWasm("i64", <<-10, 10>>, r[1], r[2]) : r \in {<<"shl", -10240>>, <<"shr_s", -1>>, <<"rotl", -9217>>}}

GtestModules ==
  {BlockWasm, LoopWasm, IfWasm(1, 7), IfWasm(0, 8), BrWasm, BrIfWasm, BrIfUnreachableWasm,
   BrTableWasm, ReturnWasm, CallIndirectWasm, DropWasm, SelectWasm, LocalWasm, GlobalWasm,
   FibonacciWasm(10, 55), NopWasm, UnreachableWasm}
  \cup IntModules

\* A branch out of the outermost of twelve blocks.
OutOfTwelve(branch) ==
  Returns([i \in 1 .. 12 |-> Blk("block", "void")] \o <<branch, Op("unreachable")>>
            \o [i \in 1 .. 12 |-> End] \o <<Const(1), End>>, 1)

\* A loop that counts local 0 down from 3.
CountDown ==
  Plain(<<ToI32>>,
        <<Func(0, <<"i32">>,
               <<Const(3), Imm("local.set", 0),
                 Blk("loop", "void"), Imm("local.get", 0), Const(-1), I32Op("add"),
                 Imm("local.tee", 0), Imm("br_if", 0), End,
                 Imm("local.get", 0), End>>)>>,
        0, <<>>, "done", <<ValI32(0)>>)

FurtherModules == {CountDown, OutOfTwelve(Padded(Imm("br", 11)))}
=============================================================================
