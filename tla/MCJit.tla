-------------------------------- MODULE MCJit --------------------------------
(* Functions of one i32 with every straight body up to a length, called by  *)
(* main several times, directly, through the table and by one another.      *)
EXTENDS JitTransparency, Programs

MCValType == {"i32", "i64", "f32", "f64"}
MCArity == {<<>>} \cup {<<t>> : t \in MCValType}

\* The change of the operand count by an instruction, and the count it needs.
Grows(i) == IF i.op \in {"const", "local.get"} THEN 1
            ELSE IF i.op \in {"local.tee", "call", "nop"} THEN 0 ELSE -1
Needs(i) == IF i.op \in TranslatedOps \cup {"ge_s"} THEN 2
            ELSE IF i.op \in {"const", "local.get", "nop"} THEN 0 ELSE 1

\* Bodies that validate: operands are there when needed, one is left.
Depth(code, k) == FoldLeft(LAMBDA d, i : d + Grows(i), 0, SubSeq(code, 1, k))
Valid(code) == /\ \A k \in DOMAIN code : Depth(code, k - 1) >= Needs(code[k])
               /\ Depth(code, Len(code)) = 1

Simple == {Imm("local.get", 0), Imm("local.get", 1), Imm("local.tee", 1), Const(2)}
  \cup {I32Op(op) : op \in TranslatedOps \cup {"ge_s"}}
Others == {Imm("local.get", 0), Op("drop"), Op("nop"), Imm("global.set", 0), Imm("call", 3), Imm("call", 1)}
Stores == {<<>>, <<Imm("local.get", 0), Imm("local.set", 1)>>, <<Const(3), Imm("local.set", 0)>>}
Straights == {x \in {s \o c : s \in Stores, c \in UpTo(Simple, {}, {}, 3)} \cup UpTo(Others, {}, {}, 4) : Valid(x)}

\* After a return anything may follow.
Bodies == {Append(c, End) : c \in Straights}
  \cup {Append(c, Op("return")) \o <<Imm("call", 1), Op("unreachable"), End>> : c \in Straights}

\* main calls f three times, directly, through the table and within g; it calls
\* k, which has no result; or it ends in a call that is refused.
Callers ==
  {<<Const(1), Imm("call", 1), Const(-3), Imm("call", 1), I32Op("sub"),
     Const(3), Imm("call", 1), I32Op("sub"), End>>,
   <<Const(3), Imm("call", 2), Const(1), Const(1), Imm("call_indirect", 1), I32Op("sub"),
     Imm("call", 2), End>>,
   <<Const(1), Imm("call", 4), Const(2), Imm("call", 4), Const(1), Imm("call", 1), End>>,
   <<Const(1), Imm("call", 1), Imm("call", 9), End>>,
   <<Const(1), Imm("call", 1), Const(9), Imm("call_indirect", 1), End>>}

G == Func(1, <<>>, <<Imm("local.get", 0), Imm("call", 1), Imm("call", 1), End>>)
H == Func(1, <<>>, <<Imm("local.get", 0), Const(1), I32Op("add"), End>>)
K == Func(2, <<>>, <<Imm("local.get", 0), Imm("local.set", 0), End>>)

Calling(main, f) ==
  [types |-> <<ToI32, I32ToI32, [params |-> <<"i32">>, results |-> <<>>]>>,
   funcs |-> <<Func(0, <<>>, main), Func(1, <<"i32">>, f), G, H, K>>,
   globals |-> <<[mutable |-> TRUE, init |-> ValI32(0)]>>,
   table |-> <<0, 1, 2, 3, 4>>, entry |-> 0, args |-> <<>>, outcome |-> "done", result |-> <<>>]

\* A compiled function without parameters, whose result is used.
NoParameters == {[Calling(<<Imm("call", 1), Imm("call", 1), I32Op("add"), End>>, <<>>)
                    EXCEPT !.funcs[2] = Func(0, <<>>, <<Const(1), End>>)]}

MCModules == {Calling(main, f) : main \in Callers, f \in Bodies}
=============================================================================
