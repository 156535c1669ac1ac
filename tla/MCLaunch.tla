------------------------------ MODULE MCLaunch ------------------------------
(***************************************************************************)
(* Every command line of up to four arguments on a module and on one that  *)
(* exports no function; every invocation of the functions of the module;   *)
(* and modules with every two element segments, or with one fault.  Left   *)
(* out are the command lines on which the engine departs from what they    *)
(* ask for: MixedInvocations and LastOfSeveral.                            *)
(***************************************************************************)
EXTENDS Launch

Type(params, results) == [params |-> params, results |-> results]
Const(t, n) == [op |-> t, val |-> n]
Code0 == <<Ins("end", 0, "void", <<>>)>>
Segment(idx, at0, items) == [idx |-> idx, init |-> Const("i32", at0), items |-> items]
Export(name, kind, idx) == [name |-> name, kind |-> kind, idx |-> idx]
Limits(initial, maximum) == [initial |-> initial, maximum |-> maximum]

\* main, f(i32), g(i64, i32) and h, of a type nobody knows; f is also the name of a global.
Good ==
  [types |-> <<Type(<<>>, <<"i32">>), Type(<<"i32">>, <<"i32">>), Type(<<"i64", "i32">>, <<>>), Type(<<"v128">>, <<>>)>>,
   indices |-> <<1, 0, 2, 3>>,
   defs |-> [i \in 1 .. 4 |-> [locals |-> IF i = 2 THEN <<"f32", "i32">> ELSE <<>>, code |-> Code0]],
   globals |-> <<[mutable |-> TRUE, type |-> "i32", init |-> Const("i32", 5)],
                 [mutable |-> FALSE, type |-> "f64", init |-> Const("f64", 7)]>>,
   mems |-> <<Limits(1, 0)>>, tables |-> <<Limits(3, 3), Limits(2, 0)>>,
   data |-> <<Segment(0, 0, <<1>>), Segment(0, 6, <<1>>)>>,
   elements |-> <<Segment(0, 1, <<0, 1>>), Segment(0, 0, <<2, 2>>)>>,
   exports |-> <<Export("f", "global", 1), Export("f", "func", 0), Export("main", "func", 1),
                 Export("g", "func", 2), Export("main", "func", 0), Export("h", "func", 3)>>]

NoFunc == [Good EXCEPT !.exports = SelectSeq(@, LAMBDA e : e.kind # "func")]

\* One fault each: of globals, functions, memories, data, tables, elements, entry.
Faulty ==
  <<NoFunc,
    [Good EXCEPT !.exports = <<>>],
    [Good EXCEPT !.exports = <<Export("main", "func", 9)>>],
    [Good EXCEPT !.globals[2].init = Const("i32", 7)],
    [Good EXCEPT !.globals[1].type = "v128"],
    [Good EXCEPT !.indices = <<1, 0>>],
    [Good EXCEPT !.types = <<Type(<<>>, <<>>)>>],
    [Good EXCEPT !.mems = <<Limits(2, 1)>>],
    [Good EXCEPT !.mems = <<>>],
    [Good EXCEPT !.data = <<Segment(0, 7, <<1>>)>>],
    [Good EXCEPT !.data[1].init = Const("f32", 0)],
    [Good EXCEPT !.tables = <<Limits(3, 2)>>],
    [Good EXCEPT !.elements[1].init = Const("global", 0)]>>

\* Two segments of up to two functions, for the tables 0 to 2, at -2 to 3.
NthSegment(n) == Segment(n % 3, ((n \div 3) % 6) - 2, <<<<>>, <<0>>, <<1, 2>>>>[n \div 18 + 1])
Overlapping ==
  [k \in 1 .. 54 * 54 |->
     [Good EXCEPT !.elements = <<NthSegment((k - 1) % 54), NthSegment((k - 1) \div 54)>>]]

\* The path of a file is its number.
MCFiles == <<Good>> \o Faulty \o Overlapping

Arg(opt) == [opt |-> opt, value |-> <<>>]
Path(k) == [opt |-> "path", value |-> <<k>>]
Invoke(name, pieces) == [opt |-> "-i", value |-> <<[name |-> name, pieces |-> pieces]>>]
Num(n) == [kind |-> "number", n |-> n]
Text == [kind |-> "text", n |-> 0]
Empty == [kind |-> "empty", n |-> 0]

\* An invocation without arguments before one with them.
Mixed(line) ==
  \E j, k \in DOMAIN line :
    /\ line[j].opt = "-i" /\ line[j].value # <<>> /\ line[j].value[1].pieces = <<>>
    /\ line[k].opt = "-i" /\ line[k].value # <<>> /\ line[k].value[1].pieces # <<>> /\ j < k

Alphabet == {Path(1), Path(2), Arg("-i"), Invoke("f", <<Num(3)>>), Invoke("f", <<>>),
             Invoke("main", <<Num(1)>>), Arg("--jit"), Arg("-h"), Arg("-x"), Arg("")}
Lines == {line \in BoundedSeq(Alphabet, 4) : ~Mixed(line)}

\* Arguments: for g those beyond its two, or none behind the last comma.
Pieces == {Num(-8), Num(7), Num(8), Text, Empty}
Invocations ==
  {Invoke(name, p) : name \in {"f", "main", "h", "nobody"}, p \in BoundedSeq(Pieces, 2)}
  \cup {Invoke("g", Append(p, Empty)) : p \in BoundedSeq(Pieces, 1)}
  \cup {Invoke("g", p) : p \in {<<>>} \cup [1 .. 3 -> Pieces]}
MCCommandLines == Lines
  \cup {<<Path(1), i>> : i \in Invocations}
  \cup {<<Path(k)>> : k \in DOMAIN MCFiles}

MixedInvocations == {<<Path(1), Invoke("f", <<>>), Invoke("g", <<Num(3)>>)>>}
LastOfSeveral == {<<Path(1), Invoke("g", <<Num(1), Num(2)>>)>>}
=============================================================================
