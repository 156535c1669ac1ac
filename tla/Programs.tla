------------------------------ MODULE Programs ------------------------------
(***************************************************************************)
(* Every well-nested function body of a length over an alphabet.           *)
(***************************************************************************)
EXTENDS TestModules, FiniteSets

\* The well-nested sequences of length k, from those of every length below it
\* (of[l + 1] has those of length l): an instruction of `simple`, or a construct
\* opened by one of `blocks`, or one of `ifs` with an else, and what follows.
Longer(simple, blocks, ifs, of, k) ==
  {<<i>> \o rest : i \in simple, rest \in of[k]}
    \cup UNION {{<<b>> \o inner \o <<End>> \o rest :
                   b \in blocks, inner \in of[l + 1], rest \in of[k - 1 - l]} : l \in 0 .. k - 2}
    \cup UNION {{<<b>> \o yes \o <<Op("else")>> \o no \o <<End>> \o rest :
                   b \in ifs, yes \in of[l[1] + 1], no \in of[l[2] + 1],
                   rest \in of[k - 2 - l[1] - l[2]]} :
                l \in {m \in (0 .. k - 3) \X (0 .. k - 3) : m[1] + m[2] <= k - 3}}

\* Those of length 0 .. n, a set for each length; then all of them.
RECURSIVE ByLength(_, _, _, _)
ByLength(simple, blocks, ifs, n) ==
  IF n = 0 THEN <<{<<>>}>>
  ELSE LET of == ByLength(simple, blocks, ifs, n - 1)
       IN  Append(of, Longer(simple, blocks, ifs, of, n))

UpTo(simple, blocks, ifs, n) ==
  LET of == ByLength(simple, blocks, ifs, n) IN UNION {of[k] : k \in DOMAIN of}

\* The openers of every kind, and those of an if with else, of the given types.
AnyBlocks(types) == {Blk(op, t) : op \in {"block", "loop", "if"}, t \in types}
Ifs(types) == {Blk("if", t) : t \in types}
=============================================================================
