-------------------------- MODULE RefinementProofs --------------------------
(***************************************************************************)
(* Proofs that the interpreter implements WasmControl, for every set of    *)
(* conforming modules, every capacity, and every width at which the        *)
(* engine's integer arithmetic is the standard's (ArithmeticAgrees and     *)
(* ConversionsAgree, which only TLC can evaluate).                         *)
(*                                                                         *)
(* The engine knows a block by the label it pushed and the continuations   *)
(* it crawled; the standard by the nesting of the code.  NestInv relates   *)
(* the two: the labels of the running activation are the blocks around the *)
(* next instruction, each with the continuation and the arity of its       *)
(* block.  RangeInv keeps every integer within its type, where the         *)
(* arithmetic agrees.  With both, one lemma for each handler says that it  *)
(* does a step of WasmControl, is Undefined there, or runs out of memory.  *)
(***************************************************************************)
EXTENDS InterpreterRefinement, InterpreterProofs

\* The instance of WasmControl has its own copy of the structure of code.
LEMMA SameStructure ==
  /\ \A m, fn : Wasm!Code(m, fn) = Code(m, fn)
  /\ \A fn, at : Wasm!At(fn, at) = At(fn, at)
  /\ \A m, idx : Wasm!FuncType(m, idx) = FuncType(m, idx)
  /\ \A S : Wasm!Cardinality(S) = Cardinality(S)
  /\ \A t : Wasm!BlockArity(t) = BlockArity(t)
  /\ \A code, at : Wasm!Nesting(code, at) = Nesting(code, at)
  /\ \A code, at : Wasm!ClosingEnd(code, at) = ClosingEnd(code, at)
  /\ \A code, at : Wasm!OwnElses(code, at) = OwnElses(code, at)
  /\ \A code, at, d : Wasm!Enclosing(code, at, d) = Enclosing(code, at, d)
<1>1. \A m, fn : Wasm!Code(m, fn) = Code(m, fn)
  BY DEF Wasm!Code, Code, Wasm!Ins, Ins
<1>2. \A fn, at : Wasm!At(fn, at) = At(fn, at)
  BY DEF Wasm!At, At
<1>3. \A m, idx : Wasm!FuncType(m, idx) = FuncType(m, idx)
  BY DEF Wasm!FuncType, FuncType
<1>4. \A t : Wasm!BlockArity(t) = BlockArity(t)
  BY DEF Wasm!BlockArity, BlockArity
<1>10. \A S : Wasm!Cardinality(S) = Cardinality(S)
  BY DEF Wasm!Cardinality, Cardinality
<1>5. \A code, at : Wasm!Nesting(code, at) = Nesting(code, at)
  BY <1>10 DEF Wasm!Nesting, Nesting, Wasm!Openers, Openers
<1>6. \A code, i, j : Wasm!Balance(code, i, j) = Balance(code, i, j)
  BY <1>5 DEF Wasm!Balance, Balance
<1>7. \A code, at : Wasm!ClosingEnd(code, at) = ClosingEnd(code, at)
  BY <1>6 DEF Wasm!ClosingEnd, ClosingEnd
<1>8. \A code, at : Wasm!OwnElses(code, at) = OwnElses(code, at)
  BY <1>6, <1>7 DEF Wasm!OwnElses, OwnElses
<1>9. \A code, at, d : Wasm!Enclosing(code, at, d) = Enclosing(code, at, d)
  BY <1>5, <1>7 DEF Wasm!Enclosing, Enclosing, Wasm!Openers, Openers
<1> QED BY <1>1, <1>2, <1>3, <1>4, <1>5, <1>7, <1>8, <1>9, <1>10

-----------------------------------------------------------------------------
(* The blocks around a position.                                           *)

\* The j-th block around a position, outermost first, is the one opened at o,
\* and its `end` is at e.
Encloses(code, o, e, at, j) ==
  /\ o \in 1 .. at - 1 /\ code[o].op \in Openers /\ Nesting(code, o) = j - 1
  /\ Closes(code, o, e) /\ e >= at

\* Of two blocks around a position the one with less blocks around it is opened
\* first and closed last.
LEMMA BlocksNested ==
  ASSUME NEW code, Structured(code), NEW at \in 1 .. Len(code), NEW i \in Nat, NEW j \in Nat, i < j,
         NEW o, NEW e, Encloses(code, o, e, at, i), NEW p, NEW f, Encloses(code, p, f, at, j)
  PROVE  o < p /\ f < e
<1> DEFINE N(k) == Nesting(code, k)
<1>1. Len(code) \in Nat /\ \A k \in 1 .. Len(code) : N(k) \in Nat
  BY BodyNested
<1>2. /\ o \in 1 .. at - 1 /\ N(o) = i - 1 /\ e \in o + 1 .. Len(code) - 1 /\ e >= at
      /\ N(e + 1) = N(o) /\ code[e].op = "end" /\ \A k \in o + 1 .. e : N(k) >= N(o) + 1
  BY DEF Encloses, Closes
<1>3. /\ p \in 1 .. at - 1 /\ N(p) = j - 1 /\ f \in p + 1 .. Len(code) - 1 /\ f >= at
      /\ \A k \in p + 1 .. f : N(k) >= N(p) + 1
  BY DEF Encloses, Closes
<1>4. N(e + 1) = N(e) - 1
  <2>1. N(e + 1) = N(e) + Change("end")
    BY <1>1, <1>2, e \in Nat \ {0}, NestingStep
  <2>2. Change("end") = -1 /\ N(e) \in Nat
    BY <1>1, <1>2 DEF Change, Openers
  <2> HIDE DEF N
  <2> QED BY <2>1, <2>2
<1> HIDE DEF N
<1>5. o < p
  <2>1. SUFFICES ASSUME ~(o < p) PROVE FALSE
    BY <1>2, <1>3
  <2>2. CASE o = p
    BY <1>2, <1>3, <2>2
  <2>3. CASE o # p
    <3>1. o \in p + 1 .. f
      BY <1>2, <1>3, <2>1, <2>3
    <3> QED BY <1>2, <1>3, <3>1
  <2> QED BY <2>2, <2>3
<1>6. f < e
  <2>1. SUFFICES ASSUME ~(f < e) PROVE FALSE
    BY <1>2, <1>3
  <2>2. e \in p + 1 .. f
    BY <1>2, <1>3, <2>1
  <2>3. N(e) >= j /\ N(e) \in Nat /\ N(e) = i
    BY SMTT(30), <1>1, <1>2, <1>3, <1>4, <2>2
  <2> QED BY <2>3
<1> QED BY <1>5, <1>6

\* It is the one the definition chooses.
LEMMA EnclosingIs ==
  ASSUME NEW code, Structured(code), NEW at \in 1 .. Len(code), NEW j \in Nat,
         NEW o, NEW e, Encloses(code, o, e, at, j), NEW d \in Int, d = Nesting(code, at) - j
  PROVE  Enclosing(code, at, d) = o /\ ClosingEnd(code, o + 1) = e
<1> DEFINE Is(x) == /\ code[x].op \in Openers
                    /\ Nesting(code, x) = Nesting(code, at) - d - 1
                    /\ ClosingEnd(code, x + 1) >= at
<1>1. Len(code) \in Nat /\ Nesting(code, at) \in Nat /\ Nesting(code, at) - d - 1 = j - 1
  BY BodyNested
<1>2. o \in 1 .. at - 1 /\ o \in 1 .. Len(code) /\ e >= at /\ Nesting(code, o) = j - 1
  BY <1>1 DEF Encloses
<1>3. ClosingEnd(code, o + 1) = e
  BY <1>2, ClosingEndIs DEF Encloses
<1>4. Is(o)
  BY <1>1, <1>2, <1>3 DEF Encloses
<1>5. ASSUME NEW p \in 1 .. at - 1, Is(p) PROVE p = o
  <2>1. p \in 1 .. Len(code) /\ code[p].op \in Openers
    BY <1>1, <1>5
  <2>2. PICK f : Closes(code, p, f)
    BY <2>1, BlockCloses
  <2>3. ClosingEnd(code, p + 1) = f
    BY <2>1, <2>2, ClosingEndIs
  <2>4. f >= at /\ Nesting(code, p) = j - 1
    BY <1>1, <1>5, <2>3
  <2>5. SUFFICES ASSUME p # o PROVE FALSE
    OBVIOUS
  <2>6. /\ e \in o + 1 .. Len(code) - 1 /\ \A k \in o + 1 .. e : Nesting(code, k) >= Nesting(code, o) + 1
        /\ f \in p + 1 .. Len(code) - 1 /\ \A k \in p + 1 .. f : Nesting(code, k) >= Nesting(code, p) + 1
    BY <2>2 DEF Encloses, Closes
  <2>7. CASE o < p
    <3>1. p \in o + 1 .. e
      BY <1>2, <2>6, <2>7
    <3> QED BY <1>2, <2>4, <2>6, <3>1
  <2>8. CASE ~(o < p)
    <3>1. o \in p + 1 .. f
      BY <1>2, <2>4, <2>5, <2>6, <2>8
    <3> QED BY <1>2, <2>4, <2>6, <3>1
  <2> QED BY <2>7, <2>8
<1>6. Enclosing(code, at, d) = CHOOSE x \in 1 .. at - 1 : Is(x)
  BY DEF Enclosing
<1> HIDE DEF Is
<1> QED BY <1>2, <1>3, <1>4, <1>5, <1>6


-----------------------------------------------------------------------------
(* The labels on the stack stand for the blocks around the next instruction. *)

\* The label frame f stands for the j-th block around p.
Stands(code, p, f, j) ==
  \E o, e : /\ Encloses(code, o, e, p.at, j)
            /\ f.arity = BlockArity(code[o].t)
            /\ f.cont = IF code[o].op = "loop" THEN At(p.fn, o) ELSE At(p.fn, e + 1)

LabelsIn(s) == {q \in 1 .. Len(s) : s[q].kind = "label"}

\* There is one label on the stack for each block around p, and no other.
Nest(m, p, s, lm) ==
  LET code == Code(m, p.fn) IN
  /\ Len(lm) = Nesting(code, p.at)
  /\ \A j \in 1 .. Len(lm) : lm[j] \in LabelsIn(s) /\ Stands(code, p, s[lm[j]], j)
  /\ \A q \in LabelsIn(s) : \E j \in 1 .. Len(lm) : lm[j] = q

\* Operands have been moved, and no label.
SameLabels(s, u) == LabelsIn(u) = LabelsIn(s) /\ \A q \in LabelsIn(s) : u[q] = s[q]

LEMMA NestCarried ==
  ASSUME NEW m, NEW p, NEW s, NEW u, NEW lm, Nest(m, p, s, lm), SameLabels(s, u)
  PROVE  Nest(m, p, u, lm)
BY DEF Nest, SameLabels

\* A block is not left by an instruction that is not its `end`.
LEMMA StandsOn ==
  ASSUME NEW code, Structured(code), NEW p, p.at \in 1 .. Len(code), code[p.at].op # "end",
         NEW f, NEW j, Stands(code, p, f, j)
  PROVE  Stands(code, At(p.fn, p.at + 1), f, j)
<1>1. PICK o, e : /\ Encloses(code, o, e, p.at, j)
                  /\ f.arity = BlockArity(code[o].t)
                  /\ f.cont = IF code[o].op = "loop" THEN At(p.fn, o) ELSE At(p.fn, e + 1)
  BY DEF Stands
<1>2. Len(code) \in Nat
  BY BodyNested
<1>3. e >= p.at + 1 /\ o \in 1 .. p.at
  BY SMTT(30), <1>1, <1>2 DEF Encloses, Closes
<1>4. Encloses(code, o, e, p.at + 1, j)
  BY <1>1, <1>2, <1>3 DEF Encloses
<1>5. At(p.fn, p.at + 1).at = p.at + 1 /\ At(p.fn, p.at + 1).fn = p.fn
  BY DEF At
<1> QED BY <1>1, <1>4, <1>5 DEF Stands

\* Straight on.
LEMMA NestStraight ==
  ASSUME NEW m, NEW p, NEW s, NEW lm, Nest(m, p, s, lm), Structured(Code(m, p.fn)),
         p.at \in 1 .. Len(Code(m, p.fn)), Code(m, p.fn)[p.at].op \notin Openers \cup {"end"}
  PROVE  Nest(m, At(p.fn, p.at + 1), s, lm)
<1> DEFINE code == Code(m, p.fn)
           q == At(p.fn, p.at + 1)
<1>1. q.fn = p.fn /\ q.at = p.at + 1
  BY DEF At
<1>2. Nesting(code, p.at + 1) = Nesting(code, p.at)
  <2>1. Len(code) \in Nat /\ Nesting(code, p.at) \in Nat
    BY BodyNested
  <2>2. Nesting(code, p.at + 1) = Nesting(code, p.at) + Change(code[p.at].op)
    BY <2>1, p.at \in Nat \ {0}, NestingStep
  <2>3. Change(code[p.at].op) = 0
    BY DEF Change
  <2> QED BY <2>1, <2>2, <2>3
<1>3. \A j \in 1 .. Len(lm) : Stands(code, q, s[lm[j]], j)
  BY StandsOn DEF Nest
<1> QED BY <1>1, <1>2, <1>3 DEF Nest

\* Into a block.
LEMMA NestOpened ==
  ASSUME NEW m, NEW p, NEW S, NEW s \in Seq(S), NEW lm \in Seq(Nat), Nest(m, p, s, lm),
         Structured(Code(m, p.fn)), p.at \in 1 .. Len(Code(m, p.fn)),
         Code(m, p.fn)[p.at].op \in Openers, NEW e, Closes(Code(m, p.fn), p.at, e),
         NEW f, f.kind = "label", f.arity = BlockArity(Code(m, p.fn)[p.at].t),
         f.cont = IF Code(m, p.fn)[p.at].op = "loop" THEN At(p.fn, p.at) ELSE At(p.fn, e + 1),
         NEW q, q.fn = p.fn, q.at \in p.at + 1 .. e,
         Nesting(Code(m, p.fn), q.at) = Nesting(Code(m, p.fn), p.at) + 1
  PROVE  Nest(m, q, Append(s, f), Append(lm, Len(s) + 1))
<1> DEFINE code == Code(m, p.fn)
           u == Append(s, f)
           n == Append(lm, Len(s) + 1)
           N == Len(lm)
<1>1. Len(code) \in Nat /\ Len(s) \in Nat /\ N \in Nat /\ N = Nesting(code, p.at)
  BY BodyNested DEF Nest
<1>2. Len(u) = Len(s) + 1 /\ u[Len(s) + 1] = f /\ \A k \in 1 .. Len(s) : u[k] = s[k]
  <2>1. s \in Seq(S \cup {f})
    OBVIOUS
  <2> QED BY <1>1, <2>1
<1>3. Len(n) = N + 1 /\ n[N + 1] = Len(s) + 1 /\ \A j \in 1 .. N : n[j] = lm[j]
  BY <1>1
<1>4. p.at + 1 \in 1 .. Len(code) /\ e \in Int /\ e >= q.at /\ q.at \in Int /\ e <= Len(code)
  BY SMTT(30), <1>1 DEF Closes
<1>5. Encloses(code, p.at, e, p.at + 1, N + 1)
  BY <1>1, <1>4 DEF Encloses, Closes
<1>6. ASSUME NEW j \in 1 .. N PROVE n[j] \in LabelsIn(u) /\ Stands(code, q, u[n[j]], j)
  <2>1. lm[j] \in LabelsIn(s) /\ lm[j] \in 1 .. Len(s) /\ Stands(code, p, s[lm[j]], j)
    BY DEF Nest, LabelsIn
  <2>2. code[p.at].op # "end"
    BY DEF Openers
  <2>3. Stands(code, At(p.fn, p.at + 1), s[lm[j]], j)
    BY <2>1, <2>2, StandsOn
  <2>4. At(p.fn, p.at + 1).at = p.at + 1 /\ At(p.fn, p.at + 1).fn = p.fn
    BY DEF At
  <2>5. PICK o, d : /\ Encloses(code, o, d, p.at + 1, j)
                    /\ s[lm[j]].arity = BlockArity(code[o].t)
                    /\ s[lm[j]].cont = IF code[o].op = "loop" THEN At(p.fn, o) ELSE At(p.fn, d + 1)
    BY <2>3, <2>4 DEF Stands
  <2>6. e < d
    BY SMTT(30), <1>1, <1>4, <1>5, <2>5, BlocksNested
  <2>7. Encloses(code, o, d, q.at, j)
    <3>1. d \in Int /\ o \in 1 .. p.at
      BY SMTT(30), <1>1, <2>5 DEF Encloses, Closes
    <3>2. d >= q.at /\ o \in 1 .. q.at - 1
      BY SMTT(30), <1>4, <2>6, <3>1
    <3> QED BY <2>5, <3>2 DEF Encloses
  <2>8. Stands(code, q, s[lm[j]], j)
    BY <2>5, <2>7 DEF Stands
  <2> QED BY SMTT(30), <1>1, <1>2, <1>3, <2>1, <2>8 DEF LabelsIn
<1>7. n[N + 1] \in LabelsIn(u) /\ Stands(code, q, u[n[N + 1]], N + 1)
  <2>1. Encloses(code, p.at, e, q.at, N + 1)
    BY <1>1, <1>4, <1>5 DEF Encloses
  <2>2. Stands(code, q, f, N + 1)
    BY <2>1 DEF Stands
  <2> QED BY <1>1, <1>2, <1>3, <2>2 DEF LabelsIn
<1>8. ASSUME NEW k \in LabelsIn(u) PROVE \E j \in 1 .. N + 1 : n[j] = k
  <2>1. k \in 1 .. Len(s) + 1 /\ u[k].kind = "label"
    BY <1>2 DEF LabelsIn
  <2>2. CASE k = Len(s) + 1
    BY SMTT(30), <1>1, <1>3, <2>2
  <2>3. CASE k # Len(s) + 1
    <3>1. k \in LabelsIn(s)
      BY SMTT(30), <1>1, <1>2, <2>1, <2>3 DEF LabelsIn
    <3>2. PICK j \in 1 .. N : lm[j] = k
      BY <3>1 DEF Nest
    <3> QED BY <1>1, <1>3, <3>2
  <2> QED BY <2>2, <2>3
<1> HIDE DEF u, n, N
<1>9. \A j \in 1 .. N + 1 : n[j] \in LabelsIn(u) /\ Stands(code, q, u[n[j]], j)
  <2>1. \A j \in 1 .. N + 1 : j \in 1 .. N \/ j = N + 1
    BY <1>1
  <2> QED BY <1>6, <1>7, <2>1
<1>10. Len(n) = Nesting(code, q.at) /\ Len(n) = N + 1
  BY <1>1, <1>3
<1>11. Nest(m, q, u, n)
  BY <1>8, <1>9, <1>10 DEF Nest
<1> QED BY <1>11 DEF u, n

\* Out of the k-th block, or to the beginning of a loop that is the k-th block.
LEMMA NestLeft ==
  ASSUME NEW m, NEW p, NEW s, NEW lm \in Seq(Nat), Nest(m, p, s, lm),
         \A i, j \in 1 .. Len(lm) : i < j => lm[i] < lm[j],
         Structured(Code(m, p.fn)), p.at \in 1 .. Len(Code(m, p.fn)),
         NEW k \in 1 .. Len(lm), NEW o, NEW e, Encloses(Code(m, p.fn), o, e, p.at, k),
         NEW q, q.fn = p.fn, q.at = o \/ q.at = e + 1,
         NEW u, LabelsIn(u) = {x \in LabelsIn(s) : x < lm[k]}, \A x \in LabelsIn(u) : u[x] = s[x]
  PROVE  Nest(m, q, u, DropTop(lm, Len(lm) - k + 1))
<1> DEFINE code == Code(m, p.fn)
           n == DropTop(lm, Len(lm) - k + 1)
<1>1. Len(code) \in Nat /\ Len(lm) \in Nat /\ k \in Nat
  BY BodyNested
<1>2. Len(n) = k - 1 /\ \A j \in 1 .. k - 1 : n[j] = lm[j]
  <2>1. Len(lm) - k + 1 \in 0 .. Len(lm) /\ Len(lm) - (Len(lm) - k + 1) = k - 1
    BY <1>1
  <2> QED BY <2>1, DropTopKeeps
<1>3. /\ o \in 1 .. p.at - 1 /\ Nesting(code, o) = k - 1 /\ e \in Int /\ e >= p.at
      /\ Nesting(code, e + 1) = k - 1
  BY <1>1 DEF Encloses, Closes
<1>4. ASSUME NEW j \in 1 .. k - 1 PROVE n[j] \in LabelsIn(u) /\ Stands(code, q, u[n[j]], j)
  <2>1. j \in 1 .. Len(lm) /\ j < k /\ j \in Nat
    BY <1>1
  <2>2. lm[j] \in LabelsIn(s) /\ Stands(code, p, s[lm[j]], j) /\ lm[j] < lm[k]
    BY <2>1 DEF Nest
  <2>3. lm[j] \in LabelsIn(u) /\ u[lm[j]] = s[lm[j]]
    BY <2>2
  <2>4. PICK b, d : /\ Encloses(code, b, d, p.at, j)
                    /\ s[lm[j]].arity = BlockArity(code[b].t)
                    /\ s[lm[j]].cont = IF code[b].op = "loop" THEN At(p.fn, b) ELSE At(p.fn, d + 1)
    BY <2>2 DEF Stands
  <2>5. b < o /\ e < d
    BY <1>1, <2>1, <2>4, BlocksNested
  <2>6. Encloses(code, b, d, q.at, j)
    <3>1. d \in Int /\ b \in 1 .. p.at - 1
      BY <1>1, <2>4 DEF Encloses, Closes
    <3>2. d >= q.at /\ b \in 1 .. q.at - 1
      BY <1>1, <1>3, <2>5, <3>1
    <3> QED BY <2>4, <3>2 DEF Encloses
  <2>7. Stands(code, q, s[lm[j]], j)
    BY <2>4, <2>6 DEF Stands
  <2> QED BY <1>2, <2>3, <2>7
<1>5. ASSUME NEW x \in LabelsIn(u) PROVE \E j \in 1 .. k - 1 : n[j] = x
  <2>1. x \in LabelsIn(s) /\ x < lm[k]
    OBVIOUS
  <2>2. PICK j \in 1 .. Len(lm) : lm[j] = x
    BY <2>1 DEF Nest
  <2>3. j < k
    <3>1. SUFFICES ASSUME ~(j < k) PROVE FALSE
      OBVIOUS
    <3>2. lm[k] \in Nat /\ lm[j] \in Nat /\ (j = k \/ k < j)
      BY <1>1, <3>1
    <3> QED BY <2>1, <2>2, <3>2
  <2>4. j \in 1 .. k - 1
    BY <1>1, <2>3
  <2>5. n[j] = x
    BY <1>2, <2>2, <2>4
  <2> QED BY <2>4, <2>5
<1> HIDE DEF n
<1>6. Len(n) = Nesting(code, q.at)
  BY <1>2, <1>3
<1>7. Nest(m, q, u, n)
  BY <1>2, <1>4, <1>5, <1>6 DEF Nest
<1> QED BY <1>7 DEF n

-----------------------------------------------------------------------------
(* What is left of the stack in WasmControl, and its operators there.      *)

Bare(f) == IF f.kind = "label" THEN [kind |-> "label"] ELSE f
BareOf(s) == [p \in DOMAIN s |-> Bare(s[p])]

LEMMA BareStack ==
  ASSUME NEW S, NEW s \in Seq(S)
  PROVE  /\ BareOf(s) \in Seq({Bare(f) : f \in S}) /\ Len(BareOf(s)) = Len(s) /\ Len(s) \in Nat
         /\ \A p \in 1 .. Len(s) : BareOf(s)[p] = Bare(s[p])
         /\ DOMAIN BareOf(s) = 1 .. Len(s)
<1>1. Len(s) \in Nat /\ DOMAIN s = 1 .. Len(s) /\ \A p \in 1 .. Len(s) : s[p] \in S
  OBVIOUS
<1>2. BareOf(s) = [p \in 1 .. Len(s) |-> Bare(s[p])]
  BY <1>1 DEF BareOf
<1>3. \A p \in 1 .. Len(s) : Bare(s[p]) \in {Bare(f) : f \in S}
  BY <1>1
<1> QED BY <1>1, <1>2, <1>3

\* A frame keeps its kind, a value and an activation keep all.
LEMMA BareFrame ==
  \A f : /\ Bare(f).kind = f.kind
         /\ f.kind # "label" => Bare(f) = f
         /\ f.kind = "label" => Bare(f) = [kind |-> "label"]
BY DEF Bare

LEMMA BareAppend ==
  ASSUME NEW S, NEW s \in Seq(S), NEW f
  PROVE  BareOf(Append(s, f)) = Append(BareOf(s), Bare(f))
<1> DEFINE T == S \cup {f}
           B == {Bare(g) : g \in T}
<1>1. s \in Seq(T) /\ Append(s, f) \in Seq(T) /\ Len(s) \in Nat
  OBVIOUS
<1>2. /\ Len(Append(s, f)) = Len(s) + 1 /\ Append(s, f)[Len(s) + 1] = f
      /\ \A p \in 1 .. Len(s) : Append(s, f)[p] = s[p]
  BY <1>1
<1>3. BareOf(s) \in Seq(B) /\ Len(BareOf(s)) = Len(s) /\ \A p \in 1 .. Len(s) : BareOf(s)[p] = Bare(s[p])
  BY <1>1, BareStack
<1>4. /\ BareOf(Append(s, f)) \in Seq(B) /\ Len(BareOf(Append(s, f))) = Len(s) + 1
      /\ \A p \in 1 .. Len(s) + 1 : BareOf(Append(s, f))[p] = Bare(Append(s, f)[p])
  BY <1>1, <1>2, BareStack
<1>5. Bare(f) \in B
  OBVIOUS
<1> HIDE DEF B, T
<1>6. /\ Append(BareOf(s), Bare(f)) \in Seq(B) /\ Len(Append(BareOf(s), Bare(f))) = Len(s) + 1
      /\ Append(BareOf(s), Bare(f))[Len(s) + 1] = Bare(f)
      /\ \A p \in 1 .. Len(s) : Append(BareOf(s), Bare(f))[p] = BareOf(s)[p]
  BY <1>3, <1>5
<1>7. \A p \in 1 .. Len(s) + 1 : BareOf(Append(s, f))[p] = Append(BareOf(s), Bare(f))[p]
  <2>1. SUFFICES ASSUME NEW p \in 1 .. Len(s) + 1
                 PROVE  BareOf(Append(s, f))[p] = Append(BareOf(s), Bare(f))[p]
    OBVIOUS
  <2>2. p \in 1 .. Len(s) \/ p = Len(s) + 1
    BY <1>1
  <2> QED BY <1>2, <1>3, <1>4, <1>6, <2>2
<1> QED BY <1>4, <1>6, <1>7, SeqEqual

LEMMA BarePop ==
  ASSUME NEW S, NEW s \in Seq(S), NEW n \in 0 .. Len(s)
  PROVE  Wasm!Pop(BareOf(s), n) = BareOf(DropTop(s, n))
<1> DEFINE B == {Bare(f) : f \in S}
<1>1. BareOf(s) \in Seq(B) /\ Len(BareOf(s)) = Len(s) /\ Len(s) \in Nat
      /\ \A p \in 1 .. Len(s) : BareOf(s)[p] = Bare(s[p])
  BY BareStack
<1>2. /\ DropTop(s, n) \in Seq(S) /\ Len(DropTop(s, n)) = Len(s) - n
      /\ \A p \in 1 .. Len(s) - n : DropTop(s, n)[p] = s[p]
  BY DropTopKeeps
<1>3. /\ BareOf(DropTop(s, n)) \in Seq(B) /\ Len(BareOf(DropTop(s, n))) = Len(s) - n
      /\ \A p \in 1 .. Len(s) - n : BareOf(DropTop(s, n))[p] = Bare(DropTop(s, n)[p])
  BY <1>2, BareStack
<1> HIDE DEF B
<1>4. /\ DropTop(BareOf(s), n) \in Seq(B) /\ Len(DropTop(BareOf(s), n)) = Len(s) - n
      /\ \A p \in 1 .. Len(s) - n : DropTop(BareOf(s), n)[p] = BareOf(s)[p]
  BY ZenonT(40), <1>1, DropTopKeeps
<1>5. BareOf(DropTop(s, n)) = DropTop(BareOf(s), n)
  <2>1. \A p \in 1 .. Len(s) - n : BareOf(DropTop(s, n))[p] = DropTop(BareOf(s), n)[p]
    BY <1>1, <1>2, <1>3, <1>4
  <2> QED BY <1>3, <1>4, <2>1, SeqEqual
<1> QED BY <1>5 DEF Wasm!Pop, DropTop

LEMMA BareUnwind ==
  ASSUME NEW S, NEW s \in Seq(S), NEW results, Len(results) \in 0 .. Len(s),
         NEW p \in 1 .. Len(s) - Len(results)
  PROVE  Wasm!Unwind(BareOf(s), p, results) = BareOf(EraseRange(s, p, Len(results)))
<1> DEFINE B == {Bare(f) : f \in S}
           n == Len(results)
           t == EraseRange(s, p, n)
           b == EraseRange(BareOf(s), p, n)
<1> HIDE DEF n
<1>1. BareOf(s) \in Seq(B) /\ Len(BareOf(s)) = Len(s) /\ Len(s) \in Nat
      /\ \A q \in 1 .. Len(s) : BareOf(s)[q] = Bare(s[q])
  BY BareStack
<1>2. n \in 0 .. Len(s) /\ p \in 1 .. Len(s) - n
  BY DEF n
<1>3. /\ t \in Seq(S) /\ Len(t) = p - 1 + n
      /\ \A q \in 1 .. p - 1 : t[q] = s[q]
      /\ \A q \in p .. p - 1 + n : t[q] = s[q - p + 1 + (Len(s) - n)]
  BY SMTT(30), <1>2, EraseRangeMoves
<1> HIDE DEF t
<1>4. BareOf(t) \in Seq(B) /\ Len(BareOf(t)) = p - 1 + n
      /\ \A q \in 1 .. p - 1 + n : BareOf(t)[q] = Bare(t[q])
  BY <1>3, BareStack
<1> HIDE DEF B
<1>5. /\ b \in Seq(B) /\ Len(b) = p - 1 + n
      /\ \A q \in 1 .. p - 1 : b[q] = BareOf(s)[q]
      /\ \A q \in p .. p - 1 + n : b[q] = BareOf(s)[q - p + 1 + (Len(s) - n)]
  <2>1. n \in 0 .. Len(BareOf(s)) /\ p \in 1 .. Len(BareOf(s)) - n
    BY <1>1, <1>2
  <2>2. /\ EraseRange(BareOf(s), p, n) \in Seq(B) /\ Len(EraseRange(BareOf(s), p, n)) = p - 1 + n
        /\ \A q \in 1 .. p - 1 : EraseRange(BareOf(s), p, n)[q] = BareOf(s)[q]
        /\ \A q \in p .. p - 1 + n :
             EraseRange(BareOf(s), p, n)[q] = BareOf(s)[q - p + 1 + (Len(BareOf(s)) - n)]
    <3> HIDE DEF b
    <3> QED BY ZenonT(40), <1>1, <2>1, EraseRangeMoves
  <2> QED BY <1>1, <2>2
<1> HIDE DEF b
<1>6. \A q \in 1 .. p - 1 + n : BareOf(t)[q] = b[q]
  <2>1. SUFFICES ASSUME NEW q \in 1 .. p - 1 + n PROVE BareOf(t)[q] = b[q]
    OBVIOUS
  <2>2. BareOf(t)[q] = Bare(t[q])
    BY <1>4
  <2>3. CASE q <= p - 1
    <3>1. q \in 1 .. p - 1 /\ q \in 1 .. Len(s)
      BY <1>1, <1>2, <2>3
    <3> QED BY <1>1, <1>3, <1>5, <2>2, <3>1
  <2>4. CASE ~(q <= p - 1)
    <3>1. q \in p .. p - 1 + n /\ q - p + 1 + (Len(s) - n) \in 1 .. Len(s)
      BY <1>1, <1>2, <2>4
    <3> QED BY <1>1, <1>3, <1>5, <2>2, <3>1
  <2> QED BY <2>3, <2>4
<1>7. BareOf(t) = b
  BY <1>4, <1>5, <1>6, SeqEqual
<1> QED BY <1>1, <1>7 DEF Wasm!Unwind, Wasm!Popped, EraseRange, t, b, n

\* The standard's test of operands is the engine's.
LEMMA BareOperands ==
  ASSUME NEW S, NEW s \in Seq(S), NEW T, NEW types \in Seq(T)
  PROVE  Wasm!Operands(BareOf(s), types) <=>
           /\ ValuesOnTop(s, Len(types))
           /\ \A i \in 1 .. Len(types) : s[Len(s) - Len(types) + i].value.type = types[i]
<1> DEFINE n == Len(types)
<1>1. Len(BareOf(s)) = Len(s) /\ Len(s) \in Nat /\ n \in Nat /\ DOMAIN types = 1 .. n
      /\ \A p \in 1 .. Len(s) : BareOf(s)[p] = Bare(s[p])
  <2>1. n \in Nat /\ DOMAIN types = 1 .. n
    OBVIOUS
  <2> HIDE DEF n
  <2> QED BY <2>1, BareStack
<1> HIDE DEF n
<1>2. CASE ~(n <= Len(s))
  <2>1. ~ValuesOnTop(s, n) /\ ~Wasm!Operands(BareOf(s), types)
    BY <1>1, <1>2 DEF ValuesOnTop, Wasm!Operands, n
  <2> QED BY <2>1 DEF n
<1>3. CASE n <= Len(s)
  <2>1. \A i \in 1 .. n : Len(s) - n + i \in 1 .. Len(s)
    BY <1>1, <1>3
  <2>2. \A i \in 1 .. n : /\ BareOf(s)[Len(s) - n + i].kind = s[Len(s) - n + i].kind
                          /\ s[Len(s) - n + i].kind = "value" =>
                               BareOf(s)[Len(s) - n + i] = s[Len(s) - n + i]
    BY <1>1, <2>1, BareFrame
  <2>3. Wasm!Operands(BareOf(s), types) <=>
          \A i \in 1 .. n : /\ s[Len(s) - n + i].kind = "value"
                            /\ s[Len(s) - n + i].value.type = types[i]
    BY ZenonT(40), <1>1, <1>3, <2>2 DEF Wasm!Operands, n
  <2>4. ValuesOnTop(s, n) <=> \A i \in 1 .. n : s[Len(s) - n + i].kind = "value"
    <3>1. ASSUME NEW i \in Len(s) - n + 1 .. Len(s), \A j \in 1 .. n : s[Len(s) - n + j].kind = "value"
          PROVE  s[i].kind = "value"
      <4>1. i - (Len(s) - n) \in 1 .. n /\ Len(s) - n + (i - (Len(s) - n)) = i
        BY <1>1, <1>3
      <4> QED BY <3>1, <4>1
    <3>2. ASSUME NEW j \in 1 .. n, \A i \in Len(s) - n + 1 .. Len(s) : s[i].kind = "value"
          PROVE  s[Len(s) - n + j].kind = "value"
      <4>1. Len(s) - n + j \in Len(s) - n + 1 .. Len(s)
        BY <1>1, <1>3
      <4> QED BY <3>2, <4>1
    <3>3. ValuesOnTop(s, n) <=> \A i \in Len(s) - n + 1 .. Len(s) : s[i].kind = "value"
      BY <1>1, <1>3 DEF ValuesOnTop
    <3>4. ASSUME ValuesOnTop(s, n) PROVE \A i \in 1 .. n : s[Len(s) - n + i].kind = "value"
      BY <3>2, <3>3, <3>4
    <3>5. ASSUME \A i \in 1 .. n : s[Len(s) - n + i].kind = "value" PROVE ValuesOnTop(s, n)
      BY <3>1, <3>3, <3>5
    <3> QED BY <3>4, <3>5
  <2> QED BY <2>3, <2>4 DEF n
<1> QED BY <1>2, <1>3

\* Of at most one result.
LEMMA BareArity ==
  ASSUME NEW S, NEW s \in Seq(S), NEW T, NEW arity \in Seq(T), Len(arity) <= 1
  PROVE  Wasm!Operands(BareOf(s), arity) <=> ArityHolds(s, arity)
<1>1. Len(s) \in Nat /\ Len(arity) \in Nat
  OBVIOUS
<1>2. \A i \in 1 .. Len(arity) : Len(s) - Len(arity) + i = Len(s) - i + 1
  BY <1>1
<1> QED BY SMTT(30), <1>2, BareOperands DEF ArityHolds

\* Of one operand.
LEMMA BareOne ==
  ASSUME NEW S, NEW s \in Seq(S), s # <<>>, NEW t
  PROVE  /\ Wasm!Operands(BareOf(s), <<t>>) <=> IsType(Last(s), t)
         /\ BareOf(s)[Len(BareOf(s))] = Bare(Last(s))
         /\ Wasm!Last(BareOf(s)) = Bare(Last(s))
         /\ ValuesOnTop(s, 1) <=> Last(s).kind = "value"
<1>1. Len(s) \in Nat \ {0} /\ Last(s) = s[Len(s)]
  BY DEF Last
<1>2. Len(BareOf(s)) = Len(s) /\ \A p \in 1 .. Len(s) : BareOf(s)[p] = Bare(s[p])
  BY BareStack
<1>3. <<t>> \in Seq({t}) /\ Len(<<t>>) = 1 /\ <<t>>[1] = t
  OBVIOUS
<1>4. Wasm!Operands(BareOf(s), <<t>>) <=>
           /\ ValuesOnTop(s, Len(<<t>>))
           /\ \A i \in 1 .. Len(<<t>>) : s[Len(s) - Len(<<t>>) + i].value.type = <<t>>[i]
  <2> DEFINE types == <<t>>
  <2>1. types \in Seq({t})
    OBVIOUS
  <2> HIDE DEF types
  <2>2. Wasm!Operands(BareOf(s), types) <=>
           /\ ValuesOnTop(s, Len(types))
           /\ \A i \in 1 .. Len(types) : s[Len(s) - Len(types) + i].value.type = types[i]
    BY <2>1, BareOperands
  <2> QED BY <2>2 DEF types
<1>5. \A i \in 1 .. 1 : s[Len(s) - 1 + i] = s[Len(s)]
  BY <1>1
<1>6. ValuesOnTop(s, 1) <=> s[Len(s)].kind = "value"
  BY <1>1 DEF ValuesOnTop
<1> QED BY <1>1, <1>2, <1>3, <1>4, <1>5, <1>6 DEF IsType, Wasm!Last

\* The innermost activation is the one the engine has recorded last.
LEMMA BareCurrent ==
  ASSUME NEW s, Good(s), MapsOK, Running
  PROVE  /\ Wasm!Current(BareOf(s)) = TopActiv /\ BareOf(s)[TopActiv] = s[TopActiv]
         /\ TopActiv \in 1 .. Len(s) /\ s[TopActiv].kind = "activ"
<1>1. s \in Seq(FramesOf(s)) /\ ActivIn(s, activMap)
  BY DEF Good, Framed
<1>2. Len(activMap) \in Nat \ {0} /\ activMap \in Seq(Nat \ {0}) /\ Len(s) \in Nat
  BY <1>1 DEF MapsOK, Running
<1>3. DOMAIN BareOf(s) = 1 .. Len(s) /\ Len(BareOf(s)) = Len(s)
      /\ \A p \in 1 .. Len(s) : BareOf(s)[p].kind = s[p].kind
  BY <1>1, BareStack, BareFrame
<1>4. TopActiv \in 1 .. Len(s) /\ s[TopActiv].kind = "activ"
  BY <1>1, <1>2 DEF ActivIn, TopActiv
<1>5. \A q \in TopActiv + 1 .. Len(s) : s[q].kind # "activ"
  <2>1. SUFFICES ASSUME NEW q \in TopActiv + 1 .. Len(s), s[q].kind = "activ" PROVE FALSE
    OBVIOUS
  <2>2. q \in 1 .. Len(s)
    BY <1>2, <1>4
  <2>3. PICK i \in 1 .. Len(activMap) : activMap[i] = q
    BY <1>1, <2>1, <2>2 DEF ActivIn
  <2>4. i = Len(activMap) \/ activMap[i] < activMap[Len(activMap)]
    BY <1>1, <1>2 DEF ActivIn
  <2> QED BY <1>2, <1>4, <2>3, <2>4 DEF TopActiv
<1> DEFINE Is(p) == BareOf(s)[p].kind = "activ" /\ \A q \in p + 1 .. Len(BareOf(s)) : BareOf(s)[q].kind # "activ"
<1>6. Is(TopActiv)
  <2>1. BareOf(s)[TopActiv].kind = "activ"
    BY <1>3, <1>4
  <2>2. ASSUME NEW q \in TopActiv + 1 .. Len(BareOf(s)) PROVE BareOf(s)[q].kind # "activ"
    <3>1. q \in TopActiv + 1 .. Len(s)
      BY <1>3
    <3>2. q \in 1 .. Len(s)
      BY <1>2, <1>4, <3>1
    <3> QED BY <1>3, <1>5, <3>1, <3>2
  <2> QED BY <2>1, <2>2
<1>7. ASSUME NEW p \in 1 .. Len(s), Is(p) PROVE p = TopActiv
  <2>1. ~(p < TopActiv)
    BY <1>2, <1>3, <1>4, <1>7
  <2>2. ~(TopActiv < p)
    BY <1>2, <1>3, <1>4, <1>5, <1>7
  <2> QED BY <1>4, <2>1, <2>2
<1>8. Wasm!Current(BareOf(s)) = CHOOSE p \in 1 .. Len(s) : Is(p)
  BY <1>3 DEF Wasm!Current
<1> HIDE DEF Is
<1>9. Wasm!Current(BareOf(s)) = TopActiv
  BY <1>4, <1>6, <1>7, <1>8
<1>10. BareOf(s)[TopActiv] = s[TopActiv]
  <2>1. BareOf(s)[TopActiv] = Bare(s[TopActiv])
    BY <1>1, <1>4, BareStack
  <2> QED BY <1>4, <2>1, BareFrame
<1> QED BY <1>4, <1>9, <1>10

\* A label is as deep as there are labels recorded above it.
LEMMA LabelsAbove ==
  ASSUME NEW s, Len(s) \in Nat, NEW lm \in Seq(Nat),
         \A i, j \in 1 .. Len(lm) : i < j => lm[i] < lm[j],
         \A j \in 1 .. Len(lm) : lm[j] \in LabelsIn(s),
         \A q \in LabelsIn(s) : \E j \in 1 .. Len(lm) : lm[j] = q,
         NEW k \in 1 .. Len(lm)
  PROVE  Cardinality({q \in lm[k] + 1 .. Len(s) : s[q].kind = "label"}) = Len(lm) - k
<1> DEFINE T == {q \in lm[k] + 1 .. Len(s) : s[q].kind = "label"}
           n == Len(lm) - k
           f == [i \in 1 .. n |-> lm[k + i]]
<1>1. Len(lm) \in Nat /\ n \in Nat /\ k \in Nat
  OBVIOUS
<1>2. \A j \in 1 .. Len(lm) : lm[j] \in 1 .. Len(s) /\ s[lm[j]].kind = "label"
  BY DEF LabelsIn
<1>3. ASSUME NEW i \in 1 .. n PROVE f[i] \in T /\ k + i \in 1 .. Len(lm)
  <2>1. k + i \in 1 .. Len(lm) /\ k < k + i
    BY <1>1
  <2>2. lm[k] < lm[k + i] /\ lm[k] \in Nat /\ lm[k + i] \in Nat
    BY <1>2, <2>1
  <2> QED BY SMTT(30), <1>2, <2>1, <2>2
<1>4. ASSUME NEW q \in T PROVE \E i \in 1 .. n : f[i] = q
  <2>1. q \in 1 .. Len(s) /\ q > lm[k] /\ q \in LabelsIn(s)
    BY <1>2 DEF LabelsIn
  <2>2. PICK j \in 1 .. Len(lm) : lm[j] = q
    BY <2>1
  <2>3. k < j
    <3>1. SUFFICES ASSUME ~(k < j) PROVE FALSE
      OBVIOUS
    <3>2. j = k \/ j < k
      BY <1>1, <3>1
    <3> QED BY SMTT(30), <1>2, <2>1, <2>2, <3>2
  <2>4. j - k \in 1 .. n /\ k + (j - k) = j
    BY <1>1, <2>3
  <2> QED BY <2>2, <2>4
<1>5. ASSUME NEW a \in 1 .. n, NEW b \in 1 .. n, f[a] = f[b] PROVE a = b
  <2>1. k + a \in 1 .. Len(lm) /\ k + b \in 1 .. Len(lm) /\ lm[k + a] = lm[k + b]
    BY <1>3, <1>5
  <2>2. ~(k + a < k + b) /\ ~(k + b < k + a)
    BY <1>2, <2>1
  <2> QED BY <1>1, <2>2
<1>6. f \in Bijection(1 .. n, T)
  <2>1. f \in [1 .. n -> T]
    BY <1>3
  <2> HIDE DEF f, T, n
  <2> QED BY <1>4, <1>5, <2>1 DEF Bijection, Injection, Surjection, IsInjective
<1>7. ExistsBijection(1 .. n, T)
  BY <1>6 DEF ExistsBijection
<1> HIDE DEF T, n
<1>8. Cardinality(T) = n
  BY <1>1, <1>7, FS_CountingElements
<1> QED BY <1>8 DEF T, n

LEMMA BareLabel ==
  ASSUME NEW m, NEW p, NEW S, NEW s \in Seq(S), NEW lm \in Seq(Nat), Nest(m, p, s, lm),
         \A i, j \in 1 .. Len(lm) : i < j => lm[i] < lm[j],
         NEW d \in 0 .. Len(lm) - 1
  PROVE  Wasm!Label(BareOf(s), d) = lm[Len(lm) - d]
<1> DEFINE b == BareOf(s)
           L == Len(lm)
           Is(q) == /\ b[q].kind = "label"
                    /\ Cardinality({x \in q + 1 .. Len(b) : b[x].kind = "label"}) = d
<1>1. Len(b) = Len(s) /\ Len(s) \in Nat /\ DOMAIN b = 1 .. Len(s)
      /\ \A q \in 1 .. Len(s) : b[q].kind = s[q].kind
  BY BareStack, BareFrame
<1>2. /\ \A j \in 1 .. L : lm[j] \in LabelsIn(s)
      /\ \A q \in LabelsIn(s) : \E j \in 1 .. L : lm[j] = q
  BY DEF Nest
<1>3. L \in Nat /\ L - d \in 1 .. L /\ L - (L - d) = d
  OBVIOUS
<1>4. ASSUME NEW q \in 1 .. Len(s)
      PROVE  {x \in q + 1 .. Len(b) : b[x].kind = "label"} = {x \in q + 1 .. Len(s) : s[x].kind = "label"}
  BY <1>1
<1>5. ASSUME NEW k \in 1 .. L
      PROVE  lm[k] \in 1 .. Len(s) /\ b[lm[k]].kind = "label"
             /\ Cardinality({x \in lm[k] + 1 .. Len(b) : b[x].kind = "label"}) = L - k
  <2>1. lm[k] \in 1 .. Len(s) /\ s[lm[k]].kind = "label"
    BY <1>2 DEF LabelsIn
  <2>2. Cardinality({q \in lm[k] + 1 .. Len(s) : s[q].kind = "label"}) = L - k
    BY <1>1, <1>2, LabelsAbove
  <2> QED BY <1>1, <1>4, <2>1, <2>2
<1>6. lm[L - d] \in 1 .. Len(s) /\ Is(lm[L - d])
  BY <1>3, <1>5
<1>7. ASSUME NEW q \in 1 .. Len(s), Is(q) PROVE q = lm[L - d]
  <2>1. q \in LabelsIn(s)
    BY <1>1, <1>7 DEF LabelsIn
  <2>2. PICK k \in 1 .. L : lm[k] = q
    BY <1>2, <2>1
  <2>3. L - k = d
    BY <1>5, <1>7, <2>2
  <2>4. k = L - d
    BY <1>3, <2>3
  <2> QED BY <2>2, <2>4
<1>8. Wasm!Label(b, d) = CHOOSE q \in 1 .. Len(s) : Is(q)
  <2>1. \A T : Wasm!Cardinality(T) = Cardinality(T)
    BY SameStructure
  <2> HIDE DEF b
  <2> QED BY <1>1, <2>1 DEF Wasm!Label
<1> HIDE DEF Is, b, L
<1>9. Wasm!Label(b, d) = lm[L - d]
  BY <1>6, <1>7, <1>8
<1> QED BY <1>9 DEF b, L

-----------------------------------------------------------------------------
(* The inductive invariant of the refinement.                              *)

\* The callers wait outside of every block.
CallersOutside(m, s, am) ==
  \A i \in 2 .. Len(am) : LET c == s[am[i]].cont IN Nesting(Code(m, c.fn), c.at) = 0

\* While the engine runs its labels are the blocks around the next instruction,
\* all of them counted; it stops in the entry function only.
NestInv ==
  /\ outcome = "running" =>
       status = "EXECUTING" /\ labelCount = Len(labelMap) /\ Nest(mod, pc, stack, labelMap)
  /\ outcome = "stopped" => Running /\ TopActiv = 1
  /\ outcome \in {"running", "stopped"} => result = <<>>
  /\ CallersOutside(mod, stack, activMap)
  /\ Running => stack[activMap[1]].cont = At(0, 2)

\* Integers are those their type can hold.
RangeIn(s) ==
  \A p \in 1 .. Len(s) :
    /\ s[p].kind = "value" => InRange(s[p].value)
    /\ s[p].kind = "activ" => /\ \E S : s[p].locals \in Seq(S)
                              /\ \A i \in 1 .. Len(s[p].locals) : InRange(s[p].locals[i])

RangeInv == /\ RangeIn(stack)
            /\ \E S : globals \in Seq(S)
            /\ \A i \in 1 .. Len(globals) : InRange(globals[i])

Agreement == ArithmeticAgrees(Width) /\ ArithmeticAgrees(LongWidth) /\ ConversionsAgree

\* What is known when an instruction is fetched.
Ready == AtWork /\ NestInv /\ RangeInv /\ Conforming(mod)

\* What is to be shown of a step.
Refines == NestInv' /\ RangeInv' /\ [Wasm!Next]_(Wasm!vars)

\* What a handler has left of the stack when it has moved operands.
Settled(s) == Moved(s) /\ SameLabels(stack, s) /\ RangeIn(s)

\* An error: the standard gives the instruction no meaning.
LEMMA HaltRefines ==
  ASSUME NestInv, RangeInv, NEW error, Halt(error), error \notin {"running", "stopped"}
  PROVE  NestInv' /\ RangeInv' /\ Wasm!Undefined
<1>1. /\ outcome' = error /\ stack' = stack /\ activMap' = activMap /\ mod' = mod
      /\ pc' = pc /\ globals' = globals
  BY DEF Halt
<1>2. NestInv'
  BY <1>1 DEF NestInv, CallersOutside, Running
<1>3. RangeInv'
  BY <1>1 DEF RangeInv, RangeIn
<1>4. Wasm!Undefined
  BY <1>1 DEF Wasm!Undefined
<1> QED BY <1>2, <1>3, <1>4

\* What is known of the labels.
LEMMA ReadyFacts ==
  ASSUME Ready
  PROVE  LET code == Code(mod, pc.fn) IN
         /\ pc.fn \in 1 .. Len(mod.funcs) /\ pc.at \in 1 .. Len(code) /\ Structured(code)
         /\ code = mod.funcs[pc.fn].code /\ ConformingCode(code)
         /\ Instr = code[pc.at] /\ code[pc.at] = Instr
         /\ Len(labelMap) \in Nat /\ labelMap \in Seq(Nat)
         /\ labelCount = Len(labelMap) /\ Nesting(code, pc.at) = Len(labelMap)
         /\ Nest(mod, pc, stack, labelMap)
         /\ \A i, j \in 1 .. Len(labelMap) : i < j => labelMap[i] < labelMap[j]
         /\ \A j \in 1 .. Len(labelMap) : CountedLabel(j) = labelMap[j]
<1> DEFINE code == Code(mod, pc.fn)
<1>1. AtWork /\ NestInv /\ Conforming(mod) /\ outcome = "running" /\ EngineInv /\ Running
  BY DEF Ready, AtWork
<1>2. /\ pc.fn \in 1 .. Len(mod.funcs) /\ pc.at \in 1 .. Len(code) /\ Structured(code)
      /\ Instr = code[pc.at]
  BY <1>1, InstrFacts
<1>3. code = mod.funcs[pc.fn].code
  BY <1>2 DEF Code
<1>4. ConformingCode(code)
  BY <1>1, <1>2, <1>3 DEF Conforming
<1>5. labelCount = Len(labelMap) /\ Nest(mod, pc, stack, labelMap)
  BY <1>1 DEF NestInv
<1>6. Nesting(code, pc.at) = Len(labelMap)
  BY <1>5 DEF Nest
<1>7. Len(labelMap) \in Nat /\ labelMap \in Seq(Nat)
  <2>1. labelMap \in Seq(Nat \ {0})
    BY <1>1 DEF EngineInv, MapsOK
  <2> QED BY <2>1
<1>8. \A i, j \in 1 .. labelCount : i < j => CountedLabel(i) < CountedLabel(j)
  BY <1>1, TrackedFrames
<1>9. \A j \in 1 .. Len(labelMap) : CountedLabel(j) = labelMap[j]
  BY <1>5, <1>7 DEF CountedLabel
<1> HIDE DEF code
<1>10. \A i, j \in 1 .. Len(labelMap) : i < j => labelMap[i] < labelMap[j]
  BY <1>5, <1>8, <1>9
<1> QED BY <1>2, <1>3, <1>4, <1>5, <1>6, <1>7, <1>9, <1>10 DEF code

-----------------------------------------------------------------------------
(* Operands moved.                                                         *)

LEMMA SettledStack ==
  ASSUME Ready
  PROVE  Settled(stack)
BY MovedStack DEF Ready, AtWork, Settled, SameLabels, RangeInv

LEMMA SettledPop ==
  ASSUME Ready, NEW s, Settled(s), NEW n, ValuesOnTop(s, n)
  PROVE  Settled(DropTop(s, n)) /\ n \in 0 .. Len(s)
<1> DEFINE u == DropTop(s, n)
<1>1. Moved(u)
  BY MovedPop DEF Ready, AtWork, Settled
<1>2. n \in 0 .. Len(s) /\ \A i \in Len(s) - n + 1 .. Len(s) : s[i].kind = "value"
  BY DEF ValuesOnTop
<1>3. s \in Seq(FramesOf(s)) /\ Len(s) \in Nat
  BY DEF Settled, Moved, Good, Framed
<1>4. Len(u) = Len(s) - n /\ \A p \in 1 .. Len(s) - n : u[p] = s[p]
  BY <1>2, <1>3, DropTopKeeps
<1> HIDE DEF u
<1>5. SameLabels(stack, s) /\ RangeIn(s)
  BY DEF Settled
<1>6. ASSUME NEW q PROVE q \in LabelsIn(u) <=> q \in LabelsIn(s)
  <2>1. q \in 1 .. Len(s) /\ q \notin 1 .. Len(u) => q \in Len(s) - n + 1 .. Len(s)
    BY <1>2, <1>3, <1>4
  <2>2. q \in 1 .. Len(u) => q \in 1 .. Len(s) /\ u[q] = s[q]
    BY <1>2, <1>3, <1>4
  <2> QED BY <1>2, <2>1, <2>2 DEF LabelsIn
<1>7. LabelsIn(u) = LabelsIn(s)
  BY <1>6
<1>8. SameLabels(stack, u)
  <2>1. ASSUME NEW q \in LabelsIn(u) PROVE u[q] = s[q]
    BY <1>4 DEF LabelsIn
  <2> QED BY <1>5, <1>7, <2>1 DEF SameLabels
<1>9. RangeIn(u)
  <2>1. \A p \in 1 .. Len(u) : p \in 1 .. Len(s) /\ u[p] = s[p]
    BY <1>2, <1>3, <1>4
  <2> QED BY <1>5, <2>1 DEF RangeIn
<1>10. Settled(u)
  BY <1>1, <1>8, <1>9 DEF Settled
<1> QED BY <1>2, <1>10 DEF u

LEMMA SettledPush ==
  ASSUME Ready, NEW s, Settled(s), NEW v, InRange(v)
  PROVE  Settled(Append(s, ValueFrame(v)))
<1> DEFINE f == ValueFrame(v)
           u == Append(s, f)
<1>1. IsFrame(f) /\ f.kind = "value" /\ f.value = v
  BY AreFrames DEF ValueFrame
<1> HIDE DEF f
<1>2. Moved(u)
  BY <1>1, MovedPush DEF Ready, AtWork, Settled
<1>3. s \in Seq(FramesOf(s)) /\ Len(s) \in Nat
  BY DEF Settled, Moved, Good, Framed
<1>4. Len(u) = Len(s) + 1 /\ u[Len(s) + 1] = f /\ \A p \in 1 .. Len(s) : u[p] = s[p]
  BY <1>3
<1> HIDE DEF u
<1>5. SameLabels(stack, s) /\ RangeIn(s)
  BY DEF Settled
<1>6. \A p \in 1 .. Len(u) : p \in 1 .. Len(s) \/ p = Len(s) + 1
  BY <1>3, <1>4
<1>7. LabelsIn(u) = LabelsIn(s)
  <2>1. ASSUME NEW q PROVE q \in LabelsIn(u) <=> q \in LabelsIn(s)
    <3>1. q \in 1 .. Len(s) => q \in 1 .. Len(u)
      BY <1>3, <1>4
    <3> QED BY <1>1, <1>4, <1>6, <3>1 DEF LabelsIn
  <2> QED BY <2>1
<1>8. SameLabels(stack, u)
  <2>1. ASSUME NEW q \in LabelsIn(s) PROVE u[q] = s[q]
    BY <1>4 DEF LabelsIn
  <2> QED BY <1>5, <1>7, <2>1 DEF SameLabels
<1>9. RangeIn(u)
  BY <1>1, <1>4, <1>5, <1>6 DEF RangeIn
<1> QED BY <1>2, <1>8, <1>9 DEF Settled, f, u

\* No label has moved, and every activation returns where it returned.
Placed(s) == /\ SameLabels(stack, s) /\ RangeIn(s)
             /\ \A i \in 1 .. Len(activMap) : s[activMap[i]].cont = stack[activMap[i]].cont

LEMMA SettledPlaced ==
  ASSUME Ready, NEW s, Settled(s)
  PROVE  Placed(s)
BY MovedFrames DEF Ready, AtWork, Settled, Placed

\* The callers wait where they waited.
LEMMA CallersCarried ==
  ASSUME EngineInv, NEW s, CallersOutside(mod, stack, activMap),
         \A i \in 1 .. Len(activMap) : s[activMap[i]].cont = stack[activMap[i]].cont,
         Running => stack[activMap[1]].cont = At(0, 2)
  PROVE  CallersOutside(mod, s, activMap) /\ (Running => s[activMap[1]].cont = At(0, 2))
<1>1. Len(activMap) \in Nat /\ (Running => Len(activMap) >= 1)
  BY TrackedFrames
<1>2. Running => 1 \in 1 .. Len(activMap)
  BY <1>1
<1>3. \A i \in 2 .. Len(activMap) : i \in 1 .. Len(activMap)
  BY <1>1
<1> QED BY <1>2, <1>3 DEF CallersOutside

Straight(op) == op \notin Openers \cup {"end", "return"}

LEMMA KeepNests ==
  ASSUME Ready, Straight(Instr.op), NEW s, Placed(s), KeepFrames(s), Dispatch(After),
         status' = status
  PROVE  NestInv' /\ RangeIn(stack')
<1>1. /\ EngineInv /\ NestInv /\ outcome = "running" /\ status = "EXECUTING" /\ Running
      /\ Nest(mod, pc, stack, labelMap) /\ labelCount = Len(labelMap) /\ result = <<>>
      /\ CallersOutside(mod, stack, activMap) /\ stack[activMap[1]].cont = At(0, 2)
  BY DEF Ready, AtWork, NestInv
<1>2. /\ stack' = s /\ labelMap' = labelMap /\ activMap' = activMap /\ labelCount' = labelCount
      /\ pc' = At(pc.fn, pc.at + 1) /\ mod' = mod /\ result' = result /\ outcome' = "running"
  BY <1>1 DEF KeepFrames, trackVars, Dispatch, After, Straight
<1>3. Nest(mod, At(pc.fn, pc.at + 1), s, labelMap)
  <2>1. Nest(mod, pc, s, labelMap)
    BY <1>1, NestCarried DEF Placed
  <2>2. /\ Structured(Code(mod, pc.fn)) /\ pc.at \in 1 .. Len(Code(mod, pc.fn))
        /\ Code(mod, pc.fn)[pc.at].op \notin Openers \cup {"end"}
    BY ReadyFacts DEF Straight
  <2> QED BY <2>1, <2>2, NestStraight
<1>4. CallersOutside(mod, s, activMap) /\ (Running => s[activMap[1]].cont = At(0, 2))
  BY <1>1, CallersCarried DEF Placed
<1>5. NestInv'
  BY <1>1, <1>2, <1>3, <1>4 DEF NestInv, Running
<1>6. RangeIn(stack')
  BY <1>2 DEF Placed
<1> QED BY <1>5, <1>6

LEMMA PlacedRefines ==
  ASSUME Ready, Straight(Instr.op), NEW s, Placed(s), Leave(s)
  PROVE  /\ NestInv' /\ RangeInv'
         /\ \A required : required => Wasm!Reduce(required, BareOf(s), Wasm!next)
<1>1. KeepFrames(s) /\ Dispatch(After) /\ status' = status /\ globals' = globals
  BY DEF Leave, Continue
<1>2. NestInv' /\ RangeIn(stack')
  BY <1>1, KeepNests
<1>3. RangeInv'
  <2>1. (\E S : globals \in Seq(S)) /\ \A i \in 1 .. Len(globals) : InRange(globals[i])
    BY DEF Ready, RangeInv
  <2> QED BY <1>1, <1>2, <2>1 DEF RangeInv
<1>4. /\ stack' = s /\ pc' = After /\ mod' = mod /\ outcome' = outcome /\ result' = result
  BY <1>1 DEF KeepFrames, Dispatch, Straight
<1>5. Wasm!next = After
  BY SameStructure DEF Wasm!next, After
<1>6. ASSUME NEW required, required PROVE Wasm!Reduce(required, BareOf(s), Wasm!next)
  BY <1>1, <1>4, <1>5, <1>6 DEF Wasm!Reduce, BareOf, Bare
<1> QED BY <1>2, <1>3, <1>6

LEMMA LeaveRefines ==
  ASSUME Ready, Straight(Instr.op), NEW s, Settled(s), Leave(s)
  PROVE  /\ NestInv' /\ RangeInv'
         /\ \A required : required => Wasm!Reduce(required, BareOf(s), Wasm!next)
BY SettledPlaced, PlacedRefines

-----------------------------------------------------------------------------
(* Instructions on operands, locals and globals.                           *)

LEMMA WasmInstr ==
  /\ Wasm!instr = Instr /\ Wasm!code = Code(mod, pc.fn) /\ Wasm!next = After
  /\ \A op : Wasm!Exec(op) <=> outcome = "running" /\ Instr.op = op
<1>1. Wasm!code = Code(mod, pc.fn)
  BY SameStructure DEF Wasm!code
<1>2. Wasm!instr = Instr
  BY <1>1 DEF Wasm!instr, Instr
<1>3. Wasm!next = After
  BY SameStructure DEF Wasm!next, After
<1> QED BY <1>1, <1>2, <1>3 DEF Wasm!Exec

\* Operands the engine refuses.
LEMMA MismatchRefines ==
  ASSUME Ready, Mismatch
  PROVE  NestInv' /\ RangeInv' /\ Wasm!Undefined
<1>1. Halt("STACK_VAL_TYPE_MISMATCH")
  BY DEF Mismatch
<1> QED BY <1>1, HaltRefines DEF Ready

LEMMA RefinesIf ==
  ASSUME NestInv' /\ RangeInv',
         \/ Wasm!Control \/ Wasm!Calls \/ Wasm!Integer \/ Wasm!Values
         \/ Wasm!Deliver \/ Wasm!OutOfMemory
  PROVE  Refines
BY DEF Refines, Wasm!Next

\* The stack holds the running activation at least.
LEMMA ReadyStack ==
  ASSUME Ready
  PROVE  /\ stack \in Seq(FramesOf(stack)) /\ stack # <<>> /\ Len(stack) \in Nat \ {0}
         /\ Last(stack) = stack[Len(stack)] /\ Len(stack) \in 1 .. Len(stack)
         /\ Good(stack) /\ MapsOK /\ Running /\ EngineInv /\ outcome = "running"
         /\ TopActiv \in 1 .. Len(stack) /\ stack[TopActiv].kind = "activ"
<1>1. Good(stack) /\ MapsOK /\ Running /\ EngineInv /\ outcome = "running"
  BY DEF Ready, AtWork, EngineInv
<1>2. stack \in Seq(FramesOf(stack)) /\ Len(stack) \in Nat /\ TopActiv \in 1 .. Len(stack)
      /\ stack[TopActiv].kind = "activ"
  BY <1>1, StackGood DEF Good, Framed
<1>3. Len(stack) # 0
  BY <1>2
<1> QED BY <1>1, <1>2, <1>3 DEF Last

LEMMA NopRefines ==
  ASSUME Ready, DoNop
  PROVE  Refines
<1>1. Leave(stack) /\ Instr.op = "nop" /\ outcome = "running"
  BY DEF DoNop, Fetch
<1>2. NestInv' /\ RangeInv' /\ Wasm!Reduce(TRUE, BareOf(stack), Wasm!next)
  BY <1>1, SettledStack, LeaveRefines DEF Straight, Openers
<1>3. Wasm!Exec("nop") /\ Wasm!Reduce(TRUE, BareOf(stack), Wasm!next) => Wasm!Control
  BY DEF Wasm!Control, BareOf, Bare
<1> QED BY <1>1, <1>2, <1>3, WasmInstr, RefinesIf

LEMMA UnreachableRefines ==
  ASSUME Ready, DoUnreachable
  PROVE  Refines
<1>1. Halt("UNREACHABLE") /\ Instr.op = "unreachable" /\ outcome = "running"
  BY DEF DoUnreachable, Fetch
<1>2. NestInv' /\ RangeInv' /\ Wasm!Undefined
  BY <1>1, HaltRefines DEF Ready
<1>3. Wasm!Exec("unreachable") /\ Wasm!Undefined => Wasm!Control
  BY DEF Wasm!Control
<1> QED BY <1>1, <1>2, <1>3, WasmInstr, RefinesIf

\* A value pushed.
LEMMA PushRefines ==
  ASSUME Ready, Straight(Instr.op), NEW s, Settled(s), NEW v, InRange(v),
         Leave(Append(s, ValueFrame(v)))
  PROVE  /\ NestInv' /\ RangeInv'
         /\ \A required : required =>
              Wasm!Reduce(required, Append(BareOf(s), Wasm!Val(v)), Wasm!next)
<1>1. s \in Seq(FramesOf(s))
  BY DEF Settled, Moved, Good, Framed
<1>2. Settled(Append(s, ValueFrame(v)))
  BY SettledPush
<1>3. BareOf(Append(s, ValueFrame(v))) = Append(BareOf(s), Wasm!Val(v))
  <2>1. BareOf(Append(s, ValueFrame(v))) = Append(BareOf(s), Bare(ValueFrame(v)))
    BY <1>1, BareAppend
  <2>2. Bare(ValueFrame(v)) = Wasm!Val(v)
    BY DEF Bare, ValueFrame, Wasm!Val
  <2> QED BY <2>1, <2>2
<1>4. /\ NestInv' /\ RangeInv'
      /\ \A required : required =>
           Wasm!Reduce(required, BareOf(Append(s, ValueFrame(v))), Wasm!next)
  BY <1>2, LeaveRefines
<1> QED BY <1>3, <1>4

LEMMA ConstRefines ==
  ASSUME Ready, DoConst
  PROVE  Refines
<1> DEFINE v == [type |-> Instr.t, val |-> Instr.n]
<1>1. Leave(Append(stack, ValueFrame(v))) /\ Instr.op = "const" /\ outcome = "running"
  BY DEF DoConst, Fetch, PushVal
<1>2. InRange(v)
  BY <1>1, ReadyFacts DEF ConformingCode, WellTyped
<1>3. Wasm!Exec("const") /\ Wasm!Reduce(TRUE, Append(BareOf(stack), Wasm!Val(v)), Wasm!next)
        => Wasm!Values
  BY WasmInstr DEF Wasm!Values, BareOf, Bare
<1>4. Straight(Instr.op)
  BY <1>1 DEF Straight, Openers
<1> HIDE DEF v
<1>5. NestInv' /\ RangeInv' /\ Wasm!Reduce(TRUE, Append(BareOf(stack), Wasm!Val(v)), Wasm!next)
  BY <1>1, <1>2, <1>4, SettledStack, PushRefines
<1> QED BY <1>1, <1>3, <1>5, WasmInstr, RefinesIf

\* The operand taken off.
LEMMA UnderRefines ==
  ASSUME Ready, ValuesOnTop(stack, 1)
  PROVE  /\ Settled(Under) /\ BareOf(Under) = Wasm!Pop(BareOf(stack), 1)
         /\ Under \in Seq(FramesOf(Under))
         /\ Last(stack).kind = "value" /\ InRange(Last(stack).value)
<1>1. Settled(Under) /\ 1 \in 0 .. Len(stack)
  BY SettledStack, SettledPop DEF Under
<1>2. BareOf(Under) = Wasm!Pop(BareOf(stack), 1)
  BY <1>1, ReadyStack, BarePop DEF Under
<1>3. Last(stack).kind = "value"
  BY ReadyStack DEF ValuesOnTop
<1>4. InRange(Last(stack).value)
  BY <1>3, ReadyStack DEF Ready, RangeInv, RangeIn
<1>5. Under \in Seq(FramesOf(Under))
  BY <1>1 DEF Settled, Moved, Good, Framed
<1> QED BY <1>1, <1>2, <1>3, <1>4, <1>5

\* Of the stack and its top.
LEMMA TopFacts ==
  ASSUME Ready
  PROVE  /\ \A t : Wasm!Operands(BareOf(stack), <<t>>) <=> IsType(Last(stack), t)
         /\ Wasm!Last(BareOf(stack)) = Bare(Last(stack))
         /\ Wasm!Last(BareOf(stack)).kind = "value" <=> ValuesOnTop(stack, 1)
         /\ ValuesOnTop(stack, 1) <=> Last(stack).kind = "value"
         /\ ValuesOnTop(stack, 1) => Wasm!Last(BareOf(stack)) = Last(stack)
<1>1. stack \in Seq(FramesOf(stack)) /\ stack # <<>>
  BY ReadyStack
<1>2. /\ \A t : Wasm!Operands(BareOf(stack), <<t>>) <=> IsType(Last(stack), t)
      /\ Wasm!Last(BareOf(stack)) = Bare(Last(stack))
      /\ ValuesOnTop(stack, 1) <=> Last(stack).kind = "value"
  <2>1. SUFFICES ASSUME NEW t
                 PROVE  /\ Wasm!Operands(BareOf(stack), <<t>>) <=> IsType(Last(stack), t)
                        /\ Wasm!Last(BareOf(stack)) = Bare(Last(stack))
                        /\ ValuesOnTop(stack, 1) <=> Last(stack).kind = "value"
    OBVIOUS
  <2> QED BY <1>1, BareOne
<1>3. /\ Bare(Last(stack)).kind = Last(stack).kind
      /\ Last(stack).kind # "label" => Bare(Last(stack)) = Last(stack)
  BY BareFrame
<1> QED BY <1>2, <1>3

LEMMA DropRefines ==
  ASSUME Ready, DoDrop
  PROVE  Refines
<1> DEFINE required == Wasm!Last(BareOf(stack)).kind = "value"
           Drop == Wasm!Reduce(required, Wasm!Pop(BareOf(stack), 1), Wasm!next)
<1>1. Instr.op = "drop" /\ outcome = "running" /\ Straight(Instr.op)
  BY DEF DoDrop, Fetch, Straight, Openers
<1>2. Wasm!Exec("drop") /\ Drop => Wasm!Values
  BY DEF Wasm!Values, BareOf, Bare
<1>3. required <=> ValuesOnTop(stack, 1)
  BY TopFacts
<1> HIDE DEF required
<1>4. CASE ValuesOnTop(stack, 1)
  <2>1. Leave(Under)
    BY <1>4 DEF DoDrop
  <2>2. NestInv' /\ RangeInv' /\ Drop
    BY <1>1, <1>3, <1>4, <2>1, UnderRefines, LeaveRefines
  <2> QED BY <1>1, <1>2, <2>2, WasmInstr, RefinesIf
<1>5. CASE ~ValuesOnTop(stack, 1)
  <2>1. NestInv' /\ RangeInv' /\ Wasm!Undefined
    BY <1>5, MismatchRefines DEF DoDrop
  <2>2. Drop
    BY <1>3, <1>5, <2>1 DEF Wasm!Reduce
  <2> QED BY <1>1, <1>2, <2>1, <2>2, WasmInstr, RefinesIf
<1> QED BY <1>4, <1>5

\* The top n frames taken off.
LEMMA PoppedRefines ==
  ASSUME Ready, NEW n, ValuesOnTop(stack, n)
  PROVE  /\ Settled(DropTop(stack, n)) /\ n \in 0 .. Len(stack)
         /\ BareOf(DropTop(stack, n)) = Wasm!Pop(BareOf(stack), n)
         /\ DropTop(stack, n) \in Seq(FramesOf(DropTop(stack, n)))
         /\ \A i \in Len(stack) - n + 1 .. Len(stack) :
              /\ i \in 1 .. Len(stack) /\ stack[i].kind = "value" /\ BareOf(stack)[i] = stack[i]
              /\ stack[i] = ValueFrame(stack[i].value) /\ InRange(stack[i].value)
<1>1. Settled(DropTop(stack, n)) /\ n \in 0 .. Len(stack)
  BY SettledStack, SettledPop
<1>2. stack \in Seq(FramesOf(stack)) /\ Len(stack) \in Nat
  BY ReadyStack
<1>3. BareOf(DropTop(stack, n)) = Wasm!Pop(BareOf(stack), n)
  BY <1>1, <1>2, BarePop
<1>4. DropTop(stack, n) \in Seq(FramesOf(DropTop(stack, n)))
  BY <1>1 DEF Settled, Moved, Good, Framed
<1>5. ASSUME NEW i \in Len(stack) - n + 1 .. Len(stack)
      PROVE  /\ i \in 1 .. Len(stack) /\ stack[i].kind = "value" /\ BareOf(stack)[i] = stack[i]
             /\ stack[i] = ValueFrame(stack[i].value) /\ InRange(stack[i].value)
  <2>1. i \in 1 .. Len(stack)
    BY <1>1, <1>2
  <2>2. stack[i].kind = "value"
    BY DEF ValuesOnTop
  <2>3. BareOf(stack)[i] = stack[i]
    BY <1>2, <2>1, <2>2, BareStack, BareFrame
  <2>4. IsFrame(stack[i])
    BY <2>1, ReadyStack DEF Good, Framed
  <2>5. stack[i] = ValueFrame(stack[i].value)
    BY <2>2, <2>4 DEF IsFrame
  <2>6. InRange(stack[i].value)
    BY <2>1, <2>2 DEF Ready, RangeInv, RangeIn
  <2> QED BY <2>1, <2>2, <2>3, <2>5, <2>6
<1> QED BY <1>1, <1>3, <1>4, <1>5

\* One frame less taken off.
LEMMA PoppedOneLess ==
  ASSUME NEW S, NEW s \in Seq(S), Len(s) >= 3
  PROVE  DropTop(s, 2) = Append(DropTop(s, 3), s[Len(s) - 2])
<1>1. Len(s) \in Nat /\ 2 \in 0 .. Len(s) /\ 3 \in 0 .. Len(s)
  OBVIOUS
<1>2. /\ DropTop(s, 2) \in Seq(S) /\ Len(DropTop(s, 2)) = Len(s) - 2
      /\ \A p \in 1 .. Len(s) - 2 : DropTop(s, 2)[p] = s[p]
  BY <1>1, DropTopKeeps
<1>3. /\ DropTop(s, 3) \in Seq(S) /\ Len(DropTop(s, 3)) = Len(s) - 3
      /\ \A p \in 1 .. Len(s) - 3 : DropTop(s, 3)[p] = s[p]
  BY <1>1, DropTopKeeps
<1> DEFINE u == DropTop(s, 2)
           v == DropTop(s, 3)
           a == Append(v, s[Len(s) - 2])
<1> HIDE DEF u, v
<1>4. s[Len(s) - 2] \in S
  BY <1>1
<1>5. /\ a \in Seq(S) /\ Len(a) = Len(s) - 2 /\ a[Len(s) - 2] = s[Len(s) - 2]
      /\ \A p \in 1 .. Len(s) - 3 : a[p] = v[p]
  BY <1>1, <1>3, <1>4 DEF v
<1>6. \A p \in 1 .. Len(s) - 2 : p \in 1 .. Len(s) - 3 \/ p = Len(s) - 2
  BY <1>1
<1> HIDE DEF a
<1>7. \A p \in 1 .. Len(s) - 2 : u[p] = a[p]
  BY <1>2, <1>3, <1>5, <1>6 DEF u, v
<1>8. u = a
  BY <1>2, <1>5, <1>7, SeqEqual DEF u
<1> QED BY <1>8 DEF u, v, a

LEMMA SelectRefines ==
  ASSUME Ready, DoSelect
  PROVE  Refines
<1> DEFINE n == Len(stack)
           b == BareOf(stack)
           required == /\ Wasm!Operands(b, <<"i32">>) /\ Len(b) >= 3
                       /\ b[Len(b) - 1].kind = "value" /\ b[Len(b) - 2].kind = "value"
                       /\ b[Len(b) - 1].value.type = b[Len(b) - 2].value.type
           top == Wasm!Last(b).value.val
           fs == Append(Wasm!Pop(b, 3), b[IF top = 0 THEN Len(b) - 1 ELSE Len(b) - 2])
           Sel == Wasm!Reduce(required, fs, Wasm!next)
           ok == /\ I32OnTop /\ ValuesOnTop(stack, 3)
                 /\ IsType(stack[n - 2], stack[n - 1].value.type)
<1>1. Instr.op = "select" /\ outcome = "running" /\ Straight(Instr.op)
  BY DEF DoSelect, Fetch, Straight, Openers
<1>2. Wasm!Exec("select") /\ Sel => Wasm!Values
  BY DEF Wasm!Values, BareOf, Bare, Wasm!TopInt
<1>3. /\ n \in Nat \ {0} /\ Len(b) = n /\ stack # <<>> /\ Last(stack) = stack[n]
      /\ \A p \in 1 .. n : /\ b[p] = Bare(stack[p]) /\ b[p].kind = stack[p].kind
                           /\ stack[p].kind = "value" => b[p] = stack[p]
  <2>1. n \in Nat \ {0} /\ stack \in Seq(FramesOf(stack)) /\ stack # <<>> /\ Last(stack) = stack[n]
    BY ReadyStack
  <2> QED BY <2>1, BareStack, BareFrame
<1>4. Wasm!Operands(b, <<"i32">>) <=> IsType(stack[n], "i32")
  BY <1>3, TopFacts
<1>5. required <=> ok
  <2>1. ValuesOnTop(stack, 3) <=> n >= 3 /\ \A i \in n - 2 .. n : stack[i].kind = "value"
    BY <1>3 DEF ValuesOnTop
  <2>2. n >= 3 => n - 1 \in 1 .. n /\ n - 2 \in 1 .. n /\ n - 2 \in n - 2 .. n /\ n - 1 \in n - 2 .. n
    BY <1>3
  <2>3. \A i \in n - 2 .. n : i = n \/ i = n - 1 \/ i = n - 2
    BY <1>3
  <2>4. ASSUME required PROVE ok
    <3>1. n >= 3 /\ IsType(stack[n], "i32") /\ stack[n].kind = "value"
      BY <1>3, <1>4, <2>4 DEF IsType
    <3>2. b[n - 1].kind = stack[n - 1].kind /\ b[n - 2].kind = stack[n - 2].kind
      BY <1>3, <2>2, <3>1
    <3>3. stack[n - 1].kind = "value" /\ stack[n - 2].kind = "value"
      BY <1>3, <2>4, <3>2
    <3>4. b[n - 1] = stack[n - 1] /\ b[n - 2] = stack[n - 2]
      BY <1>3, <2>2, <3>1, <3>3
    <3>5. ValuesOnTop(stack, 3)
      BY <2>1, <2>3, <3>1, <3>3
    <3> QED BY <1>3, <2>4, <3>1, <3>3, <3>4, <3>5 DEF I32OnTop, IsType
  <2>5. ASSUME ok PROVE required
    <3>1. n >= 3 /\ IsType(stack[n], "i32") /\ stack[n - 1].kind = "value" /\ stack[n - 2].kind = "value"
      BY <1>3, <2>1, <2>2, <2>5 DEF I32OnTop
    <3>2. b[n - 1] = stack[n - 1] /\ b[n - 2] = stack[n - 2]
      BY <1>3, <2>2, <3>1
    <3> QED BY <1>3, <1>4, <2>5, <3>1, <3>2 DEF IsType
  <2> QED BY <2>4, <2>5
<1>6. CASE ok
  <2>1. ValuesOnTop(stack, 3) /\ ValuesOnTop(stack, 1) /\ ValuesOnTop(stack, 2) /\ n >= 3
        /\ n - 1 \in n - 3 + 1 .. n /\ n - 2 \in n - 3 + 1 .. n
    BY <1>3, <1>6 DEF ValuesOnTop
  <2>2. top = TopVal
    BY <2>1, TopFacts DEF TopVal
  <2>3. /\ b[n - 1] = stack[n - 1] /\ b[n - 2] = stack[n - 2]
        /\ stack[n - 1] = ValueFrame(stack[n - 1].value) /\ InRange(stack[n - 1].value)
        /\ stack[n - 2] = ValueFrame(stack[n - 2].value) /\ InRange(stack[n - 2].value)
    BY <2>1, PoppedRefines
  <2>4. Settled(DropTop(stack, 3)) /\ Settled(DropTop(stack, 2))
        /\ BareOf(DropTop(stack, 3)) = Wasm!Pop(b, 3)
    BY <2>1, PoppedRefines
  <2>5. CASE TopVal = 0
    <3>1. Leave(Append(DropTop(stack, 3), ValueFrame(stack[n - 1].value)))
      BY <1>6, <2>3, <2>5 DEF DoSelect
    <3>2. /\ NestInv' /\ RangeInv'
          /\ \A r : r => Wasm!Reduce(r, Append(BareOf(DropTop(stack, 3)),
                                               Wasm!Val(stack[n - 1].value)), Wasm!next)
      BY <1>1, <2>3, <2>4, <3>1, PushRefines
    <3>3. Wasm!Val(stack[n - 1].value) = stack[n - 1]
      BY <2>3 DEF Wasm!Val, ValueFrame
    <3>4. fs = Append(BareOf(DropTop(stack, 3)), Wasm!Val(stack[n - 1].value))
      BY <1>3, <2>2, <2>3, <2>4, <2>5, <3>3
    <3> HIDE DEF fs, required, ok
    <3>5. Sel
      BY <1>5, <1>6, <3>2, <3>4
    <3> QED BY <1>1, <1>2, <3>2, <3>5, WasmInstr, RefinesIf
  <2>6. CASE TopVal # 0
    <3>1. Leave(DropTop(stack, 2))
      BY <1>6, <2>6 DEF DoSelect
    <3>2. /\ NestInv' /\ RangeInv'
          /\ \A r : r => Wasm!Reduce(r, BareOf(DropTop(stack, 2)), Wasm!next)
      BY <1>1, <2>4, <3>1, LeaveRefines
    <3>3. DropTop(stack, 2) = Append(DropTop(stack, 3), stack[n - 2])
      BY <1>3, <2>1, ReadyStack, PoppedOneLess
    <3>4. BareOf(DropTop(stack, 2)) = Append(BareOf(DropTop(stack, 3)), Bare(stack[n - 2]))
      <4>1. DropTop(stack, 3) \in Seq(FramesOf(DropTop(stack, 3)))
        BY <2>1, PoppedRefines
      <4> QED BY <3>3, <4>1, BareAppend
    <3>5. Bare(stack[n - 2]) = stack[n - 2]
      BY <1>3, <2>1, <2>3
    <3>6. fs = BareOf(DropTop(stack, 2))
      BY <1>3, <2>2, <2>3, <2>4, <2>6, <3>4, <3>5
    <3> HIDE DEF fs, required, ok
    <3>7. Sel
      BY <1>5, <1>6, <3>2, <3>6
    <3> QED BY <1>1, <1>2, <3>2, <3>7, WasmInstr, RefinesIf
  <2> QED BY <2>5, <2>6
<1>7. CASE ~ok
  <2>1. NestInv' /\ RangeInv' /\ Wasm!Undefined
    BY <1>7, MismatchRefines DEF DoSelect
  <2> HIDE DEF required, ok, fs
  <2>2. Sel
    BY <1>5, <1>7, <2>1 DEF Wasm!Reduce
  <2> QED BY <1>1, <1>2, <2>1, <2>2, WasmInstr, RefinesIf
<1> QED BY <1>6, <1>7

-----------------------------------------------------------------------------
(* Locals and globals.                                                     *)

LEMMA LocalsFacts ==
  ASSUME Ready
  PROVE  /\ Wasm!LocalVars = CurrentLocals /\ Wasm!Current(BareOf(stack)) = TopActiv
         /\ \E S : CurrentLocals \in Seq(S)
         /\ Len(CurrentLocals) \in Nat
         /\ \A i \in 1 .. Len(CurrentLocals) : InRange(CurrentLocals[i])
         /\ TopActiv \in 1 .. Len(stack) /\ stack[TopActiv].kind = "activ"
         /\ stack[TopActiv] = ActivFrame(CurrentLocals, stack[TopActiv].cont, stack[TopActiv].arity)
<1>1. /\ Good(stack) /\ MapsOK /\ Running /\ TopActiv \in 1 .. Len(stack)
      /\ stack[TopActiv].kind = "activ" /\ IsFrame(stack[TopActiv])
  BY ReadyStack DEF Good, Framed
<1>2. Wasm!Current(BareOf(stack)) = TopActiv /\ BareOf(stack)[TopActiv] = stack[TopActiv]
  BY <1>1, BareCurrent
<1>3. Wasm!LocalVars = BareOf(stack)[Wasm!Current(BareOf(stack))].locals
  BY DEF Wasm!LocalVars, BareOf, Bare
<1>4. /\ \E S : CurrentLocals \in Seq(S)
      /\ \A i \in 1 .. Len(CurrentLocals) : InRange(CurrentLocals[i])
  BY <1>1 DEF Ready, RangeInv, RangeIn, CurrentLocals
<1>5. Len(CurrentLocals) \in Nat
  BY <1>4
<1> QED BY <1>1, <1>2, <1>3, <1>4, <1>5 DEF CurrentLocals, IsFrame

LEMMA LocalGetRefines ==
  ASSUME Ready, DoLocalGet
  PROVE  Refines
<1> DEFINE required == Instr.n < Len(Wasm!LocalVars)
           Get == Wasm!Reduce(required, Append(BareOf(stack), Wasm!Val(Wasm!LocalVars[Instr.n + 1])),
                              Wasm!next)
<1>1. Instr.op = "local.get" /\ outcome = "running" /\ Straight(Instr.op)
  BY DEF DoLocalGet, Fetch, Straight, Openers
<1>2. Wasm!Exec("local.get") /\ Get => Wasm!Values
  BY WasmInstr DEF Wasm!Values, BareOf, Bare
<1>3. Wasm!LocalVars = CurrentLocals /\ Instr.n \in Nat /\ Len(CurrentLocals) \in Nat
  BY <1>1, LocalsFacts, InstrFacts DEF Ready
<1>4. CASE Instr.n < Len(CurrentLocals)
  <2> DEFINE v == CurrentLocals[Instr.n + 1]
  <2>1. Leave(Append(stack, ValueFrame(v)))
    BY <1>4 DEF DoLocalGet, PushVal
  <2>2. InRange(v)
    <3>1. Instr.n + 1 \in 1 .. Len(CurrentLocals)
      BY <1>3, <1>4
    <3> QED BY <3>1, LocalsFacts
  <2>3. Get <=> Wasm!Reduce(required, Append(BareOf(stack), Wasm!Val(v)), Wasm!next)
    BY <1>3
  <2>4. required
    BY <1>3, <1>4
  <2> HIDE DEF v, required
  <2>5. NestInv' /\ RangeInv' /\ Wasm!Reduce(required, Append(BareOf(stack), Wasm!Val(v)), Wasm!next)
    BY <1>1, <2>1, <2>2, <2>4, SettledStack, PushRefines
  <2> QED BY <1>1, <1>2, <2>3, <2>5, WasmInstr, RefinesIf
<1>5. CASE ~(Instr.n < Len(CurrentLocals))
  <2>1. Halt("ILLEGAL_LOCAL_IDX")
    BY <1>5 DEF DoLocalGet
  <2>2. NestInv' /\ RangeInv' /\ Wasm!Undefined
    BY <2>1, HaltRefines DEF Ready
  <2>3. Get
    BY <1>3, <1>5, <2>2 DEF Wasm!Reduce
  <2> QED BY <1>1, <1>2, <2>2, <2>3, WasmInstr, RefinesIf
<1> QED BY <1>4, <1>5

\* A local assigned in the frames s.
LEMMA LocalAssigned ==
  ASSUME Ready, NEW s, Settled(s), NEW k \in 1 .. Len(CurrentLocals), NEW v, InRange(v)
  PROVE  LET u == [s EXCEPT ![TopActiv].locals = [CurrentLocals EXCEPT ![k] = v]] IN
         /\ Placed(u)
         /\ BareOf(u) = [BareOf(s) EXCEPT ![Wasm!Current(BareOf(s))].locals[k] = v]
<1> DEFINE T == TopActiv
           L == [CurrentLocals EXCEPT ![k] = v]
           f == ActivFrame(L, s[T].cont, s[T].arity)
           u == [s EXCEPT ![T].locals = L]
<1>1. /\ Good(s) /\ MapsOK /\ Running /\ EngineInv /\ s \in Seq(FramesOf(s)) /\ Len(s) \in Nat
      /\ SameLabels(stack, s) /\ RangeIn(s)
  BY ReadyStack DEF Settled, Moved, Good, Framed
<1>2. T \in 1 .. Len(s) /\ s[T].kind = "activ" /\ Wasm!Current(BareOf(s)) = T /\ BareOf(s)[T] = s[T]
  BY <1>1, BareCurrent
<1>3. s[T] = stack[T] /\ s[T] = ActivFrame(CurrentLocals, s[T].cont, s[T].arity)
  <2>1. T \in 1 .. Len(stack) /\ stack[T].kind = "activ"
        /\ stack[T] = ActivFrame(CurrentLocals, stack[T].cont, stack[T].arity)
    BY LocalsFacts
  <2> QED BY <2>1 DEF Settled, Moved, Kept
<1>4. [s[T] EXCEPT !.locals = L] = f
  <2>1. \A l, c, a, x : [ActivFrame(l, c, a) EXCEPT !.locals = x] = ActivFrame(x, c, a)
    BY DEF ActivFrame
  <2> HIDE DEF L
  <2> QED BY <1>3, <2>1
<1>5. u = [p \in 1 .. Len(s) |-> IF p = T THEN f ELSE s[p]]
  <2>1. u = [s EXCEPT ![T] = [s[T] EXCEPT !.locals = L]]
    BY <1>2
  <2>2. DOMAIN s = 1 .. Len(s)
    BY <1>1
  <2> HIDE DEF L, f, u
  <2> QED BY <1>2, <1>4, <2>1, <2>2
<1>6. f.kind = "activ" /\ f.locals = L /\ f.cont = s[T].cont
  BY DEF ActivFrame
<1>7. DOMAIN BareOf(s) = 1 .. Len(s) /\ \A p \in 1 .. Len(s) : BareOf(s)[p] = Bare(s[p])
  BY <1>1, BareStack
<1>8. (\E S : L \in Seq(S)) /\ \A i \in 1 .. Len(L) : InRange(L[i])
  <2>1. PICK S : CurrentLocals \in Seq(S)
    BY LocalsFacts
  <2>2. /\ L \in Seq(S \cup {v}) /\ Len(L) = Len(CurrentLocals)
        /\ \A i \in 1 .. Len(CurrentLocals) : L[i] = IF i = k THEN v ELSE CurrentLocals[i]
    BY <2>1
  <2> HIDE DEF L
  <2> QED BY <2>2, LocalsFacts
<1>9. BareOf(u) = [BareOf(s) EXCEPT ![T].locals[k] = v]
  <2>1. BareOf(s)[T].locals = CurrentLocals
    BY <1>2, <1>3 DEF ActivFrame
  <2>2. [BareOf(s) EXCEPT ![T].locals[k] = v] = [BareOf(s) EXCEPT ![T].locals = L]
    BY <2>1
  <2>3. [BareOf(s)[T] EXCEPT !.locals = L] = f
    BY <1>2, <1>4
  <2> HIDE DEF L, f, u
  <2>4. [BareOf(s) EXCEPT ![T].locals = L] = [p \in 1 .. Len(s) |-> IF p = T THEN f ELSE BareOf(s)[p]]
    BY <1>2, <1>7, <2>3
  <2>5. BareOf(u) = [p \in 1 .. Len(s) |-> Bare(IF p = T THEN f ELSE s[p])]
    BY <1>5 DEF BareOf
  <2>6. Bare(f) = f
    BY <1>6, BareFrame
  <2> QED BY <1>7, <2>2, <2>4, <2>5, <2>6
<1> HIDE DEF L, f, u
<1>10. Len(u) = Len(s) /\ \A p \in 1 .. Len(s) : u[p] = IF p = T THEN f ELSE s[p]
  BY <1>1, <1>5
<1>11. Placed(u)
  <2>1. LabelsIn(u) = LabelsIn(s)
    BY <1>2, <1>6, <1>10 DEF LabelsIn
  <2>2. SameLabels(stack, u)
    BY <1>1, <1>2, <1>10, <2>1 DEF SameLabels, LabelsIn
  <2>3. RangeIn(u)
    BY <1>1, <1>6, <1>8, <1>10 DEF RangeIn
  <2>4. \A i \in 1 .. Len(activMap) : u[activMap[i]].cont = stack[activMap[i]].cont
    <3>1. \A i \in 1 .. Len(activMap) : activMap[i] \in 1 .. Len(s) /\ s[activMap[i]] = stack[activMap[i]]
      BY <1>1, MovedFrames DEF Settled
    <3> QED BY <1>6, <1>10, <3>1
  <2> QED BY <2>2, <2>3, <2>4 DEF Placed
<1> QED BY <1>2, <1>9, <1>11 DEF u, L

LEMMA AssignRefines ==
  ASSUME Ready, Straight(Instr.op), NEW s, Settled(s), AssignTop(s), Instr.n \in Nat
  PROVE  LET required == /\ Instr.n < Len(Wasm!LocalVars)
                         /\ Wasm!SameType(Wasm!LocalVars[Instr.n + 1], Wasm!Last(BareOf(stack)))
         IN  NestInv' /\ RangeInv' /\ Wasm!Reduce(required, Wasm!LocalsSet(BareOf(s)), Wasm!next)
<1> DEFINE k == Instr.n + 1
           v == Last(stack).value
           u == [s EXCEPT ![TopActiv].locals = [CurrentLocals EXCEPT ![k] = v]]
           required == /\ Instr.n < Len(Wasm!LocalVars)
                       /\ Wasm!SameType(Wasm!LocalVars[Instr.n + 1], Wasm!Last(BareOf(stack)))
           Set == Wasm!Reduce(required, Wasm!LocalsSet(BareOf(s)), Wasm!next)
<1>1. Wasm!LocalVars = CurrentLocals /\ Len(CurrentLocals) \in Nat
  BY LocalsFacts
<1>2. ValuesOnTop(stack, 1) => Wasm!Last(BareOf(stack)) = Last(stack)
  BY TopFacts
<1>3. required <=> /\ Instr.n < Len(CurrentLocals) /\ ValuesOnTop(stack, 1)
                   /\ IsType(Last(stack), CurrentLocals[k].type)
  <2>1. Wasm!Last(BareOf(stack)).kind = "value" <=> ValuesOnTop(stack, 1)
    BY TopFacts
  <2> QED BY <1>1, <1>2, <2>1 DEF Wasm!SameType, IsType
<1>4. CASE ~required
  <2>1. \/ Mismatch
        \/ Halt("std::out_of_range")
    BY <1>1, <1>3, <1>4 DEF AssignTop
  <2>2. NestInv' /\ RangeInv' /\ Wasm!Undefined
    <3>1. CASE Mismatch
      BY <3>1, MismatchRefines
    <3>2. CASE Halt("std::out_of_range")
      BY <3>2, HaltRefines DEF Ready
    <3> QED BY <2>1, <3>1, <3>2
  <2> HIDE DEF required
  <2> QED BY <1>4, <2>2 DEF Wasm!Reduce, required
<1>5. CASE required
  <2>1. Leave(u)
    BY <1>1, <1>3, <1>5 DEF AssignTop
  <2>2. k \in 1 .. Len(CurrentLocals)
    BY <1>1, <1>3, <1>5
  <2>3. InRange(v)
    BY <1>3, <1>5, UnderRefines
  <2> HIDE DEF k, v, required
  <2>4. Placed(u) /\ BareOf(u) = [BareOf(s) EXCEPT ![Wasm!Current(BareOf(s))].locals[k] = v]
    BY <2>2, <2>3, LocalAssigned
  <2>5. Wasm!LocalsSet(BareOf(s)) = BareOf(u)
    <3>1. Wasm!Last(BareOf(stack)).value = v /\ Wasm!instr.n + 1 = k
      BY <1>2, <1>3, <1>5, WasmInstr DEF v, k
    <3>2. Wasm!LocalsSet(BareOf(s)) =
            [BareOf(s) EXCEPT ![Wasm!Current(BareOf(s))].locals[Wasm!instr.n + 1] =
               Wasm!Last(BareOf(stack)).value]
      BY DEF Wasm!LocalsSet, BareOf, Bare
    <3> QED BY <2>4, <3>1, <3>2
  <2> HIDE DEF u
  <2>6. NestInv' /\ RangeInv' /\ \A r : r => Wasm!Reduce(r, BareOf(u), Wasm!next)
    BY <2>1, <2>4, PlacedRefines
  <2>7. Set
    BY <1>5, <2>5, <2>6
  <2> QED BY <2>6, <2>7 DEF required
<1> QED BY <1>4, <1>5

LEMMA LocalSetRefines ==
  ASSUME Ready, DoLocalSet
  PROVE  Refines
<1> DEFINE required == /\ Instr.n < Len(Wasm!LocalVars)
                       /\ Wasm!SameType(Wasm!LocalVars[Instr.n + 1], Wasm!Last(BareOf(stack)))
           Set == Wasm!Reduce(required, Wasm!LocalsSet(Wasm!Pop(BareOf(stack), 1)), Wasm!next)
<1>1. Instr.op = "local.set" /\ outcome = "running" /\ Straight(Instr.op) /\ AssignTop(Under)
  BY DEF DoLocalSet, Fetch, Straight, Openers
<1>2. Instr.n \in Nat
  BY <1>1, InstrFacts DEF Ready
<1>3. Wasm!Exec("local.set") /\ Set => Wasm!Values
  BY WasmInstr DEF Wasm!Values, BareOf, Bare
<1>4. CASE ValuesOnTop(stack, 1)
  <2>1. Settled(Under) /\ BareOf(Under) = Wasm!Pop(BareOf(stack), 1)
    BY <1>4, UnderRefines
  <2>2. NestInv' /\ RangeInv' /\ Wasm!Reduce(required, Wasm!LocalsSet(BareOf(Under)), Wasm!next)
    BY <1>1, <1>2, <2>1, AssignRefines
  <2>3. Set
    BY <2>1, <2>2
  <2> QED BY <1>1, <1>3, <2>2, <2>3, WasmInstr, RefinesIf
<1>5. CASE ~ValuesOnTop(stack, 1)
  <2>1. NestInv' /\ RangeInv' /\ Wasm!Undefined
    BY <1>1, <1>5, MismatchRefines DEF AssignTop
  <2>2. ~required
    BY <1>5, TopFacts DEF Wasm!SameType
  <2> HIDE DEF required
  <2>3. Set
    BY <2>1, <2>2 DEF Wasm!Reduce
  <2> QED BY <1>1, <1>3, <2>1, <2>3, WasmInstr, RefinesIf
<1> QED BY <1>4, <1>5

LEMMA LocalTeeRefines ==
  ASSUME Ready, DoLocalTee
  PROVE  Refines
<1> DEFINE required == /\ Instr.n < Len(Wasm!LocalVars)
                       /\ Wasm!SameType(Wasm!LocalVars[Instr.n + 1], Wasm!Last(BareOf(stack)))
           Set == Wasm!Reduce(required, Wasm!LocalsSet(BareOf(stack)), Wasm!next)
<1>1. Instr.op = "local.tee" /\ outcome = "running" /\ Straight(Instr.op) /\ AssignTop(stack)
  BY DEF DoLocalTee, Fetch, Straight, Openers
<1>2. Instr.n \in Nat
  BY <1>1, InstrFacts DEF Ready
<1>3. Wasm!Exec("local.tee") /\ Set => Wasm!Values
  BY WasmInstr DEF Wasm!Values, BareOf, Bare
<1>4. NestInv' /\ RangeInv' /\ Set
  BY <1>1, <1>2, SettledStack, AssignRefines
<1> QED BY <1>1, <1>3, <1>4, WasmInstr, RefinesIf

LEMMA GlobalGetRefines ==
  ASSUME Ready, DoGlobalGet
  PROVE  Refines
<1> DEFINE required == Instr.n < Len(globals)
           v == globals[Instr.n + 1]
           Get == Wasm!Reduce(required, Append(BareOf(stack), Wasm!Val(v)), Wasm!next)
<1>1. Instr.op = "global.get" /\ outcome = "running" /\ Straight(Instr.op) /\ Instr.n \in Nat
  BY InstrFacts DEF Ready, DoGlobalGet, Fetch, Straight, Openers
<1>2. Wasm!Exec("global.get") /\ Get => Wasm!Values
  BY WasmInstr DEF Wasm!Values, BareOf, Bare
<1>3. CASE required
  <2>1. Leave(Append(stack, ValueFrame(v)))
    BY <1>3 DEF DoGlobalGet, PushVal
  <2>2. InRange(v)
    <3>1. PICK S : globals \in Seq(S)
      BY DEF Ready, RangeInv
    <3>2. Instr.n + 1 \in 1 .. Len(globals)
      BY <1>1, <1>3, <3>1
    <3> QED BY <3>2 DEF Ready, RangeInv
  <2> HIDE DEF v, required
  <2>3. NestInv' /\ RangeInv' /\ Get
    BY <1>1, <1>3, <2>1, <2>2, SettledStack, PushRefines
  <2> QED BY <1>1, <1>2, <2>3, WasmInstr, RefinesIf
<1>4. CASE ~required
  <2>1. Halt("GLOBAL_ACCESS_OOB")
    BY <1>4 DEF DoGlobalGet
  <2>2. NestInv' /\ RangeInv' /\ Wasm!Undefined
    BY <2>1, HaltRefines DEF Ready
  <2> HIDE DEF required, v
  <2>3. Get
    BY <1>4, <2>2 DEF Wasm!Reduce
  <2> QED BY <1>1, <1>2, <2>2, <2>3, WasmInstr, RefinesIf
<1> QED BY <1>3, <1>4

LEMMA GlobalSetRefines ==
  ASSUME Ready, DoGlobalSet
  PROVE  Refines
<1> DEFINE k == Instr.n + 1
           v == Last(stack).value
           required == /\ Instr.n < Len(globals) /\ mod.globals[k].mutable
                       /\ Wasm!SameType(globals[k], Wasm!Last(BareOf(stack)))
           Set == IF required
                  THEN /\ BareOf(stack)' = Wasm!Pop(BareOf(stack), 1) /\ pc' = Wasm!next
                       /\ globals' = [globals EXCEPT ![k] = Wasm!Last(BareOf(stack)).value]
                       /\ UNCHANGED <<mod, outcome, result>>
                  ELSE Wasm!Undefined
<1>1. Instr.op = "global.set" /\ outcome = "running" /\ Straight(Instr.op) /\ Instr.n \in Nat
  BY InstrFacts DEF Ready, DoGlobalSet, Fetch, Straight, Openers
<1>2. Wasm!Exec("global.set") /\ Set => Wasm!Values
  <2>1. Wasm!instr.n + 1 = k /\ Wasm!instr.n = Instr.n
    BY WasmInstr
  <2> QED BY <2>1 DEF Wasm!Values, BareOf, Bare
<1>3. PICK S : globals \in Seq(S)
  BY DEF Ready, RangeInv
<1>4. Len(globals) \in Nat
  BY <1>3
<1>5. required <=> /\ Instr.n < Len(globals) /\ ValuesOnTop(stack, 1) /\ mod.globals[k].mutable
                   /\ IsType(Last(stack), globals[k].type)
  <2>1. /\ Wasm!Last(BareOf(stack)).kind = "value" <=> ValuesOnTop(stack, 1)
        /\ ValuesOnTop(stack, 1) => Wasm!Last(BareOf(stack)) = Last(stack)
    BY TopFacts
  <2> QED BY <2>1 DEF Wasm!SameType, IsType
<1>6. CASE required
  <2> HIDE DEF required
  <2>10. ~(Instr.n >= Len(globals))
    BY <1>1, <1>4, <1>5, <1>6
  <2>1. /\ KeepFrames(Under) /\ globals' = [globals EXCEPT ![k] = v]
        /\ Dispatch(After) /\ status' = status
    BY <1>5, <1>6, <2>10 DEF DoGlobalSet
  <2>2. Settled(Under) /\ BareOf(Under) = Wasm!Pop(BareOf(stack), 1) /\ InRange(v)
    BY <1>5, <1>6, UnderRefines
  <2>3. NestInv' /\ RangeIn(stack')
    BY <1>1, <2>1, <2>2, SettledPlaced, KeepNests
  <2>4. RangeInv'
    <3> DEFINE g == [globals EXCEPT ![k] = v]
    <3>11. k \in 1 .. Len(globals)
      BY <1>1, <1>4, <1>5, <1>6
    <3> HIDE DEF v, k
    <3>10. globals' = g
      BY <2>1
    <3>1. /\ g \in Seq(S \cup {v}) /\ Len(g) = Len(globals)
          /\ \A i \in 1 .. Len(globals) : g[i] = IF i = k THEN v ELSE globals[i]
      BY <1>3, <3>11
    <3> HIDE DEF g
    <3>2. \A i \in 1 .. Len(globals') : InRange(globals'[i])
      BY <2>2, <3>1, <3>10 DEF Ready, RangeInv
    <3> QED BY <2>3, <3>1, <3>2, <3>10 DEF RangeInv
  <2>5. Wasm!Last(BareOf(stack)).value = v
    BY <1>5, <1>6, TopFacts
  <2>6. /\ stack' = Under /\ pc' = After /\ mod' = mod /\ outcome' = outcome /\ result' = result
    BY <1>1, <2>1 DEF KeepFrames, Dispatch, Straight
  <2>7. BareOf(stack)' = Wasm!Pop(BareOf(stack), 1)
    BY <2>2, <2>6 DEF BareOf
  <2>8. Set
    <3> HIDE DEF v, k
    <3> QED BY <1>6, <2>1, <2>5, <2>6, <2>7, WasmInstr
  <2> QED BY <1>1, <1>2, <2>3, <2>4, <2>8, WasmInstr, RefinesIf
<1>7. CASE ~required
  <2> HIDE DEF required
  <2>1. Mismatch \/ Halt("GLOBAL_ACCESS_OOB") \/ Halt("IMMUTABLE_GLOBAL_MUTATION")
    BY <1>1, <1>4, <1>5, <1>7 DEF DoGlobalSet
  <2>2. NestInv' /\ RangeInv' /\ Wasm!Undefined
    <3>1. CASE Mismatch
      BY <3>1, MismatchRefines
    <3>2. CASE Halt("GLOBAL_ACCESS_OOB")
      BY <3>2, HaltRefines DEF Ready
    <3>3. CASE Halt("IMMUTABLE_GLOBAL_MUTATION")
      BY <3>3, HaltRefines DEF Ready
    <3> QED BY <2>1, <3>1, <3>2, <3>3
  <2> QED BY <1>1, <1>2, <1>7, <2>2, WasmInstr, RefinesIf
<1> QED BY <1>6, <1>7

-----------------------------------------------------------------------------
(* Integers.                                                               *)

\* Two operands of one type.
LEMMA BareTwo ==
  ASSUME NEW S, NEW s \in Seq(S), NEW t
  PROVE  Wasm!Operands(BareOf(s), <<t, t>>) <=>
           ValuesOnTop(s, 2) /\ IsType(s[Len(s)], t) /\ IsType(s[Len(s) - 1], t)
<1> DEFINE types == <<t, t>>
<1>7. types \in Seq({t})
  OBVIOUS
<1>1. Len(types) = 2 /\ types[1] = t /\ types[2] = t
  OBVIOUS
<1> HIDE DEF types
<1>2. Wasm!Operands(BareOf(s), types) <=>
        /\ ValuesOnTop(s, Len(types))
        /\ \A i \in 1 .. Len(types) : s[Len(s) - Len(types) + i].value.type = types[i]
  BY <1>7, BareOperands
<1>3. Len(s) \in Nat /\ Len(s) - 2 + 1 = Len(s) - 1 /\ Len(s) - 2 + 2 = Len(s)
  OBVIOUS
<1>4. \A i \in 1 .. 2 : i = 1 \/ i = 2
  OBVIOUS
<1>5. (\A i \in 1 .. 2 : s[Len(s) - 2 + i].value.type = types[i]) <=>
        s[Len(s)].value.type = t /\ s[Len(s) - 1].value.type = t
  BY <1>1, <1>3, <1>4
<1>6. ValuesOnTop(s, 2) => s[Len(s)].kind = "value" /\ s[Len(s) - 1].kind = "value"
  BY <1>3 DEF ValuesOnTop
<1> QED BY <1>1, <1>2, <1>5, <1>6 DEF types, IsType

\* The operands it works on.
LEMMA IntegerOperands ==
  ASSUME Ready
  PROVE  /\ Wasm!TopBut(0) = BareOf(stack)[Len(stack)].value.val
         /\ Wasm!TopBut(1) = BareOf(stack)[Len(stack) - 1].value.val
         /\ \A t : Wasm!IntWidth(t) = WidthOf(t)
<1>1. Len(BareOf(stack)) = Len(stack) /\ Len(stack) \in Nat
  BY ReadyStack, BareStack
<1>2. Wasm!TopBut(0) = BareOf(stack)[Len(BareOf(stack)) - 0].value.val
  BY DEF Wasm!TopBut, BareOf, Bare
<1>3. Wasm!TopBut(1) = BareOf(stack)[Len(BareOf(stack)) - 1].value.val
  BY DEF Wasm!TopBut, BareOf, Bare
<1>4. Len(BareOf(stack)) - 0 = Len(stack)
  BY <1>1
<1>5. \A t : Wasm!IntWidth(t) = WidthOf(t)
  BY DEF Wasm!IntWidth, WidthOf
<1> QED BY <1>1, <1>2, <1>3, <1>4, <1>5

BinaryType == IF Instr.op \in Ints!Comparisons THEN "i32" ELSE Instr.t

LEMMA BinaryShape ==
  ASSUME Ready, Instr.op \in Ints!Binaries,
         NEW v, v = Wasm!Std!BinaryInt(Instr.op, BareOf(stack)[Len(stack) - 1].value.val,
                                       BareOf(stack)[Len(stack)].value.val, WidthOf(Instr.t)),
         NEW required,
         required <=> Wasm!Operands(BareOf(stack), <<Instr.t, Instr.t>>) /\ v.defined,
         Wasm!Reduce(required,
                     Append(Wasm!Pop(BareOf(stack), 2),
                            Wasm!Val([type |-> BinaryType, val |-> v.val])), Wasm!next)
  PROVE  Wasm!Integer
<1>1. Wasm!Yield(<<Instr.t, Instr.t>>, BinaryType, v)
  <2>1. Len(<<Instr.t, Instr.t>>) = 2
    OBVIOUS
  <2> QED BY <2>1 DEF Wasm!Yield, Wasm!Reduce, BareOf, Bare
<1>2. outcome = "running" /\ Wasm!instr = Instr /\ \A op : Wasm!Exec(op) <=> outcome = "running" /\ Instr.op = op
  BY WasmInstr, ReadyStack
<1>3. v = Wasm!Std!BinaryInt(Wasm!instr.op, Wasm!TopBut(1), Wasm!TopBut(0), Wasm!IntWidth(Wasm!instr.t))
  BY <1>2, IntegerOperands
<1>4. CASE Instr.op \in Ints!Comparisons
  <2>1. \E op \in Wasm!Relations : Wasm!Exec(op)
    BY <1>2, <1>4 DEF Ints!Comparisons, Wasm!Relations
  <2>2. Wasm!Yield(<<Instr.t, Instr.t>>, "i32", v)
    BY <1>1, <1>4 DEF BinaryType
  <2>3. Wasm!Yield(<<Wasm!instr.t, Wasm!instr.t>>, "i32",
                   Wasm!Std!BinaryInt(Wasm!instr.op, Wasm!TopBut(1), Wasm!TopBut(0),
                                      Wasm!IntWidth(Wasm!instr.t)))
    BY <1>2, <1>3, <2>2 DEF Wasm!Yield, Wasm!Reduce
  <2> QED BY <2>1, <2>3 DEF Wasm!Integer
<1>5. CASE Instr.op \notin Ints!Comparisons
  <2>1. \E op \in Wasm!Binaries : Wasm!Exec(op)
    BY <1>2, <1>5 DEF Ints!Comparisons, Ints!Binaries, Ints!Totals, Ints!Divisions, Ints!Shifts, Wasm!Binaries
  <2>2. Wasm!Yield(<<Instr.t, Instr.t>>, Instr.t, v)
    BY <1>1, <1>5 DEF BinaryType
  <2>3. Wasm!Yield(<<Wasm!instr.t, Wasm!instr.t>>, Wasm!instr.t,
                   Wasm!Std!BinaryInt(Wasm!instr.op, Wasm!TopBut(1), Wasm!TopBut(0),
                                      Wasm!IntWidth(Wasm!instr.t)))
    BY <1>2, <1>3, <2>2 DEF Wasm!Yield, Wasm!Reduce
  <2> QED BY <2>1, <2>3 DEF Wasm!Integer
<1> QED BY <1>4, <1>5

\* An integer on the stack is one its type can hold.
LEMMA IntegerInRange ==
  ASSUME Ready, NEW n, ValuesOnTop(stack, n), NEW i \in Len(stack) - n + 1 .. Len(stack),
         NEW t \in IntTypes, IsType(stack[i], t)
  PROVE  stack[i].value.val \in IntsOf(WidthOf(t))
BY PoppedRefines DEF InRange, IsType

LEMMA IntegersStraight ==
  ASSUME NEW op \in Ints!Binaries \cup Ints!Unaries \cup Ints!Conversions
  PROVE  Straight(op)
BY IntegersPlain DEF Straight, Plain, Ints!Binaries, Ints!Unaries, Ints!Conversions,
       Ints!Totals, Ints!Comparisons, Ints!Divisions, Ints!Shifts, Openers

LEMMA BinaryRefines ==
  ASSUME Ready, Agreement, DoBinary
  PROVE  Refines
<1> DEFINE n == Len(stack)
           t == Instr.t
           b == BareOf(stack)
           w == WidthOf(t)
           v == Wasm!Std!BinaryInt(Instr.op, b[n - 1].value.val, b[n].value.val, w)
           required == Wasm!Operands(b, <<t, t>>) /\ v.defined
           fs == Append(Wasm!Pop(b, 2), Wasm!Val([type |-> BinaryType, val |-> v.val]))
           ok == ValuesOnTop(stack, 2) /\ IsType(stack[n], t) /\ IsType(stack[n - 1], t)
<1>1. Instr.op \in Ints!Binaries /\ outcome = "running"
  BY DEF DoBinary, Fetch
<1>2. Straight(Instr.op)
  BY <1>1, IntegersStraight
<1>3. t \in IntTypes /\ Instr.op # "rem_s"
  BY <1>1, ReadyFacts DEF ConformingCode, WellTyped
<1>4. n \in Nat \ {0} /\ stack \in Seq(FramesOf(stack)) /\ Last(stack) = stack[n]
  BY ReadyStack
<1>5. Wasm!Operands(b, <<t, t>>) <=> ok
  BY <1>4, BareTwo
<1> HIDE DEF v
<1>6. Wasm!Reduce(required, fs, Wasm!next) => Wasm!Integer
  BY <1>1, BinaryShape DEF v
<1>7. CASE ok
  <2>1. ValuesOnTop(stack, 2) /\ n - 1 \in n - 2 + 1 .. n /\ n \in n - 2 + 1 .. n
    BY <1>4, <1>7
  <2>2. /\ b[n - 1] = stack[n - 1] /\ b[n] = stack[n]
        /\ stack[n - 1].value.val \in IntsOf(w) /\ stack[n].value.val \in IntsOf(w)
    BY <1>3, <1>7, <2>1, PoppedRefines, IntegerInRange
  <2>3. PICK o \in Ints!Binary(Instr.op, stack[n - 1].value.val, stack[n].value.val, w) :
          IF o.trap = "none" THEN Leave(Append(DropTop(stack, 2), ValueFrame(IntResult(o.val))))
          ELSE Halt(o.trap)
    BY <1>4, <1>7 DEF DoBinary, TopVal
  <2>4. ArithmeticAgrees(w)
    BY <1>3 DEF Agreement, IntTypes, WidthOf
  <2>5. Agrees(o, v, ResultWidth(Instr.op, w))
    BY <1>1, <1>3, <2>2, <2>3, <2>4 DEF ArithmeticAgrees, v
  <2>6. CASE o.trap = "none"
    <3>1. v.defined /\ o.val = v.val /\ o.val \in IntsOf(ResultWidth(Instr.op, w))
      BY <2>5, <2>6 DEF Agrees
    <3>2. IntResult(o.val) = [type |-> BinaryType, val |-> v.val]
      BY <1>1, <3>1 DEF IntResult, BinaryType, Ints!Binaries, Ints!Totals, Ints!Divisions, Ints!Shifts, Ints!Comparisons
    <3>3. InRange(IntResult(o.val))
      <4>1. ResultWidth(Instr.op, w) = WidthOf(BinaryType)
        <5>1. Instr.op # "eqz"
          BY <1>1 DEF Ints!Binaries, Ints!Totals, Ints!Divisions, Ints!Shifts, Ints!Comparisons
        <5> QED BY <5>1 DEF ResultWidth, BinaryType, WidthOf
      <4> QED BY <3>1, <3>2, <4>1 DEF InRange
    <3>4. Settled(DropTop(stack, 2)) /\ BareOf(DropTop(stack, 2)) = Wasm!Pop(b, 2)
      BY <2>1, PoppedRefines
    <3>5. Leave(Append(DropTop(stack, 2), ValueFrame(IntResult(o.val))))
      BY <2>3, <2>6
    <3>6. /\ NestInv' /\ RangeInv'
          /\ \A r : r => Wasm!Reduce(r, Append(BareOf(DropTop(stack, 2)), Wasm!Val(IntResult(o.val))),
                                     Wasm!next)
      BY <1>2, <3>3, <3>4, <3>5, PushRefines
    <3>7. required
      BY <1>5, <1>7, <3>1
    <3> HIDE DEF required
    <3>8. Wasm!Reduce(required, fs, Wasm!next)
      BY <3>2, <3>4, <3>6, <3>7
    <3> QED BY <1>6, <3>6, <3>8, RefinesIf
  <2>7. CASE o.trap # "none"
    <3>1. o.trap \notin {"running", "stopped"}
      BY <1>1, <2>3, BinaryTraps
    <3>2. Halt(o.trap)
      BY <2>3, <2>7
    <3>3. NestInv' /\ RangeInv' /\ Wasm!Undefined
      BY <3>1, <3>2, HaltRefines DEF Ready
    <3>4. ~required
      BY <2>5, <2>7 DEF Agrees
    <3> HIDE DEF required, fs
    <3>5. Wasm!Reduce(required, fs, Wasm!next)
      BY <3>3, <3>4 DEF Wasm!Reduce
    <3> QED BY <1>6, <3>3, <3>5, RefinesIf
  <2> QED BY <2>6, <2>7
<1>8. CASE ~ok
  <2>1. Mismatch
    BY <1>8 DEF DoBinary
  <2>2. NestInv' /\ RangeInv' /\ Wasm!Undefined
    BY <2>1, MismatchRefines
  <2>3. ~required
    BY <1>5, <1>8
  <2> HIDE DEF required, fs
  <2>4. Wasm!Reduce(required, fs, Wasm!next)
    BY <2>2, <2>3 DEF Wasm!Reduce
  <2> QED BY <1>6, <2>2, <2>4, RefinesIf
<1> QED BY <1>7, <1>8

\* An instruction on one operand of type t that yields y of type r.
LEMMA OneOperandRefines ==
  ASSUME Ready, Straight(Instr.op), NEW t, NEW ts, ts = <<t>>, NEW r, NEW v, NEW y,
         IsType(Last(stack), t) => Leave(Append(Under, ValueFrame(y))),
         IsType(Last(stack), t) => v.defined /\ y = [type |-> r, val |-> v.val] /\ InRange(y),
         ~IsType(Last(stack), t) => Mismatch
  PROVE  NestInv' /\ RangeInv' /\ Wasm!Yield(ts, r, v)
<1> DEFINE required == Wasm!Operands(BareOf(stack), ts) /\ v.defined
           fs == Append(Wasm!Pop(BareOf(stack), 1), Wasm!Val([type |-> r, val |-> v.val]))
<1>1. /\ Wasm!Operands(BareOf(stack), ts) <=> IsType(Last(stack), t)
      /\ ValuesOnTop(stack, 1) <=> Last(stack).kind = "value"
  BY TopFacts
<1>2. Wasm!Reduce(required, fs, Wasm!next) => Wasm!Yield(ts, r, v)
  <2>1. Len(ts) = 1
    OBVIOUS
  <2> QED BY <2>1 DEF Wasm!Yield, Wasm!Reduce, BareOf, Bare
<1>3. CASE IsType(Last(stack), t)
  <2>1. ValuesOnTop(stack, 1)
    BY <1>1, <1>3 DEF IsType
  <2>2. Leave(Append(Under, ValueFrame(y))) /\ InRange(y) /\ y = [type |-> r, val |-> v.val]
    BY <1>3
  <2>3. Settled(Under) /\ BareOf(Under) = Wasm!Pop(BareOf(stack), 1)
    BY <2>1, UnderRefines
  <2>4. /\ NestInv' /\ RangeInv'
        /\ \A q : q => Wasm!Reduce(q, Append(BareOf(Under), Wasm!Val(y)), Wasm!next)
    BY <2>2, <2>3, PushRefines
  <2>5. required
    BY <1>1, <1>3
  <2> HIDE DEF required
  <2>6. Wasm!Reduce(required, fs, Wasm!next)
    BY <2>2, <2>3, <2>4, <2>5
  <2> QED BY <1>2, <2>4, <2>6
<1>4. CASE ~IsType(Last(stack), t)
  <2>1. NestInv' /\ RangeInv' /\ Wasm!Undefined
    BY <1>4, MismatchRefines
  <2>2. ~required
    BY <1>1, <1>4
  <2> HIDE DEF required, fs
  <2>3. Wasm!Reduce(required, fs, Wasm!next)
    BY <2>1, <2>2 DEF Wasm!Reduce
  <2> QED BY <1>2, <2>1, <2>3
<1> QED BY <1>3, <1>4

\* The operand of an integer instruction.
LEMMA IntegerOnTop ==
  ASSUME Ready, NEW t \in IntTypes, IsType(Last(stack), t)
  PROVE  /\ TopVal \in IntsOf(WidthOf(t)) /\ Wasm!TopBut(0) = TopVal
<1>1. ValuesOnTop(stack, 1) /\ Last(stack) = stack[Len(stack)]
  BY TopFacts, ReadyStack DEF IsType
<1>2. Len(stack) \in Len(stack) - 1 + 1 .. Len(stack)
  BY ReadyStack
<1>3. stack[Len(stack)].value.val \in IntsOf(WidthOf(t))
  BY <1>1, <1>2, IntegerInRange
<1>4. BareOf(stack)[Len(stack)] = stack[Len(stack)]
  BY <1>1, <1>2, PoppedRefines
<1> QED BY <1>1, <1>3, <1>4, IntegerOperands DEF TopVal

LEMMA UnaryRefines ==
  ASSUME Ready, Agreement, DoUnary
  PROVE  Refines
<1> DEFINE t == Instr.t
           w == WidthOf(t)
           x == Ints!Unary(Instr.op, TopVal, w)
           r == IF Instr.op = "eqz" THEN "i32" ELSE t
           y == [type |-> r, val |-> x]
           v == Wasm!Std!Yields(Wasm!Std!UnaryInt(Instr.op, Wasm!TopBut(0), w))
<1>1. Instr.op \in Ints!Unaries /\ outcome = "running"
  BY DEF DoUnary, Fetch
<1>2. Straight(Instr.op)
  BY <1>1, IntegersStraight
<1>3. t \in IntTypes
  BY <1>1, ReadyFacts DEF ConformingCode, WellTyped
<1>4. IntResult(x) = [type |-> r, val |-> x]
  BY <1>1 DEF IntResult, Ints!Unaries, Ints!Comparisons
<1>5. /\ IsType(Last(stack), t) => Leave(Append(Under, ValueFrame(y)))
      /\ ~IsType(Last(stack), t) => Mismatch
  <2>1. IsType(Last(stack), t) => ValuesOnTop(stack, 1)
    BY TopFacts DEF IsType
  <2> QED BY <1>4, <2>1 DEF DoUnary
<1>6. ASSUME IsType(Last(stack), t)
      PROVE  v.defined /\ y = [type |-> r, val |-> v.val] /\ InRange(y)
  <2>1. TopVal \in IntsOf(w) /\ Wasm!TopBut(0) = TopVal
    BY <1>3, <1>6, IntegerOnTop
  <2>2. ArithmeticAgrees(w)
    BY <1>3 DEF Agreement, IntTypes, WidthOf
  <2>3. Agrees(Ints!Value(x), v, ResultWidth(Instr.op, w))
    BY <1>1, <2>1, <2>2 DEF ArithmeticAgrees
  <2>4. v.defined /\ v.val = x /\ x \in IntsOf(ResultWidth(Instr.op, w))
    BY <2>3 DEF Agrees, Ints!Value
  <2>5. ResultWidth(Instr.op, w) = WidthOf(r)
    BY <1>1 DEF ResultWidth, WidthOf, Ints!Unaries, Ints!Comparisons
  <2> HIDE DEF x, v, r
  <2> QED BY <2>4, <2>5 DEF InRange
<1> HIDE DEF x, y, v
<1>7. NestInv' /\ RangeInv' /\ Wasm!Yield(<<t>>, r, v)
  <2> DEFINE ts == <<t>>
  <2> HIDE DEF t, r
  <2>1. ts = <<t>>
    OBVIOUS
  <2> HIDE DEF ts
  <2>3. IsType(Last(stack), t) => v.defined /\ y = [type |-> r, val |-> v.val] /\ InRange(y)
    BY <1>6
  <2>2. NestInv' /\ RangeInv' /\ Wasm!Yield(ts, r, v)
    BY <1>2, <1>5, <2>1, <2>3, OneOperandRefines DEF Wasm!Yield, Wasm!Reduce
  <2> QED BY <2>2 DEF ts
<1>8. Wasm!Integer
  <2>1. /\ Wasm!instr = Instr
        /\ \A op : Wasm!Exec(op) <=> outcome = "running" /\ Instr.op = op
        /\ Wasm!IntWidth(t) = w
    BY WasmInstr, IntegerOperands
  <2>2. CASE Instr.op = "eqz"
    <3>1. Wasm!Yield(<<Wasm!instr.t>>, "i32",
                     Wasm!Std!Yields(Wasm!Std!UnaryInt(Wasm!instr.op, Wasm!TopBut(0),
                                                       Wasm!IntWidth(Wasm!instr.t))))
      BY <1>7, <2>1, <2>2 DEF v, Wasm!Yield, Wasm!Reduce
    <3>2. Wasm!Exec("eqz")
      BY <1>1, <2>1, <2>2
    <3> QED BY <3>1, <3>2 DEF Wasm!Integer
  <2>3. CASE Instr.op # "eqz"
    <3>1. Wasm!Yield(<<Wasm!instr.t>>, Wasm!instr.t,
                     Wasm!Std!Yields(Wasm!Std!UnaryInt(Wasm!instr.op, Wasm!TopBut(0),
                                                       Wasm!IntWidth(Wasm!instr.t))))
      BY <1>7, <2>1, <2>3 DEF v, Wasm!Yield, Wasm!Reduce
    <3>2. \E op \in {"clz", "ctz", "popcnt"} : Wasm!Exec(op)
      BY <1>1, <2>1, <2>3 DEF Ints!Unaries
    <3> QED BY <3>1, <3>2 DEF Wasm!Integer
  <2> QED BY <2>2, <2>3
<1> QED BY <1>7, <1>8, RefinesIf

LEMMA ConvertRefines ==
  ASSUME Ready, Agreement, DoConvert
  PROVE  Refines
<1> DEFINE t == IF Instr.t = "i32" THEN "i64" ELSE "i32"
           from == WidthOf(t)
           to == WidthOf(Instr.t)
           x == Ints!Convert(Instr.op, TopVal, Width)
           y == [type |-> Instr.t, val |-> x]
           v == Wasm!Std!Yields(Wasm!Std!Converted(Instr.op, Wasm!TopBut(0), from, to))
<1>1. Instr.op \in {"wrap", "extend_s", "extend_u"} /\ outcome = "running"
  BY DEF DoConvert, Fetch, Ints!Conversions
<1>2. Straight(Instr.op)
  BY <1>1, IntegersStraight DEF Ints!Conversions
<1>3. /\ Instr.op = "wrap" => Instr.t = "i32"
      /\ Instr.op # "wrap" => Instr.t = "i64"
  BY ZenonT(40), <1>1, ReadyFacts DEF ConformingCode, WellTyped
<1>4. /\ IsType(Last(stack), t) => Leave(Append(Under, ValueFrame(y)))
      /\ ~IsType(Last(stack), t) => Mismatch
  <2>1. IsType(Last(stack), t) => ValuesOnTop(stack, 1)
    BY TopFacts DEF IsType
  <2> QED BY <2>1 DEF DoConvert
<1>5. ASSUME IsType(Last(stack), t)
      PROVE  v.defined /\ y = [type |-> Instr.t, val |-> v.val] /\ InRange(y)
  <2>1. TopVal \in IntsOf(from) /\ Wasm!TopBut(0) = TopVal
    BY <1>5, IntegerOnTop DEF IntTypes
  <2>2. Agrees(Ints!Value(x), v, to)
    <3>1. CASE Instr.op = "wrap"
      <4>1. from = LongWidth /\ to = Width
        BY <1>3, <3>1 DEF WidthOf
      <4> QED BY <2>1, <3>1, <4>1 DEF Agreement, ConversionsAgree
    <3>2. CASE Instr.op # "wrap"
      <4>1. from = Width /\ to = LongWidth
        BY <1>3, <3>2 DEF WidthOf
      <4> QED BY <1>1, <2>1, <3>2, <4>1 DEF Agreement, ConversionsAgree
    <3> QED BY <3>1, <3>2
  <2>3. v.defined /\ v.val = x /\ x \in IntsOf(to)
    BY <2>2 DEF Agrees, Ints!Value
  <2> HIDE DEF x, v
  <2> QED BY <2>3 DEF InRange
<1> HIDE DEF x, y, v
<1>6. NestInv' /\ RangeInv' /\ Wasm!Yield(<<t>>, Instr.t, v)
  <2> DEFINE ts == <<t>>
             r == Instr.t
  <2> HIDE DEF t
  <2>1. ts = <<t>>
    OBVIOUS
  <2> HIDE DEF ts, r
  <2>3. IsType(Last(stack), t) => v.defined /\ y = [type |-> r, val |-> v.val] /\ InRange(y)
    BY <1>5 DEF r
  <2>2. NestInv' /\ RangeInv' /\ Wasm!Yield(ts, r, v)
    BY <1>2, <1>4, <2>1, <2>3, OneOperandRefines DEF Wasm!Yield, Wasm!Reduce
  <2> QED BY <2>2 DEF ts, r
<1>7. Wasm!Integer
  <2>1. /\ Wasm!instr = Instr
        /\ \A op : Wasm!Exec(op) <=> outcome = "running" /\ Instr.op = op
    BY WasmInstr
  <2>2. CASE Instr.op = "wrap"
    <3>1. from = LongWidth /\ to = Width /\ t = "i64" /\ Instr.t = "i32"
      BY <1>3, <2>2 DEF WidthOf
    <3>2. v = Wasm!Std!Yields(Wasm!Std!Converted(Wasm!instr.op, Wasm!TopBut(0), LongWidth, Width))
      BY <2>1, <3>1 DEF v
    <3>3. Wasm!IntWidth(Wasm!instr.t) = Width
      BY <2>1, <3>1 DEF Wasm!IntWidth
    <3> HIDE DEF t
    <3>4. Wasm!Yield(<<"i64">>, "i32",
                     Wasm!Std!Yields(Wasm!Std!Converted(Wasm!instr.op, Wasm!TopBut(0), LongWidth,
                                                        Wasm!IntWidth(Wasm!instr.t))))
      BY <1>6, <3>1, <3>2, <3>3 DEF Wasm!Yield, Wasm!Reduce
    <3>5. Wasm!Exec("wrap")
      BY <1>1, <2>1, <2>2
    <3> QED BY <3>4, <3>5 DEF Wasm!Integer
  <2>3. CASE Instr.op # "wrap"
    <3>1. from = Width /\ to = LongWidth /\ t = "i32" /\ Instr.t = "i64"
      BY <1>3, <2>3 DEF WidthOf
    <3>2. v = Wasm!Std!Yields(Wasm!Std!Converted(Wasm!instr.op, Wasm!TopBut(0), Width, LongWidth))
      BY <2>1, <3>1 DEF v
    <3>3. Wasm!IntWidth(Wasm!instr.t) = LongWidth
      BY <2>1, <3>1 DEF Wasm!IntWidth
    <3> HIDE DEF t
    <3>4. Wasm!Yield(<<"i32">>, "i64",
                     Wasm!Std!Yields(Wasm!Std!Converted(Wasm!instr.op, Wasm!TopBut(0), Width,
                                                        Wasm!IntWidth(Wasm!instr.t))))
      BY <1>6, <3>1, <3>2, <3>3 DEF Wasm!Yield, Wasm!Reduce
    <3>5. Wasm!Exec("extend_s") \/ Wasm!Exec("extend_u")
      BY <1>1, <2>1, <2>3
    <3> QED BY <3>4, <3>5 DEF Wasm!Integer
  <2> QED BY <2>2, <2>3
<1> QED BY <1>6, <1>7, RefinesIf

-----------------------------------------------------------------------------
(* Blocks.                                                                 *)

\* What is left of the stack becomes fs, and the engine goes on at p.
Goes(fs, p) ==
  /\ BareOf(stack)' = fs /\ pc' = p
  /\ mod' = mod /\ globals' = globals /\ outcome' = outcome /\ result' = result

\* A block entered at q.
LEMMA OpenRefines ==
  ASSUME Ready, Instr.op \in Openers, NEW s, Settled(s),
         NEW e, Closes(Code(mod, pc.fn), pc.at, e), NEW cont,
         cont = IF Instr.op = "loop" THEN At(pc.fn, pc.at) ELSE At(pc.fn, e + 1),
         PushLabel(s, cont, BlockArity(Instr.t)),
         NEW q, q.fn = pc.fn, q.at \in pc.at + 1 .. e,
         Nesting(Code(mod, pc.fn), q.at) = Nesting(Code(mod, pc.fn), pc.at) + 1,
         Dispatch(q), globals' = globals, status' \in {status, "EXECUTING"}
  PROVE  /\ NestInv' /\ RangeInv'
         /\ Goes(Wasm!Mark(BareOf(s)), q)
<1> DEFINE code == Code(mod, pc.fn)
           f == LabelFrame(cont, BlockArity(Instr.t))
           u == Append(s, f)
<1>1. /\ EngineInv /\ NestInv /\ outcome = "running" /\ status = "EXECUTING" /\ Running
      /\ Nest(mod, pc, stack, labelMap) /\ labelCount = Len(labelMap) /\ result = <<>>
      /\ CallersOutside(mod, stack, activMap) /\ stack[activMap[1]].cont = At(0, 2)
  BY DEF Ready, AtWork, NestInv
<1>2. s \in Seq(FramesOf(s)) /\ Len(s) \in Nat /\ Placed(s) /\ RangeIn(s) /\ SameLabels(stack, s)
  BY SettledPlaced DEF Settled, Moved, Good, Framed
<1>3. f.kind = "label" /\ f.cont = cont /\ f.arity = BlockArity(code[pc.at].t) /\ Bare(f) = [kind |-> "label"]
  BY ReadyFacts, BareFrame DEF LabelFrame
<1> HIDE DEF f
<1>4. Len(u) = Len(s) + 1 /\ u[Len(s) + 1] = f /\ \A p \in 1 .. Len(s) : u[p] = s[p]
  BY <1>2
<1>5. /\ stack' = u /\ labelMap' = Append(labelMap, Len(s) + 1) /\ labelCount' = labelCount + 1
      /\ activMap' = activMap /\ pc' = q /\ mod' = mod /\ result' = result /\ outcome' = "running"
      /\ status' = "EXECUTING" /\ globals' = globals
  BY <1>1 DEF PushLabel, Dispatch, Openers, f
<1>6. Nest(mod, q, u, Append(labelMap, Len(s) + 1))
  <2>1. Nest(mod, pc, s, labelMap)
    BY <1>1, <1>2, NestCarried
  <2>2. /\ Structured(code) /\ pc.at \in 1 .. Len(code) /\ labelMap \in Seq(Nat)
        /\ code[pc.at] = Instr
    BY ReadyFacts
  <2>3. f.cont = IF code[pc.at].op = "loop" THEN At(pc.fn, pc.at) ELSE At(pc.fn, e + 1)
    BY <1>3, <2>2
  <2> QED BY <1>2, <1>3, <2>1, <2>2, <2>3, NestOpened
<1>7. CallersOutside(mod, u, activMap) /\ (Running => u[activMap[1]].cont = At(0, 2))
  <2>1. \A i \in 1 .. Len(activMap) : u[activMap[i]].cont = stack[activMap[i]].cont
    <3>1. \A i \in 1 .. Len(activMap) : activMap[i] \in 1 .. Len(s) /\ s[activMap[i]] = stack[activMap[i]]
      BY <1>1, MovedFrames DEF Settled
    <3> QED BY <1>4, <3>1
  <2> HIDE DEF u
  <2> QED BY <1>1, <2>1, CallersCarried
<1>8. NestInv'
  <2>1. labelCount' = Len(labelMap')
    BY <1>1, <1>5, ReadyFacts
  <2> HIDE DEF u
  <2> QED BY <1>1, <1>5, <1>6, <1>7, <2>1 DEF NestInv, Running
<1>9. RangeInv'
  <2>1. RangeIn(u)
    <3>1. \A p \in 1 .. Len(u) : p \in 1 .. Len(s) \/ p = Len(s) + 1
      BY <1>2, <1>4
    <3> HIDE DEF u
    <3> QED BY <1>2, <1>3, <1>4, <3>1 DEF RangeIn
  <2>2. (\E S : globals \in Seq(S)) /\ \A i \in 1 .. Len(globals) : InRange(globals[i])
    BY DEF Ready, RangeInv
  <2> HIDE DEF u
  <2> QED BY <1>5, <2>1, <2>2 DEF RangeInv
<1>10. BareOf(u) = Wasm!Mark(BareOf(s))
  BY <1>2, <1>3, BareAppend DEF Wasm!Mark
<1>11. Goes(BareOf(u), q)
  <2> HIDE DEF u
  <2> QED BY <1>1, <1>5 DEF Goes, BareOf, Bare
<1> QED BY <1>8, <1>9, <1>10, <1>11

\* The block that opens here.
LEMMA OpenFacts ==
  ASSUME Ready, Instr.op \in Openers
  PROVE  \E e : /\ Closes(Code(mod, pc.fn), pc.at, e) /\ ClosingEnd(Code(mod, pc.fn), pc.at + 1) = e
                /\ After.fn = pc.fn /\ After.at = pc.at + 1 /\ After.at \in pc.at + 1 .. e
                /\ Nesting(Code(mod, pc.fn), After.at) = Nesting(Code(mod, pc.fn), pc.at) + 1
                /\ Len(Crawl(After)) \in Nat /\ Last(Crawl(After)) = At(pc.fn, e + 1)
                /\ Len(Crawl(After)) >= 2 =>
                     {Crawl(After)[i].at - 1 : i \in 1 .. Len(Crawl(After)) - 1} =
                       OwnElses(Code(mod, pc.fn), pc.at + 1)
                /\ \A i \in 1 .. Len(Crawl(After)) - 1 :
                     /\ Crawl(After)[i].fn = pc.fn /\ Crawl(After)[i].at \in Nat
                     /\ Crawl(After)[i].at - 1 \in pc.at + 1 .. e - 1
                     /\ Crawl(After)[i].at - 1 \in OwnElses(Code(mod, pc.fn), pc.at + 1)
<1> DEFINE code == Code(mod, pc.fn)
           conts == Crawl(After)
<1>1. /\ pc \in Position /\ pc.fn \in 1 .. Len(mod.funcs) /\ pc.at \in 1 .. Len(code)
      /\ Structured(code) /\ Len(code) \in Nat /\ Instr = code[pc.at] /\ AtWork
  BY InstrFacts DEF Ready
<1>2. After.fn = pc.fn /\ After.at = pc.at + 1 /\ pc.fn \in Nat
  BY <1>1 DEF At, After, Position
<1>3. PICK e : /\ Closes(code, pc.at, e) /\ ClosingEnd(code, After.at) = e
               /\ conts \in Seq([fn : Nat, at : Nat]) /\ Len(conts) >= 1
               /\ Last(conts) = At(pc.fn, e + 1)
               /\ \A i \in 1 .. Len(conts) - 1 :
                    /\ conts[i].fn = pc.fn
                    /\ conts[i].at - 1 \in pc.at + 1 .. e - 1
                    /\ conts[i].at - 1 \in OwnElses(code, After.at)
               /\ Len(conts) >= 2 =>
                    {conts[i].at - 1 : i \in 1 .. Len(conts) - 1} = OwnElses(code, After.at)
  BY <1>1, <1>2, CrawlStructural
<1> HIDE DEF conts, code
<1>4. e \in pc.at + 1 .. Len(code) - 1
  BY <1>3 DEF Closes
<1>5. Nesting(code, pc.at + 1) = Nesting(code, pc.at) + 1
  <2>1. pc.at \in Nat \ {0}
    BY <1>1
  <2>2. Nesting(code, pc.at + 1) = Nesting(code, pc.at) + Change(code[pc.at].op)
    BY <2>1, NestingStep
  <2>3. Change(code[pc.at].op) = 1
    BY <1>1 DEF Change
  <2> QED BY <2>2, <2>3
<1>6. pc.at + 1 \in pc.at + 1 .. e /\ Len(conts) \in Nat
  <2>1. Len(conts) \in Nat
    BY <1>3
  <2>2. pc.at + 1 <= e /\ e \in Int /\ pc.at + 1 \in Int
    BY <1>1, <1>4
  <2> QED BY <2>1, <2>2
<1>7. \A i \in 1 .. Len(conts) - 1 : conts[i].at \in Nat
  <2>1. \A i \in 1 .. Len(conts) - 1 : i \in 1 .. Len(conts)
    BY <1>6
  <2>2. \A i \in 1 .. Len(conts) : conts[i] \in [fn : Nat, at : Nat]
    BY <1>3, ElementOfSeq
  <2> QED BY <2>1, <2>2
<1> QED BY <1>2, <1>3, <1>5, <1>6, <1>7 DEF conts, code

LEMMA BlockRefines ==
  ASSUME Ready, DoBlock
  PROVE  Refines
<1>1. /\ Instr.op = "block" /\ outcome = "running" /\ LookupConts(After)
      /\ PushLabel(stack, Last(contStore'[After]), BlockArity(Instr.t))
      /\ Dispatch(After) /\ globals' = globals
  BY DEF DoBlock, Fetch
<1>2. Instr.op \in Openers /\ AtWork
  BY <1>1 DEF Openers, Ready
<1>3. PICK e : /\ Closes(Code(mod, pc.fn), pc.at, e) /\ After.fn = pc.fn
               /\ After.at \in pc.at + 1 .. e
               /\ Nesting(Code(mod, pc.fn), After.at) = Nesting(Code(mod, pc.fn), pc.at) + 1
               /\ Last(Crawl(After)) = At(pc.fn, e + 1)
  BY <1>2, OpenFacts
<1>4. contStore'[After] = Crawl(After) /\ status' \in {status, "EXECUTING"}
  BY <1>1, <1>2, ContsLookedUp DEF Dispatch
<1> DEFINE cont == At(pc.fn, e + 1)
<1>5. /\ PushLabel(stack, cont, BlockArity(Instr.t))
      /\ cont = IF Instr.op = "loop" THEN At(pc.fn, pc.at) ELSE At(pc.fn, e + 1)
  BY <1>1, <1>3, <1>4
<1> HIDE DEF cont
<1>6. NestInv' /\ RangeInv' /\ Goes(Wasm!Mark(BareOf(stack)), After)
  <2>1. Ready /\ Settled(stack)
    BY SettledStack
  <2> QED BY <1>1, <1>2, <1>3, <1>4, <1>5, <2>1, OpenRefines
<1>7. Wasm!Exec("block") /\ Wasm!Reduce(TRUE, Wasm!Mark(BareOf(stack)), Wasm!next) => Wasm!Control
  BY DEF Wasm!Control, BareOf, Bare
<1>8. Wasm!Reduce(TRUE, Wasm!Mark(BareOf(stack)), Wasm!next)
  BY <1>6, WasmInstr DEF Goes, Wasm!Reduce, BareOf, Bare
<1> QED BY <1>1, <1>6, <1>7, <1>8, WasmInstr, RefinesIf

LEMMA LoopRefines ==
  ASSUME Ready, DoLoop
  PROVE  Refines
<1>1. /\ Instr.op = "loop" /\ outcome = "running" /\ PushLabel(stack, pc, BlockArity(Instr.t))
      /\ Dispatch(After) /\ globals' = globals /\ status' = status
  BY DEF DoLoop, Fetch, Continue
<1>2. Instr.op \in Openers /\ AtWork
  BY <1>1 DEF Openers, Ready
<1>3. PICK e : /\ Closes(Code(mod, pc.fn), pc.at, e) /\ After.fn = pc.fn
               /\ After.at \in pc.at + 1 .. e
               /\ Nesting(Code(mod, pc.fn), After.at) = Nesting(Code(mod, pc.fn), pc.at) + 1
  BY <1>2, OpenFacts
<1>4. pc = IF Instr.op = "loop" THEN At(pc.fn, pc.at) ELSE At(pc.fn, e + 1)
  <2>1. pc \in Position
    BY <1>2, InstrFacts
  <2> QED BY <1>1, <2>1 DEF At, Position
<1>5. NestInv' /\ RangeInv' /\ Goes(Wasm!Mark(BareOf(stack)), After)
  <2>1. Ready /\ Settled(stack)
    BY SettledStack
  <2> QED BY <1>1, <1>2, <1>3, <1>4, <2>1, OpenRefines
<1>6. Wasm!Exec("loop") /\ Wasm!Reduce(TRUE, Wasm!Mark(BareOf(stack)), Wasm!next) => Wasm!Control
  BY DEF Wasm!Control, BareOf, Bare
<1>7. Wasm!Reduce(TRUE, Wasm!Mark(BareOf(stack)), Wasm!next)
  BY <1>5, WasmInstr DEF Goes, Wasm!Reduce, BareOf, Bare
<1> QED BY <1>1, <1>5, <1>6, <1>7, WasmInstr, RefinesIf

LEMMA IfRefines ==
  ASSUME Ready, DoIf
  PROVE  Refines
<1> DEFINE conts == Crawl(After)
           code == Code(mod, pc.fn)
           required == Wasm!Operands(BareOf(stack), <<"i32">>)
           target == IF TopVal = 0 THEN Head(conts) ELSE After
<1>1. Instr.op = "if" /\ outcome = "running" /\ Instr.op \in Openers /\ AtWork
  BY DEF DoIf, Fetch, Openers, Ready
<1>2. PICK e : /\ Closes(code, pc.at, e) /\ ClosingEnd(code, pc.at + 1) = e
               /\ After.fn = pc.fn /\ After.at = pc.at + 1
               /\ After.at \in pc.at + 1 .. e
               /\ Nesting(code, After.at) = Nesting(code, pc.at) + 1
               /\ Len(conts) \in Nat /\ Last(conts) = At(pc.fn, e + 1)
               /\ \A i \in 1 .. Len(conts) - 1 :
                    /\ conts[i].fn = pc.fn /\ conts[i].at \in Nat
                    /\ conts[i].at - 1 \in pc.at + 1 .. e - 1
                    /\ conts[i].at - 1 \in OwnElses(code, pc.at + 1)
  BY <1>1, OpenFacts
<1>3. (IF After \in DOMAIN contStore THEN contStore[After] ELSE Crawl(After)) = conts
  BY <1>1 DEF AtWork, ControlInv, ContsOK
<1>4. required <=> IsType(Last(stack), "i32")
  BY TopFacts
<1>5. I32OnTop <=> IsType(Last(stack), "i32")
  BY ReadyStack DEF I32OnTop
<1> HIDE DEF conts, required
<1>6. /\ code = mod.funcs[pc.fn].code /\ Structured(code) /\ pc.at \in 1 .. Len(code)
      /\ Instr = code[pc.at] /\ ConformingCode(code) /\ pc.fn \in Nat
      /\ OwnElses(code, pc.at + 1) # {}
      /\ \A k \in 1 .. Len(code) : code[k].op = "if" => OwnElses(code, k + 1) # {}
  <2>1. /\ pc.fn \in 1 .. Len(mod.funcs) /\ pc.at \in 1 .. Len(code) /\ Structured(code)
        /\ code = mod.funcs[pc.fn].code /\ ConformingCode(code) /\ Instr = code[pc.at]
    BY ReadyFacts
  <2>2. \A k \in 1 .. Len(code) : code[k].op = "if" => OwnElses(code, k + 1) # {}
    <3> HIDE DEF code
    <3> QED BY <2>1 DEF ConformingCode
  <2>3. pc.fn \in Nat
    BY <2>1
  <2> HIDE DEF code
  <2> QED BY <1>1, <2>1, <2>2, <2>3
<1>7. Len(conts) >= 2
  <2> USE DEF conts
  <2> QED BY <1>1, <1>2, <1>6, IfCrawled
<1>8. PICK k : k \in OwnElses(code, pc.at + 1) /\ OwnElses(code, pc.at + 1) = {k}
  <2>1. PICK k : k \in OwnElses(code, pc.at + 1)
    BY <1>6
  <2> QED BY <1>1, <1>6, <2>1, OneElse
<1>9. Head(conts).at = k + 1 /\ Head(conts).fn = pc.fn /\ k \in pc.at + 1 .. e - 1
      /\ Head(conts) \in Position
  <2>1. conts \in Seq(Position)
    <3> USE DEF conts
    <3> QED BY <1>1, BlockAround
  <2>2. Head(conts) = conts[1] /\ 1 \in 1 .. Len(conts) - 1 /\ conts[1] \in Position
    BY <1>2, <1>7, <2>1
  <2>3. conts[1].fn = pc.fn /\ conts[1].at - 1 = k /\ conts[1].at \in Nat
        /\ conts[1].at - 1 \in pc.at + 1 .. e - 1
    BY <1>2, <1>8, <2>2
  <2> QED BY <2>2, <2>3
<1>10. Nesting(code, k + 1) = Nesting(code, pc.at) + 1
  <2>1. code[k].op = "else" /\ Nesting(code, k) = Nesting(code, pc.at) + 1 /\ Nesting(code, k) \in Nat
    <3> DEFINE a == pc.at
    <3>1. a \in 1 .. Len(code) /\ code[a].op \in Openers /\ Structured(code) /\ Closes(code, a, e)
      BY <1>1, <1>2, <1>6
    <3>2. k \in OwnElses(code, a + 1)
      BY <1>8
    <3> HIDE DEF a, code
    <3>3. k \in a + 1 .. e /\ code[k].op = "else" /\ Nesting(code, k) = Nesting(code, a) + 1
          /\ \A j \in a + 1 .. e : Nesting(code, j) \in Nat
      BY <3>1, <3>2, OwnElsesAre
    <3> QED BY <3>3 DEF a
  <2>2. k \in Nat \ {0}
    BY <1>6, <1>9
  <2>3. Nesting(code, k + 1) = Nesting(code, k) + Change(code[k].op)
    BY <2>2, NestingStep
  <2>4. Change(code[k].op) = 0
    BY <2>1 DEF Change, Openers
  <2> QED BY <2>1, <2>3, <2>4
<1>11. Head(conts) = At(pc.fn, Wasm!OnZero)
  <2>1. OwnElses(code, pc.at + 1) # {} /\ (CHOOSE j \in OwnElses(code, pc.at + 1) : TRUE) = k
    BY <1>8
  <2>2. Wasm!OnZero = 1 + k
    BY <2>1, SameStructure DEF Wasm!OnZero, Wasm!code
  <2>3. 1 + k = k + 1
    BY <1>6, <1>9
  <2> QED BY <1>9, <2>2, <2>3 DEF Position, At
<1> DEFINE p0 == IF Wasm!TopInt = 0 THEN Wasm!At(pc.fn, Wasm!OnZero) ELSE Wasm!next
           If == Wasm!Reduce(required, Wasm!Mark(Wasm!Pop(BareOf(stack), 1)), p0)
<1>12. Wasm!Exec("if")
  BY <1>1, WasmInstr
<1>13. If => Wasm!Control
  BY <1>12 DEF Wasm!Control, BareOf, Bare, required
<1>14. CASE I32OnTop
  <2>1. /\ LookupConts(After) /\ PushLabel(Under, Last(conts), BlockArity(Instr.t))
        /\ Dispatch(target) /\ globals' = globals
    <3> USE DEF conts
    <3>1. \/ Len(conts) < 2 /\ Halt("ILLFORMED_STRUCTURE")
          \/ Len(conts) >= 2 /\ ~I32OnTop /\ Mismatch
          \/ /\ Len(conts) >= 2 /\ I32OnTop
             /\ LookupConts(After)
             /\ PushLabel(Under, Last(conts), BlockArity(Instr.t))
             /\ Dispatch(IF TopVal = 0 THEN Head(conts) ELSE After)
             /\ UNCHANGED globals
      BY <1>3 DEF DoIf
    <3>2. ~(Len(conts) < 2)
      BY <1>2, <1>7
    <3> QED BY <1>14, <3>1, <3>2
  <2>2. status' \in {status, "EXECUTING"}
    <3>1. mod' = mod
      BY <2>1 DEF Dispatch
    <3>2. Len(Crawl(After)) >= 2
      BY <1>7 DEF conts
    <3> QED BY <1>1, <2>1, <3>1, <3>2, ContsLookedUp
  <2>3. ValuesOnTop(stack, 1) /\ IsType(Last(stack), "i32")
    BY <1>5, <1>14, TopFacts DEF IsType
  <2>4. Settled(Under) /\ BareOf(Under) = Wasm!Pop(BareOf(stack), 1)
    BY <2>3, UnderRefines
  <2>5. Wasm!TopInt = TopVal
    <3>1. Wasm!Last(BareOf(stack)) = Last(stack)
      BY <2>3, TopFacts
    <3> QED BY <3>1 DEF Wasm!TopInt, TopVal, BareOf, Bare
  <2>6. target = p0
    BY <1>11, <2>5, WasmInstr, SameStructure
  <2>7. target.fn = pc.fn /\ target.at \in pc.at + 1 .. e
        /\ Nesting(code, target.at) = Nesting(code, pc.at) + 1
    <3>1. Head(conts).at \in pc.at + 1 .. e
      <4>1. e \in Int /\ pc.at \in Int /\ k \in Int
        <5>1. e \in pc.at + 1 .. Len(code) - 1
          BY <1>2 DEF Closes
        <5>2. pc.at \in 1 .. Len(code) /\ k \in pc.at + 1 .. e - 1
          BY <1>6, <1>9
        <5> HIDE DEF code
        <5> QED BY <5>1, <5>2
      <4> QED BY <1>9, <4>1
    <3> QED BY <1>2, <1>9, <1>10, <3>1
  <2> DEFINE cont == At(pc.fn, e + 1)
  <2>8. /\ PushLabel(Under, cont, BlockArity(Instr.t))
        /\ cont = IF Instr.op = "loop" THEN At(pc.fn, pc.at) ELSE At(pc.fn, e + 1)
    BY <1>1, <1>2, <2>1
  <2> HIDE DEF cont, target, p0
  <2>9. NestInv' /\ RangeInv' /\ Goes(Wasm!Mark(BareOf(Under)), target)
    <3>1. Ready /\ Settled(Under)
      BY <2>4
    <3> QED BY <1>1, <1>2, <2>1, <2>2, <2>7, <2>8, <3>1, OpenRefines
  <2>10. required
    BY <1>4, <2>3
  <2>11. If
    <3>1. required /\ p0 = target
      BY <2>6, <2>10
    <3>2. Goes(Wasm!Mark(Wasm!Pop(BareOf(stack), 1)), p0)
      BY <2>4, <2>9, <3>1
    <3> QED BY <3>1, <3>2 DEF Goes, Wasm!Reduce, BareOf, Bare
  <2> QED BY <1>13, <2>9, <2>11, RefinesIf
<1>15. CASE ~I32OnTop
  <2>1. Mismatch
    <3> USE DEF conts
    <3> QED BY <1>2, <1>3, <1>7, <1>15 DEF DoIf
  <2>2. NestInv' /\ RangeInv' /\ Wasm!Undefined
    BY <2>1, MismatchRefines
  <2>3. ~required
    BY <1>4, <1>5, <1>15
  <2> HIDE DEF p0
  <2>4. If
    BY <2>2, <2>3 DEF Wasm!Reduce
  <2> QED BY <1>13, <2>2, <2>4, RefinesIf
<1> QED BY <1>14, <1>15

-----------------------------------------------------------------------------
(* Branches out of blocks.                                                 *)

\* What is left when a frame is left with the values its arity lists.
LEMMA Unwound ==
  ASSUME NEW s, Good(s), RangeIn(s), NEW p \in 1 .. Len(s), s[p].kind # "value",
         NEW T, NEW arity \in Seq(T), Len(arity) <= 1, ArityHolds(s, arity),
         NEW u, u = EraseRange(s, p, Len(arity))
  PROVE  /\ u \in Seq(FramesOf(s)) /\ Len(u) = p - 1 + Len(arity)
         /\ \A q \in 1 .. p - 1 : u[q] = s[q]
         /\ RangeIn(u) /\ \A x : x \in LabelsIn(u) <=> x \in LabelsIn(s) /\ x < p
         /\ \A x \in LabelsIn(u) : x \in 1 .. p - 1 /\ u[x] = s[x]
         /\ BareOf(u) = Wasm!Unwind(BareOf(s), p, arity) /\ Wasm!Operands(BareOf(s), arity)
<1> DEFINE n == Len(arity)
<1>1. s \in Seq(FramesOf(s)) /\ Len(s) \in Nat /\ n \in Nat
  BY DEF Good, Framed
<1>2. n \in 0 .. Len(s) /\ ValuesOnTop(s, n) /\ \A i \in Len(s) - n + 1 .. Len(s) : s[i].kind = "value"
  BY DEF ArityHolds, ValuesOnTop
<1>3. Wasm!Operands(BareOf(s), arity)
  BY <1>1, BareArity
<1> HIDE DEF n
<1>4. /\ EraseRange(s, p, n) \in Seq(FramesOf(s)) /\ Len(EraseRange(s, p, n)) = p - 1 + n
      /\ \A q \in 1 .. p - 1 : EraseRange(s, p, n)[q] = s[q]
      /\ \A q \in p .. p - 1 + n :
           /\ EraseRange(s, p, n)[q] = s[q - p + 1 + (Len(s) - n)]
           /\ EraseRange(s, p, n)[q].kind = "value"
  BY ZenonT(40), <1>1, <1>2, EraseKeepsBelow
<1>5. u = EraseRange(s, p, n)
  BY DEF n
<1>6. p \in 1 .. Len(s) - n
  <2>1. p \notin Len(s) - n + 1 .. Len(s)
    BY <1>2
  <2> QED BY <1>1, <1>2, <2>1
<1>7. BareOf(u) = Wasm!Unwind(BareOf(s), p, arity)
  BY <1>1, <1>2, <1>6, BareUnwind DEF n
<1>8. \A q \in 1 .. Len(u) : q \in 1 .. p - 1 \/ q \in p .. p - 1 + n
  BY <1>1, <1>4, <1>5
<1>9. \A q \in p .. p - 1 + n : q - p + 1 + (Len(s) - n) \in 1 .. Len(s)
  BY <1>1, <1>2, <1>6
<1>10. \A q \in 1 .. p - 1 : q \in 1 .. Len(s) /\ q \in 1 .. Len(u)
  BY <1>1, <1>4, <1>5
<1>11. RangeIn(u)
  <2>1. ASSUME NEW q \in 1 .. Len(u) PROVE \E r \in 1 .. Len(s) : u[q] = s[r]
    <3>1. CASE q \in 1 .. p - 1
      BY <1>4, <1>5, <1>10, <3>1
    <3>2. CASE q \in p .. p - 1 + n
      BY <1>4, <1>5, <1>9, <3>2
    <3> QED BY <1>8, <3>1, <3>2
  <2> QED BY <2>1 DEF RangeIn
<1>12. ASSUME NEW x PROVE x \in LabelsIn(u) <=> x \in LabelsIn(s) /\ x < p
  <2>1. ASSUME x \in LabelsIn(u) PROVE x \in LabelsIn(s) /\ x < p
    <3>1. x \in 1 .. Len(u) /\ u[x].kind = "label"
      BY <2>1 DEF LabelsIn
    <3>2. x \in 1 .. p - 1
      BY <1>4, <1>5, <1>8, <3>1
    <3> QED BY <1>4, <1>5, <1>10, <3>1, <3>2 DEF LabelsIn
  <2>2. ASSUME x \in LabelsIn(s), x < p PROVE x \in LabelsIn(u)
    <3>1. x \in 1 .. p - 1 /\ s[x].kind = "label"
      BY <2>2 DEF LabelsIn
    <3> QED BY <1>4, <1>5, <1>10, <3>1 DEF LabelsIn
  <2> QED BY <2>1, <2>2
<1>14. ASSUME NEW x \in LabelsIn(u) PROVE x \in 1 .. p - 1 /\ u[x] = s[x]
  <2>1. x \in LabelsIn(s) /\ x < p
    BY <1>12
  <2>2. x \in 1 .. p - 1
    BY <2>1 DEF LabelsIn
  <2> QED BY <1>4, <1>5, <2>2
<1> QED BY <1>3, <1>4, <1>5, <1>7, <1>11, <1>12, <1>14 DEF n

LEMMA BlockArityIs ==
  ASSUME NEW T, NEW t \in T
  PROVE  BlockArity(t) \in Seq(T) /\ Len(BlockArity(t)) \in Nat /\ Len(BlockArity(t)) <= 1
<1>1. <<t>> \in Seq(T) /\ Len(<<t>>) = 1 /\ <<>> \in Seq(T) /\ Len(<<>>) = 0
  OBVIOUS
<1>2. CASE t = "void"
  BY <1>1, <1>2 DEF BlockArity
<1>3. CASE t # "void"
  BY <1>1, <1>3 DEF BlockArity
<1> QED BY <1>2, <1>3

\* The block and the label that a branch of `depth` leaves.
LEMMA LabelFacts ==
  ASSUME Ready, NEW s, Settled(s), NEW depth \in Nat, depth < labelCount
  PROVE  LET code == Code(mod, pc.fn)
             p == TrackedLabel(depth)
         IN  \E o, e :
               /\ Encloses(code, o, e, pc.at, Len(labelMap) - depth)
               /\ Enclosing(code, pc.at, depth) = o /\ ClosingEnd(code, o + 1) = e
               /\ o \in 1 .. Len(code)
               /\ p = labelMap[Len(labelMap) - depth] /\ p \in 1 .. Len(s)
               /\ s[p].kind = "label" /\ Wasm!Label(BareOf(s), depth) = p
               /\ s[p].arity = BlockArity(code[o].t)
               /\ s[p].cont = IF code[o].op = "loop" THEN At(pc.fn, o) ELSE At(pc.fn, e + 1)
<1> DEFINE code == Code(mod, pc.fn)
           p == TrackedLabel(depth)
           k == Len(labelMap) - depth
<1>1. /\ pc.at \in 1 .. Len(code) /\ Structured(code) /\ Len(labelMap) \in Nat /\ labelMap \in Seq(Nat)
      /\ labelCount = Len(labelMap) /\ Nesting(code, pc.at) = Len(labelMap)
      /\ Nest(mod, pc, stack, labelMap)
      /\ \A i, j \in 1 .. Len(labelMap) : i < j => labelMap[i] < labelMap[j]
  BY ReadyFacts
<1>2. k \in 1 .. Len(labelMap) /\ k \in Nat /\ depth \in 0 .. Len(labelMap) - 1
      /\ depth = Nesting(code, pc.at) - k
  BY <1>1
<1>3. Nest(mod, pc, s, labelMap) /\ s \in Seq(FramesOf(s))
  BY <1>1, NestCarried DEF Settled, Moved, Good, Framed
<1>4. p = labelMap[k]
  BY DEF TrackedLabel
<1> HIDE DEF k, p
<1>5. p \in 1 .. Len(s) /\ s[p].kind = "label" /\ Stands(code, pc, s[p], k)
  BY <1>2, <1>3, <1>4 DEF Nest, LabelsIn
<1>6. PICK o, e : /\ Encloses(code, o, e, pc.at, k)
                  /\ s[p].arity = BlockArity(code[o].t)
                  /\ s[p].cont = IF code[o].op = "loop" THEN At(pc.fn, o) ELSE At(pc.fn, e + 1)
  BY <1>5 DEF Stands
<1>7. Enclosing(code, pc.at, depth) = o /\ ClosingEnd(code, o + 1) = e
  <2>1. depth \in Int /\ Encloses(code, o, e, pc.at, k)
    BY <1>6
  <2> HIDE DEF code
  <2> QED BY <1>1, <1>2, <2>1, EnclosingIs
<1>8. o \in 1 .. Len(code)
  <2>1. Len(code) \in Nat
    BY <1>1, BodyNested
  <2> QED BY <1>1, <1>6, <2>1 DEF Encloses
<1>9. Wasm!Label(BareOf(s), depth) = p
  <2>1. Wasm!Label(BareOf(s), depth) = labelMap[Len(labelMap) - depth]
    BY <1>1, <1>2, <1>3, BareLabel
  <2> QED BY <1>4, <2>1 DEF k
<1> QED BY <1>4, <1>5, <1>6, <1>7, <1>8, <1>9 DEF k, p

\* The activations are below the labels that are counted.
LEMMA ActivsBelow ==
  ASSUME EngineInv, Running, NEW i \in 1 .. Len(activMap)
  PROVE  activMap[i] \in 1 .. Len(stack) /\ TopActiv \in 1 .. Len(stack) /\ activMap[i] <= TopActiv
<1> DEFINE n == Len(activMap)
<1>1. /\ n \in Nat /\ n >= 1
      /\ \A j \in 1 .. n : activMap[j] \in 1 .. Len(stack)
      /\ \A j, l \in 1 .. n : j < l => activMap[j] < activMap[l]
  BY TrackedFrames
<1>2. n \in 1 .. n /\ TopActiv = activMap[n]
  BY <1>1 DEF TopActiv
<1>3. activMap[i] \in 1 .. Len(stack) /\ activMap[n] \in 1 .. Len(stack)
  BY <1>1, <1>2
<1>4. i < n \/ i = n
  BY <1>1
<1> HIDE DEF n
<1> QED BY <1>1, <1>2, <1>3, <1>4

LEMMA BlockLeft ==
  ASSUME Ready, Instr.op \notin Openers \cup {"return"}, NEW s, Settled(s),
         NEW depth \in Nat, depth < labelCount, Instr.op = "end" => depth = 0,
         NEW o, NEW e, Encloses(Code(mod, pc.fn), o, e, pc.at, Len(labelMap) - depth),
         TrackedLabel(depth) = labelMap[Len(labelMap) - depth],
         TrackedLabel(depth) \in 1 .. Len(s), s[TrackedLabel(depth)].kind = "label",
         NEW arity, s[TrackedLabel(depth)].arity = arity, NEW T, arity \in Seq(T), Len(arity) <= 1,
         RetFromLabel(s, depth), NEW q, q.fn = pc.fn, q.at = o \/ q.at = e + 1, Dispatch(q),
         globals' = globals, status' = status
  PROVE  /\ NestInv' /\ RangeInv'
         /\ Goes(Wasm!Unwind(BareOf(s), TrackedLabel(depth), arity), q)
         /\ Wasm!Operands(BareOf(s), arity)
<1> DEFINE code == Code(mod, pc.fn)
           p == TrackedLabel(depth)
           k == Len(labelMap) - depth
           u == EraseRange(s, p, Len(arity))
           lm == DropTop(labelMap, depth + 1)
<1>1. /\ EngineInv /\ NestInv /\ outcome = "running" /\ status = "EXECUTING" /\ Running
      /\ result = <<>> /\ CallersOutside(mod, stack, activMap) /\ stack[activMap[1]].cont = At(0, 2)
  BY DEF Ready, AtWork, NestInv
<1>2. /\ pc.at \in 1 .. Len(code) /\ Structured(code) /\ Len(labelMap) \in Nat /\ labelMap \in Seq(Nat)
      /\ labelCount = Len(labelMap) /\ Nest(mod, pc, stack, labelMap)
      /\ \A i, j \in 1 .. Len(labelMap) : i < j => labelMap[i] < labelMap[j]
      /\ \A j \in 1 .. Len(labelMap) : CountedLabel(j) = labelMap[j]
  BY ReadyFacts
<1>3. /\ stack' = u /\ labelMap' = lm /\ labelCount' = labelCount - (depth + 1) /\ activMap' = activMap
      /\ ArityHolds(s, arity)
  BY DEF RetFromLabel
<1>4. /\ mod' = mod /\ pc' = q /\ result' = result /\ outcome' = "running" /\ status' = "EXECUTING"
  BY <1>1 DEF Dispatch
<1>5. Good(s) /\ RangeIn(s) /\ Nest(mod, pc, s, labelMap)
  BY <1>2, NestCarried DEF Settled, Moved
<1> HIDE DEF p
<1>6. p \in 1 .. Len(s) /\ s[p].kind # "value" /\ p = labelMap[k]
  BY DEF p
<1>7. /\ \A x \in 1 .. p - 1 : u[x] = s[x]
      /\ RangeIn(u) /\ LabelsIn(u) = {x \in LabelsIn(s) : x < p}
      /\ \A x \in LabelsIn(u) : x \in 1 .. p - 1 /\ u[x] = s[x]
      /\ BareOf(u) = Wasm!Unwind(BareOf(s), p, arity) /\ Wasm!Operands(BareOf(s), arity)
  <2>1. u = EraseRange(s, p, Len(arity))
    OBVIOUS
  <2>2. Good(s) /\ RangeIn(s) /\ ArityHolds(s, arity) /\ arity \in Seq(T) /\ Len(arity) <= 1
    BY <1>3, <1>5
  <2>3. p \in 1 .. Len(s) /\ s[p].kind # "value"
    BY <1>6
  <2> HIDE DEF u, lm, k, code
  <2>4. \A x \in 1 .. p - 1 : u[x] = s[x]
    BY <2>1, <2>2, <2>3, Unwound
  <2>5. RangeIn(u)
    BY <2>1, <2>2, <2>3, Unwound
  <2>6. BareOf(u) = Wasm!Unwind(BareOf(s), p, arity) /\ Wasm!Operands(BareOf(s), arity)
    BY <2>1, <2>2, <2>3, Unwound
  <2>7. \A x \in LabelsIn(u) : x \in 1 .. p - 1 /\ u[x] = s[x]
    BY <2>1, <2>2, <2>3, Unwound
  <2>8. \A x : x \in LabelsIn(u) <=> x \in LabelsIn(s) /\ x < p
    BY <2>1, <2>2, <2>3, Unwound
  <2>9. LabelsIn(u) = {x \in LabelsIn(s) : x < p}
    BY <2>8
  <2> QED BY <2>4, <2>5, <2>6, <2>7, <2>9
<1> HIDE DEF u
<1>8. Nest(mod, q, u, lm)
  <2>1. k \in 1 .. Len(labelMap) /\ Len(labelMap) - k + 1 = depth + 1
    BY <1>2
  <2>2. LabelsIn(u) = {x \in LabelsIn(s) : x < labelMap[k]}
    BY <1>6, <1>7
  <2>3. Encloses(code, o, e, pc.at, k)
    OBVIOUS
  <2>4. pc.at \in 1 .. Len(code) /\ Structured(code) /\ labelMap \in Seq(Nat)
        /\ \A i, j \in 1 .. Len(labelMap) : i < j => labelMap[i] < labelMap[j]
    BY <1>2
  <2>6. \A x \in LabelsIn(u) : u[x] = s[x]
    BY <1>7
  <2> HIDE DEF k
  <2>5. Nest(mod, q, u, DropTop(labelMap, Len(labelMap) - k + 1))
    BY ZenonT(40), <1>5, <2>1, <2>2, <2>3, <2>4, <2>6, NestLeft
  <2> QED BY <2>1, <2>5
<1>9. Len(lm) = labelCount - (depth + 1)
  <2>1. depth + 1 \in 0 .. Len(labelMap)
    BY <1>2
  <2>2. Len(lm) = Len(labelMap) - (depth + 1)
    BY <1>2, <2>1, DropTopKeeps
  <2> QED BY <1>2, <2>2
<1>10. \A i \in 1 .. Len(activMap) : u[activMap[i]].cont = stack[activMap[i]].cont
  <2>1. SUFFICES ASSUME NEW i \in 1 .. Len(activMap) PROVE u[activMap[i]] = stack[activMap[i]]
    OBVIOUS
  <2>2. s[activMap[i]] = stack[activMap[i]]
    BY <1>1, MovedFrames DEF Settled
  <2>3. activMap[i] \in 1 .. Len(stack) /\ activMap[i] <= TopActiv
    BY <1>1, ActivsBelow
  <2>4. TopActiv < p /\ TopActiv \in Int
    <3>1. k \in 1 .. labelCount /\ CountedLabel(k) = p
      BY SMTT(30), <1>2, <1>6
    <3>2. TopActiv \in Int
      BY <1>1, ActivsBelow
    <3> QED BY <1>1, <3>1, <3>2, TrackedFrames
  <2>5. activMap[i] \in 1 .. p - 1
    BY <1>6, <2>3, <2>4
  <2> QED BY <1>7, <2>2, <2>5
<1>11. CallersOutside(mod, u, activMap) /\ (Running => u[activMap[1]].cont = At(0, 2))
  BY <1>1, <1>10, CallersCarried
<1> HIDE DEF lm
<1>12. NestInv'
  BY <1>1, <1>3, <1>4, <1>8, <1>9, <1>11 DEF NestInv, Running
<1>13. RangeInv'
  <2>1. (\E S : globals \in Seq(S)) /\ \A i \in 1 .. Len(globals) : InRange(globals[i])
    BY DEF Ready, RangeInv
  <2> QED BY <1>3, <1>7, <2>1 DEF RangeInv
<1>14. Goes(BareOf(u), q)
  BY <1>1, <1>3, <1>4 DEF Goes, BareOf, Bare
<1> QED BY <1>7, <1>12, <1>13, <1>14 DEF p

\* The innermost block around an `end` is the one it closes.
LEMMA EndCloses ==
  ASSUME NEW code, Structured(code), NEW at \in 1 .. Len(code), code[at].op = "end",
         NEW o, NEW e, Encloses(code, o, e, at, Nesting(code, at))
  PROVE  e = at
<1> DEFINE N(k) == Nesting(code, k)
<1>1. Len(code) \in Nat /\ N(at) \in Nat
  BY BodyNested
<1>2. /\ o \in 1 .. at - 1 /\ N(o) = N(at) - 1 /\ e \in o + 1 .. Len(code) - 1 /\ e >= at
      /\ \A k \in o + 1 .. e : N(k) >= N(o) + 1
  BY DEF Encloses, Closes
<1>3. N(at + 1) = N(at) - 1
  <2>1. at \in Nat \ {0}
    OBVIOUS
  <2>2. Nesting(code, at + 1) = Nesting(code, at) + Change(code[at].op)
    BY <2>1, NestingStep
  <2>3. Change(code[at].op) = -1
    BY DEF Change, Openers
  <2> QED BY <1>1, <2>2, <2>3
<1> HIDE DEF N
<1>4. SUFFICES ASSUME e # at PROVE FALSE
  OBVIOUS
<1>5. at + 1 \in o + 1 .. e
  BY <1>1, <1>2, <1>4
<1> QED BY <1>1, <1>2, <1>3, <1>5

\* The one around an `else` is an `if`.
LEMMA ElseInIf ==
  ASSUME NEW code, Structured(code), NEW at \in 1 .. Len(code), code[at].op = "else",
         NEW o, NEW e, Encloses(code, o, e, at, Nesting(code, at))
  PROVE  code[o].op = "if"
<1>1. Len(code) \in Nat /\ Nesting(code, at) \in Nat
  BY BodyNested
<1>2. PICK a \in 1 .. at - 1 : code[a].op = "if" /\ OwnElses(code, a + 1) = {at}
  BY DEF Structured, WellNested
<1>3. a \in 1 .. Len(code) /\ code[a].op \in Openers
  BY <1>1, <1>2 DEF Openers
<1>4. PICK f : Closes(code, a, f)
  BY <1>3, BlockCloses
<1>5. at \in a + 1 .. f /\ Nesting(code, at) = Nesting(code, a) + 1 /\ Nesting(code, a) \in Nat
  <2>1. /\ OwnElses(code, a + 1) =
             {k \in a + 1 .. f : code[k].op = "else" /\ Nesting(code, k) = Nesting(code, a) + 1}
        /\ Nesting(code, a) \in Nat
    BY <1>3, <1>4, OwnElsesAre
  <2>2. at \in OwnElses(code, a + 1)
    BY <1>2
  <2> QED BY <2>1, <2>2
<1>6. Encloses(code, a, f, at, Nesting(code, at))
  <2>1. f >= at /\ Nesting(code, a) = Nesting(code, at) - 1
    BY <1>4, <1>5 DEF Closes
  <2> QED BY <1>2, <1>3, <1>4, <2>1 DEF Encloses
<1> DEFINE d == 0
           j == Nesting(code, at)
<1>7. d \in Int /\ d = Nesting(code, at) - j /\ j \in Nat
  BY <1>1
<1>8. Encloses(code, o, e, at, j) /\ Encloses(code, a, f, at, j)
  BY <1>6
<1> HIDE DEF d, j
<1>9. Enclosing(code, at, d) = o
  BY <1>7, <1>8, EnclosingIs
<1>10. Enclosing(code, at, d) = a
  BY <1>7, <1>8, EnclosingIs
<1> QED BY <1>2, <1>9, <1>10

\* A branch to a label, or the end of a block.
LEMMA BranchWithin ==
  ASSUME Ready, Instr.op \notin Openers \cup {"return"}, NEW s, Settled(s),
         NEW depth \in Nat, depth < labelCount, BranchTo(s, depth),
         Instr.op \in {"end", "else"} => depth = 0, ReadEndByte => Instr.op = "end"
  PROVE  LET code == Code(mod, pc.fn)
             o == Enclosing(code, pc.at, depth)
             arity == BlockArity(code[o].t)
             p == Wasm!Label(BareOf(s), depth)
         IN  /\ NestInv' /\ RangeInv'
             /\ o \in 1 .. Len(code) /\ (Instr.op = "else" => code[o].op = "if")
             /\ Wasm!Operands(BareOf(s), arity) =>
                  \E q : /\ q = At(pc.fn, IF Instr.op # "end" /\ code[o].op = "loop" THEN o
                                          ELSE ClosingEnd(code, o + 1) + 1)
                         /\ Goes(Wasm!Unwind(BareOf(s), p, arity), q)
             /\ ~Wasm!Operands(BareOf(s), arity) => Wasm!Undefined
<1> DEFINE code == Code(mod, pc.fn)
           p == TrackedLabel(depth)
           k == Len(labelMap) - depth
<1>1. PICK o, e :
         /\ Encloses(code, o, e, pc.at, k)
         /\ Enclosing(code, pc.at, depth) = o /\ ClosingEnd(code, o + 1) = e
         /\ o \in 1 .. Len(code)
         /\ p = labelMap[k] /\ p \in 1 .. Len(s)
         /\ s[p].kind = "label" /\ Wasm!Label(BareOf(s), depth) = p
         /\ s[p].arity = BlockArity(code[o].t)
         /\ s[p].cont = IF code[o].op = "loop" THEN At(pc.fn, o) ELSE At(pc.fn, e + 1)
  BY LabelFacts
<1> DEFINE arity == BlockArity(code[o].t)
           T == {code[o].t}
           q == IF ReadEndByte THEN After ELSE s[p].cont
<1>2. arity \in Seq(T) /\ Len(arity) <= 1 /\ s[p].arity = arity
  <2>1. code[o].t \in T
    OBVIOUS
  <2> HIDE DEF T, code
  <2>2. arity \in Seq(T) /\ Len(arity) <= 1
    BY <2>1, BlockArityIs
  <2>3. s[p].arity = arity
    BY <1>1
  <2> HIDE DEF arity, p
  <2> QED BY <2>2, <2>3
<1>3. /\ pc.at \in 1 .. Len(code) /\ Structured(code) /\ Len(labelMap) \in Nat
      /\ labelCount = Len(labelMap) /\ Nesting(code, pc.at) = Len(labelMap)
      /\ Instr = code[pc.at] /\ NestInv /\ RangeInv
  BY ReadyFacts DEF Ready
<1>4. Instr.op \in {"end", "else"} => Encloses(code, o, e, pc.at, Nesting(code, pc.at))
  BY <1>1, <1>3
<1>5. Instr.op = "else" => code[o].op = "if"
  <2> HIDE DEF code
  <2> QED BY <1>3, <1>4, ElseInIf
<1>6. Instr.op = "end" => After = At(pc.fn, e + 1)
  <2>1. Instr.op = "end" => e = pc.at
    <3> HIDE DEF code
    <3> QED BY <1>3, <1>4, EndCloses
  <2> QED BY <2>1 DEF After
<1>7. q = At(pc.fn, IF Instr.op # "end" /\ code[o].op = "loop" THEN o ELSE e + 1)
  <2>1. ReadEndByte <=> Instr.op = "end"
    BY DEF ReadEndByte
  <2>2. CASE Instr.op = "end"
    BY <1>6, <2>1, <2>2
  <2>3. CASE Instr.op # "end"
    BY <1>1, <2>1, <2>3
  <2> QED BY <2>2, <2>3
<1>8. q.fn = pc.fn /\ (q.at = o \/ q.at = e + 1)
  BY <1>7 DEF At
<1>9. Wasm!Operands(BareOf(s), arity) <=> ArityHolds(s, arity)
  <2>1. s \in Seq(FramesOf(s))
    BY DEF Settled, Moved, Good, Framed
  <2> HIDE DEF arity, T
  <2> QED BY <1>2, <2>1, BareArity
<1>10. ~(labelCount = depth) /\ ~(labelCount < depth)
  BY <1>3
<1> HIDE DEF q, k
<1>11. CASE ArityHolds(s, arity)
  <2>1. ~ArityFails(s, s[p].arity)
    BY <1>2, <1>11 DEF ArityFails
  <2>2. RetFromLabel(s, depth) /\ globals' = globals /\ status' = status /\ Dispatch(q)
    BY <1>10, <2>1 DEF BranchTo, q
  <2>3. Encloses(Code(mod, pc.fn), o, e, pc.at, Len(labelMap) - depth)
        /\ TrackedLabel(depth) = labelMap[Len(labelMap) - depth]
        /\ TrackedLabel(depth) \in 1 .. Len(s) /\ s[TrackedLabel(depth)].kind = "label"
        /\ s[TrackedLabel(depth)].arity = arity
    BY <1>1, <1>2 DEF k
  <2> HIDE DEF arity, T, p, code
  <2>4. /\ NestInv' /\ RangeInv'
        /\ Goes(Wasm!Unwind(BareOf(s), TrackedLabel(depth), arity), q)
    BY <1>2, <1>8, <2>2, <2>3, BlockLeft
  <2>5. Goes(Wasm!Unwind(BareOf(s), Wasm!Label(BareOf(s), depth), arity), q)
    BY <1>1, <2>4 DEF p
  <2>6. Wasm!Operands(BareOf(s), arity)
    BY <1>9, <1>11
  <2> QED BY <1>1, <1>5, <1>7, <2>4, <2>5, <2>6 DEF arity, code
<1>12. CASE ~ArityHolds(s, arity)
  <2>1. ArityFails(s, arity)
    <3>1. ~RetFromLabel(s, depth)
      BY <1>2, <1>12 DEF RetFromLabel
    <3> QED BY <1>2, <1>10, <3>1 DEF BranchTo
  <2> DEFINE error == IF ValuesOnTop(s, Len(arity)) THEN "ARITY_TYPE_MISMATCH"
                      ELSE "STACK_VAL_TYPE_MISMATCH"
  <2>2. Halt(error)
    BY <2>1 DEF ArityFails
  <2>3. error \notin {"running", "stopped"}
    OBVIOUS
  <2> HIDE DEF error, arity
  <2>4. NestInv' /\ RangeInv' /\ Wasm!Undefined
    BY <1>3, <2>2, <2>3, HaltRefines
  <2>5. ~Wasm!Operands(BareOf(s), arity)
    BY <1>9, <1>12
  <2> QED BY <1>1, <1>5, <2>4, <2>5 DEF arity
<1> QED BY <1>11, <1>12

-----------------------------------------------------------------------------
(* Returns.                                                                *)

\* The signature of a function of a conforming module.
LEMMA SmallType ==
  ASSUME mod \in Modules, Conforming(mod), NEW idx \in Nat, idx < Len(mod.funcs)
  PROVE  LET type == FuncType(mod, idx) IN
         /\ type.params \in Seq(STRING) /\ Len(type.params) \in Nat /\ Len(type.params) <= 1
         /\ type.results \in Seq(STRING) /\ Len(type.results) \in Nat /\ Len(type.results) <= 1
<1>1. idx + 1 \in 1 .. Len(mod.funcs)
      /\ FuncType(mod, idx).params \in Seq(STRING) /\ FuncType(mod, idx).results \in Seq(STRING)
  BY FuncFacts
<1>2. mod.funcs[idx + 1].type \in 0 .. Len(mod.types) - 1 /\ Len(mod.types) \in Nat
  <2>1. Startable(mod)
    BY ModulesAssumption
  <2> QED BY <1>1, <2>1 DEF Startable
<1>3. mod.funcs[idx + 1].type + 1 \in 1 .. Len(mod.types)
  BY <1>2
<1>4. Len(FuncType(mod, idx).params) <= 1 /\ Len(FuncType(mod, idx).results) <= 1
  BY <1>3 DEF Conforming, FuncType
<1>5. \A x : x \in Seq(STRING) => Len(x) \in Nat
  OBVIOUS
<1> QED BY <1>1, <1>4, <1>5

\* The running activation.
LEMMA RunningActiv ==
  ASSUME Ready
  PROVE  LET n == Len(activMap)
             f == stack[TopActiv]
         IN  /\ n \in 1 .. n /\ n \in Nat /\ n >= 1 /\ TopActiv = activMap[n]
             /\ TopActiv = 1 <=> n = 1
             /\ f.arity \in Seq(STRING) /\ Len(f.arity) \in Nat /\ Len(f.arity) <= 1
             /\ f.arity = FuncType(mod, pc.fn - 1).results
             /\ pc.fn - 1 \in Nat /\ pc.fn - 1 < Len(mod.funcs)
<1> DEFINE n == Len(activMap)
<1>1. AtWork /\ EngineInv /\ Running /\ ActivsOK(mod, pc.fn, stack, activMap) /\ mod \in Modules
      /\ activMap[1] = 1 /\ Conforming(mod)
  BY DEF Ready, AtWork, ControlInv, EngineInv, EntryAtBottom
<1>2. n \in Nat /\ n >= 1 /\ TopActiv = activMap[n]
      /\ \A i, j \in 1 .. n : i < j => activMap[i] < activMap[j]
  BY <1>1, TrackedFrames DEF TopActiv
<1>3. pc.fn \in 1 .. Len(mod.funcs) /\ Len(mod.funcs) \in Nat
  <2>1. pc.fn \in 1 .. Len(mod.funcs) /\ Startable(mod)
    BY <1>1, InstrFacts, ModulesAssumption
  <2> QED BY <2>1 DEF Startable
<1>4. pc.fn - 1 \in Nat /\ pc.fn - 1 < Len(mod.funcs)
  BY <1>3
<1> HIDE DEF n
<1>5. n \in 1 .. n /\ n - 1 \in Int
  BY <1>2
<1>6. ActivOK(mod, stack[activMap[n]], FnAt(pc.fn, stack, activMap, n - 1),
              FnAt(pc.fn, stack, activMap, n))
  BY <1>1, <1>5 DEF ActivsOK, n
<1>7. FnAt(pc.fn, stack, activMap, n) = pc.fn
  BY <1>2 DEF FnAt, n
<1>8. stack[TopActiv].arity = FuncType(mod, pc.fn - 1).results
  BY <1>2, <1>6, <1>7 DEF ActivOK
<1>9. TopActiv = 1 <=> n = 1
  <2>1. CASE n = 1
    BY <1>1, <1>2, <2>1
  <2>2. CASE n # 1
    <3>1. 1 \in 1 .. n /\ 1 < n
      BY <1>2, <2>2
    <3>2. activMap[1] < activMap[n]
      BY <1>2, <1>5, <3>1
    <3>3. TopActiv # 1
      BY <1>1, <1>2, <3>2
    <3> QED BY <2>2, <3>3
  <2> QED BY <2>1, <2>2
<1>10. LET type == FuncType(mod, pc.fn - 1) IN
         type.results \in Seq(STRING) /\ Len(type.results) \in Nat /\ Len(type.results) <= 1
  BY <1>1, <1>4, SmallType
<1> QED BY <1>2, <1>4, <1>5, <1>8, <1>9, <1>10 DEF n

\* Every label is above the running activation.
LEMMA NoLabelBelow ==
  ASSUME Ready, NEW s, Settled(s), NEW x \in LabelsIn(s)
  PROVE  ~(x < TopActiv)
<1>1. /\ Nest(mod, pc, stack, labelMap) /\ labelCount = Len(labelMap)
      /\ \A j \in 1 .. Len(labelMap) : CountedLabel(j) = labelMap[j]
  BY ReadyFacts
<1>2. Nest(mod, pc, s, labelMap)
  BY <1>1, NestCarried DEF Settled
<1>3. PICK j \in 1 .. Len(labelMap) : labelMap[j] = x
  BY <1>2 DEF Nest
<1>4. TopActiv < x
  BY <1>1, <1>3, TrackedFrames DEF Ready, AtWork
<1>5. TopActiv \in Int /\ x \in Int
  BY ReadyStack DEF LabelsIn
<1> QED BY <1>4, <1>5

\* The end of the entry function.
LEMMA StopRefines ==
  ASSUME Ready, Instr.op \in {"end", "return"}, NEW s, Settled(s), TopActiv = 1,
         KeepFrames(s), status' = "STOPPED", Dispatch(After), globals' = globals
  PROVE  NestInv' /\ RangeInv' /\ Wasm!FinishFunction(BareOf(s))
<1>1. /\ EngineInv /\ NestInv /\ outcome = "running" /\ Running /\ MapsOK /\ result = <<>>
      /\ CallersOutside(mod, stack, activMap) /\ stack[activMap[1]].cont = At(0, 2)
  BY DEF Ready, AtWork, NestInv, EngineInv
<1>2. /\ stack' = s /\ labelMap' = labelMap /\ activMap' = activMap /\ labelCount' = labelCount
      /\ pc' = After /\ mod' = mod /\ result' = result /\ outcome' = "stopped"
  BY DEF KeepFrames, trackVars, Dispatch
<1>3. Placed(s) /\ Good(s) /\ RangeIn(s)
  BY SettledPlaced DEF Settled, Moved
<1>4. CallersOutside(mod, s, activMap) /\ (Running => s[activMap[1]].cont = At(0, 2))
  BY <1>1, <1>3, CallersCarried DEF Placed
<1>5. NestInv'
  BY <1>1, <1>2, <1>4 DEF NestInv, Running, TopActiv
<1>6. RangeInv'
  <2>1. (\E S : globals \in Seq(S)) /\ \A i \in 1 .. Len(globals) : InRange(globals[i])
    BY DEF Ready, RangeInv
  <2> QED BY <1>2, <1>3, <2>1 DEF RangeInv
<1>7. Wasm!Current(BareOf(s)) = 1
  BY <1>1, <1>3, BareCurrent
<1>8. Wasm!next = After
  BY WasmInstr
<1> QED BY <1>2, <1>5, <1>6, <1>7, <1>8 DEF Wasm!FinishFunction, BareOf, Bare

\* A function left with the results its type lists.
LEMMA ReturnRefines ==
  ASSUME Ready, NEW s, Settled(s), TopActiv # 1, RetFromActiv(s, labelCount),
         Dispatch(s[TopActiv].cont), globals' = globals, status' = status
  PROVE  NestInv' /\ RangeInv' /\ Wasm!FinishFunction(BareOf(s))
<1> DEFINE p == TopActiv
           f == stack[TopActiv]
           arity == f.arity
           u == EraseRange(s, p, Len(arity))
           am == DropTop(activMap, 1)
           n == Len(activMap)
<1>1. /\ EngineInv /\ NestInv /\ outcome = "running" /\ status = "EXECUTING" /\ Running
      /\ result = <<>> /\ CallersOutside(mod, stack, activMap) /\ stack[activMap[1]].cont = At(0, 2)
      /\ activMap \in Seq(Nat \ {0}) /\ labelMap \in Seq(Nat) /\ MapsOK
      /\ Len(labelMap) \in Nat /\ labelCount = Len(labelMap)
  BY ReadyFacts DEF Ready, AtWork, NestInv, EngineInv, MapsOK
<1>2. /\ n \in 1 .. n /\ n \in Nat /\ n >= 1 /\ p = activMap[n] /\ n # 1
      /\ arity \in Seq(STRING) /\ Len(arity) <= 1
  BY RunningActiv
<1>3. /\ Good(s) /\ RangeIn(s) /\ s[p] = f /\ p \in 1 .. Len(s) /\ s[p].kind = "activ"
      /\ BareOf(s)[p] = s[p] /\ Wasm!Current(BareOf(s)) = p
      /\ \A i \in 1 .. n : s[activMap[i]] = stack[activMap[i]]
  <2>1. \A i \in 1 .. Len(activMap) : s[activMap[i]] = stack[activMap[i]]
    BY <1>1, MovedFrames DEF Settled
  <2>2. Good(s) /\ RangeIn(s)
    BY DEF Settled, Moved
  <2>3. s[p] = f
    BY <1>2, <2>1
  <2> QED BY <1>1, <2>1, <2>2, <2>3, BareCurrent
<1>4. /\ stack' = u /\ activMap' = am /\ labelCount' = labelCount - labelCount
      /\ labelMap' = DropTop(labelMap, labelCount) /\ ArityHolds(s, arity)
      /\ mod' = mod /\ pc' = f.cont /\ result' = result /\ outcome' = "running" /\ status' = "EXECUTING"
  BY <1>1, <1>3 DEF RetFromActiv, Dispatch
<1>5. labelCount' = 0 /\ Len(labelMap') = 0
  <2>1. labelCount \in 0 .. Len(labelMap) /\ Len(labelMap) - labelCount = 0
    BY <1>1
  <2>2. Len(DropTop(labelMap, labelCount)) = Len(labelMap) - labelCount
    BY <1>1, <2>1, DropTopKeeps
  <2> QED BY <1>1, <1>4, <2>1, <2>2
<1>6. /\ \A x \in 1 .. p - 1 : u[x] = s[x]
      /\ RangeIn(u) /\ LabelsIn(u) = {}
      /\ BareOf(u) = Wasm!Unwind(BareOf(s), p, arity) /\ Wasm!Operands(BareOf(s), arity)
  <2>1. u = EraseRange(s, p, Len(arity))
    OBVIOUS
  <2>2. Good(s) /\ RangeIn(s) /\ ArityHolds(s, arity) /\ arity \in Seq(STRING) /\ Len(arity) <= 1
    BY <1>2, <1>3, <1>4
  <2>3. p \in 1 .. Len(s) /\ s[p].kind # "value"
    BY <1>3
  <2>10. \A x \in LabelsIn(s) : ~(x < p)
    BY NoLabelBelow
  <2> HIDE DEF u, arity, p, f
  <2>4. \A x \in 1 .. p - 1 : u[x] = s[x]
    BY <2>1, <2>2, <2>3, Unwound
  <2>5. RangeIn(u)
    BY <2>1, <2>2, <2>3, Unwound
  <2>6. BareOf(u) = Wasm!Unwind(BareOf(s), p, arity) /\ Wasm!Operands(BareOf(s), arity)
    BY <2>1, <2>2, <2>3, Unwound
  <2>7. \A x : x \in LabelsIn(u) <=> x \in LabelsIn(s) /\ x < p
    BY <2>1, <2>2, <2>3, Unwound
  <2>8. LabelsIn(u) = {}
    BY <2>7, <2>10
  <2> QED BY <2>4, <2>5, <2>6, <2>8
<1>7. Len(am) = n - 1 /\ \A i \in 1 .. n - 1 : am[i] = activMap[i]
  <2>1. 1 \in 0 .. Len(activMap)
    BY <1>2
  <2> HIDE DEF n
  <2>2. /\ Len(am) = Len(activMap) - 1
        /\ \A i \in 1 .. Len(activMap) - 1 : am[i] = activMap[i]
    BY <1>1, <2>1, DropTopKeeps
  <2> QED BY <2>2 DEF n
<1>8. \A i \in 1 .. n - 1 : u[am[i]] = stack[activMap[i]]
  <2> SUFFICES ASSUME NEW i \in 1 .. n - 1
               PROVE  u[am[i]] = stack[activMap[i]]
    OBVIOUS
  <2>1. i \in 1 .. n /\ i < n
    BY <1>2
  <2>2. activMap[i] \in 1 .. Len(stack) /\ activMap[i] < activMap[n]
    BY <1>1, <1>2, <2>1, TrackedFrames
  <2>3. activMap[i] \in 1 .. p - 1
    BY <1>2, <1>3, <2>2
  <2> QED BY <1>3, <1>6, <1>7, <2>1, <2>3
<1> HIDE DEF am, u, p
<1>9. Nesting(Code(mod, f.cont.fn), f.cont.at) = 0
  <2>1. n \in 2 .. n
    <3> HIDE DEF n
    <3> QED BY <1>2
  <2> QED BY <1>1, <1>2, <2>1 DEF CallersOutside, p
<1>10. Nest(mod, f.cont, u, labelMap')
  BY <1>5, <1>6, <1>9 DEF Nest
<1>11. CallersOutside(mod, u, am) /\ u[am[1]].cont = At(0, 2)
  <2>1. 1 \in 1 .. n - 1 /\ \A i \in 2 .. n - 1 : i \in 1 .. n - 1 /\ i \in 2 .. n
    <3> HIDE DEF n
    <3> QED BY <1>2
  <2>2. u[am[1]].cont = At(0, 2)
    BY <1>1, <1>8, <2>1
  <2> QED BY <1>1, <1>7, <1>8, <2>1, <2>2 DEF CallersOutside
<1>12. NestInv'
  BY <1>1, <1>4, <1>5, <1>10, <1>11 DEF NestInv, Running
<1>13. RangeInv'
  <2>1. (\E S : globals \in Seq(S)) /\ \A i \in 1 .. Len(globals) : InRange(globals[i])
    BY DEF Ready, RangeInv
  <2> QED BY <1>4, <1>6, <2>1 DEF RangeInv
<1>14. Wasm!FinishFunction(BareOf(s))
  <2>1. Goes(BareOf(u), f.cont)
    BY <1>1, <1>4 DEF Goes, BareOf, Bare
  <2>2. p # 1
    BY DEF p
  <2> DEFINE fs == BareOf(s)
  <2>3. fs[p].arity = arity /\ fs[p].cont = f.cont /\ Wasm!Current(fs) = p
    BY <1>3
  <2>4. Goes(Wasm!Unwind(fs, p, arity), f.cont) /\ Wasm!Operands(fs, arity)
    BY <1>6, <2>1
  <2> HIDE DEF arity, f, fs
  <2>5. Wasm!FinishFunction(fs)
    BY <2>2, <2>3, <2>4 DEF Wasm!FinishFunction, Goes, Wasm!Reduce, BareOf, Bare
  <2> QED BY <2>5 DEF fs
<1> QED BY <1>12, <1>13, <1>14

\* doReturn.
LEMMA FinishRefines ==
  ASSUME Ready, NEW s, Settled(s), ReturnWith(s, labelCount),
         TopActiv = 1 => Instr.op \in {"end", "return"}
  PROVE  NestInv' /\ RangeInv' /\ Wasm!FinishFunction(BareOf(s))
<1>1. CASE TopActiv = 1
  BY <1>1, StopRefines DEF ReturnWith
<1>2. CASE TopActiv # 1 /\ RetFromActiv(s, labelCount) /\ UNCHANGED <<globals, contStore, status>>
           /\ Dispatch(s[TopActiv].cont)
  BY <1>2, ReturnRefines
<1>3. CASE TopActiv # 1 /\ ArityFails(s, s[TopActiv].arity)
  <2> DEFINE p == TopActiv
             arity == stack[TopActiv].arity
  <2>1. /\ Running /\ EngineInv /\ MapsOK /\ NestInv /\ RangeInv
    BY DEF Ready, AtWork, EngineInv
  <2>2. Len(activMap) \in 1 .. Len(activMap) /\ p = activMap[Len(activMap)]
        /\ arity \in Seq(STRING) /\ Len(arity) <= 1
    BY RunningActiv
  <2>3. s[p].arity = arity
    BY <2>1, <2>2, MovedFrames DEF Settled
  <2>4. Good(s) /\ s \in Seq(FramesOf(s))
    BY DEF Settled, Moved, Good, Framed
  <2>5. BareOf(s)[p] = s[p] /\ Wasm!Current(BareOf(s)) = p
    BY <2>1, <2>4, BareCurrent
  <2> HIDE DEF arity
  <2> DEFINE error == IF ValuesOnTop(s, Len(arity)) THEN "ARITY_TYPE_MISMATCH"
                      ELSE "STACK_VAL_TYPE_MISMATCH"
  <2>6. Halt(error) /\ ~ArityHolds(s, arity) /\ error \notin {"running", "stopped"}
    BY <1>3, <2>3 DEF ArityFails
  <2> HIDE DEF error
  <2>7. NestInv' /\ RangeInv' /\ Wasm!Undefined
    BY <2>1, <2>6, HaltRefines
  <2> DEFINE fs == BareOf(s)
  <2>8. ~Wasm!Operands(fs, arity)
    BY <2>2, <2>4, <2>6, BareArity
  <2>9. p # 1 /\ fs[p].arity = arity /\ Wasm!Current(fs) = p
    BY <1>3, <2>3, <2>5
  <2> HIDE DEF p, fs
  <2>10. Wasm!FinishFunction(fs)
    BY <2>7, <2>8, <2>9 DEF Wasm!FinishFunction, Wasm!Reduce
  <2> QED BY <2>7, <2>10 DEF fs
<1> QED BY <1>1, <1>2, <1>3 DEF ReturnWith

-----------------------------------------------------------------------------
(* Branches, and the ends of blocks and functions.                         *)

Branches == {"br", "br_if", "br_table"}

\* The activation at the bottom runs the entry function.
LEMMA EntryRuns ==
  ASSUME Ready, TopActiv = 1
  PROVE  pc.fn = mod.entry + 1
<1>1. /\ Running /\ ActivsOK(mod, pc.fn, stack, activMap)
      /\ stack[activMap[1]].cont = At(0, 2)
  BY DEF Ready, AtWork, ControlInv, NestInv
<1>2. Len(activMap) = 1
  BY <1>1, RunningActiv
<1>3. ActivOK(mod, stack[activMap[1]], FnAt(pc.fn, stack, activMap, 0), FnAt(pc.fn, stack, activMap, 1))
  <2>1. 1 \in 1 .. Len(activMap) /\ 1 - 1 = 0
    BY <1>2
  <2> QED BY <1>1, <2>1 DEF ActivsOK
<1>4. FnAt(pc.fn, stack, activMap, 0) = 0 /\ FnAt(pc.fn, stack, activMap, 1) = pc.fn
  BY <1>2 DEF FnAt
<1>5. Code(mod, 0)[1].op = "call" /\ Code(mod, 0)[1].n = mod.entry
  BY DEF Code, Ins
<1>6. stack[activMap[1]].cont.at - 1 = 1
  BY <1>1 DEF At
<1> QED BY <1>3, <1>4, <1>5, <1>6 DEF ActivOK

\* The depths a conforming module branches to.
LEMMA DepthFacts ==
  ASSUME Ready, Instr.op \in Branches, NEW depth \in Depths(Instr)
  PROVE  /\ depth \in Nat /\ ~ReadEndByte
         /\ TopActiv = 1 => depth < labelCount
         /\ depth < labelCount =>
              LET code == Code(mod, pc.fn)
                  o == Enclosing(code, pc.at, depth)
              IN  code[o].op = "loop" => code[o].t = "void"
<1> DEFINE code == Code(mod, pc.fn)
<1>1. /\ pc.fn \in 1 .. Len(mod.funcs) /\ pc.at \in 1 .. Len(code) /\ Structured(code)
      /\ code = mod.funcs[pc.fn].code /\ ConformingCode(code) /\ Instr = code[pc.at]
      /\ labelCount = Len(labelMap) /\ Nesting(code, pc.at) = Len(labelMap)
  BY ReadyFacts
<1>2. Conforming(mod)
  BY DEF Ready
<1> HIDE DEF code
<1>3. depth \in Nat
  <2>1. code[pc.at] \in [op : STRING, n : Int, t : STRING, e : Seq(Nat), last : Nat]
        /\ (code[pc.at].op # "const" => code[pc.at].n \in Nat)
    BY <1>1, ElementOfSeq DEF Structured
  <2>2. Instr.e \in Seq(Nat) /\ (Instr.op \in {"br", "br_if"} => Instr.n \in Nat)
    BY <1>1, <2>1
  <2>3. CASE Instr.op \in {"br", "br_if"}
    BY <2>2, <2>3 DEF Depths
  <2>4. CASE Instr.op \notin {"br", "br_if"}
    <3>1. PICK j \in DOMAIN Instr.e : depth = Instr.e[j]
      BY <2>4 DEF Depths, Branches
    <3> QED BY <2>2, <3>1
  <2> QED BY <2>3, <2>4
<1>4. ~ReadEndByte
  BY <1>1 DEF ReadEndByte, ConformingCode, Branches
<1>5. ASSUME TopActiv = 1 PROVE depth < labelCount
  <2>1. pc.fn = mod.entry + 1
    BY <1>5, EntryRuns
  <2>2. \A k \in 1 .. Len(code) : \A d \in Depths(code[k]) : d < Nesting(code, k)
    BY <1>1, <1>2, <2>1 DEF Conforming
  <2> QED BY <1>1, <2>2
<1>6. ASSUME depth < labelCount
      PROVE  LET o == Enclosing(code, pc.at, depth) IN code[o].op = "loop" => code[o].t = "void"
  BY <1>1, <1>6 DEF ConformingCode
<1> QED BY <1>3, <1>4, <1>5, <1>6 DEF code

LEMMA BranchOutRefines ==
  ASSUME Ready, Instr.op \in Branches, NEW s, Settled(s), NEW depth \in Depths(Instr),
         BranchTo(s, depth)
  PROVE  NestInv' /\ RangeInv' /\ Wasm!BranchOut(BareOf(s), depth)
<1> DEFINE code == Code(mod, pc.fn)
           o == Enclosing(code, pc.at, depth)
           fs == BareOf(s)
           p == Wasm!Label(fs, depth)
           carried == IF code[o].op = "loop" THEN <<>> ELSE BlockArity(code[o].t)
           target == IF code[o].op = "loop" THEN o ELSE ClosingEnd(code, o + 1) + 1
<1>1. /\ depth \in Nat /\ ~ReadEndByte
      /\ TopActiv = 1 => depth < labelCount
      /\ depth < labelCount => (code[o].op = "loop" => code[o].t = "void")
  BY DepthFacts
<1>2. Len(labelMap) \in Nat /\ labelCount = Len(labelMap) /\ Nesting(code, pc.at) = Len(labelMap)
      /\ NestInv /\ RangeInv
  BY ReadyFacts DEF Ready
<1>3. Wasm!Nesting(Wasm!code, pc.at) = labelCount
  BY <1>2, SameStructure, WasmInstr
<1>4. Instr.op \notin Openers \cup {"end", "else", "return"}
  BY DEF Branches, Openers
<1>5. CASE depth < labelCount
  <2>1. /\ NestInv' /\ RangeInv'
        /\ Wasm!Operands(BareOf(s), BlockArity(code[o].t)) =>
             \E q : /\ q = At(pc.fn, IF Instr.op # "end" /\ code[o].op = "loop" THEN o
                                     ELSE ClosingEnd(code, o + 1) + 1)
                    /\ Goes(Wasm!Unwind(BareOf(s), Wasm!Label(BareOf(s), depth), BlockArity(code[o].t)), q)
        /\ ~Wasm!Operands(BareOf(s), BlockArity(code[o].t)) => Wasm!Undefined
    BY <1>1, <1>4, <1>5, BranchWithin
  <2>2. carried = BlockArity(code[o].t)
    BY <1>1, <1>5 DEF BlockArity
  <2>3. At(pc.fn, IF Instr.op # "end" /\ code[o].op = "loop" THEN o ELSE ClosingEnd(code, o + 1) + 1)
          = At(pc.fn, target)
    BY <1>4
  <2>4. ~(depth >= labelCount)
    BY <1>1, <1>2, <1>5
  <2>5. /\ o = Wasm!Enclosing(Wasm!code, pc.at, depth)
        /\ carried = IF Wasm!code[o].op = "loop" THEN <<>> ELSE Wasm!BlockArity(Wasm!code[o].t)
        /\ target = IF Wasm!code[o].op = "loop" THEN o ELSE Wasm!ClosingEnd(Wasm!code, o + 1) + 1
        /\ At(pc.fn, target) = Wasm!At(pc.fn, target)
    BY SameStructure, WasmInstr
  <2> HIDE DEF carried, target, o, code, fs
  <2>6. /\ Wasm!Operands(fs, carried) => Goes(Wasm!Unwind(fs, p, carried), At(pc.fn, target))
        /\ ~Wasm!Operands(fs, carried) => Wasm!Undefined
    BY <2>1, <2>2, <2>3 DEF fs
  <2>7. Wasm!BranchOut(fs, depth)
    BY <1>3, <2>4, <2>5, <2>6 DEF Wasm!BranchOut, Goes, Wasm!Reduce, BareOf, Bare
  <2> QED BY <2>1, <2>7 DEF fs
<1>6. CASE depth = labelCount
  <2>1. ~(labelCount > depth) /\ ~(labelCount < depth) /\ depth >= labelCount
    BY <1>1, <1>2, <1>6
  <2>2. ReturnWith(s, labelCount)
    BY <1>6, <2>1 DEF BranchTo
  <2>3. TopActiv # 1
    BY <1>1, <2>1
  <2>4. NestInv' /\ RangeInv' /\ Wasm!FinishFunction(fs)
    BY <2>2, <2>3, FinishRefines
  <2> HIDE DEF fs
  <2>5. Wasm!BranchOut(fs, depth)
    BY <1>3, <1>6, <2>1, <2>4 DEF Wasm!BranchOut
  <2> QED BY <2>4, <2>5 DEF fs
<1>7. CASE labelCount < depth
  <2>1. ~(labelCount > depth) /\ depth >= labelCount /\ labelCount # depth
    BY <1>1, <1>2, <1>7
  <2>2. Halt("ILLEGAL_BREAK_LVL")
    BY <2>1 DEF BranchTo
  <2>3. NestInv' /\ RangeInv' /\ Wasm!Undefined
    BY <1>2, <2>2, HaltRefines
  <2> HIDE DEF fs
  <2>4. Wasm!BranchOut(fs, depth)
    BY <1>3, <2>1, <2>3 DEF Wasm!BranchOut
  <2> QED BY <2>3, <2>4 DEF fs
<1>8. depth < labelCount \/ depth = labelCount \/ labelCount < depth
  BY <1>1, <1>2
<1> QED BY <1>5, <1>6, <1>7, <1>8

LEMMA EndBlockRefines ==
  ASSUME Ready, Instr.op \in {"end", "else"}, BranchTo(stack, 0)
  PROVE  NestInv' /\ RangeInv' /\ Wasm!EndBlock
<1> DEFINE code == Code(mod, pc.fn)
           o == Enclosing(code, pc.at, 0)
           fs == BareOf(stack)
           p == Wasm!Label(fs, 0)
           t == BlockArity(code[o].t)
           target == ClosingEnd(code, o + 1) + 1
<1>1. Len(labelMap) \in Nat /\ labelCount = Len(labelMap) /\ Nesting(code, pc.at) = Len(labelMap)
      /\ Structured(code) /\ pc.at \in 1 .. Len(code) /\ Instr = code[pc.at]
      /\ NestInv /\ RangeInv
  BY ReadyFacts DEF Ready
<1>2. Wasm!Nesting(Wasm!code, pc.at) = labelCount
  BY <1>1, SameStructure, WasmInstr
<1>3. Instr.op \notin Openers \cup {"return"} /\ Settled(stack)
  BY SettledStack DEF Openers
<1>4. fs = [q \in DOMAIN stack |-> IF stack[q].kind = "label" THEN [kind |-> "label"] ELSE stack[q]]
  BY DEF BareOf, Bare
<1>5. CASE 0 < labelCount
  <2>1. ReadEndByte => Instr.op = "end"
    BY DEF ReadEndByte
  <2>2. /\ NestInv' /\ RangeInv' /\ (Instr.op = "else" => code[o].op = "if")
        /\ Wasm!Operands(BareOf(stack), BlockArity(code[o].t)) =>
             \E q : /\ q = At(pc.fn, IF Instr.op # "end" /\ code[o].op = "loop" THEN o
                                     ELSE ClosingEnd(code, o + 1) + 1)
                    /\ Goes(Wasm!Unwind(BareOf(stack), Wasm!Label(BareOf(stack), 0),
                                        BlockArity(code[o].t)), q)
        /\ ~Wasm!Operands(BareOf(stack), BlockArity(code[o].t)) => Wasm!Undefined
    <3> DEFINE d == 0
    <3>1. d \in Nat /\ d < labelCount /\ d = 0
      BY <1>5
    <3> HIDE DEF d
    <3>2. BranchTo(stack, d)
      BY <3>1
    <3> QED BY <1>3, <2>1, <3>1, <3>2, BranchWithin
  <2>3. (IF Instr.op # "end" /\ code[o].op = "loop" THEN o ELSE ClosingEnd(code, o + 1) + 1) = target
    BY <2>2
  <2>4. labelCount # 0
    BY <1>5
  <2>5. /\ o = Wasm!Enclosing(Wasm!code, pc.at, 0)
        /\ t = Wasm!BlockArity(Wasm!code[o].t)
        /\ target = Wasm!ClosingEnd(Wasm!code, o + 1) + 1
        /\ At(pc.fn, target) = Wasm!At(pc.fn, target)
    BY SameStructure, WasmInstr
  <2> HIDE DEF t, target, o, code, fs
  <2>6. /\ Wasm!Operands(fs, t) => Goes(Wasm!Unwind(fs, p, t), At(pc.fn, target))
        /\ ~Wasm!Operands(fs, t) => Wasm!Undefined
    BY <2>2, <2>3 DEF fs, t
  <2>7. Wasm!EndBlock
    BY <1>2, <1>4, <2>4, <2>5, <2>6 DEF Wasm!EndBlock, Goes, Wasm!Reduce, BareOf, Bare
  <2> QED BY <2>2, <2>7
<1>6. CASE ~(0 < labelCount)
  <2>1. labelCount = 0
    BY <1>1, <1>6
  <2>2. ReturnWith(stack, labelCount)
    BY <2>1 DEF BranchTo
  <2>3. TopActiv = 1 => Instr.op \in {"end", "return"}
    <3>1. Instr.op # "else"
      <4>1. SUFFICES ASSUME Instr.op = "else" PROVE FALSE
        OBVIOUS
      <4>2. PICK a \in 1 .. pc.at - 1 : code[a].op = "if" /\ OwnElses(code, a + 1) = {pc.at}
        BY <1>1, <4>1 DEF Structured, WellNested
      <4> HIDE DEF code
      <4>3. Len(code) \in Nat
        BY <1>1, BodyNested
      <4>4. a \in 1 .. Len(code) /\ code[a].op \in Openers
        BY <1>1, <4>2, <4>3 DEF Openers
      <4>5. PICK f : Closes(code, a, f)
        BY <1>1, <4>4, BlockCloses
      <4>6. /\ OwnElses(code, a + 1) =
                 {k \in a + 1 .. f : code[k].op = "else" /\ Nesting(code, k) = Nesting(code, a) + 1}
            /\ Nesting(code, a) \in Nat
        BY <1>1, <4>4, <4>5, OwnElsesAre
      <4>7. pc.at \in OwnElses(code, a + 1)
        BY <4>2
      <4>8. Nesting(code, pc.at) = Nesting(code, a) + 1
        BY <4>6, <4>7
      <4>9. Nesting(code, pc.at) = 0
        BY <1>1, <2>1
      <4> QED BY <4>6, <4>8, <4>9
    <3> QED BY <3>1
  <2>4. NestInv' /\ RangeInv' /\ Wasm!FinishFunction(BareOf(stack))
    <3>1. PICK s : s = stack
      OBVIOUS
    <3>2. Ready /\ Settled(s)
      BY <1>3, <3>1
    <3>3. ReturnWith(s, labelCount)
      BY <2>2, <3>1, Zenon
    <3>4. NestInv' /\ RangeInv' /\ Wasm!FinishFunction(BareOf(s))
      BY <2>3, <3>2, <3>3, FinishRefines
    <3> QED BY <3>1, <3>4 DEF Wasm!FinishFunction, Wasm!Reduce
  <2>5. Wasm!EndBlock
    <3>1. Wasm!FinishFunction(BareOf(stack)) /\ Wasm!Nesting(Wasm!code, pc.at) = 0
      BY <1>2, <2>1, <2>4
    <3> HIDE DEF fs
    <3> QED BY <3>1 DEF Wasm!EndBlock, BareOf, Bare
  <2> QED BY <2>4, <2>5
<1> QED BY <1>5, <1>6

LEMMA BrRefines ==
  ASSUME Ready, DoBr
  PROVE  Refines
<1>1. PICK s, d : s = stack /\ d = Instr.n
  OBVIOUS
<1>2. Instr.op = "br" /\ outcome = "running" /\ BranchTo(stack, Instr.n)
  BY DEF DoBr, Fetch
<1>3. BranchTo(s, d)
  BY <1>1, <1>2, Zenon
<1>4. Instr.op \in Branches /\ d \in Depths(Instr)
  BY <1>1, <1>2 DEF Branches, Depths
<1>5. Ready /\ Settled(s)
  BY <1>1, SettledStack
<1>6. NestInv' /\ RangeInv' /\ Wasm!BranchOut(BareOf(s), d)
  BY <1>3, <1>4, <1>5, BranchOutRefines
<1> DEFINE fs == BareOf(s)
<1>7. Wasm!Exec("br") /\ d = Wasm!instr.n
      /\ fs = [p \in DOMAIN stack |-> IF stack[p].kind = "label" THEN [kind |-> "label"] ELSE stack[p]]
  BY <1>1, <1>2, WasmInstr DEF BareOf, Bare
<1>8. Wasm!BranchOut(fs, d)
  BY <1>6
<1> HIDE DEF fs
<1>9. Wasm!Control
  BY <1>7, <1>8 DEF Wasm!Control, Wasm!BranchOut, Wasm!FinishFunction, Wasm!Reduce
<1> QED BY <1>6, <1>9, RefinesIf

LEMMA EndRefines ==
  ASSUME Ready, DoEnd \/ DoElse
  PROVE  Refines
<1>1. BranchTo(stack, 0) /\ Instr.op \in {"end", "else"} /\ outcome = "running"
  BY DEF DoEnd, DoElse, Fetch
<1>2. NestInv' /\ RangeInv' /\ Wasm!EndBlock
  BY <1>1, EndBlockRefines
<1>3. Wasm!Exec("end") \/ Wasm!Exec("else")
  BY <1>1, WasmInstr
<1>4. Wasm!Control
  BY <1>2, <1>3 DEF Wasm!Control
<1> QED BY <1>2, <1>4, RefinesIf

LEMMA FinishedRefines ==
  ASSUME Ready, DoReturn
  PROVE  Refines
<1>1. PICK s : s = stack
  OBVIOUS
<1>2. Instr.op = "return" /\ outcome = "running" /\ ReturnWith(stack, labelCount)
  BY DEF DoReturn, Fetch
<1>3. ReturnWith(s, labelCount)
  BY <1>1, <1>2, Zenon
<1>4. Ready /\ Settled(s)
  BY <1>1, SettledStack
<1>5. NestInv' /\ RangeInv' /\ Wasm!FinishFunction(BareOf(s))
  BY <1>2, <1>3, <1>4, FinishRefines
<1> DEFINE fs == BareOf(s)
<1>6. Wasm!Exec("return")
      /\ fs = [p \in DOMAIN stack |-> IF stack[p].kind = "label" THEN [kind |-> "label"] ELSE stack[p]]
  BY <1>1, <1>2, WasmInstr DEF BareOf, Bare
<1>7. Wasm!FinishFunction(fs)
  BY <1>5
<1> HIDE DEF fs
<1>8. Wasm!Control
  BY <1>6, <1>7 DEF Wasm!Control, Wasm!FinishFunction, Wasm!Reduce
<1> QED BY <1>5, <1>8, RefinesIf

\* The conditional branches, their operand taken off.
LEMMA BrIfRefines ==
  ASSUME Ready, DoBrIf
  PROVE  Refines
<1>1. Instr.op = "br_if" /\ outcome = "running" /\ Wasm!Exec("br_if") /\ Straight(Instr.op)
  BY WasmInstr DEF DoBrIf, Fetch, Straight, Openers
<1>2. I32OnTop <=> Wasm!Operands(BareOf(stack), <<"i32">>)
  BY TopFacts, ReadyStack DEF I32OnTop
<1> DEFINE frames == [p \in DOMAIN stack |-> IF stack[p].kind = "label" THEN [kind |-> "label"] ELSE stack[p]]
           If(fs, d) == IF ~Wasm!Operands(frames, <<"i32">>) THEN Wasm!Undefined
                        ELSE IF Wasm!TopInt = 0 THEN Wasm!Reduce(TRUE, fs, Wasm!next)
                        ELSE Wasm!BranchOut(fs, d)
<1>3. frames = BareOf(stack)
  BY DEF BareOf, Bare
<1>4. CASE I32OnTop /\ TopVal # 0 /\ BranchTo(Under, Instr.n)
  <2>1. PICK s, d, fs : s = Under /\ d = Instr.n /\ fs = BareOf(s)
    OBVIOUS
  <2>2. BranchTo(s, d)
    BY <1>4, <2>1, Zenon
  <2>3. ValuesOnTop(stack, 1) /\ IsType(Last(stack), "i32")
    BY <1>2, <1>4, TopFacts DEF IsType
  <2>4. Settled(Under) /\ BareOf(Under) = Wasm!Pop(BareOf(stack), 1) /\ Wasm!TopInt = TopVal
    <3>1. Wasm!Last(BareOf(stack)) = Last(stack)
      BY <2>3, TopFacts
    <3>2. Wasm!TopInt = TopVal
      BY <3>1 DEF Wasm!TopInt, TopVal, BareOf, Bare
    <3> QED BY <2>3, <3>2, UnderRefines
  <2>5. Instr.op \in Branches /\ d \in Depths(Instr)
    BY <1>1, <2>1 DEF Branches, Depths
  <2>6. Ready /\ Settled(s)
    BY <2>1, <2>4
  <2>7. NestInv' /\ RangeInv' /\ Wasm!BranchOut(BareOf(s), d)
    BY <2>2, <2>5, <2>6, BranchOutRefines
  <2>8. Wasm!BranchOut(fs, d)
    BY <2>1, <2>7 DEF Wasm!BranchOut, Wasm!FinishFunction, Wasm!Reduce
  <2>9. d = Wasm!instr.n /\ fs = Wasm!Pop(frames, 1) /\ Wasm!TopInt # 0
        /\ Wasm!Operands(frames, <<"i32">>)
    BY <1>2, <1>3, <1>4, <2>1, <2>4, WasmInstr
  <2>10. Wasm!Control
    BY <1>1, <2>8, <2>9 DEF Wasm!Control, Wasm!BranchOut, Wasm!FinishFunction, Wasm!Reduce
  <2> QED BY <2>7, <2>10, RefinesIf
<1>5. CASE I32OnTop /\ TopVal = 0 /\ Leave(Under)
  <2>1. ValuesOnTop(stack, 1) /\ IsType(Last(stack), "i32")
    BY <1>2, <1>5, TopFacts DEF IsType
  <2>2. Settled(Under) /\ BareOf(Under) = Wasm!Pop(BareOf(stack), 1) /\ Wasm!TopInt = TopVal
    <3>1. Wasm!Last(BareOf(stack)) = Last(stack)
      BY <2>1, TopFacts
    <3>2. Wasm!TopInt = TopVal
      BY <3>1 DEF Wasm!TopInt, TopVal, BareOf, Bare
    <3> QED BY <2>1, <3>2, UnderRefines
  <2>3. NestInv' /\ RangeInv' /\ Wasm!Reduce(TRUE, BareOf(Under), Wasm!next)
    BY <1>1, <1>5, <2>2, LeaveRefines
  <2>4. BareOf(Under) = Wasm!Pop(frames, 1) /\ Wasm!TopInt = 0 /\ Wasm!Operands(frames, <<"i32">>)
    BY <1>2, <1>3, <1>5, <2>2
  <2>5. Wasm!Control
    BY <1>1, <2>3, <2>4 DEF Wasm!Control, Wasm!Reduce
  <2> QED BY <2>3, <2>5, RefinesIf
<1>6. CASE ~I32OnTop /\ Mismatch
  <2>1. NestInv' /\ RangeInv' /\ Wasm!Undefined
    BY <1>6, MismatchRefines
  <2>2. ~Wasm!Operands(frames, <<"i32">>)
    BY <1>2, <1>3, <1>6
  <2>3. Wasm!Control
    BY <1>1, <2>1, <2>2 DEF Wasm!Control
  <2> QED BY <2>1, <2>3, RefinesIf
<1> QED BY <1>4, <1>5, <1>6 DEF DoBrIf

LEMMA BrTableRefines ==
  ASSUME Ready, DoBrTable
  PROVE  Refines
<1> DEFINE frames == [p \in DOMAIN stack |-> IF stack[p].kind = "label" THEN [kind |-> "label"] ELSE stack[p]]
           n == Len(Instr.e)
           entry == IF TopVal \in 0 .. n - 1 THEN Instr.e[TopVal + 1] ELSE Last(Instr.e)
           required == IF TopVal \in 0 .. n - 2 THEN Instr.e[TopVal + 1] ELSE Last(Instr.e)
<1>1. Instr.op = "br_table" /\ outcome = "running" /\ Wasm!Exec("br_table")
  BY WasmInstr DEF DoBrTable, Fetch
<1>2. I32OnTop <=> Wasm!Operands(BareOf(stack), <<"i32">>)
  BY TopFacts, ReadyStack DEF I32OnTop
<1>3. frames = BareOf(stack)
  BY DEF BareOf, Bare
<1>4. n \in Nat /\ n > 0 /\ Last(Instr.e) = Instr.e[n] /\ Wasm!Last(Instr.e) = Last(Instr.e)
  <2>1. Len(Instr.e) \in Nat /\ Len(Instr.e) > 0
    BY <1>1, InstrFacts DEF Ready
  <2> QED BY <2>1 DEF Last, Wasm!Last
<1>5. entry = required
  <2>1. CASE TopVal \in 0 .. n - 2
    BY <1>4, <2>1
  <2>2. CASE TopVal \in 0 .. n - 1 /\ TopVal \notin 0 .. n - 2
    <3>1. TopVal = n - 1 /\ TopVal + 1 = n
      BY <1>4, <2>2
    <3> QED BY <1>4, <2>2, <3>1
  <2>3. CASE TopVal \notin 0 .. n - 1 /\ TopVal \notin 0 .. n - 2
    BY <2>3
  <2> QED BY <1>4, <2>1, <2>2, <2>3
<1>6. entry \in Depths(Instr)
  <2>1. \E j \in 1 .. n : entry = Instr.e[j]
    <3>1. CASE TopVal \in 0 .. n - 1
      <4>1. TopVal + 1 \in 1 .. n
        BY <1>4, <3>1
      <4> QED BY <3>1, <4>1
    <3>2. CASE TopVal \notin 0 .. n - 1
      BY <1>4, <3>2
    <3> QED BY <3>1, <3>2
  <2>2. DOMAIN Instr.e = 1 .. n
    <3>1. Instr.e \in Seq(Nat)
      <4> DEFINE code == Code(mod, pc.fn)
      <4>1. Structured(code) /\ pc.at \in 1 .. Len(code) /\ Instr = code[pc.at]
        BY ReadyFacts
      <4> HIDE DEF code
      <4>2. code[pc.at] \in [op : STRING, n : Int, t : STRING, e : Seq(Nat), last : Nat]
        BY <4>1, ElementOfSeq DEF Structured
      <4> QED BY <4>1, <4>2
    <3> QED BY <3>1
  <2> HIDE DEF entry, n
  <2> QED BY <1>1, <2>1, <2>2 DEF Depths
<1>7. CASE I32OnTop /\ BranchTo(Under, entry)
  <2>1. PICK s, d, fs : s = Under /\ d = entry /\ fs = BareOf(s)
    OBVIOUS
  <2> HIDE DEF entry
  <2>2. BranchTo(s, d)
    BY <1>7, <2>1, Zenon
  <2>3. ValuesOnTop(stack, 1) /\ IsType(Last(stack), "i32")
    BY <1>2, <1>7, TopFacts DEF IsType
  <2>4. Settled(Under) /\ BareOf(Under) = Wasm!Pop(BareOf(stack), 1) /\ Wasm!TopInt = TopVal
    <3>1. Wasm!Last(BareOf(stack)) = Last(stack)
      BY <2>3, TopFacts
    <3>2. Wasm!TopInt = TopVal
      BY <3>1 DEF Wasm!TopInt, TopVal, BareOf, Bare
    <3> QED BY <2>3, <3>2, UnderRefines
  <2>5. Instr.op \in Branches /\ d \in Depths(Instr)
    BY <1>1, <1>6, <2>1 DEF Branches
  <2>6. Ready /\ Settled(s)
    BY <2>1, <2>4
  <2>7. NestInv' /\ RangeInv' /\ Wasm!BranchOut(BareOf(s), d)
    BY <2>2, <2>5, <2>6, BranchOutRefines
  <2>8. Wasm!BranchOut(fs, d)
    BY <2>1, <2>7 DEF Wasm!BranchOut, Wasm!FinishFunction, Wasm!Reduce
  <2>9. d = IF Wasm!TopInt \in 0 .. Len(Wasm!instr.e) - 2
            THEN Wasm!instr.e[Wasm!TopInt + 1] ELSE Wasm!Last(Wasm!instr.e)
    BY <1>4, <1>5, <2>1, <2>4, WasmInstr
  <2>10. fs = Wasm!Pop(frames, 1) /\ Wasm!Operands(frames, <<"i32">>)
    BY <1>2, <1>3, <1>7, <2>1, <2>4
  <2>11. Wasm!Control
    BY <1>1, <2>8, <2>9, <2>10 DEF Wasm!Control, Wasm!BranchOut, Wasm!FinishFunction, Wasm!Reduce
  <2> QED BY <2>7, <2>11, RefinesIf
<1>8. CASE ~I32OnTop /\ Mismatch
  <2>1. NestInv' /\ RangeInv' /\ Wasm!Undefined
    BY <1>8, MismatchRefines
  <2>2. ~Wasm!Operands(frames, <<"i32">>)
    BY <1>2, <1>3, <1>8
  <2>3. Wasm!Control
    BY <1>1, <2>1, <2>2 DEF Wasm!Control
  <2> QED BY <2>1, <2>3, RefinesIf
<1> QED BY <1>7, <1>8 DEF DoBrTable

-----------------------------------------------------------------------------
(* Calls.                                                                  *)

\* What the driver and the callers of a conforming module have in common: no
\* label is on the stack.
Calling(s, idx) ==
  /\ EngineInv /\ ControlInv /\ NestInv /\ RangeInv /\ Conforming(mod) /\ Agreement
  /\ outcome = "running" /\ Instr.op \in {"call", "call_indirect"}
  /\ idx \in Nat /\ idx < Len(mod.funcs) /\ Caller(s, idx)
  /\ Len(labelMap) = 0 /\ LabelsIn(s) = {} /\ RangeIn(s)
  /\ Running => Nesting(Code(mod, After.fn), After.at) = 0

\* The locals of the callee: its arguments, as the standard orders them, and zeros.
LEMMA LocalsRefine ==
  ASSUME NEW s, NEW idx, Calling(s, idx),
         ValuesOnTop(s, Len(FuncType(mod, idx).params))
  PROVE  LET n == Len(FuncType(mod, idx).params)
             declared == mod.funcs[idx + 1].locals
             locals == [i \in 1 .. n |-> s[Len(s) - i + 1].value]
                         \o [i \in DOMAIN declared |-> Zero(declared[i])]
         IN  /\ locals = [i \in 1 .. n |-> Wasm!Popped(BareOf(s), n)[i].value]
                           \o [i \in DOMAIN declared |-> [type |-> declared[i], val |-> 0]]
             /\ \E S : locals \in Seq(S)
             /\ \A i \in 1 .. Len(locals) : InRange(locals[i])
<1> DEFINE n == Len(FuncType(mod, idx).params)
           declared == mod.funcs[idx + 1].locals
           args == [i \in 1 .. n |-> s[Len(s) - i + 1].value]
           zeros == [i \in DOMAIN declared |-> Zero(declared[i])]
           popped == [i \in 1 .. n |-> Wasm!Popped(BareOf(s), n)[i].value]
<1>1. /\ mod \in Modules /\ Conforming(mod) /\ RangeIn(s) /\ Agreement /\ EngineInv /\ ControlInv
      /\ idx \in Nat /\ idx < Len(mod.funcs) /\ Caller(s, idx)
  BY DEF Calling, ControlInv
<1>2. n \in Nat /\ n <= 1
  BY <1>1, SmallType
<1>3. declared \in Seq(ValType)
  BY <1>1, FuncFacts
<1>4. Good(s)
  BY <1>1, CallerFacts
<1>5. s \in Seq(FramesOf(s)) /\ Len(s) \in Nat
  BY <1>4 DEF Good, Framed
<1>6. n \in 0 .. Len(s) /\ \A i \in Len(s) - n + 1 .. Len(s) : s[i].kind = "value"
  BY DEF ValuesOnTop
<1> HIDE DEF n, declared
<1>7. ASSUME NEW i \in 1 .. n
      PROVE  /\ Len(s) - i + 1 \in 1 .. Len(s) /\ s[Len(s) - i + 1].kind = "value"
             /\ InRange(s[Len(s) - i + 1].value)
             /\ Wasm!Popped(BareOf(s), n)[i] = s[Len(s) - i + 1]
  <2>1. i = 1 /\ n = 1 /\ Len(s) - i + 1 = Len(s) /\ Len(s) \in Len(s) - n + 1 .. Len(s)
        /\ Len(s) \in 1 .. Len(s)
    BY <1>2, <1>5, <1>6
  <2>2. s[Len(s)].kind = "value"
    BY <1>6, <2>1
  <2>3. InRange(s[Len(s)].value)
    BY <1>1, <2>1, <2>2 DEF RangeIn
  <2> DEFINE b == BareOf(s)
             B == {Bare(f) : f \in FramesOf(s)}
  <2>4. b \in Seq(B) /\ Len(b) = Len(s) /\ b[Len(s)] = s[Len(s)]
    BY <1>5, <2>1, <2>2, BareStack, BareFrame
  <2> HIDE DEF b, B
  <2>5. SubSeq(b, Len(b) - 1 + 1, Len(b))[1] = b[Len(b)]
    BY <1>5, <2>1, <2>4
  <2>6. Wasm!Popped(b, n)[i] = s[Len(s)]
    BY <2>1, <2>4, <2>5 DEF Wasm!Popped
  <2> QED BY <2>1, <2>2, <2>3, <2>6 DEF b
<1>8. args = popped
  BY <1>7
<1>9. zeros = [i \in DOMAIN declared |-> [type |-> declared[i], val |-> 0]]
  BY DEF Zero
<1>10. /\ args \in Seq({args[i] : i \in 1 .. n}) /\ Len(args) = n
       /\ \A i \in 1 .. n : InRange(args[i])
  <2>1. \A i \in 1 .. n : args[i] = s[Len(s) - i + 1].value
    OBVIOUS
  <2>2. args \in Seq({args[i] : i \in 1 .. n}) /\ Len(args) = n
    BY <1>2
  <2> HIDE DEF args
  <2> QED BY <1>7, <2>1, <2>2
<1>11. /\ zeros \in Seq({zeros[i] : i \in 1 .. Len(declared)}) /\ Len(zeros) = Len(declared)
       /\ \A i \in 1 .. Len(declared) : zeros[i] = Zero(declared[i])
  <2>1. Len(declared) \in Nat /\ DOMAIN declared = 1 .. Len(declared)
    BY <1>3
  <2> QED BY <2>1
<1>12. \A t : InRange(Zero(t))
  <2>1. 0 \in IntsOf(Width) /\ 0 \in IntsOf(LongWidth)
    BY <1>1 DEF Agreement, ArithmeticAgrees
  <2> QED BY <2>1 DEF InRange, Zero, WidthOf
<1> DEFINE locals == args \o zeros
<1>13. locals = popped \o [i \in DOMAIN declared |-> [type |-> declared[i], val |-> 0]]
  BY <1>8, <1>9
<1> HIDE DEF args, zeros, popped
<1>14. PICK S, T : args \in Seq(S) /\ zeros \in Seq(T)
  BY <1>10, <1>11
<1>15. /\ locals \in Seq(S \cup T) /\ Len(locals) = Len(args) + Len(zeros)
       /\ \A k \in 1 .. Len(args) + Len(zeros) :
            locals[k] = IF k <= Len(args) THEN args[k] ELSE zeros[k - Len(args)]
  BY <1>14, Concatenated
<1> HIDE DEF locals
<1>16. ASSUME NEW k \in 1 .. Len(locals) PROVE InRange(locals[k])
  <2>1. Len(declared) \in Nat
    BY <1>3
  <2>2. CASE k <= Len(args)
    BY <1>2, <1>10, <1>15, <2>2
  <2>3. CASE ~(k <= Len(args))
    <3>1. k - Len(args) \in 1 .. Len(declared)
      BY <1>2, <1>10, <1>11, <1>15, <2>1, <2>3
    <3> QED BY <1>11, <1>12, <1>15, <2>3, <3>1
  <2> QED BY <2>2, <2>3
<1>17. \E U : locals \in Seq(U)
  BY <1>15
<1> QED BY <1>13, <1>16, <1>17 DEF locals, args, zeros, popped, n, declared

\* What is below the callee's frame.
LEMMA BelowCallee ==
  ASSUME NEW s, NEW idx, Calling(s, idx), NEW n, n = Len(FuncType(mod, idx).params),
         ValuesOnTop(s, n), NEW d, d = DropTop(s, n)
  PROVE  /\ s \in Seq(FramesOf(s)) /\ d \in Seq(FramesOf(s)) /\ Len(d) \in Nat
         /\ BareOf(d) = Wasm!Pop(BareOf(s), n)
         /\ RangeIn(d) /\ LabelsIn(d) = {}
         /\ \A i \in 1 .. Len(activMap) :
              activMap[i] \in 1 .. Len(d) /\ d[activMap[i]] = stack[activMap[i]]
<1>1. /\ RangeIn(s) /\ LabelsIn(s) = {} /\ EngineInv /\ ControlInv /\ Caller(s, idx) /\ MapsOK
  BY DEF Calling, EngineInv
<1>2. s \in Seq(FramesOf(s)) /\ Len(s) \in Nat /\ Good(s)
  BY <1>1, CallerFacts DEF Good, Framed
<1>3. n \in 0 .. Len(s)
  BY DEF ValuesOnTop
<1>4. /\ d \in Seq(FramesOf(s)) /\ Len(d) = Len(s) - n
      /\ \A p \in 1 .. Len(s) - n : d[p] = s[p]
  BY <1>2, <1>3, DropTopKeeps
<1>5. \A p \in 1 .. Len(d) : p \in 1 .. Len(s) /\ d[p] = s[p]
  <2>1. n \in Nat /\ n <= Len(s) /\ Len(s) \in Nat /\ Len(d) = Len(s) - n
    BY <1>2, <1>3, <1>4
  <2>2. \A p \in 1 .. Len(d) : p \in 1 .. Len(s) - n /\ p \in 1 .. Len(s)
    BY <2>1
  <2> QED BY <1>4, <2>2
<1>6. RangeIn(d)
  BY <1>1, <1>5 DEF RangeIn
<1>7. LabelsIn(d) = {}
  BY <1>1, <1>5 DEF LabelsIn
<1>8. BareOf(d) = Wasm!Pop(BareOf(s), n)
  BY <1>2, <1>3, BarePop
<1>9. ASSUME NEW i \in 1 .. Len(activMap)
      PROVE  activMap[i] \in 1 .. Len(d) /\ d[activMap[i]] = stack[activMap[i]]
  <2>1. CASE AtWork /\ Moved(s)
    <3>1. Moved(d)
      BY <1>1, <2>1, MovedPop DEF AtWork
    <3> QED BY <1>1, <3>1, MovedFrames
  <2>2. CASE ~Running
    <3>1. Len(activMap) = 0
      BY <2>2 DEF Running
    <3> QED BY <3>1
  <2> QED BY <1>1, <2>1, <2>2 DEF Caller
<1> QED BY <1>2, <1>3, <1>4, <1>6, <1>7, <1>8, <1>9

\* A function entered.
LEMMA EnterRefines ==
  ASSUME NEW s, NEW idx, Calling(s, idx), NEW n, n = Len(FuncType(mod, idx).params),
         ValuesOnTop(s, n), NEW locals, NEW S, locals \in Seq(S),
         \A i \in 1 .. Len(locals) : InRange(locals[i]),
         NEW results,
         PushActiv(DropTop(s, n), locals, After, results),
         UNCHANGED <<globals, contStore, status>>, Dispatch(At(idx + 1, 1))
  PROVE  /\ NestInv' /\ RangeInv'
         /\ Goes(Append(Wasm!Pop(BareOf(s), n),
                        [kind |-> "activ", locals |-> locals, cont |-> After, arity |-> results]),
                 At(idx + 1, 1))
<1> DEFINE d == DropTop(s, n)
           f == ActivFrame(locals, After, results)
           u == Append(d, f)
           k == Len(activMap)
           am == Append(activMap, Len(d) + 1)
<1>1. /\ EngineInv /\ ControlInv /\ NestInv /\ RangeInv /\ outcome = "running" /\ Caller(s, idx)
      /\ Instr.op \in {"call", "call_indirect"} /\ idx \in Nat /\ idx < Len(mod.funcs)
      /\ Len(labelMap) = 0 /\ MapsOK /\ mod \in Modules
      /\ Running => Nesting(Code(mod, After.fn), After.at) = 0
  BY DEF Calling, EngineInv, ControlInv
<1>2. /\ d \in Seq(FramesOf(s)) /\ Len(d) \in Nat /\ BareOf(d) = Wasm!Pop(BareOf(s), n)
      /\ RangeIn(d) /\ LabelsIn(d) = {}
      /\ \A i \in 1 .. k : activMap[i] \in 1 .. Len(d) /\ d[activMap[i]] = stack[activMap[i]]
  BY BelowCallee
<1> HIDE DEF d
<1>3. Len(u) = Len(d) + 1 /\ u[Len(d) + 1] = f /\ \A p \in 1 .. Len(d) : u[p] = d[p]
  BY <1>2
<1>4. k \in Nat /\ Len(am) = k + 1 /\ am[k + 1] = Len(d) + 1 /\ \A i \in 1 .. k : am[i] = activMap[i]
  BY <1>1 DEF MapsOK
<1>5. /\ f.kind = "activ" /\ f.cont = After /\ f.locals = locals
      /\ Bare(f) = [kind |-> "activ", locals |-> locals, cont |-> After, arity |-> results]
  BY DEF ActivFrame, Bare
<1>6. /\ stack' = u /\ activMap' = am /\ labelCount' = 0 /\ labelMap' = labelMap
      /\ mod' = mod /\ pc' = At(idx + 1, 1) /\ result' = result /\ outcome' = "running"
      /\ globals' = globals /\ status' = status
  BY <1>1 DEF PushActiv, Dispatch, d
<1>7. status = "EXECUTING" /\ result = <<>> /\ CallersOutside(mod, stack, activMap)
      /\ (Running => stack[activMap[1]].cont = At(0, 2))
  BY <1>1 DEF NestInv
<1>8. \A p \in 1 .. Len(u) : p \in 1 .. Len(d) \/ p = Len(d) + 1
  BY <1>2, <1>3
<1> HIDE DEF u, am, f
<1>9. LabelsIn(u) = {}
  <2>1. ASSUME NEW x \in LabelsIn(u) PROVE FALSE
    <3>1. x \in 1 .. Len(u) /\ u[x].kind = "label"
      BY <2>1 DEF LabelsIn
    <3>2. x \in 1 .. Len(d)
      BY <1>3, <1>5, <1>8, <3>1
    <3>3. x \in LabelsIn(d)
      BY <1>3, <3>1, <3>2 DEF LabelsIn
    <3> QED BY <1>2, <3>3
  <2> QED BY <2>1
<1>10. Nest(mod, At(idx + 1, 1), u, labelMap)
  <2>1. Structured(Code(mod, idx + 1))
    BY <1>1, FuncFacts
  <2>2. Nesting(Code(mod, idx + 1), 1) = 0
    BY <2>1, NestingStep
  <2>3. At(idx + 1, 1).fn = idx + 1 /\ At(idx + 1, 1).at = 1
    BY DEF At
  <2> QED BY <1>1, <1>9, <2>2, <2>3 DEF Nest
<1>11. \A i \in 1 .. k : u[am[i]] = stack[activMap[i]]
  BY <1>2, <1>3, <1>4
<1>12. u[am[k + 1]].cont = After
  BY <1>3, <1>4, <1>5
<1>13. CallersOutside(mod, u, am)
  <2>1. ASSUME NEW i \in 2 .. k + 1
        PROVE  Nesting(Code(mod, u[am[i]].cont.fn), u[am[i]].cont.at) = 0
    <3>1. CASE i \in 2 .. k
      <4>1. i \in 1 .. k
        BY <1>4, <3>1
      <4> QED BY <1>7, <1>11, <3>1, <4>1 DEF CallersOutside
    <3>2. CASE i = k + 1 /\ k >= 1
      <4>1. Running
        BY <3>2 DEF Running
      <4> QED BY <1>1, <1>12, <3>2, <4>1
    <3> QED BY <1>4, <3>1, <3>2
  <2> QED BY <1>4, <2>1 DEF CallersOutside
<1>14. u[am[1]].cont = At(0, 2)
  <2>1. CASE Running
    <3>1. 1 \in 1 .. k
      BY <1>1, <2>1, TrackedFrames
    <3> QED BY <1>7, <1>11, <2>1, <3>1
  <2>2. CASE ~Running
    <3>1. k = 0
      BY <2>2 DEF Running
    <3>2. pc = At(0, 1)
      BY <1>1, <2>2 DEF ControlInv, PcOK
    <3>3. After = At(0, 2)
      BY <3>2 DEF After, At
    <3> QED BY <1>12, <3>1, <3>3
  <2> QED BY <2>1, <2>2
<1>15. NestInv'
  BY <1>1, <1>6, <1>7, <1>10, <1>13, <1>14 DEF NestInv
<1>16. RangeIn(u)
  <2>1. ASSUME NEW p \in 1 .. Len(d) PROVE u[p] = d[p] /\ p \in 1 .. Len(d)
    BY <1>3
  <2> QED BY <1>2, <1>3, <1>5, <1>8, <2>1 DEF RangeIn
<1>17. RangeInv'
  <2>1. (\E T : globals \in Seq(T)) /\ \A i \in 1 .. Len(globals) : InRange(globals[i])
    BY <1>1 DEF RangeInv
  <2> QED BY <1>6, <1>16, <2>1 DEF RangeInv
<1>18. BareOf(u) = Append(BareOf(d), Bare(f))
  BY <1>2, BareAppend DEF u
<1>19. Goes(BareOf(u), At(idx + 1, 1))
  BY <1>1, <1>6 DEF Goes, BareOf, Bare
<1> QED BY <1>2, <1>5, <1>15, <1>17, <1>18, <1>19

\* doCall.
LEMMA InvokeRefines ==
  ASSUME NEW s, NEW idx, Calling(s, idx), Invoke(s, idx)
  PROVE  NestInv' /\ RangeInv' /\ Wasm!CallFunction(BareOf(s), idx)
<1> DEFINE type == FuncType(mod, idx)
           params == type.params
           n == Len(params)
           declared == mod.funcs[idx + 1].locals
           popped == [i \in 1 .. n |-> s[Len(s) - i + 1].value]
           locals == popped \o [i \in DOMAIN declared |-> Zero(declared[i])]
           cond == ValuesOnTop(s, n) /\ \A i \in 1 .. n : popped[i].type = params[i]
           fs == BareOf(s)
           frame == [kind |-> "activ",
                     locals |-> [i \in 1 .. n |-> Wasm!Popped(fs, n)[i].value]
                                  \o [i \in DOMAIN declared |-> [type |-> declared[i], val |-> 0]],
                     cont |-> After, arity |-> type.results]
<1>1. /\ mod \in Modules /\ Conforming(mod) /\ NestInv /\ RangeInv /\ EngineInv /\ ControlInv
      /\ idx \in Nat /\ idx < Len(mod.funcs) /\ Caller(s, idx) /\ outcome = "running"
  BY DEF Calling, ControlInv
<1>2. ~(idx >= Len(mod.funcs))
  <2>1. Len(mod.funcs) \in Int
    BY <1>1, ModulesAssumption DEF Startable
  <2> QED BY <1>1, <2>1
<1>3. params \in Seq(STRING) /\ n <= 1 /\ n \in Nat
  BY <1>1, SmallType
<1>4. s \in Seq(FramesOf(s))
  BY <1>1, CallerFacts DEF Good, Framed
<1>5. Wasm!Operands(fs, params) <=> cond
  <2>1. Wasm!Operands(fs, params) <=> ArityHolds(s, params)
    BY <1>3, <1>4, BareArity
  <2>2. ArityHolds(s, params) <=> cond
    BY DEF ArityHolds
  <2> QED BY <2>1, <2>2
<1>6. /\ Wasm!FuncType(mod, idx) = type /\ Wasm!next = After /\ Wasm!At(idx + 1, 1) = At(idx + 1, 1)
  BY SameStructure, WasmInstr
<1>7. ASSUME /\ cond => Goes(Append(Wasm!Pop(fs, n), frame), At(idx + 1, 1))
             /\ ~cond => Wasm!Undefined
      PROVE  Wasm!CallFunction(fs, idx)
  <2>1. /\ Wasm!Operands(fs, params) => Goes(Append(Wasm!Pop(fs, n), frame), At(idx + 1, 1))
        /\ ~Wasm!Operands(fs, params) => Wasm!Undefined
    BY <1>5, <1>7
  <2> HIDE DEF type, fs, cond
  <2> QED BY <1>6, <2>1 DEF Wasm!CallFunction, Wasm!Reduce, Goes, BareOf, Bare
<1>8. CASE cond
  <2>1. /\ PushActiv(DropTop(s, n), locals, After, type.results)
        /\ UNCHANGED <<globals, contStore, status>> /\ Dispatch(At(idx + 1, 1))
    BY <1>2, <1>8 DEF Invoke
  <2>2. /\ locals = [i \in 1 .. n |-> Wasm!Popped(fs, n)[i].value]
                      \o [i \in DOMAIN declared |-> [type |-> declared[i], val |-> 0]]
        /\ \E S : locals \in Seq(S)
        /\ \A i \in 1 .. Len(locals) : InRange(locals[i])
    BY <1>8, LocalsRefine
  <2>3. PICK S : locals \in Seq(S)
    BY <2>2
  <2>4. ValuesOnTop(s, n)
    BY <1>8
  <2>5. n = Len(FuncType(mod, idx).params)
    OBVIOUS
  <2> DEFINE results == type.results
  <2>6. frame = [kind |-> "activ", locals |-> locals, cont |-> After, arity |-> results]
    BY <2>2
  <2> HIDE DEF locals, n, results, frame
  <2>7. /\ NestInv' /\ RangeInv'
        /\ Goes(Append(Wasm!Pop(BareOf(s), n),
                       [kind |-> "activ", locals |-> locals, cont |-> After, arity |-> results]),
                At(idx + 1, 1))
    BY <2>1, <2>2, <2>3, <2>4, <2>5, EnterRefines DEF results
  <2> QED BY <1>7, <1>8, <2>6, <2>7 DEF n
<1>9. CASE ~cond
  <2> DEFINE error == ParamError(s, params)
  <2>1. Halt(error)
    BY <1>2, <1>9 DEF Invoke
  <2>2. error \notin {"running", "stopped"}
    BY DEF ParamError
  <2> HIDE DEF error
  <2>3. NestInv' /\ RangeInv' /\ Wasm!Undefined
    BY <1>1, <2>1, <2>2, HaltRefines
  <2> HIDE DEF cond, fs
  <2> QED BY <1>7, <1>9, <2>3 DEF fs
<1> QED BY <1>8, <1>9

\* What is known when the next instruction is fetched, the driver's included.
Fetching == /\ EngineInv /\ ControlInv /\ NestInv /\ RangeInv /\ Conforming(mod) /\ Agreement
            /\ outcome = "running"

\* A call is outside of every block.
LEMMA CallOutside ==
  ASSUME Fetching, Instr.op \in {"call", "call_indirect"}
  PROVE  /\ Len(labelMap) = 0 /\ LabelsIn(stack) = {}
         /\ Running => Ready /\ Nesting(Code(mod, After.fn), After.at) = 0
<1>1. EngineInv /\ ControlInv /\ outcome = "running" /\ Nest(mod, pc, stack, labelMap)
  BY DEF Fetching, NestInv
<1>2. Running => Ready
  BY DEF Fetching, Ready, AtWork
<1>3. Nesting(Code(mod, pc.fn), pc.at) = 0
  <2>1. CASE Running
    BY <1>2, <2>1, ReadyFacts DEF ConformingCode
  <2>2. CASE ~Running
    <3>1. pc = At(0, 1)
      BY <1>1, <2>2 DEF ControlInv, PcOK
    <3>2. pc.fn = 0 /\ pc.at = 1
      BY <3>1 DEF At
    <3> QED BY <3>2, NestingStep
  <2> QED BY <2>1, <2>2
<1>4. Len(labelMap) = 0
  BY <1>1, <1>3 DEF Nest
<1>5. LabelsIn(stack) = {}
  <2>1. ASSUME NEW q \in LabelsIn(stack) PROVE FALSE
    <3>1. PICK j \in 1 .. Len(labelMap) : labelMap[j] = q
      BY <1>1 DEF Nest
    <3> QED BY <1>4, <3>1
  <2> QED BY <2>1
<1>6. ASSUME Running PROVE Nesting(Code(mod, After.fn), After.at) = 0
  <2> DEFINE code == Code(mod, pc.fn)
  <2>1. /\ Structured(code) /\ pc.at \in 1 .. Len(code) /\ Instr = code[pc.at]
    BY <1>2, <1>6, ReadyFacts
  <2>2. After.fn = pc.fn /\ After.at = pc.at + 1
    BY DEF After, At
  <2>3. Instr.op \notin Openers \cup {"end"}
    BY DEF Openers
  <2>4. Nesting(code, pc.at + 1) = 0
    <3> HIDE DEF code
    <3>1. Len(code) \in Nat /\ Nesting(code, pc.at) \in Nat
      BY <2>1, BodyNested
    <3>2. pc.at \in Nat \ {0}
      BY <2>1, <3>1
    <3>3. Nesting(code, pc.at + 1) = Nesting(code, pc.at) + Change(code[pc.at].op)
      BY <3>2, NestingStep
    <3>4. Change(code[pc.at].op) = 0
      BY <2>1, <2>3 DEF Change
    <3> QED BY <1>3, <3>3, <3>4 DEF code
  <2> QED BY <2>2, <2>4
<1> QED BY <1>2, <1>4, <1>5, <1>6

LEMMA CallRefines ==
  ASSUME Fetching, DoCall
  PROVE  Refines
<1>1. Fetch("call") /\ Instr.op = "call" /\ outcome = "running" /\ Invoke(stack, Instr.n)
  BY DEF DoCall, Fetch
<1>2. EngineInv /\ ControlInv /\ NestInv /\ RangeInv /\ mod \in Modules
  BY DEF Fetching, ControlInv
<1>3. Instr.n \in Nat /\ Caller(stack, Instr.n)
  BY <1>1, <1>2, CallFetched
<1>4. Wasm!Exec("call") /\ Wasm!instr = Instr
  BY <1>1, WasmInstr
<1>5. Len(mod.funcs) \in Int
  BY <1>2, ModulesAssumption DEF Startable
<1>6. CASE Instr.n < Len(mod.funcs)
  <2>1. PICK s, idx, fs : s = stack /\ idx = Instr.n /\ fs = BareOf(s)
    OBVIOUS
  <2>2. Invoke(s, idx)
    BY <1>1, <2>1, Zenon
  <2>3. Calling(s, idx)
    BY <1>1, <1>2, <1>3, <1>6, <2>1, CallOutside DEF Calling, Fetching, RangeInv
  <2>4. NestInv' /\ RangeInv' /\ Wasm!CallFunction(BareOf(s), idx)
    BY <2>2, <2>3, InvokeRefines
  <2>5. Wasm!CallFunction(fs, idx)
    BY <2>1, <2>4 DEF Wasm!CallFunction, Wasm!Reduce
  <2>6. fs = [p \in DOMAIN stack |-> IF stack[p].kind = "label" THEN [kind |-> "label"] ELSE stack[p]]
    BY <2>1 DEF BareOf, Bare
  <2>7. Wasm!Calls
    BY <1>4, <1>6, <2>1, <2>5, <2>6 DEF Wasm!Calls, Wasm!CallFunction, Wasm!Reduce
  <2> QED BY <2>4, <2>7, RefinesIf
<1>7. CASE ~(Instr.n < Len(mod.funcs))
  <2>1. Instr.n >= Len(mod.funcs)
    BY <1>3, <1>5, <1>7
  <2>2. Halt("std::out_of_range")
    BY <1>1, <2>1 DEF Invoke
  <2>3. NestInv' /\ RangeInv' /\ Wasm!Undefined
    BY <1>2, <2>2, HaltRefines
  <2>4. Wasm!Calls
    BY <1>4, <1>7, <2>3 DEF Wasm!Calls
  <2> QED BY <2>3, <2>4, RefinesIf
<1> QED BY <1>6, <1>7

\* The engine takes the operand for the index the table holds at it.
LEMMA IndirectRefines ==
  ASSUME Fetching, DoCallIndirect
  PROVE  Refines
<1> DEFINE frames == [p \in DOMAIN stack |-> IF stack[p].kind = "label" THEN [kind |-> "label"] ELSE stack[p]]
           required(v) == /\ Instr.n < Len(mod.types) /\ Wasm!Operands(frames, <<"i32">>)
                          /\ v \in 0 .. Len(mod.table) - 1
                          /\ mod.table[v + 1] \in 0 .. Len(mod.funcs) - 1
                          /\ FuncType(mod, mod.table[v + 1]) = mod.types[Instr.n + 1]
<1>1. Fetch("call_indirect") /\ Instr.op = "call_indirect" /\ outcome = "running"
  BY DEF DoCallIndirect, Fetch
<1>2. EngineInv /\ ControlInv /\ NestInv /\ RangeInv /\ mod \in Modules /\ Conforming(mod)
  BY DEF Fetching, ControlInv
<1>3. /\ AtWork /\ IndirectError # "running"
      /\ IndirectError = "none" => I32OnTop /\ TopVal \in Nat /\ Caller(Under, TopVal) /\ Moved(Under)
  BY <1>1, <1>2, IndirectFetched
<1>4. Ready /\ Len(labelMap) = 0 /\ LabelsIn(stack) = {} /\ Nesting(Code(mod, After.fn), After.at) = 0
  BY <1>1, <1>3, CallOutside DEF AtWork
<1>5. I32OnTop <=> Wasm!Operands(frames, <<"i32">>)
  <2>1. frames = BareOf(stack)
    BY DEF BareOf, Bare
  <2> HIDE DEF frames
  <2> QED BY <1>4, <2>1, TopFacts, ReadyStack DEF I32OnTop
<1>6. /\ Len(mod.funcs) \in Int /\ Len(mod.types) \in Int /\ Len(mod.table) \in Nat /\ Instr.n \in Nat
      /\ \A i \in 1 .. Len(mod.table) : mod.table[i] = i - 1
  <2>1. Startable(mod)
    BY <1>2, ModulesAssumption
  <2>2. Len(mod.types) \in Nat /\ Len(mod.table) \in Nat /\ Len(mod.funcs) \in Int
    BY <2>1 DEF Startable
  <2>3. Instr.n \in Nat
    BY <1>1, <1>3, InstrFacts
  <2> QED BY <1>2, <2>2, <2>3 DEF Conforming
<1>7. I32OnTop => Wasm!TopInt = TopVal /\ ValuesOnTop(stack, 1)
  <2>1. SUFFICES ASSUME I32OnTop PROVE Wasm!TopInt = TopVal /\ ValuesOnTop(stack, 1)
    OBVIOUS
  <2>2. ValuesOnTop(stack, 1) /\ Wasm!Last(BareOf(stack)) = Last(stack)
    BY <1>4, <2>1, TopFacts DEF I32OnTop, IsType
  <2> QED BY <2>2 DEF Wasm!TopInt, TopVal, BareOf, Bare
<1> HIDE DEF frames
<1>8. IndirectError = "none" <=> required(TopVal)
  <2>1. ASSUME TopVal \in 0 .. Len(mod.table) - 1
        PROVE  mod.table[TopVal + 1] = TopVal /\ TopVal \in Nat
    <3>1. TopVal + 1 \in 1 .. Len(mod.table) /\ TopVal \in Nat
      BY <1>6, <2>1
    <3>2. mod.table[TopVal + 1] = TopVal + 1 - 1
      BY <1>6, <3>1
    <3> QED BY <3>1, <3>2
  <2>2. ASSUME TopVal \in Nat
        PROVE  TopVal \in 0 .. Len(mod.funcs) - 1 <=> ~(TopVal >= Len(mod.funcs))
    BY <1>6, <2>2
  <2>3. Instr.n < Len(mod.types) <=> ~(Instr.n >= Len(mod.types))
    BY <1>6
  <2>4. ASSUME IndirectError = "none" PROVE required(TopVal)
    <3>1. /\ ~(Instr.n >= Len(mod.types)) /\ I32OnTop /\ TopVal \in 0 .. Len(mod.table) - 1
          /\ ~(TopVal >= Len(mod.funcs)) /\ FuncType(mod, TopVal) = mod.types[Instr.n + 1]
      BY <2>4 DEF IndirectError
    <3>2. mod.table[TopVal + 1] = TopVal /\ TopVal \in Nat
      BY <2>1, <3>1
    <3>3. TopVal \in 0 .. Len(mod.funcs) - 1
      BY <2>2, <3>1, <3>2
    <3> QED BY <1>5, <2>3, <3>1, <3>2, <3>3
  <2>5. ASSUME required(TopVal) PROVE IndirectError = "none"
    <3>1. mod.table[TopVal + 1] = TopVal /\ TopVal \in Nat /\ I32OnTop
      BY <1>5, <2>1, <2>5
    <3>2. ~(TopVal >= Len(mod.funcs)) /\ ~(Instr.n >= Len(mod.types))
          /\ FuncType(mod, TopVal) = mod.types[Instr.n + 1]
      BY <2>2, <2>3, <2>5, <3>1
    <3> QED BY <2>5, <3>1, <3>2 DEF IndirectError
  <2> QED BY <2>4, <2>5
<1>9. ASSUME /\ required(TopVal) => Wasm!CallFunction(Wasm!Pop(frames, 1), TopVal)
             /\ ~required(TopVal) => Wasm!Undefined
      PROVE  Wasm!Calls
  <2>1. Wasm!Exec("call_indirect") /\ Wasm!instr = Instr /\ \A m, i : Wasm!FuncType(m, i) = FuncType(m, i)
    BY <1>1, WasmInstr, SameStructure
  <2> DEFINE target == mod.table[Wasm!TopInt + 1]
  <2>2. CASE required(TopVal)
    <3>1. I32OnTop
      BY <1>5, <2>2
    <3>2. Wasm!TopInt = TopVal
      BY <1>7, <3>1
    <3>3. mod.table[TopVal + 1] = TopVal
      <4>1. TopVal + 1 \in 1 .. Len(mod.table) /\ TopVal \in Int
        BY <1>6, <2>2
      <4> QED BY <1>6, <4>1
    <3>4. target = TopVal
      BY <3>2, <3>3
    <3>5. required(Wasm!TopInt)
      BY <2>2, <3>2
    <3>6. Wasm!CallFunction(Wasm!Pop(frames, 1), target)
      BY <1>9, <2>2, <3>4 DEF Wasm!CallFunction, Wasm!Reduce
    <3> QED BY <2>1, <3>5, <3>6 DEF Wasm!Calls, Wasm!CallFunction, Wasm!Reduce, frames
  <2>3. CASE ~required(TopVal)
    <3>1. Wasm!Operands(frames, <<"i32">>) => Wasm!TopInt = TopVal
      BY <1>5, <1>7
    <3>2. ~required(Wasm!TopInt)
      BY <2>3, <3>1
    <3> QED BY <1>9, <2>1, <2>3, <3>2 DEF Wasm!Calls, frames
  <2> QED BY <2>2, <2>3
<1>10. CASE IndirectError = "none"
  <2>1. PICK s, idx, fs : s = Under /\ idx = TopVal /\ fs = BareOf(s)
    OBVIOUS
  <2>2. Invoke(Under, TopVal)
    BY <1>10 DEF DoCallIndirect
  <2>3. Invoke(s, idx)
    BY <2>1, <2>2, Zenon
  <2>4. I32OnTop /\ TopVal \in Nat /\ Caller(Under, TopVal) /\ TopVal < Len(mod.funcs)
    <3>1. I32OnTop /\ TopVal \in Nat /\ Caller(Under, TopVal)
      BY <1>3, <1>10
    <3>2. ~(TopVal >= Len(mod.funcs))
      BY <1>10 DEF IndirectError
    <3> QED BY <1>6, <3>1, <3>2
  <2>5. Settled(Under) /\ BareOf(Under) = Wasm!Pop(BareOf(stack), 1)
    BY <1>4, <1>7, <2>4, UnderRefines
  <2>6. LabelsIn(Under) = {} /\ RangeIn(Under)
    BY <1>4, <2>5 DEF Settled, SameLabels
  <2>7. Calling(s, idx)
    BY <1>1, <1>2, <1>4, <2>1, <2>4, <2>6 DEF Calling, Fetching
  <2>8. NestInv' /\ RangeInv' /\ Wasm!CallFunction(BareOf(s), idx)
    BY <2>3, <2>7, InvokeRefines
  <2>9. Wasm!CallFunction(fs, idx)
    BY <2>1, <2>8 DEF Wasm!CallFunction, Wasm!Reduce
  <2>10. fs = Wasm!Pop(frames, 1)
    BY <2>1, <2>5 DEF frames, BareOf, Bare
  <2>11. Wasm!CallFunction(Wasm!Pop(frames, 1), TopVal)
    BY <2>1, <2>9, <2>10 DEF Wasm!CallFunction, Wasm!Reduce
  <2>12. required(TopVal)
    BY <1>8, <1>10
  <2> HIDE DEF required
  <2>13. Wasm!Calls
    BY <1>9, <2>11, <2>12
  <2> QED BY <2>8, <2>13, RefinesIf
<1>11. CASE IndirectError # "none"
  <2> DEFINE error == IndirectError
  <2>1. Halt(error)
    BY <1>11 DEF DoCallIndirect
  <2>2. error \notin {"running", "stopped"}
    BY DEF IndirectError
  <2> HIDE DEF error
  <2>3. NestInv' /\ RangeInv' /\ Wasm!Undefined
    BY <1>2, <2>1, <2>2, HaltRefines
  <2>4. ~required(TopVal)
    BY <1>8, <1>11
  <2> HIDE DEF required
  <2>5. Wasm!Calls
    BY <1>9, <2>3, <2>4
  <2> QED BY <2>3, <2>5, RefinesIf
<1> QED BY <1>10, <1>11

-----------------------------------------------------------------------------
(* The beginning and the ends of a run.                                    *)

\* A vector cannot grow: the standard allows to give up.
LEMMA GivesUp ==
  ASSUME Fetching, OutOfMemory
  PROVE  Refines
<1>1. Halt("std::bad_alloc") /\ outcome = "running"
  BY DEF OutOfMemory
<1>2. NestInv' /\ RangeInv'
  BY <1>1, HaltRefines DEF Fetching
<1>3. stack' = stack /\ outcome' = "std::bad_alloc" /\ UNCHANGED <<mod, pc, globals, result>>
  BY <1>1 DEF Halt
<1>4. Wasm!OutOfMemory
  BY <1>1, <1>3 DEF Wasm!OutOfMemory
<1> QED BY <1>2, <1>4, RefinesIf

\* postProcess looks for the result only; what the standard requires of its
\* type it does not test.
LEMMA PostProcessRefines ==
  ASSUME EngineInv, ControlInv, NestInv, RangeInv, Conforming(mod), PostProcess
  PROVE  Refines
<1> DEFINE arity == stack[TopActiv].arity
           fs == BareOf(stack)
<1>1. /\ outcome = "stopped" /\ outcome' \in {"done", "std::bad_variant_access"}
      /\ stack' = stack /\ activMap' = activMap /\ mod' = mod /\ pc' = pc /\ globals' = globals
      /\ IF arity = <<>> THEN outcome' = "done" /\ result' = result
         ELSE IF ValuesOnTop(stack, 1) THEN outcome' = "done" /\ result' = <<Last(stack).value>>
         ELSE outcome' = "std::bad_variant_access" /\ result' = result
  BY DEF PostProcess
<1>2. Running /\ TopActiv = 1 /\ result = <<>>
  BY <1>1 DEF NestInv
<1>3. NestInv' /\ RangeInv'
  BY <1>1 DEF NestInv, RangeInv, RangeIn, CallersOutside, Running
<1>4. stack \in Seq(FramesOf(stack)) /\ fs[1] = stack[1] /\ Len(stack) \in Nat
  <2>1. Good(stack) /\ MapsOK
    BY DEF EngineInv
  <2> QED BY <1>2, <2>1, BareCurrent DEF Good, Framed
<1>5. arity \in Seq(STRING) /\ Len(arity) \in Nat /\ Len(arity) <= 1
  <2>1. Len(activMap) \in Nat /\ Len(activMap) >= 1 /\ TopActiv = activMap[Len(activMap)]
    BY <1>2, TrackedFrames DEF TopActiv
  <2>2. Len(activMap) \in 1 .. Len(activMap)
    BY <2>1
  <2>3. mod \in Modules /\ ActivsOK(mod, pc.fn, stack, activMap)
    BY DEF ControlInv
  <2>4. PICK fn : fn \in 1 .. Len(mod.funcs) /\ arity = FuncType(mod, fn - 1).results
    BY <2>1, <2>2, <2>3 DEF ActivsOK, ActivOK
  <2>5. Len(mod.funcs) \in Int
    BY <2>3, ModulesAssumption DEF Startable
  <2>6. fn - 1 \in Nat /\ fn - 1 < Len(mod.funcs)
    BY <2>4, <2>5
  <2> QED BY <2>3, <2>4, <2>6, SmallType
<1> HIDE DEF arity
<1>6. Wasm!Operands(fs, arity) <=> ArityHolds(stack, arity)
  BY <1>4, <1>5, BareArity
<1>7. ASSUME ArityHolds(stack, arity)
      PROVE  outcome' = "done"
             /\ result' = [i \in DOMAIN arity |-> Wasm!Popped(fs, Len(arity))[i].value]
  <2>1. CASE Len(arity) = 0
    <3>1. arity = <<>> /\ DOMAIN arity = {}
      BY <1>5, <2>1
    <3>2. [i \in DOMAIN arity |-> Wasm!Popped(fs, Len(arity))[i].value] = <<>>
      BY <3>1
    <3> QED BY <1>1, <1>2, <3>1, <3>2
  <2>2. CASE Len(arity) = 1
    <3>1. arity # <<>> /\ DOMAIN arity = 1 .. 1
      BY <1>5, <2>2
    <3>2. ValuesOnTop(stack, 1)
      BY <1>7, <2>2 DEF ArityHolds
    <3>3. Len(stack) >= 1 /\ stack[Len(stack)].kind = "value" /\ Last(stack) = stack[Len(stack)]
      BY <1>4, <3>2 DEF ValuesOnTop, Last
    <3>4. Len(stack) \in 1 .. Len(stack)
      BY <1>4, <3>3
    <3> DEFINE B == {Bare(f) : f \in FramesOf(stack)}
    <3>5. fs \in Seq(B) /\ Len(fs) = Len(stack) /\ fs[Len(stack)] = stack[Len(stack)]
      BY <1>4, <3>3, <3>4, BareStack, BareFrame
    <3> HIDE DEF fs, B
    <3>6. SubSeq(fs, Len(fs) - 1 + 1, Len(fs))[1] = fs[Len(fs)]
      BY <1>4, <3>3, <3>5
    <3>7. Wasm!Popped(fs, Len(arity))[1] = Last(stack)
      BY <2>2, <3>3, <3>5, <3>6 DEF Wasm!Popped
    <3> DEFINE r == [i \in DOMAIN arity |-> Wasm!Popped(fs, Len(arity))[i].value]
    <3>8. r = [i \in 1 .. 1 |-> Last(stack).value]
      <4>1. \A i \in 1 .. 1 : i = 1
        OBVIOUS
      <4> QED BY <3>1, <3>7, <4>1
    <3>9. [i \in 1 .. 1 |-> Last(stack).value] = <<Last(stack).value>>
      <4> DEFINE v == Last(stack).value
      <4> HIDE DEF v
      <4>1. [i \in 1 .. 1 |-> v] = <<v>>
        OBVIOUS
      <4> QED BY <4>1 DEF v
    <3> QED BY <1>1, <3>1, <3>2, <3>8, <3>9
  <2>3. Len(arity) = 0 \/ Len(arity) = 1
    BY SMTT(30), <1>5
  <2> HIDE DEF fs
  <2> QED BY <2>1, <2>2, <2>3
<1>8. outcome' \notin {"running", "stopped"}
  BY <1>1
<1>9. fs[1].arity = arity
  BY <1>2, <1>4 DEF arity
<1>10. Wasm!Deliver
  <2> DEFINE delivered == [i \in DOMAIN arity |-> Wasm!Popped(fs, Len(arity))[i].value]
  <2>1. stack' = stack /\ UNCHANGED <<mod, pc, globals>>
    BY <1>1
  <2>2. fs = [p \in DOMAIN stack |-> IF stack[p].kind = "label" THEN [kind |-> "label"] ELSE stack[p]]
    BY DEF BareOf, Bare
  <2>3. CASE Wasm!Operands(fs, arity)
    <3>1. outcome' = "done" /\ result' = delivered
      BY <1>6, <1>7, <2>3
    <3> HIDE DEF fs
    <3> QED BY <1>1, <1>9, <2>1, <2>2, <2>3, <3>1 DEF Wasm!Deliver
  <2>4. CASE ~Wasm!Operands(fs, arity)
    <3>1. Wasm!Undefined
      BY <1>8, <2>1 DEF Wasm!Undefined
    <3> HIDE DEF fs
    <3> QED BY <1>1, <1>9, <2>2, <2>4, <3>1 DEF Wasm!Deliver
  <2> QED BY <2>3, <2>4
<1> QED BY <1>3, <1>10, RefinesIf

LEMMA StutterRefines ==
  ASSUME NestInv, RangeInv, UNCHANGED vars
  PROVE  Refines
<1>1. /\ stack' = stack /\ labelMap' = labelMap /\ activMap' = activMap /\ labelCount' = labelCount
      /\ mod' = mod /\ pc' = pc /\ globals' = globals /\ status' = status
      /\ outcome' = outcome /\ result' = result
  BY DEF vars
<1>2. NestInv'
  BY <1>1 DEF NestInv, Nest, CallersOutside, Running, TopActiv
<1>3. RangeInv'
  BY <1>1 DEF RangeInv, RangeIn
<1>4. UNCHANGED Wasm!vars
  BY <1>1 DEF Wasm!vars
<1> QED BY <1>2, <1>3, <1>4 DEF Refines

LEMMA StartRefines ==
  ASSUME Init, Conforming(mod)
  PROVE  NestInv /\ RangeInv /\ Wasm!Init
<1>1. /\ mod \in Modules /\ stack = [i \in DOMAIN mod.args |-> ValueFrame(mod.args[i])]
      /\ labelMap = <<>> /\ activMap = <<>> /\ labelCount = 0 /\ pc = At(0, 1)
      /\ globals = [i \in DOMAIN mod.globals |-> mod.globals[i].init]
      /\ status = "EXECUTING" /\ outcome = "running" /\ result = <<>>
  BY DEF Init
<1>2. Startable(mod)
  BY <1>1, ModulesAssumption
<1>3. /\ Len(mod.args) \in Nat /\ DOMAIN mod.args = 1 .. Len(mod.args)
      /\ Len(mod.globals) \in Nat /\ DOMAIN mod.globals = 1 .. Len(mod.globals)
  BY <1>2 DEF Startable
<1>4. /\ Len(stack) = Len(mod.args) /\ DOMAIN stack = DOMAIN mod.args
      /\ \A p \in 1 .. Len(stack) : stack[p].kind = "value" /\ stack[p].value = mod.args[p]
                                    /\ stack[p] = Wasm!Val(mod.args[p])
  <2> DEFINE n == Len(mod.args)
             args == mod.args
  <2>1. stack = [i \in 1 .. n |-> ValueFrame(args[i])] /\ n \in Nat
    BY <1>1, <1>3
  <2> HIDE DEF n, args
  <2>2. Len(stack) = n /\ \A p \in 1 .. n : stack[p] = ValueFrame(args[p])
    BY <2>1
  <2>3. \A v : ValueFrame(v).kind = "value" /\ ValueFrame(v).value = v /\ ValueFrame(v) = Wasm!Val(v)
    BY DEF ValueFrame, Wasm!Val
  <2> QED BY <1>1, <1>3, <2>2, <2>3 DEF n, args
<1>5. Nest(mod, pc, stack, labelMap)
  <2>1. LabelsIn(stack) = {}
    BY <1>4 DEF LabelsIn
  <2>2. Nesting(Code(mod, pc.fn), pc.at) = 0
    BY <1>1, NestingStep DEF At
  <2>3. Len(labelMap) = 0
    BY <1>1
  <2> QED BY <2>1, <2>2, <2>3 DEF Nest
<1>6. Len(activMap) = 0 /\ ~Running /\ labelCount = Len(labelMap)
  BY <1>1 DEF Running
<1>7. NestInv
  BY <1>1, <1>5, <1>6 DEF NestInv, CallersOutside
<1>8. RangeInv
  <2>1. RangeIn(stack)
    BY <1>4 DEF RangeIn, Conforming
  <2> DEFINE n == Len(mod.globals)
  <2>2. globals = [i \in 1 .. n |-> mod.globals[i].init] /\ n \in Nat
        /\ \A i \in 1 .. n : InRange(mod.globals[i].init)
    BY <1>1, <1>3 DEF Conforming
  <2> HIDE DEF n
  <2>3. globals \in Seq({globals[i] : i \in 1 .. n}) /\ Len(globals) = n
        /\ \A i \in 1 .. n : globals[i] = mod.globals[i].init
    BY <2>2
  <2> QED BY <2>1, <2>2, <2>3 DEF RangeInv
<1>9. Wasm!Init
  <2>1. [p \in DOMAIN stack |-> IF stack[p].kind = "label" THEN [kind |-> "label"] ELSE stack[p]]
          = [i \in DOMAIN mod.args |-> Wasm!Val(mod.args[i])]
    BY <1>3, <1>4
  <2>2. pc = Wasm!At(0, 1)
    BY <1>1, SameStructure
  <2> QED BY <1>1, <2>1, <2>2 DEF Wasm!Init
<1> QED BY <1>7, <1>8, <1>9

-----------------------------------------------------------------------------
(* The refinement.                                                         *)

\* A step that calls no function.
LEMMA StepWithinRefines ==
  ASSUME EngineInv, ControlInv, NestInv, RangeInv, Conforming(mod), Agreement, StepWithin
  PROVE  Refines
<1>1. CASE PostProcess
  BY <1>1, PostProcessRefines
<1>2. CASE OutOfMemory
  <2>1. Fetching
    BY <1>2 DEF OutOfMemory, Fetching
  <2> QED BY <1>2, <2>1, GivesUp
<1>3. CASE DoBinary \/ DoUnary \/ DoConvert
  <2>1. \E op : Fetch(op) /\ op # "call"
    BY <1>3, IntegersPlain DEF DoBinary, DoUnary, DoConvert
  <2>2. Ready
    BY <2>1, Fetched DEF Ready
  <2> QED BY <1>3, <2>2, BinaryRefines, UnaryRefines, ConvertRefines
<1>4. CASE DoUnreachable \/ DoNop \/ DoBlock \/ DoLoop \/ DoIf \/ DoElse \/ DoEnd
           \/ DoBr \/ DoBrIf \/ DoBrTable \/ DoReturn
  <2>1. \E op : Fetch(op) /\ op # "call"
    BY <1>4 DEF DoUnreachable, DoNop, DoBlock, DoLoop, DoIf, DoElse, DoEnd, DoBr, DoBrIf,
                DoBrTable, DoReturn
  <2>2. Ready
    BY <2>1, Fetched DEF Ready
  <2> QED BY <1>4, <2>2, UnreachableRefines, NopRefines, BlockRefines, LoopRefines, IfRefines,
             EndRefines, BrRefines, BrIfRefines, BrTableRefines, FinishedRefines
<1>5. CASE DoDrop \/ DoSelect \/ DoLocalGet \/ DoLocalSet \/ DoLocalTee
           \/ DoGlobalGet \/ DoGlobalSet \/ DoConst
  <2>1. \E op : Fetch(op) /\ op # "call"
    BY <1>5 DEF DoDrop, DoSelect, DoLocalGet, DoLocalSet, DoLocalTee, DoGlobalGet, DoGlobalSet,
                DoConst
  <2>2. Ready
    BY <2>1, Fetched DEF Ready
  <2> QED BY <1>5, <2>2, DropRefines, SelectRefines, LocalGetRefines, LocalSetRefines,
             LocalTeeRefines, GlobalGetRefines, GlobalSetRefines, ConstRefines
<1> QED BY <1>1, <1>2, <1>3, <1>4, <1>5 DEF StepWithin

\* Every step of the engine is a step of the standard, or changes nothing in it.
LEMMA NextRefines ==
  ASSUME EngineInv, ControlInv, NestInv, RangeInv, Conforming(mod), Agreement, [Next]_vars
  PROVE  Refines
<1>1. CASE StepWithin
  BY <1>1, StepWithinRefines
<1>2. CASE DoCall
  <2>1. Fetching
    BY <1>2 DEF DoCall, Fetch, Fetching
  <2> QED BY <1>2, <2>1, CallRefines
<1>3. CASE DoCallIndirect
  <2>1. Fetching
    BY <1>3 DEF DoCallIndirect, Fetch, Fetching
  <2> QED BY <1>3, <2>1, IndirectRefines
<1>4. CASE UNCHANGED vars
  BY <1>4, StutterRefines
<1> QED BY <1>1, <1>2, <1>3, <1>4 DEF Next, Step

\* The interpreter runs a conforming module as the standard prescribes, whatever
\* the module: if its arithmetic is the standard's then every instruction finds
\* the operands, every branch the target and every return the caller that the
\* nesting of the code determines, and no step the standard defines is refused
\* but for want of memory.
THEOREM InterpreterRefinesWasm ==
  ASSUME \A m \in Modules : Conforming(m),
         ArithmeticAgrees(Width), ArithmeticAgrees(LongWidth), ConversionsAgree
  PROVE  Spec => RefinesWasm
<1> DEFINE IInv == EngineInv /\ ControlInv /\ NestInv /\ RangeInv
<1>1. Init => IInv /\ Wasm!Init
  BY StartsSound, StartRefines DEF ControlInv
<1>2. IInv /\ [Next]_vars => IInv' /\ [Wasm!Next]_(Wasm!vars)
  <2> SUFFICES ASSUME IInv, [Next]_vars
               PROVE  IInv' /\ [Wasm!Next]_(Wasm!vars)
    OBVIOUS
  <2>1. Conforming(mod) /\ Agreement
    BY DEF ControlInv, Agreement
  <2>2. Refines
    BY <2>1, NextRefines
  <2>3. EngineInv' /\ ControlInv'
    BY StepPreserves, StutterPreserves DEF Next, Preserves
  <2> QED BY <2>2, <2>3 DEF Refines
<1> QED BY <1>1, <1>2, PTL DEF Spec, RefinesWasm, Wasm!Spec
=============================================================================
