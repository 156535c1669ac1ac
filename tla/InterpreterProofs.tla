------------------------- MODULE InterpreterProofs -------------------------
(***************************************************************************)
(* Proofs about Interpreter, for every set of modules whose function       *)
(* bodies are structured as the binary format says, every width and every  *)
(* capacity: the index vectors and the counter describe the stack, no      *)
(* function reaches the frames of its callers, and control stays where the *)
(* nesting of the code says, although the engine validates nothing: the    *)
(* immediates, the operands and their types are arbitrary.  The first part *)
(* is about code alone: its nesting and what the crawl finds in it.        *)
(***************************************************************************)
EXTENDS Interpreter, FrameStackProofs, NatRecursion, FiniteSetTheorems, SequenceTheorems

-----------------------------------------------------------------------------
(* Nesting.                                                                *)

Change(op) == IF op \in Openers THEN 1 ELSE IF op = "end" THEN -1 ELSE 0

\* The positions before n with one of the opcodes.
Before(code, ops, n) == {k \in 1 .. n - 1 : code[k].op \in ops}

LEMMA CountStep ==
  ASSUME NEW code, NEW ops, NEW n \in Nat \ {0}
  PROVE  /\ Cardinality(Before(code, ops, n)) \in Nat
         /\ Cardinality(Before(code, ops, 1)) = 0
         /\ Cardinality(Before(code, ops, n + 1)) =
              Cardinality(Before(code, ops, n)) + (IF code[n].op \in ops THEN 1 ELSE 0)
<1>1. Before(code, ops, 1) = {}
  BY DEF Before
<1>2. IsFiniteSet(1 .. n - 1) /\ Before(code, ops, n) \in SUBSET (1 .. n - 1)
  BY FS_Interval DEF Before
<1>3. IsFiniteSet(Before(code, ops, n))
  BY <1>2, FS_Subset
<1>4. n \notin Before(code, ops, n)
      /\ Before(code, ops, n + 1) = IF code[n].op \in ops THEN Before(code, ops, n) \cup {n}
                                    ELSE Before(code, ops, n)
  BY DEF Before
<1>5. Cardinality(Before(code, ops, n)) \in Nat
  BY <1>3, FS_CardinalityType
<1>6. Cardinality(Before(code, ops, n) \cup {n}) = Cardinality(Before(code, ops, n)) + 1
  BY <1>3, <1>4, FS_AddElement
<1>7. Cardinality(Before(code, ops, 1)) = 0
  BY <1>1, FS_EmptySet
<1> QED BY <1>4, <1>5, <1>6, <1>7

LEMMA NestingStep ==
  ASSUME NEW code, NEW k \in Nat \ {0}
  PROVE  /\ Nesting(code, k) \in Int
         /\ Nesting(code, 1) = 0
         /\ Nesting(code, k + 1) = Nesting(code, k) + Change(code[k].op)
<1> DEFINE B(ops, n) == Cardinality(Before(code, ops, n))
<1>1. \A ops : B(ops, k) \in Nat /\ B(ops, 1) = 0
               /\ B(ops, k + 1) = B(ops, k) + (IF code[k].op \in ops THEN 1 ELSE 0)
  BY CountStep
<1>2. \A n : Nesting(code, n) = B(Openers, n) - B({"end"}, n)
  BY DEF Nesting, Before
<1>3. "end" \notin Openers
  BY DEF Openers
<1> HIDE DEF B
<1>4. Nesting(code, k) \in Int /\ Nesting(code, 1) = 0
  BY <1>1, <1>2
<1>5. Nesting(code, k + 1) = B(Openers, k) + (IF code[k].op \in Openers THEN 1 ELSE 0)
                              - (B({"end"}, k) + (IF code[k].op \in {"end"} THEN 1 ELSE 0))
  BY <1>1, <1>2
<1>6. B(Openers, k) \in Nat /\ B({"end"}, k) \in Nat
  BY <1>1
<1> QED BY <1>2, <1>3, <1>4, <1>5, <1>6 DEF Change

\* A structured body: its last instruction is its own `end`.
LEMMA BodyNested ==
  ASSUME NEW code, Structured(code)
  PROVE  /\ Len(code) \in Nat \ {0}
         /\ \A k \in 1 .. Len(code) : Nesting(code, k) \in Nat
         /\ code[Len(code)].op = "end"
         /\ Nesting(code, Len(code)) = 0 /\ Nesting(code, Len(code) + 1) = -1
<1>1. Len(code) \in Nat \ {0}
  BY DEF Structured, WellNested
<1>2. \A k \in 1 .. Len(code) - 1 : Nesting(code, k + 1) >= 0
  BY DEF Structured, WellNested
<1>3. Nesting(code, Len(code) + 1) - Nesting(code, 1) = -1
  BY DEF Structured, WellNested, Balance
<1>4. ASSUME NEW k \in 1 .. Len(code) PROVE Nesting(code, k) \in Nat
  <2>1. Nesting(code, k) \in Int /\ Nesting(code, 1) = 0
    BY <1>1, NestingStep
  <2>2. CASE k = 1
    BY <2>1, <2>2
  <2>3. CASE k # 1
    <3>1. k - 1 \in 1 .. Len(code) - 1 /\ (k - 1) + 1 = k
      BY <1>1, <2>3
    <3> QED BY <1>2, <2>1, <3>1
  <2> QED BY <2>2, <2>3
<1>5. Nesting(code, 1) = 0 /\ Nesting(code, Len(code)) \in Nat
      /\ Nesting(code, Len(code) + 1) = Nesting(code, Len(code)) + Change(code[Len(code)].op)
  BY <1>1, <1>4, NestingStep
<1>6. Nesting(code, Len(code)) = 0 /\ Change(code[Len(code)].op) = -1
  BY <1>3, <1>5 DEF Change
<1> QED BY <1>1, <1>3, <1>4, <1>5, <1>6 DEF Change

\* The `end` at e closes the construct opened at a.
Closes(code, a, e) ==
  /\ e \in a + 1 .. Len(code) - 1
  /\ code[e].op = "end"
  /\ Nesting(code, e + 1) = Nesting(code, a)
  /\ \A k \in a + 1 .. e : Nesting(code, k) >= Nesting(code, a) + 1

\* Every construct of a structured body is closed within it.
LEMMA BlockCloses ==
  ASSUME NEW code, Structured(code), NEW a \in 1 .. Len(code), code[a].op \in Openers
  PROVE  \E e : Closes(code, a, e)
<1> DEFINE N(k) == Nesting(code, k)
           L == Len(code)
<1>1. L \in Nat \ {0} /\ (\A k \in 1 .. L : N(k) \in Nat) /\ code[L].op = "end" /\ N(L + 1) = -1
  BY BodyNested
<1>2. a # L
  BY <1>1 DEF Openers
<1>3. \A k \in 1 .. L : N(k + 1) = N(k) + Change(code[k].op)
  BY <1>1, NestingStep
<1> HIDE DEF N, L
<1>4. a \in 1 .. L - 1
  BY <1>1, <1>2 DEF L
<1>5. N(a + 1) = N(a) + 1
  BY SMTT(30), <1>1, <1>3, <1>4 DEF Change
<1> DEFINE T == {k \in a + 1 .. L : N(k + 1) <= N(a)}
<1>6. L \in T /\ T \in SUBSET Nat
  BY <1>1, <1>4
<1>7. PICK e \in T : \A m \in T : e <= m
  BY <1>6, LeastElement
<1>8. \A k \in a + 1 .. e : N(k) >= N(a) + 1
  <2>1. SUFFICES ASSUME NEW k \in a + 1 .. e PROVE N(k) >= N(a) + 1
    OBVIOUS
  <2>2. CASE k = a + 1
    BY <1>1, <1>4, <1>5, <2>2
  <2>3. CASE k # a + 1
    <3>1. k - 1 \in a + 1 .. L /\ k - 1 < e /\ (k - 1) + 1 = k /\ k \in 1 .. L
      BY <1>1, <1>4, <1>7, <2>3
    <3>2. ~(N(k) <= N(a))
      BY <1>7, <3>1
    <3> QED BY <1>1, <1>4, <3>1, <3>2
  <2> QED BY <2>2, <2>3
<1>9. e \in a + 1 .. L /\ N(e + 1) = N(e) + Change(code[e].op) /\ N(e) >= N(a) + 1 /\ N(e + 1) <= N(a)
  <2>1. e \in a + 1 .. L /\ N(e + 1) <= N(a)
    BY <1>7
  <2>2. e \in 1 .. L /\ e \in a + 1 .. e
    BY <1>1, <1>4, <2>1
  <2>3. N(e) >= N(a) + 1
    BY <1>8, <2>2
  <2> HIDE DEF T
  <2> QED BY <1>3, <2>1, <2>2, <2>3
<1>10. N(e) \in Nat /\ N(a) \in Nat
  BY <1>1, <1>4, <1>9
<1>11. Change(code[e].op) = -1 /\ N(e + 1) = N(a) /\ code[e].op = "end"
  <2>1. Change(code[e].op) \in {-1, 0, 1} /\ (Change(code[e].op) = -1 => code[e].op = "end")
    BY DEF Change
  <2> QED BY <1>9, <1>10, <2>1
<1>12. e # L
  BY <1>1, <1>10, <1>11
<1>13. e \in a + 1 .. L - 1
  BY <1>1, <1>4, <1>9, <1>12
<1>14. Closes(code, a, e)
  BY <1>8, <1>11, <1>13 DEF Closes, N, L
<1> QED BY <1>14

\* It is the one the definition chooses.
LEMMA ClosingEndIs ==
  ASSUME NEW code, Structured(code), NEW a \in 1 .. Len(code), code[a].op \in Openers,
         NEW e, Closes(code, a, e)
  PROVE  ClosingEnd(code, a + 1) = e
<1> DEFINE N(k) == Nesting(code, k)
           IsEnd(x) == /\ Balance(code, a + 1, x) = -1
                       /\ \A k \in a + 1 .. x - 1 : Balance(code, a + 1, k) >= 0
<1>1. Len(code) \in Nat /\ (\A k \in 1 .. Len(code) : N(k) \in Nat) /\ N(Len(code) + 1) = -1
  BY BodyNested
<1>2. N(a + 1) = N(a) + 1
  BY NestingStep, a \in Nat \ {0} DEF Change
<1>3. \A x : Balance(code, a + 1, x) = N(x + 1) - N(a + 1)
  BY DEF Balance
<1>4. /\ e \in a + 1 .. Len(code) - 1 /\ N(e + 1) = N(a)
      /\ \A k \in a + 1 .. e : N(k) >= N(a) + 1
  BY DEF Closes
<1>5. ClosingEnd(code, a + 1) = CHOOSE x \in a + 1 .. Len(code) : IsEnd(x)
  BY DEF ClosingEnd
<1> HIDE DEF N
<1>6. N(a) \in Nat /\ e \in a + 1 .. Len(code)
  BY <1>1, <1>4
<1>7. IsEnd(e)
  <2>1. Balance(code, a + 1, e) = -1
    BY <1>2, <1>3, <1>4, <1>6
  <2>2. ASSUME NEW k \in a + 1 .. e - 1 PROVE Balance(code, a + 1, k) >= 0
    <3>1. k + 1 \in a + 1 .. e /\ k + 1 \in 1 .. Len(code)
      BY <1>1, <1>4
    <3>2. N(k + 1) >= N(a) + 1 /\ N(k + 1) \in Nat
      BY <1>1, <1>4, <3>1
    <3> QED BY <1>2, <1>3, <1>6, <3>2
  <2> QED BY <2>1, <2>2
<1>8. ASSUME NEW x \in a + 1 .. Len(code), IsEnd(x) PROVE x = e
  <2>1. N(x + 1) - N(a + 1) = -1 /\ \A k \in a + 1 .. x - 1 : N(k + 1) - N(a + 1) >= 0
    BY <1>3, <1>8
  <2>2. x + 1 \in 1 .. Len(code) + 1 /\ (N(x + 1) \in Nat \/ N(x + 1) = -1)
    BY <1>1
  <2>3. N(x + 1) = N(a)
    BY <1>2, <1>6, <2>1, <2>2
  <2>4. ~(e < x)
    <3>1. SUFFICES ASSUME e < x PROVE FALSE
      OBVIOUS
    <3>2. e \in a + 1 .. x - 1
      BY <1>4, <3>1
    <3> QED BY <1>2, <1>4, <1>6, <2>1, <3>2
  <2>5. ~(x < e)
    <3>1. SUFFICES ASSUME x < e PROVE FALSE
      OBVIOUS
    <3>2. x + 1 \in a + 1 .. e
      BY <1>4, <3>1
    <3> QED BY <1>4, <1>6, <2>3, <3>2
  <2> QED BY <1>4, <2>4, <2>5
<1> HIDE DEF IsEnd
<1> QED BY <1>5, <1>6, <1>7, <1>8

-----------------------------------------------------------------------------
(* The crawl.                                                              *)

\* The turns of the crawl from p, and the states they go through.
Turns(p) ==
  [n \in Nat |-> [s \in CrawlState |->
     IF s.crawling
     THEN CrawlOver(s, Code(mod, p.fn)[p.at + n - 1].op, At(p.fn, p.at + n)) ELSE s]]
Crawled(p) == Solution(CrawlStart, Turns(p))

LEMMA CrawlIs ==
  ASSUME NEW p
  PROVE  Crawl(p) = Crawled(p)[Len(Code(mod, p.fn)) - p.at + 1].conts
BY DEF Crawl, Crawled, Solution, Recursion, Turns

\* A turn of the crawl stays within its states.
LEMMA CrawlOverTyped ==
  ASSUME NEW s \in CrawlState, NEW op, NEW next \in [fn : Nat, at : Nat]
  PROVE  CrawlOver(s, op, next) \in CrawlState
<1>1. Append(s.conts, next) \in Seq([fn : Nat, at : Nat])
  BY DEF CrawlState
<1>2. s.ends + 1 \in Nat /\ s.elses + 1 \in Nat
      /\ (s.ends > 0 => s.ends - 1 \in Nat) /\ (s.elses > 0 => s.elses - 1 \in Nat)
  BY DEF CrawlState
<1> QED BY <1>1, <1>2 DEF CrawlOver, CrawlState

LEMMA CrawledTurns ==
  ASSUME NEW p, p.fn \in Nat, p.at \in Nat
  PROVE  /\ Crawled(p) \in [Nat -> CrawlState]
         /\ Crawled(p)[0] = CrawlStart
         /\ \A n \in Nat : Crawled(p)[n + 1] =
              IF Crawled(p)[n].crawling
              THEN CrawlOver(Crawled(p)[n], Code(mod, p.fn)[p.at + n].op, At(p.fn, p.at + n + 1))
              ELSE Crawled(p)[n]
<1>1. CrawlStart \in CrawlState
  BY DEF CrawlStart, CrawlState
<1>2. Turns(p) \in [Nat -> [CrawlState -> CrawlState]]
  <2>1. ASSUME NEW n \in Nat, NEW s \in CrawlState
        PROVE  CrawlOver(s, Code(mod, p.fn)[p.at + n - 1].op, At(p.fn, p.at + n)) \in CrawlState
    <3>1. At(p.fn, p.at + n) \in [fn : Nat, at : Nat]
      BY DEF At
    <3> QED BY <3>1, CrawlOverTyped
  <2> QED BY <2>1 DEF Turns
<1>3. /\ Crawled(p) \in [Nat -> CrawlState]
      /\ Crawled(p)[0] = CrawlStart
      /\ \A n \in Nat : Crawled(p)[n + 1] = Turns(p)[n + 1][Crawled(p)[n]]
  BY <1>1, <1>2, RecursionHolds DEF Crawled
<1>4. ASSUME NEW n \in Nat
      PROVE  Turns(p)[n + 1][Crawled(p)[n]] =
               IF Crawled(p)[n].crawling
               THEN CrawlOver(Crawled(p)[n], Code(mod, p.fn)[p.at + n].op, At(p.fn, p.at + n + 1))
               ELSE Crawled(p)[n]
  <2>1. Crawled(p)[n] \in CrawlState /\ p.at + (n + 1) - 1 = p.at + n /\ p.at + (n + 1) = p.at + n + 1
    BY <1>3
  <2> QED BY <2>1 DEF Turns
<1> QED BY <1>3, <1>4

\* What the crawl from inside the construct opened at a knows before it reads
\* the n-th instruction: the inner blocks that are open, and `else`s it passed.
CrawlGoes(p, n) ==
  LET s == Crawled(p)[n]
      code == Code(mod, p.fn)
  IN  /\ s.crawling
      /\ s.ends = Nesting(code, p.at + n) - Nesting(code, p.at)
      /\ \A i \in 1 .. Len(s.conts) :
           /\ s.conts[i].fn = p.fn
           /\ s.conts[i].at - 1 \in p.at .. p.at + n - 1
           /\ code[s.conts[i].at - 1].op = "else"

LEMMA CrawlGoesOn ==
  ASSUME NEW p, p.fn \in Nat, NEW a \in Nat \ {0}, p.at = a + 1,
         Structured(Code(mod, p.fn)), NEW e, Closes(Code(mod, p.fn), a, e),
         Code(mod, p.fn)[a].op \in Openers,
         NEW n \in Nat, n < e - p.at, CrawlGoes(p, n)
  PROVE  CrawlGoes(p, n + 1)
<1> DEFINE code == Code(mod, p.fn)
           N(k) == Nesting(code, k)
           s == Crawled(p)[n]
           k == p.at + n
           op == code[k].op
           next == At(p.fn, k + 1)
<1>1. /\ s \in CrawlState /\ s.crawling
      /\ s.ends = N(k) - N(p.at)
      /\ Crawled(p)[n + 1] = CrawlOver(s, op, next)
  <2>1. s.crawling /\ s.ends = N(k) - N(p.at)
    BY DEF CrawlGoes
  <2>2. p.at \in Nat /\ p.at + n + 1 = k + 1
    OBVIOUS
  <2>3. s \in CrawlState /\ Crawled(p)[n + 1] = IF s.crawling THEN CrawlOver(s, op, At(p.fn, p.at + n + 1)) ELSE s
    BY <2>2, CrawledTurns
  <2> QED BY <2>1, <2>2, <2>3
<1>2. /\ e \in Nat /\ k + 1 \in a + 1 .. e /\ k \in Nat \ {0}
      /\ N(k + 1) >= N(a) + 1
  BY DEF Closes
<1>3. N(k + 1) = N(k) + Change(op) /\ N(a + 1) = N(a) + 1 /\ N(k) \in Int /\ N(a) \in Int
  BY <1>2, NestingStep DEF Change
<1>4. ~(op = "end" /\ s.ends = 0)
  <2> HIDE DEF N, s, op, k
  <2>1. op = "end" => Change(op) = -1
    BY DEF Change, Openers
  <2> QED BY <1>1, <1>2, <1>3, <2>1
<1>5. /\ CrawlOver(s, op, next).crawling
      /\ CrawlOver(s, op, next).ends = s.ends + Change(op)
      /\ \/ CrawlOver(s, op, next).conts = s.conts
         \/ op = "else" /\ CrawlOver(s, op, next).conts = Append(s.conts, next)
  <2> HIDE DEF N, op, s, next
  <2> QED BY SMTT(30), <1>1, <1>4 DEF CrawlOver, CrawlState, Change, Openers
<1>6. N(k + 1) - N(p.at) = (N(k) - N(p.at)) + Change(op)
  <2>1. Change(op) \in Int /\ N(p.at) \in Int
    BY <1>3 DEF Change
  <2> QED BY <1>3, <2>1
<1>7. ASSUME NEW i \in 1 .. Len(CrawlOver(s, op, next).conts)
      PROVE  LET c == CrawlOver(s, op, next).conts[i]
             IN  /\ c.fn = p.fn
                 /\ c.at - 1 \in p.at .. p.at + (n + 1) - 1
                 /\ code[c.at - 1].op = "else"
  <2>1. \A j \in 1 .. Len(s.conts) :
          /\ s.conts[j].fn = p.fn
          /\ s.conts[j].at - 1 \in p.at .. p.at + n - 1
          /\ code[s.conts[j].at - 1].op = "else"
    BY DEF CrawlGoes
  <2>2. next.fn = p.fn /\ next.at = k + 1 /\ (k + 1) - 1 = k /\ k \in p.at .. p.at + (n + 1) - 1
    BY DEF At
  <2>3. s.conts \in Seq([fn : Nat, at : Nat])
    BY <1>1 DEF CrawlState
  <2>4. p.at .. p.at + n - 1 \subseteq p.at .. p.at + (n + 1) - 1
    OBVIOUS
  <2> HIDE DEF s, next
  <2>5. CASE CrawlOver(s, op, next).conts = s.conts
    BY <2>1, <2>4, <2>5
  <2>6. CASE op = "else" /\ CrawlOver(s, op, next).conts = Append(s.conts, next)
    <3>1. (i \in 1 .. Len(s.conts) /\ Append(s.conts, next)[i] = s.conts[i])
          \/ Append(s.conts, next)[i] = next
      BY <2>3, <2>6
    <3> QED BY <2>1, <2>2, <2>4, <2>6, <3>1
  <2> QED BY <1>5, <2>5, <2>6
<1>8. p.at + (n + 1) = k + 1
  OBVIOUS
<1> QED BY ZenonT(40), <1>1, <1>5, <1>6, <1>7, <1>8 DEF CrawlGoes

\* What the crawl from inside a construct finds: `else`s of the construct, of
\* which each is an instruction within it, and the position behind its `end`.
LEMMA CrawlFinds ==
  ASSUME NEW p, p.fn \in Nat, NEW a \in Nat \ {0}, p.at = a + 1,
         Structured(Code(mod, p.fn)), NEW e, Closes(Code(mod, p.fn), a, e),
         Code(mod, p.fn)[a].op \in Openers
  PROVE  /\ Crawl(p) \in Seq([fn : Nat, at : Nat]) /\ Crawl(p) # <<>>
         /\ Last(Crawl(p)) = At(p.fn, e + 1)
         /\ \E s \in CrawlState :
              /\ Crawled(p)[e - p.at] = s /\ CrawlGoes(p, e - p.at)
              /\ Crawl(p) = Append(s.conts, At(p.fn, e + 1))
<1> DEFINE T == {n \in Nat : n <= e - p.at => CrawlGoes(p, n)}
           code == Code(mod, p.fn)
           s == Crawled(p)[e - p.at]
           N(k) == Nesting(code, k)
           m == e - p.at
<1>1. e \in a + 1 .. Len(code) - 1 /\ Len(code) \in Nat /\ m \in Nat
  BY BodyNested DEF Closes
<1>2. 0 \in T
  <2>1. Nesting(code, p.at + 0) = Nesting(code, p.at) /\ Nesting(code, p.at) \in Int
    BY NestingStep
  <2>2. Crawled(p)[0] = CrawlStart
    BY p.at \in Nat, CrawledTurns
  <2>3. CrawlStart.crawling /\ CrawlStart.ends = 0 /\ Len(CrawlStart.conts) = 0
    BY DEF CrawlStart
  <2>4. CrawlGoes(p, 0)
    BY <2>1, <2>2, <2>3 DEF CrawlGoes
  <2> QED BY <2>4
<1>3. ASSUME NEW n \in Nat, n \in T PROVE n + 1 \in T
  <2>1. SUFFICES ASSUME n + 1 <= m PROVE CrawlGoes(p, n + 1)
    OBVIOUS
  <2>2. CrawlGoes(p, n) /\ n < e - p.at
    BY <1>1, <1>3, <2>1
  <2> QED BY <2>2, CrawlGoesOn
<1>4. CrawlGoes(p, m)
  <2>1. Nat \subseteq T
    <3> HIDE DEF T
    <3> QED BY <1>2, <1>3, SetInduction
  <2> QED BY <1>1, <2>1
<1>5. /\ p.at + m = e /\ code[e].op = "end" /\ N(e + 1) = N(a) /\ N(a + 1) = N(a) + 1
      /\ N(e + 1) = N(e) - 1 /\ N(e) \in Int /\ N(a) \in Int
  <2>1. code[e].op = "end" /\ N(e + 1) = N(a)
    BY DEF Closes
  <2>2. N(e + 1) = N(e) + Change("end") /\ N(a + 1) = N(a) + Change(code[a].op)
        /\ N(e) \in Int /\ N(a) \in Int
    BY <1>1, <2>1, e \in Nat \ {0}, NestingStep
  <2>3. Change("end") = -1 /\ Change(code[a].op) = 1
    BY DEF Change, Openers
  <2> QED BY <1>1, <2>1, <2>2, <2>3
<1>6. s \in CrawlState /\ s.crawling /\ s.ends = 0
  <2>1. s.crawling /\ s.ends = N(p.at + m) - N(p.at)
    BY <1>4 DEF CrawlGoes
  <2>2. s \in CrawlState
    BY <1>1, p.at \in Nat, CrawledTurns
  <2> QED BY <1>5, <2>1, <2>2
<1>7. Crawled(p)[m + 1] = CrawlOver(s, "end", At(p.fn, e + 1))
  <2>1. Crawled(p)[m + 1] = CrawlOver(s, code[p.at + m].op, At(p.fn, p.at + m + 1))
    BY <1>1, <1>6, p.at \in Nat, CrawledTurns
  <2> QED BY <1>5, <2>1
<1>8. Crawled(p)[m + 1] = [s EXCEPT !.conts = Append(@, At(p.fn, e + 1)), !.crawling = FALSE]
  BY <1>6, <1>7 DEF CrawlOver
<1> DEFINE U == {n \in Nat : Crawled(p)[m + 1 + n] = Crawled(p)[m + 1]}
<1>9. Nat \subseteq U
  <2>1. 0 \in U
    BY <1>1
  <2>2. ASSUME NEW n \in Nat, n \in U PROVE n + 1 \in U
    <3>1. ~Crawled(p)[m + 1].crawling
      BY <1>6, <1>8 DEF CrawlState
    <3>2. m + 1 + n \in Nat /\ m + 1 + (n + 1) = (m + 1 + n) + 1
      BY <1>1
    <3>3. Crawled(p)[(m + 1 + n) + 1] = Crawled(p)[m + 1 + n]
      BY <2>2, <3>1, <3>2, CrawledTurns
    <3> QED BY <2>2, <3>2, <3>3
  <2> HIDE DEF U
  <2> QED BY <2>1, <2>2, SetInduction
<1>10. Crawl(p) = Crawled(p)[m + 1].conts
  <2>1. Len(code) - p.at + 1 - (m + 1) \in Nat
        /\ m + 1 + (Len(code) - p.at + 1 - (m + 1)) = Len(code) - p.at + 1
    BY <1>1
  <2>2. Crawled(p)[Len(code) - p.at + 1] = Crawled(p)[m + 1]
    BY <1>9, <2>1
  <2> QED BY <2>2, CrawlIs
<1>11. Crawl(p) = Append(s.conts, At(p.fn, e + 1)) /\ s.conts \in Seq([fn : Nat, at : Nat])
       /\ At(p.fn, e + 1) \in [fn : Nat, at : Nat]
  <2>1. s.conts \in Seq([fn : Nat, at : Nat]) /\ At(p.fn, e + 1) \in [fn : Nat, at : Nat]
    BY <1>1, <1>6 DEF CrawlState, At
  <2>2. [s EXCEPT !.conts = Append(@, At(p.fn, e + 1)), !.crawling = FALSE].conts
          = Append(s.conts, At(p.fn, e + 1))
    BY <1>6 DEF CrawlState
  <2> HIDE DEF s, m
  <2> QED BY <1>8, <1>10, <2>1, <2>2
<1>12. /\ Crawl(p) \in Seq([fn : Nat, at : Nat]) /\ Crawl(p) # <<>>
       /\ Last(Crawl(p)) = At(p.fn, e + 1)
  <2> DEFINE c == s.conts
             f == At(p.fn, e + 1)
  <2>1. c \in Seq([fn : Nat, at : Nat]) /\ f \in [fn : Nat, at : Nat] /\ Crawl(p) = Append(c, f)
    BY <1>11
  <2> HIDE DEF c, f
  <2>2. Append(c, f) \in Seq([fn : Nat, at : Nat]) /\ Len(Append(c, f)) = Len(c) + 1
        /\ Append(c, f)[Len(c) + 1] = f /\ Len(c) \in Nat
    BY <2>1
  <2> QED BY <2>1, <2>2 DEF Last, f
<1> QED BY <1>4, <1>6, <1>11, <1>12

-----------------------------------------------------------------------------
(* The `else`s the crawl finds.                                            *)

\* The `else`s of a construct, by the nesting.
LEMMA OwnElsesAre ==
  ASSUME NEW code, Structured(code), NEW a \in 1 .. Len(code), code[a].op \in Openers,
         NEW e, Closes(code, a, e)
  PROVE  /\ OwnElses(code, a + 1) =
              {k \in a + 1 .. e : code[k].op = "else" /\ Nesting(code, k) = Nesting(code, a) + 1}
         /\ \A k \in a + 1 .. e : Nesting(code, k) >= Nesting(code, a) + 1
         /\ Nesting(code, a) \in Nat
         /\ \A k \in a + 1 .. e : Nesting(code, k) \in Nat
<1> DEFINE N(k) == Nesting(code, k)
<1>1. Len(code) \in Nat /\ (\A k \in 1 .. Len(code) : N(k) \in Nat)
  BY BodyNested
<1>2. e \in a + 1 .. Len(code) /\ (\A k \in a + 1 .. e : N(k) >= N(a) + 1) /\ N(a) \in Nat
  BY <1>1 DEF Closes
<1>3. \A k \in a + 1 .. e : N(k) \in Nat
  BY <1>1, <1>2
<1>4. ClosingEnd(code, a + 1) = e
  BY ClosingEndIs
<1>5. N(a + 1) = N(a) + 1
  BY a \in Nat \ {0}, NestingStep DEF Change
<1>6. ASSUME NEW k \in a + 1 .. e, code[k].op = "else" PROVE Balance(code, a + 1, k) = 0 <=> N(k) = N(a) + 1
  <2>1. N(k + 1) = N(k) + Change("else")
    BY <1>6, k \in Nat \ {0}, NestingStep
  <2>2. Change("else") = 0
    BY DEF Change, Openers
  <2>3. Balance(code, a + 1, k) = N(k + 1) - N(a + 1)
    BY DEF Balance
  <2> QED BY <1>2, <1>3, <1>5, <2>1, <2>2, <2>3
<1>7. OwnElses(code, a + 1) = {k \in a + 1 .. e : code[k].op = "else" /\ Balance(code, a + 1, k) = 0}
  BY <1>4 DEF OwnElses
<1> QED BY <1>2, <1>3, <1>6, <1>7

\* The inner `if`s, opened between from and k, whose `else` is not before k.
Waiting(code, from, k) ==
  {b \in from .. k - 1 : code[b].op = "if" /\ \E j \in k .. Len(code) : j \in OwnElses(code, b + 1)}

\* An `else` within a construct is the construct's, and then no inner `if` waits
\* for one, or that of an inner `if` that waits for it alone.
LEMMA ElseWithin ==
  ASSUME NEW code, Structured(code), NEW a \in 1 .. Len(code), code[a].op \in Openers,
         NEW e, Closes(code, a, e), NEW k \in a + 1 .. e, code[k].op = "else"
  PROVE  \/ k \in OwnElses(code, a + 1) /\ Waiting(code, a + 1, k) = {}
         \/ \E b \in Waiting(code, a + 1, k) :
              Waiting(code, a + 1, k + 1) \subseteq Waiting(code, a + 1, k) \ {b}
<1> DEFINE N(j) == Nesting(code, j)
<1>1. Len(code) \in Nat /\ e \in a + 1 .. Len(code) /\ k \in 1 .. Len(code)
  BY BodyNested DEF Closes
<1>2. PICK b \in 1 .. k - 1 : code[b].op = "if" /\ OwnElses(code, b + 1) = {k}
  BY <1>1 DEF Structured, WellNested
<1>3. ASSUME NEW o \in 1 .. k - 1, code[o].op \in Openers, NEW j \in k .. Len(code),
             j \in OwnElses(code, o + 1)
      PROVE  /\ \A i \in o + 1 .. j : N(i) \in Nat /\ N(i) >= N(o) + 1
             /\ N(o) \in Nat /\ N(j) = N(o) + 1
  <2>1. o \in 1 .. Len(code)
    BY <1>1
  <2>2. PICK c : Closes(code, o, c)
    BY <1>3, <2>1, BlockCloses
  <2>3. /\ j \in o + 1 .. c /\ N(j) = N(o) + 1 /\ N(o) \in Nat
        /\ \A i \in o + 1 .. c : N(i) \in Nat /\ N(i) >= N(o) + 1
    BY SMTT(30), <1>3, <2>1, <2>2, OwnElsesAre
  <2>4. c \in Int
    BY <2>2 DEF Closes
  <2> QED BY <2>3, <2>4
<1>4. /\ \A i \in b + 1 .. k : N(i) \in Nat /\ N(i) >= N(b) + 1
      /\ N(b) \in Nat /\ N(k) = N(b) + 1
  BY <1>1, <1>2, <1>3 DEF Openers
<1>5. /\ OwnElses(code, a + 1) = {j \in a + 1 .. e : code[j].op = "else" /\ N(j) = N(a) + 1}
      /\ N(a) \in Nat /\ \A j \in a + 1 .. e : N(j) \in Nat /\ N(j) >= N(a) + 1
  BY OwnElsesAre
<1>6. ASSUME b < a PROVE FALSE
  <2>1. a \in b + 1 .. k
    BY <1>6
  <2> QED BY <1>4, <1>5, <2>1
<1>7. CASE b = a
  <2>1. k \in OwnElses(code, a + 1)
    BY <1>2, <1>7
  <2>2. ASSUME NEW o \in Waiting(code, a + 1, k) PROVE FALSE
    <3>1. o \in a + 1 .. k - 1 /\ o \in 1 .. k - 1 /\ code[o].op \in Openers
      BY DEF Waiting, Openers
    <3>2. PICK j \in k .. Len(code) : j \in OwnElses(code, o + 1)
      BY DEF Waiting
    <3>3. N(k) >= N(o) + 1 /\ N(o) \in Nat
      BY <1>3, <3>1, <3>2
    <3>4. N(o) >= N(a) + 1
      <4>1. o \in a + 1 .. e
        BY <1>1, <3>1
      <4> QED BY <1>5, <4>1
    <3> QED BY <1>4, <1>5, <1>7, <3>3, <3>4
  <2> QED BY <2>1, <2>2
<1>8. CASE a < b
  <2>1. b \in Waiting(code, a + 1, k)
    BY <1>1, <1>2, <1>8 DEF Waiting
  <2>2. ASSUME NEW o \in Waiting(code, a + 1, k + 1) PROVE o \in Waiting(code, a + 1, k) /\ o # b
    <3>1. o \in a + 1 .. k /\ code[o].op = "if" /\ o # k
      BY DEF Waiting
    <3>2. PICK j \in k + 1 .. Len(code) : j \in OwnElses(code, o + 1)
      BY DEF Waiting
    <3>3. o # b
      BY <1>2, <3>2
    <3> QED BY <3>1, <3>2, <3>3 DEF Waiting
  <2> QED BY <2>1, <2>2
<1> QED BY <1>1, <1>6, <1>7, <1>8

\* While the crawl is within a construct, the `else`s it found are the
\* construct's, and it counts at least the inner `if`s that wait for theirs.
ElsesGo(p, n) ==
  LET s == Crawled(p)[n]
      code == Code(mod, p.fn)
      waiting == Waiting(code, p.at, p.at + n)
  IN  /\ IsFiniteSet(waiting) /\ Cardinality(waiting) <= s.elses
      /\ \A i \in 1 .. Len(s.conts) : s.conts[i].at - 1 \in OwnElses(code, p.at)

LEMMA ElsesGoOn ==
  ASSUME NEW p, p.fn \in Nat, NEW a \in 1 .. Len(Code(mod, p.fn)), p.at = a + 1,
         Structured(Code(mod, p.fn)), NEW e, Closes(Code(mod, p.fn), a, e),
         Code(mod, p.fn)[a].op \in Openers,
         NEW n \in Nat, n < e - p.at, CrawlGoes(p, n), CrawlGoes(p, n + 1), ElsesGo(p, n)
  PROVE  ElsesGo(p, n + 1)
<1> DEFINE code == Code(mod, p.fn)
           s == Crawled(p)[n]
           t == Crawled(p)[n + 1]
           k == p.at + n
           op == code[k].op
           next == At(p.fn, k + 1)
           w == Waiting(code, p.at, k)
           v == Waiting(code, p.at, k + 1)
<1>1. /\ s \in CrawlState /\ s.crawling /\ t.crawling
      /\ t = CrawlOver(s, op, next)
  <2>1. s.crawling /\ t.crawling
    BY DEF CrawlGoes
  <2>2. p.at \in Nat /\ p.at + n + 1 = k + 1
    OBVIOUS
  <2>3. s \in CrawlState /\ t = IF s.crawling THEN CrawlOver(s, op, At(p.fn, p.at + n + 1)) ELSE s
    BY <2>2, CrawledTurns
  <2> QED BY <2>1, <2>2, <2>3
<1>2. /\ IsFiniteSet(w) /\ Cardinality(w) <= s.elses
      /\ \A i \in 1 .. Len(s.conts) : s.conts[i].at - 1 \in OwnElses(code, p.at)
  BY DEF ElsesGo
<1>3. e \in Int /\ k \in a + 1 .. e /\ p.at + (n + 1) = k + 1
  <2>1. e \in Int /\ p.at \in Int /\ a \in Int
    BY DEF Closes
  <2> QED BY <2>1
<1>4. next.at - 1 = k
  BY DEF At
<1>5. SUFFICES /\ IsFiniteSet(v) /\ Cardinality(v) <= t.elses
               /\ \A i \in 1 .. Len(t.conts) : t.conts[i].at - 1 \in OwnElses(code, p.at)
  BY <1>3 DEF ElsesGo
<1>6. s.elses \in Nat /\ s.conts \in Seq([fn : Nat, at : Nat]) /\ Cardinality(w) \in Nat
  BY <1>1, <1>2, FS_CardinalityType DEF CrawlState
<1>7. CASE op = "else"
  <2>1. CASE k \in OwnElses(code, p.at) /\ w = {}
    <3>1. v = {}
      <4>1. v \subseteq w
        BY <1>3, <1>7 DEF Waiting
      <4> QED BY <2>1, <4>1
    <3>2. IsFiniteSet(v) /\ Cardinality(v) = 0
      BY <3>1, FS_EmptySet
    <3>3. t.elses \in Nat /\ (t.conts = s.conts \/ t.conts = Append(s.conts, next))
      <4> HIDE DEF s, t, op, next
      <4> QED BY SMTT(30), <1>1, <1>7 DEF CrawlOver, CrawlState, Openers
    <3>4. ASSUME NEW i \in 1 .. Len(t.conts) PROVE t.conts[i].at - 1 \in OwnElses(code, p.at)
      <4> HIDE DEF s, t, next, k, code
      <4>1. CASE t.conts = s.conts
        BY <1>2, <4>1
      <4>2. CASE t.conts = Append(s.conts, next)
        <5>1. (i \in 1 .. Len(s.conts) /\ t.conts[i] = s.conts[i]) \/ t.conts[i] = next
          BY <1>6, <4>2
        <5> QED BY <1>2, <1>4, <2>1, <5>1
      <4> QED BY <3>3, <4>1, <4>2
    <3>5. 0 <= t.elses
      BY <3>3
    <3> HIDE DEF t, v
    <3> QED BY <3>2, <3>4, <3>5
  <2>2. CASE \E b \in w : v \subseteq w \ {b}
    <3>1. PICK b \in w : v \subseteq w \ {b}
      BY <2>2
    <3> HIDE DEF w, v
    <3>2. IsFiniteSet(w \ {b}) /\ Cardinality(w \ {b}) = Cardinality(w) - 1
      BY <1>2, <3>1, FS_RemoveElement
    <3>3. IsFiniteSet(v) /\ Cardinality(v) <= Cardinality(w) - 1 /\ Cardinality(v) \in Nat
      BY <3>1, <3>2, FS_Subset, FS_CardinalityType
    <3>4. s.elses > 0
      BY <1>2, <1>6, <3>3
    <3>5. t.elses = s.elses - 1 /\ t.conts = s.conts
      <4> HIDE DEF s, t, op, next
      <4> QED BY <1>1, <1>7, <1>6, <3>4 DEF CrawlOver, CrawlState, Openers
    <3> HIDE DEF s, t, k, code
    <3> QED BY <1>2, <1>6, <3>3, <3>5
  <2> QED BY SMTT(30), <1>3, <1>7, <2>1, <2>2, ElseWithin
<1>8. CASE op # "else"
  <2>1. t.conts = s.conts /\ t.elses = (IF op = "if" THEN s.elses + 1 ELSE s.elses)
    <3> HIDE DEF s, t, op, next
    <3> QED BY <1>1, <1>8 DEF CrawlOver, CrawlState, Openers
  <2>2. v \subseteq (IF op = "if" THEN w \cup {k} ELSE w)
    BY <1>3 DEF Waiting
  <2> HIDE DEF w, v, s, t, op, k, code
  <2>3. IsFiniteSet(w \cup {k}) /\ Cardinality(w \cup {k}) <= Cardinality(w) + 1
    <3>1. Cardinality(w \cup {k}) = IF k \in w THEN Cardinality(w) ELSE Cardinality(w) + 1
      BY <1>2, FS_AddElement
    <3> QED BY <1>2, <1>6, <3>1, FS_AddElement
  <2>4. CASE op = "if"
    <3>1. IsFiniteSet(v) /\ Cardinality(v) <= Cardinality(w \cup {k})
      BY <2>2, <2>3, <2>4, FS_Subset
    <3>2. Cardinality(v) \in Nat /\ Cardinality(w \cup {k}) \in Nat
      BY <2>3, <3>1, FS_CardinalityType
    <3> QED BY <1>2, <1>6, <2>1, <2>3, <2>4, <3>1, <3>2
  <2>5. CASE op # "if"
    <3>1. IsFiniteSet(v) /\ Cardinality(v) <= Cardinality(w)
      BY <1>2, <2>2, <2>5, FS_Subset
    <3>2. Cardinality(v) \in Nat
      BY <3>1, FS_CardinalityType
    <3>3. t.elses = s.elses /\ t.conts = s.conts
      BY <2>1, <2>5
    <3>4. Cardinality(v) <= t.elses
      BY <1>2, <1>6, <3>1, <3>2, <3>3
    <3> QED BY <1>2, <3>1, <3>3, <3>4
  <2> QED BY <2>4, <2>5
<1> QED BY <1>7, <1>8

\* The crawl from inside a construct finds `else`s of the construct only.
LEMMA CrawlFindsElses ==
  ASSUME NEW p, p.fn \in Nat, NEW a \in 1 .. Len(Code(mod, p.fn)), p.at = a + 1,
         Structured(Code(mod, p.fn)), NEW e, Closes(Code(mod, p.fn), a, e),
         Code(mod, p.fn)[a].op \in Openers
  PROVE  ElsesGo(p, e - p.at)
<1> DEFINE T == {n \in Nat : n <= e - p.at => CrawlGoes(p, n) /\ ElsesGo(p, n)}
<1>1. a \in Nat \ {0} /\ e - p.at \in Nat
  <2>1. e \in a + 1 .. Len(Code(mod, p.fn)) - 1 /\ p.at \in Int /\ a \in Int /\ a \in Nat \ {0}
    BY DEF Closes
  <2> QED BY <2>1
<1>2. CrawlGoes(p, 0) /\ ElsesGo(p, 0)
  <2>1. Nesting(Code(mod, p.fn), p.at + 0) = Nesting(Code(mod, p.fn), p.at)
        /\ Nesting(Code(mod, p.fn), p.at) \in Int
    BY NestingStep
  <2>2. Crawled(p)[0] = CrawlStart
    BY p.at \in Nat, CrawledTurns
  <2>3. CrawlStart.crawling /\ CrawlStart.ends = 0 /\ CrawlStart.elses = 0 /\ Len(CrawlStart.conts) = 0
    BY DEF CrawlStart
  <2>4. Waiting(Code(mod, p.fn), p.at, p.at + 0) = {}
    BY DEF Waiting
  <2>5. CrawlGoes(p, 0)
    BY <2>1, <2>2, <2>3 DEF CrawlGoes
  <2>6. ElsesGo(p, 0)
    <3>1. IsFiniteSet({}) /\ Cardinality({}) = 0
      BY FS_EmptySet
    <3>2. Cardinality({}) <= CrawlStart.elses
      BY <2>3, <3>1
    <3>3. \A i \in 1 .. Len(CrawlStart.conts) : FALSE
      BY <2>3
    <3> QED BY <2>2, <2>4, <3>1, <3>2, <3>3 DEF ElsesGo
  <2> QED BY <2>5, <2>6
<1>3. ASSUME NEW n \in Nat, n \in T PROVE n + 1 \in T
  <2>1. SUFFICES ASSUME n + 1 <= e - p.at PROVE CrawlGoes(p, n + 1) /\ ElsesGo(p, n + 1)
    OBVIOUS
  <2>2. n < e - p.at /\ CrawlGoes(p, n) /\ ElsesGo(p, n)
    BY <1>1, <1>3, <2>1
  <2>3. CrawlGoes(p, n + 1)
    BY <1>1, <2>2, CrawlGoesOn
  <2>4. ElsesGo(p, n + 1)
    BY <2>2, <2>3, ElsesGoOn
  <2> QED BY <2>3, <2>4
<1>4. 0 \in T
  BY <1>2
<1>5. Nat \subseteq T
  <2> HIDE DEF T
  <2> QED BY <1>3, <1>4, SetInduction
<1> QED BY <1>1, <1>5

\* A construct that has an `else` has no other.
LEMMA OneElse ==
  ASSUME NEW code, Structured(code), NEW a \in 1 .. Len(code), code[a].op \in Openers,
         NEW k \in OwnElses(code, a + 1)
  PROVE  OwnElses(code, a + 1) = {k}
<1> DEFINE N(j) == Nesting(code, j)
<1>1. PICK e : Closes(code, a, e)
  BY BlockCloses
<1>2. Len(code) \in Nat /\ e \in a + 1 .. Len(code)
  BY <1>1, BodyNested DEF Closes
<1>3. /\ k \in a + 1 .. e /\ code[k].op = "else" /\ N(k) = N(a) + 1 /\ N(a) \in Nat
      /\ \A j \in a + 1 .. e : N(j) \in Nat /\ N(j) >= N(a) + 1
  BY <1>1, OwnElsesAre
<1>4. k \in 1 .. Len(code)
  BY <1>2, <1>3
<1>5. PICK o \in 1 .. k - 1 : code[o].op = "if" /\ OwnElses(code, o + 1) = {k}
  BY <1>3, <1>4 DEF Structured, WellNested
<1>6. o \in 1 .. Len(code) /\ code[o].op \in Openers
  BY <1>4, <1>5 DEF Openers
<1>7. PICK c : Closes(code, o, c)
  BY <1>6, BlockCloses
<1>8. /\ k \in o + 1 .. c /\ N(k) = N(o) + 1 /\ N(o) \in Nat /\ c \in Int
      /\ \A j \in o + 1 .. c : N(j) \in Nat /\ N(j) >= N(o) + 1
  <2>1. c \in Int
    BY <1>7 DEF Closes
  <2>2. k \in OwnElses(code, o + 1)
    BY <1>5
  <2> QED BY <1>6, <1>7, <2>1, <2>2, OwnElsesAre
<1>9. ~(a < o)
  <2>1. SUFFICES ASSUME a < o PROVE FALSE
    OBVIOUS
  <2>2. o \in a + 1 .. e
    BY <1>2, <1>3, <1>5, <2>1
  <2> QED BY <1>3, <1>8, <2>2
<1>10. ~(o < a)
  <2>1. SUFFICES ASSUME o < a PROVE FALSE
    OBVIOUS
  <2>2. a \in o + 1 .. c
    BY <1>3, <1>8, <2>1
  <2> QED BY <1>3, <1>8, <2>2
<1>11. o = a
  BY <1>9, <1>10
<1> QED BY <1>5, <1>11

\* What the crawl finds from inside a construct is what the nesting says: the
\* `else` of the construct, if any, and the position behind its `end`.
LEMMA CrawlStructural ==
  ASSUME NEW p, p.fn \in Nat, NEW a \in 1 .. Len(Code(mod, p.fn)), p.at = a + 1,
         Structured(Code(mod, p.fn)), Code(mod, p.fn)[a].op \in Openers
  PROVE  \E e : LET code == Code(mod, p.fn)
                    conts == Crawl(p)
                IN  /\ Closes(code, a, e) /\ ClosingEnd(code, p.at) = e
                    /\ conts \in Seq([fn : Nat, at : Nat]) /\ Len(conts) >= 1
                    /\ Last(conts) = At(p.fn, e + 1)
                    /\ \A i \in 1 .. Len(conts) - 1 :
                         /\ conts[i].fn = p.fn
                         /\ conts[i].at - 1 \in a + 1 .. e - 1
                         /\ conts[i].at - 1 \in OwnElses(code, p.at)
                    /\ Len(conts) >= 2 =>
                         {conts[i].at - 1 : i \in 1 .. Len(conts) - 1} = OwnElses(code, p.at)
<1> DEFINE code == Code(mod, p.fn)
           conts == Crawl(p)
<1>1. PICK e : Closes(code, a, e)
  BY BlockCloses
<1>2. ClosingEnd(code, p.at) = e
  BY <1>1, ClosingEndIs
<1>3. /\ conts \in Seq([fn : Nat, at : Nat]) /\ conts # <<>> /\ Last(conts) = At(p.fn, e + 1)
      /\ \E s \in CrawlState :
           /\ Crawled(p)[e - p.at] = s /\ CrawlGoes(p, e - p.at)
           /\ conts = Append(s.conts, At(p.fn, e + 1))
  BY <1>1, a \in Nat \ {0}, CrawlFinds
<1>4. PICK s \in CrawlState : /\ Crawled(p)[e - p.at] = s /\ CrawlGoes(p, e - p.at)
                             /\ conts = Append(s.conts, At(p.fn, e + 1))
  BY <1>3
<1>5. ElsesGo(p, e - p.at)
  BY <1>1, CrawlFindsElses
<1>6. e \in Int /\ p.at + (e - p.at) - 1 = e - 1 /\ p.at = a + 1
  <2>1. e \in Int
    BY <1>1 DEF Closes
  <2> QED BY <2>1
<1>7. \A i \in 1 .. Len(s.conts) : /\ s.conts[i].fn = p.fn
                                  /\ s.conts[i].at - 1 \in a + 1 .. e - 1
                                  /\ s.conts[i].at - 1 \in OwnElses(code, p.at)
  BY <1>4, <1>5, <1>6 DEF CrawlGoes, ElsesGo
<1>8. s.conts \in Seq([fn : Nat, at : Nat]) /\ At(p.fn, e + 1) \in [fn : Nat, at : Nat]
  <2>1. e + 1 \in Nat
    BY <1>1 DEF Closes
  <2> QED BY <2>1 DEF CrawlState, At
<1>9. Len(conts) = Len(s.conts) + 1 /\ \A i \in 1 .. Len(s.conts) : conts[i] = s.conts[i]
  <2> DEFINE f == At(p.fn, e + 1)
             c == s.conts
  <2>1. conts = Append(c, f) /\ c \in Seq([fn : Nat, at : Nat]) /\ f \in [fn : Nat, at : Nat]
    BY <1>4, <1>8
  <2> HIDE DEF f, c, conts
  <2>2. Len(conts) = Len(c) + 1 /\ \A i \in 1 .. Len(c) : conts[i] = c[i]
    BY <2>1
  <2> QED BY <2>2 DEF c
<1> HIDE DEF conts, code
<1>10. Len(s.conts) \in Nat /\ Len(conts) - 1 = Len(s.conts) /\ Len(conts) >= 1
  BY <1>8, <1>9
<1>11. \A i \in 1 .. Len(conts) - 1 : /\ conts[i].fn = p.fn
                                     /\ conts[i].at - 1 \in a + 1 .. e - 1
                                     /\ conts[i].at - 1 \in OwnElses(code, p.at)
  BY <1>7, <1>9, <1>10
<1>12. ASSUME Len(conts) >= 2
       PROVE  {conts[i].at - 1 : i \in 1 .. Len(conts) - 1} = OwnElses(code, p.at)
  <2>1. 1 \in 1 .. Len(conts) - 1
    BY <1>10, <1>12
  <2>2. conts[1].at - 1 \in OwnElses(code, a + 1)
    BY <1>6, <1>11, <2>1
  <2>3. OwnElses(code, a + 1) = {conts[1].at - 1}
    BY <2>2, OneElse DEF code
  <2> QED BY <1>6, <1>11, <2>1, <2>3
<1> QED BY <1>1, <1>2, <1>3, <1>10, <1>11, <1>12 DEF conts, code

\* An `else` belongs to one construct.
LEMMA OneOwner ==
  ASSUME NEW code, Structured(code), NEW a \in 1 .. Len(code), code[a].op \in Openers,
         NEW b \in 1 .. Len(code), code[b].op \in Openers,
         NEW k, k \in OwnElses(code, a + 1), k \in OwnElses(code, b + 1)
  PROVE  ~(a < b)
<1> DEFINE N(j) == Nesting(code, j)
<1>1. PICK e : Closes(code, a, e)
  BY BlockCloses
<1>2. PICK c : Closes(code, b, c)
  BY BlockCloses
<1>3. /\ k \in a + 1 .. e /\ N(k) = N(a) + 1 /\ N(a) \in Nat
      /\ \A j \in a + 1 .. e : N(j) \in Nat /\ N(j) >= N(a) + 1
  BY <1>1, OwnElsesAre
<1>4. k \in b + 1 .. c /\ N(k) = N(b) + 1 /\ N(b) \in Nat
  BY <1>2, OwnElsesAre
<1>5. SUFFICES ASSUME a < b PROVE FALSE
  OBVIOUS
<1>6. e \in Int /\ c \in Int
  BY <1>1, <1>2 DEF Closes
<1>7. b \in a + 1 .. e
  BY <1>3, <1>4, <1>5, <1>6
<1> QED BY <1>3, <1>4, <1>7

\* Where every `if` has an else, the crawl waits for the `else`s of the inner
\* `if`s only, and has found the construct's own once it is past it.
Matched(p, n) ==
  LET s == Crawled(p)[n]
      code == Code(mod, p.fn)
  IN  /\ s.elses <= Cardinality(Waiting(code, p.at, p.at + n))
      /\ \A k \in OwnElses(code, p.at) : k < p.at + n => Len(s.conts) >= 1

LEMMA MatchedOn ==
  ASSUME NEW p, p.fn \in Nat, NEW a \in 1 .. Len(Code(mod, p.fn)), p.at = a + 1,
         Structured(Code(mod, p.fn)), NEW e, Closes(Code(mod, p.fn), a, e),
         Code(mod, p.fn)[a].op \in Openers,
         \A k \in 1 .. Len(Code(mod, p.fn)) : Code(mod, p.fn)[k].op = "if" =>
           OwnElses(Code(mod, p.fn), k + 1) # {},
         NEW n \in Nat, n < e - p.at, CrawlGoes(p, n), CrawlGoes(p, n + 1), ElsesGo(p, n),
         ElsesGo(p, n + 1), Matched(p, n)
  PROVE  Matched(p, n + 1)
<1> DEFINE code == Code(mod, p.fn)
           s == Crawled(p)[n]
           t == Crawled(p)[n + 1]
           k == p.at + n
           op == code[k].op
           next == At(p.fn, k + 1)
           w == Waiting(code, p.at, k)
           v == Waiting(code, p.at, k + 1)
<1>1. /\ s \in CrawlState /\ s.crawling /\ t.crawling
      /\ t = CrawlOver(s, op, next)
  <2>1. s.crawling /\ t.crawling
    BY DEF CrawlGoes
  <2>2. p.at \in Nat /\ p.at + n + 1 = k + 1
    OBVIOUS
  <2>3. s \in CrawlState /\ t = IF s.crawling THEN CrawlOver(s, op, At(p.fn, p.at + n + 1)) ELSE s
    BY <2>2, CrawledTurns
  <2> QED BY <2>1, <2>2, <2>3
<1>2. e \in Int /\ k \in a + 1 .. e /\ p.at + (n + 1) = k + 1 /\ Len(code) \in Nat /\ k \in 1 .. Len(code)
  <2>1. e \in a + 1 .. Len(code) - 1 /\ p.at \in Int /\ a \in Int /\ Len(code) \in Nat
    BY BodyNested DEF Closes
  <2> QED BY <2>1
<1>3. /\ IsFiniteSet(w) /\ IsFiniteSet(v) /\ s.elses <= Cardinality(w)
      /\ \A j \in OwnElses(code, p.at) : j < k => Len(s.conts) >= 1
  BY <1>2 DEF ElsesGo, Matched
<1>4. s.elses \in Nat /\ s.conts \in Seq([fn : Nat, at : Nat]) /\ Len(s.conts) \in Nat
      /\ Cardinality(w) \in Nat /\ Cardinality(v) \in Nat
  <2>1. Cardinality(w) \in Nat /\ Cardinality(v) \in Nat
    <3> HIDE DEF w, v
    <3> QED BY <1>3, FS_CardinalityType
  <2>2. s \in CrawlState
    BY <1>1
  <2> HIDE DEF s, w, v
  <2>3. s.elses \in Nat /\ s.conts \in Seq([fn : Nat, at : Nat])
    BY <2>2 DEF CrawlState
  <2> QED BY <2>1, <2>3
<1>5. SUFFICES /\ t.elses <= Cardinality(v)
               /\ \A j \in OwnElses(code, p.at) : j < k + 1 => Len(t.conts) >= 1
  BY <1>2 DEF Matched
<1>6. \A j \in OwnElses(code, p.at) : j \in Int /\ code[j].op = "else"
  BY OwnElsesAre
<1>7. CASE op = "else"
  <2>1. CASE k \in OwnElses(code, p.at) /\ w = {}
    <3>1. s.elses = 0
      <4>1. Cardinality(w) = 0
        BY <2>1, FS_EmptySet
      <4> QED BY <1>3, <1>4, <4>1
    <3>2. t.elses = 0 /\ t.conts = Append(s.conts, next)
      <4> HIDE DEF s, t, op, next
      <4> QED BY SMTT(30), <1>1, <1>7, <3>1 DEF CrawlOver, CrawlState, Openers
    <3>3. Len(t.conts) >= 1
      <4>1. next \in [fn : Nat, at : Nat]
        BY <1>2 DEF At
      <4> HIDE DEF s, t, next
      <4> QED BY <1>4, <3>2, <4>1
    <3> HIDE DEF t, v
    <3> QED BY <1>4, <3>2, <3>3
  <2>2. CASE k \notin OwnElses(code, p.at) \/ w # {}
    <3>1. PICK b \in w : v \subseteq w \ {b}
      BY <1>2, <1>7, <2>2, ElseWithin
    <3>2. b \in 1 .. Len(code) /\ code[b].op \in Openers /\ b < k
      <4>1. b \in p.at .. k - 1 /\ code[b].op = "if"
        BY <3>1 DEF Waiting
      <4>2. p.at \in Nat /\ p.at >= 1 /\ k \in Int /\ k <= Len(code) /\ Len(code) \in Nat
        BY <1>2
      <4> HIDE DEF w, v, code, k
      <4>3. b \in 1 .. Len(code) /\ b < k
        BY <4>1, <4>2
      <4> QED BY <4>1, <4>3 DEF Openers
    <3>3. PICK j \in k .. Len(code) : j \in OwnElses(code, b + 1)
      BY <3>1 DEF Waiting
    <3>4. j = k
      <4>1. SUFFICES ASSUME j # k PROVE FALSE
        OBVIOUS
      <4>2. j \in k + 1 .. Len(code)
        BY <1>2, <3>3, <4>1
      <4>3. b \in v
        BY <1>2, <3>1, <3>3, <4>2 DEF Waiting
      <4> QED BY <3>1, <4>3
    <3>5. k \notin OwnElses(code, p.at)
      <4>1. SUFFICES ASSUME k \in OwnElses(code, a + 1) PROVE FALSE
        OBVIOUS
      <4>2. ~(a < b)
        BY <3>2, <3>3, <3>4, <4>1, OneOwner
      <4>3. a < b
        BY <3>1 DEF Waiting
      <4> QED BY <4>2, <4>3
    <3>6. ASSUME NEW o \in w, o # b PROVE o \in v
      <4>1. o \in p.at .. k - 1 /\ o \in 1 .. Len(code) /\ code[o].op = "if"
        <5>1. o \in p.at .. k - 1 /\ code[o].op = "if"
          BY DEF Waiting
        <5> HIDE DEF w, v
        <5> QED BY SMTT(30), <1>2, <5>1
      <4>2. PICK i \in k .. Len(code) : i \in OwnElses(code, o + 1)
        BY DEF Waiting
      <4>3. i # k
        <5>1. SUFFICES ASSUME i = k PROVE FALSE
          OBVIOUS
        <5>2. ~(o < b) /\ ~(b < o)
          BY <3>2, <3>3, <3>4, <4>1, <4>2, <5>1, OneOwner DEF Openers
        <5>3. o \in Int /\ b \in Int
          BY <3>2, <4>1
        <5> QED BY <3>6, <5>2, <5>3
      <4>4. i \in k + 1 .. Len(code) /\ o \in p.at .. (k + 1) - 1
        BY <1>2, <4>1, <4>2, <4>3
      <4> QED BY <4>1, <4>2, <4>4 DEF Waiting
    <3>7. v = w \ {b}
      BY <3>1, <3>6
    <3> HIDE DEF w, v
    <3>8. Cardinality(v) = Cardinality(w) - 1
      BY <1>3, <3>1, <3>7, FS_RemoveElement
    <3>9. s.elses >= 1
      <4>1. Cardinality(w) >= 1
        BY <1>4, <3>8
      <4>2. ElsesGo(p, n)
        OBVIOUS
      <4>3. Cardinality(w) <= s.elses
        BY <4>2 DEF ElsesGo, w
      <4> QED BY <1>4, <4>1, <4>3
    <3>10. t.elses = s.elses - 1 /\ t.conts = s.conts
      <4> HIDE DEF s, t, op, next
      <4> QED BY <1>1, <1>4, <1>7, <3>9 DEF CrawlOver, CrawlState, Openers
    <3>11. \A i \in OwnElses(code, p.at) : i < k + 1 => i < k
      BY <1>2, <1>6, <3>5
    <3> HIDE DEF s, t, k, code
    <3> QED BY SMTT(30), <1>3, <1>4, <3>8, <3>10, <3>11
  <2> QED BY <2>1, <2>2
<1>8. CASE op # "else"
  <2>1. t.conts = s.conts /\ t.elses = (IF op = "if" THEN s.elses + 1 ELSE s.elses)
    <3> HIDE DEF s, t, op, next
    <3> QED BY <1>1, <1>8 DEF CrawlOver, CrawlState, Openers
  <2>2. w \subseteq v
    <3>1. SUFFICES ASSUME NEW o \in w PROVE o \in v
      OBVIOUS
    <3>2. o \in p.at .. k - 1 /\ code[o].op = "if" /\ o \in 1 .. Len(code) /\ code[o].op \in Openers
      BY <1>2 DEF Waiting, Openers
    <3>3. PICK i \in k .. Len(code) : i \in OwnElses(code, o + 1)
      BY DEF Waiting
    <3>4. code[i].op = "else"
      BY <3>3 DEF OwnElses
    <3>5. i \in k + 1 .. Len(code) /\ o \in p.at .. (k + 1) - 1
      BY <1>2, <1>8, <3>2, <3>3, <3>4
    <3> QED BY <3>2, <3>3, <3>5 DEF Waiting
  <2>3. \A j \in OwnElses(code, p.at) : j < k + 1 => j < k
    BY <1>2, <1>6, <1>8
  <2>4. CASE op = "if"
    <3>1. PICK i : i \in OwnElses(code, k + 1)
      BY <1>2, <2>4
    <3>2. PICK c : Closes(code, k, c)
      BY <1>2, <2>4, BlockCloses DEF Openers
    <3>3. i \in k + 1 .. c /\ c \in k + 1 .. Len(code) - 1
      BY <1>2, <2>4, <3>1, <3>2, OwnElsesAre DEF Openers, Closes
    <3>4. i \in k + 1 .. Len(code)
      BY <1>2, <3>3
    <3>5. k \in v /\ k \notin w
      BY <1>2, <2>4, <3>1, <3>4 DEF Waiting
    <3>6. w \cup {k} \subseteq v
      BY <2>2, <3>5
    <3> HIDE DEF w, v
    <3>7. IsFiniteSet(w \cup {k}) /\ Cardinality(w \cup {k}) = Cardinality(w) + 1
      BY <1>3, <3>5, FS_AddElement
    <3>8. Cardinality(w \cup {k}) <= Cardinality(v)
      BY <1>3, <3>6, <3>7, FS_Subset
    <3> HIDE DEF s, t, k, code, op
    <3> QED BY <1>3, <1>4, <2>1, <2>3, <2>4, <3>7, <3>8
  <2>5. CASE op # "if"
    <3> HIDE DEF w, v
    <3>1. Cardinality(w) <= Cardinality(v)
      BY <1>3, <2>2, FS_Subset
    <3> HIDE DEF s, t, k, code, op
    <3> QED BY <1>3, <1>4, <2>1, <2>3, <2>5, <3>1
  <2> QED BY <2>4, <2>5
<1> QED BY <1>7, <1>8

\* Then it finds the `else` of an `if`.
LEMMA IfCrawled ==
  ASSUME NEW p, p.fn \in Nat, NEW a \in 1 .. Len(Code(mod, p.fn)), p.at = a + 1,
         Structured(Code(mod, p.fn)), Code(mod, p.fn)[a].op \in Openers,
         \A k \in 1 .. Len(Code(mod, p.fn)) : Code(mod, p.fn)[k].op = "if" =>
           OwnElses(Code(mod, p.fn), k + 1) # {},
         OwnElses(Code(mod, p.fn), p.at) # {}
  PROVE  Len(Crawl(p)) >= 2
<1> DEFINE code == Code(mod, p.fn)
<1>1. PICK e : Closes(code, a, e)
  BY BlockCloses
<1> DEFINE T == {n \in Nat : n <= e - p.at => CrawlGoes(p, n) /\ ElsesGo(p, n) /\ Matched(p, n)}
<1>2. a \in Nat \ {0} /\ e - p.at \in Nat /\ e \in Int
  <2>1. e \in a + 1 .. Len(code) - 1 /\ p.at \in Int /\ a \in Int /\ a \in Nat \ {0}
    BY <1>1 DEF Closes
  <2> QED BY <2>1
<1>3. CrawlGoes(p, 0) /\ ElsesGo(p, 0) /\ Matched(p, 0)
  <2>1. Nesting(code, p.at + 0) = Nesting(code, p.at) /\ Nesting(code, p.at) \in Int
    BY NestingStep
  <2>2. Crawled(p)[0] = CrawlStart
    BY p.at \in Nat, CrawledTurns
  <2>3. CrawlStart.crawling /\ CrawlStart.ends = 0 /\ CrawlStart.elses = 0 /\ Len(CrawlStart.conts) = 0
    BY DEF CrawlStart
  <2>4. Waiting(code, p.at, p.at + 0) = {}
    BY DEF Waiting
  <2>5. IsFiniteSet({}) /\ Cardinality({}) = 0
    BY FS_EmptySet
  <2>6. CrawlGoes(p, 0)
    BY <2>1, <2>2, <2>3 DEF CrawlGoes
  <2>7. ElsesGo(p, 0)
    <3>1. Cardinality({}) <= CrawlStart.elses
      BY <2>3, <2>5
    <3>2. \A i \in 1 .. Len(CrawlStart.conts) : FALSE
      BY <2>3
    <3> QED BY <2>2, <2>4, <2>5, <3>1, <3>2 DEF ElsesGo
  <2>8. Matched(p, 0)
    <3>1. CrawlStart.elses <= Cardinality({})
      BY <2>3, <2>5
    <3>2. \A k \in OwnElses(code, p.at) : ~(k < p.at + 0)
      BY DEF OwnElses
    <3> QED BY <2>2, <2>4, <3>1, <3>2 DEF Matched
  <2> QED BY <2>6, <2>7, <2>8
<1>4. ASSUME NEW n \in Nat, n \in T PROVE n + 1 \in T
  <2>1. SUFFICES ASSUME n + 1 <= e - p.at
                 PROVE  CrawlGoes(p, n + 1) /\ ElsesGo(p, n + 1) /\ Matched(p, n + 1)
    OBVIOUS
  <2>2. n < e - p.at /\ CrawlGoes(p, n) /\ ElsesGo(p, n) /\ Matched(p, n)
    BY <1>2, <1>4, <2>1
  <2>3. CrawlGoes(p, n + 1)
    BY <1>1, <1>2, <2>2, CrawlGoesOn
  <2>4. ElsesGo(p, n + 1)
    BY <1>1, <2>2, <2>3, ElsesGoOn
  <2>5. Matched(p, n + 1)
    BY <1>1, <2>2, <2>3, <2>4, MatchedOn
  <2> QED BY <2>3, <2>4, <2>5
<1>5. 0 \in T
  BY <1>3
<1>6. Nat \subseteq T
  <2> HIDE DEF T
  <2> QED BY <1>4, <1>5, SetInduction
<1>7. Matched(p, e - p.at)
  BY <1>2, <1>6
<1>8. PICK k : k \in OwnElses(code, p.at)
  OBVIOUS
<1>9. k \in a + 1 .. e /\ code[k].op = "else" /\ code[e].op = "end"
  BY ZenonT(40), <1>1, <1>8, OwnElsesAre DEF Closes
<1>10. k < p.at + (e - p.at)
  BY <1>2, <1>9
<1>11. Len(Crawled(p)[e - p.at].conts) >= 1
  BY <1>7, <1>8, <1>10 DEF Matched
<1>12. PICK s \in CrawlState : /\ Crawled(p)[e - p.at] = s
                              /\ Crawl(p) = Append(s.conts, At(p.fn, e + 1))
  BY <1>1, <1>2, CrawlFinds
<1>13. s.conts \in Seq([fn : Nat, at : Nat]) /\ At(p.fn, e + 1) \in [fn : Nat, at : Nat]
  <2>1. e + 1 \in Nat
    BY <1>2
  <2> QED BY <2>1 DEF CrawlState, At
<1> QED BY <1>11, <1>12, <1>13

-----------------------------------------------------------------------------
(* The stack of a program.  The values a program computes are not typed    *)
(* here: the frames are taken from the set of those that are on the stack. *)

\* A frame has the fields of its kind.
IsFrame(f) ==
  /\ f.kind \in {"value", "label", "activ"}
  /\ f.kind = "value" => f = ValueFrame(f.value)
  /\ f.kind = "label" => f = LabelFrame(f.cont, f.arity)
  /\ f.kind = "activ" => f = ActivFrame(f.locals, f.cont, f.arity)

FramesOf(s) == {s[p] : p \in 1 .. Len(s)}
Framed(s) == s \in Seq(FramesOf(s)) /\ \A p \in 1 .. Len(s) : IsFrame(s[p])

\* A stack whose frames the index vectors and the counter describe.
Good(s) == /\ Framed(s)
           /\ ActivIn(s, activMap)
           /\ LabelIn(s, labelMap, activMap, labelCount)

EngineInv == Good(stack) /\ MapsOK /\ EntryAtBottom

\* What every step of a running program does to the frames.
StepSound == /\ Framed(stack')
             /\ ActivIn(stack', activMap')
             /\ LabelIn(stack', labelMap', activMap', labelCount')
             /\ MapsOK' /\ EntryAtBottom' /\ Running'
             /\ CallerUntouched

-----------------------------------------------------------------------------
(* Stacks.                                                                 *)

\* A sequence of frames is one, whatever set they are taken from.
LEMMA FramedFrom ==
  ASSUME NEW S, \A f \in S : IsFrame(f), NEW u \in Seq(S)
  PROVE  Framed(u)
<1>1. u \in Seq(FramesOf(u))
  <2>1. u \in [1 .. Len(u) -> FramesOf(u)] /\ Len(u) \in Nat
    BY DEF FramesOf
  <2> QED BY <2>1
<1>2. \A p \in 1 .. Len(u) : IsFrame(u[p])
  BY ElementOfSeq
<1> QED BY <1>1, <1>2 DEF Framed

\* The frames of a good stack, with one more.
LEMMA GoodTracked ==
  ASSUME NEW s, Good(s), NEW f, IsFrame(f)
  PROVE  LET S == FramesOf(s) \cup {f}
         IN  /\ Tracked(S, s)
             /\ \A g \in S : IsFrame(g)
             /\ f \in S
<1> DEFINE S == FramesOf(s) \cup {f}
<1>1. s \in Seq(FramesOf(s)) /\ FramesOf(s) \subseteq S
  BY DEF Good, Framed
<1>2. s \in Seq(S)
  BY <1>1
<1>3. \A g \in S : IsFrame(g)
  BY DEF FramesOf, Good, Framed
<1> QED BY <1>2, <1>3 DEF Tracked, Good

\* The same without a further frame.
LEMMA GoodTrackedAsIs ==
  ASSUME NEW s, Good(s)
  PROVE  Tracked(FramesOf(s), s) /\ \A g \in FramesOf(s) : IsFrame(g)
BY DEF FramesOf, Good, Framed, Tracked

\* Values, labels and activations are frames.
LEMMA AreFrames ==
  /\ \A v : IsFrame(ValueFrame(v)) /\ ValueFrame(v).kind = "value"
  /\ \A c, a : IsFrame(LabelFrame(c, a)) /\ LabelFrame(c, a).kind = "label"
  /\ \A l, c, a : IsFrame(ActivFrame(l, c, a)) /\ ActivFrame(l, c, a).kind = "activ"
BY DEF IsFrame, ValueFrame, LabelFrame, ActivFrame

\* Operands popped.
LEMMA GoodPop ==
  ASSUME NEW s, Good(s), MapsOK, NEW n, ValuesOnTop(s, n)
  PROVE  /\ Good(DropTop(s, n))
         /\ Len(DropTop(s, n)) = Len(s) - n
         /\ Running /\ Above(s) => Above(DropTop(s, n))
<1> DEFINE S == FramesOf(s)
<1>1. Tracked(S, s) /\ \A g \in S : IsFrame(g)
  BY GoodTrackedAsIs
<1> HIDE DEF S
<1>2. n \in 0 .. Len(s)
  BY DEF ValuesOnTop
<1>3. Tracked(S, DropTop(s, n)) /\ Len(DropTop(s, n)) = Len(s) - n
  BY <1>1, <1>2, PopKeepsTracked
<1>4. Framed(DropTop(s, n))
  BY <1>1, <1>3, FramedFrom DEF Tracked
<1>5. Good(DropTop(s, n))
  BY <1>3, <1>4 DEF Good, Tracked
<1>6. Running /\ Above(s) => Above(DropTop(s, n))
  BY <1>1, <1>2, PoppedAboveActiv
<1> QED BY <1>3, <1>5, <1>6

\* A value pushed.
LEMMA GoodPush ==
  ASSUME NEW s, Good(s), MapsOK, NEW f, IsFrame(f), f.kind = "value"
  PROVE  Good(Append(s, f)) /\ (Running /\ Above(s) => Above(Append(s, f)))
<1> DEFINE S == FramesOf(s) \cup {f}
<1>1. Tracked(S, s) /\ (\A g \in S : IsFrame(g)) /\ f \in S
  BY GoodTracked
<1> HIDE DEF S
<1>2. Tracked(S, Append(s, f))
  BY <1>1, PushOther
<1>3. Framed(Append(s, f))
  BY <1>1, <1>2, FramedFrom DEF Tracked
<1>4. Running /\ Above(s) => Above(Append(s, f))
  BY <1>1, PushedAboveActiv
<1> QED BY <1>2, <1>3, <1>4 DEF Good, Tracked

-----------------------------------------------------------------------------
(* The methods of the executor, as the handlers of a program call them.    *)

\* A step that leaves the frames alone.
LEMMA UnchangedSound ==
  ASSUME EngineInv, Running, UNCHANGED frameVars
  PROVE  StepSound
<1>1. stack' = stack /\ labelMap' = labelMap /\ activMap' = activMap /\ labelCount' = labelCount
  BY DEF frameVars
<1>2. Good(stack) /\ MapsOK /\ EntryAtBottom
  BY DEF EngineInv
<1>3. MapsOK' /\ EntryAtBottom' /\ Running'
  BY <1>1, <1>2 DEF MapsOK, EntryAtBottom, Running
<1>4. CallerUntouched
  <2>1. Tracked(FramesOf(stack), stack)
    BY <1>2, GoodTrackedAsIs
  <2>2. TopActiv \in 1 .. Len(stack) /\ Len(stack) \in Nat /\ Len(activMap) \in Nat
    BY <1>2, <2>1, TopActivOnStack
  <2> QED BY <1>1, <2>2 DEF CallerUntouched
<1> QED BY <1>1, <1>2, <1>3, <1>4 DEF StepSound, Good

\* The stack as it is is good, and above its own activations.
LEMMA StackGood ==
  ASSUME EngineInv, Running
  PROVE  /\ Good(stack) /\ Above(stack) /\ MapsOK
         /\ Len(stack) \in Nat /\ TopActiv \in 1 .. Len(stack)
         /\ stack[TopActiv].kind = "activ"
<1>1. Good(stack) /\ MapsOK
  BY DEF EngineInv
<1>2. Tracked(FramesOf(stack), stack)
  BY <1>1, GoodTrackedAsIs
<1>3. Len(stack) \in Nat /\ TopActiv \in 1 .. Len(stack) /\ stack[TopActiv].kind = "activ"
  BY <1>1, <1>2, TopActivOnStack
<1> QED BY <1>1, <1>3 DEF Above

\* Operands moved.
LEMMA KeepFramesSound ==
  ASSUME EngineInv, Running, NEW s, Good(s), Above(s), KeepFrames(s)
  PROVE  StepSound
<1> DEFINE S == FramesOf(s)
<1>1. MapsOK /\ EntryAtBottom /\ Tracked(S, s) /\ \A g \in S : IsFrame(g)
  BY GoodTrackedAsIs DEF EngineInv
<1> HIDE DEF S
<1>2. TrackedAfter(S) /\ CallerUntouched
  BY <1>1, KeepFramesStep, KeepFramesIsolated
<1>3. Framed(stack')
  BY <1>1, <1>2, FramedFrom DEF TrackedAfter
<1>4. Running'
  BY DEF KeepFrames, trackVars, Running
<1> QED BY <1>2, <1>3, <1>4 DEF StepSound, TrackedAfter

\* A label pushed.
LEMMA PushLabelSound ==
  ASSUME EngineInv, Running, NEW s, Good(s), Above(s), NEW cont, NEW arity,
         PushLabel(s, cont, arity)
  PROVE  StepSound
<1> DEFINE f == LabelFrame(cont, arity)
           S == FramesOf(s) \cup {f}
<1>1. MapsOK /\ EntryAtBottom /\ IsFrame(f)
  BY AreFrames DEF EngineInv
<1>2. Tracked(S, s) /\ (\A g \in S : IsFrame(g)) /\ f \in S
  BY <1>1, GoodTracked
<1> HIDE DEF S
<1>3. TrackedAfter(S) /\ CallerUntouched
  BY <1>1, <1>2, PushLabelStep, PushLabelIsolated
<1>4. Framed(stack')
  BY <1>2, <1>3, FramedFrom DEF TrackedAfter
<1>5. Running'
  BY DEF PushLabel, Running
<1> QED BY <1>3, <1>4, <1>5 DEF StepSound, TrackedAfter

\* An activation pushed.
LEMMA PushActivSound ==
  ASSUME EngineInv, NEW s, Good(s), (Running /\ Above(s)) \/ s = <<>>,
         NEW locals, NEW cont, NEW arity, PushActiv(s, locals, cont, arity)
  PROVE  StepSound
<1> DEFINE f == ActivFrame(locals, cont, arity)
           S == FramesOf(s) \cup {f}
<1>1. MapsOK /\ EntryAtBottom /\ IsFrame(f)
  BY AreFrames DEF EngineInv
<1>2. Tracked(S, s) /\ (\A g \in S : IsFrame(g)) /\ f \in S
  BY <1>1, GoodTracked
<1> HIDE DEF S
<1>3. TrackedAfter(S)
  BY <1>1, <1>2, PushActivStep
<1>4. CallerUntouched
  <2>1. CASE ~Running
    BY <2>1 DEF CallerUntouched
  <2>2. CASE Running
    <3>1. Len(s) # 0
      BY <1>1, <1>2, <2>2, TopActivOnStack
    <3>2. Above(s)
      BY <3>1
    <3> QED BY <1>1, <1>2, <2>2, <3>2, PushActivIsolated
  <2> QED BY <2>1, <2>2
<1>5. Framed(stack')
  BY <1>2, <1>3, FramedFrom DEF TrackedAfter
<1>6. Running'
  BY <1>1, AppendProperties DEF PushActiv, Running, MapsOK
<1> QED BY <1>3, <1>4, <1>5, <1>6 DEF StepSound, TrackedAfter

\* A branch taken.
LEMMA RetFromLabelSound ==
  ASSUME EngineInv, Running, NEW s, Good(s), Above(s), NEW depth \in Nat,
         depth < labelCount, RetFromLabel(s, depth)
  PROVE  StepSound
<1> DEFINE S == FramesOf(s)
<1>1. MapsOK /\ EntryAtBottom /\ Tracked(S, s) /\ \A g \in S : IsFrame(g)
  BY GoodTrackedAsIs DEF EngineInv
<1> HIDE DEF S
<1>2. TrackedAfter(S) /\ CallerUntouched
  BY <1>1, RetFromLabelStep, RetFromLabelIsolated
<1>3. Framed(stack')
  BY <1>1, <1>2, FramedFrom DEF TrackedAfter
<1>4. Running'
  BY DEF RetFromLabel, Running
<1> QED BY <1>2, <1>3, <1>4 DEF StepSound, TrackedAfter

\* A return from an activation that is not the entry's.
LEMMA RetFromActivSound ==
  ASSUME EngineInv, Running, NEW s, Good(s), Above(s), TopActiv # 1,
         RetFromActiv(s, labelCount)
  PROVE  StepSound
<1> DEFINE S == FramesOf(s)
<1>1. MapsOK /\ EntryAtBottom /\ Tracked(S, s) /\ \A g \in S : IsFrame(g)
  BY GoodTrackedAsIs DEF EngineInv
<1> HIDE DEF S
<1>2. TrackedAfter(S) /\ CallerUntouched
  BY <1>1, RetFromActivStep, RetFromActivIsolated
<1>3. Framed(stack')
  BY <1>1, <1>2, FramedFrom DEF TrackedAfter
<1>4. Running'
  <2>1. activMap \in Seq(Nat \ {0}) /\ activMap # <<>> /\ activMap[1] = 1
    BY <1>1 DEF MapsOK, EntryAtBottom, Running
  <2>2. Len(activMap) \in Nat /\ Len(activMap) # 0 /\ Len(activMap) # 1
    BY <2>1 DEF TopActiv
  <2>3. 1 \in 0 .. Len(activMap) /\ Len(activMap) - 1 # 0
    BY <2>2
  <2>4. Len(DropTop(activMap, 1)) = Len(activMap) - 1
    BY <2>1, <2>3, DropTopKeeps
  <2> QED BY <2>3, <2>4 DEF RetFromActiv, Running
<1> QED BY <1>2, <1>3, <1>4 DEF StepSound, TrackedAfter

\* A local of the running activation assigned.
LEMMA AssignLocalSound ==
  ASSUME EngineInv, Running, NEW s, Good(s), Above(s), NEW locals,
         KeepFrames([s EXCEPT ![TopActiv].locals = locals])
  PROVE  StepSound
<1> DEFINE f == ActivFrame(locals, s[TopActiv].cont, s[TopActiv].arity)
           S == FramesOf(s) \cup {f}
<1>1. MapsOK /\ EntryAtBottom /\ IsFrame(f)
  BY AreFrames DEF EngineInv
<1>2. Tracked(S, s) /\ (\A g \in S : IsFrame(g)) /\ f \in S
  BY <1>1, GoodTracked
<1>3. s[TopActiv] = ActivFrame(s[TopActiv].locals, s[TopActiv].cont, s[TopActiv].arity)
  <2>1. TopActiv \in 1 .. Len(s) /\ s[TopActiv].kind = "activ"
    BY <1>1, <1>2, TopActivOnStack
  <2>2. IsFrame(s[TopActiv])
    BY <2>1 DEF Good, Framed
  <2> QED BY <2>1, <2>2 DEF IsFrame
<1>4. "kind" \in DOMAIN s[TopActiv] /\ [s[TopActiv] EXCEPT !.locals = locals] = f
  BY <1>3 DEF ActivFrame
<1> HIDE DEF S, f
<1>5. [s[TopActiv] EXCEPT !.locals = locals] \in S
  BY <1>2, <1>4
<1>6. TrackedAfter(S) /\ CallerUntouched
  BY <1>1, <1>2, <1>4, <1>5, AssignLocalStep, AssignLocalIsolated
<1>7. Framed(stack')
  BY <1>2, <1>6, FramedFrom DEF TrackedAfter
<1>8. Running'
  BY DEF KeepFrames, trackVars, Running
<1> QED BY <1>6, <1>7, <1>8 DEF StepSound, TrackedAfter

-----------------------------------------------------------------------------
(* Control.                                                                *)

Position == [fn : Nat, at : Nat]

\* A position in the body of a function, with at least n blocks around it.
Around(m, p, n) ==
  /\ p \in Position
  /\ p.fn \in 1 .. Len(m.funcs) /\ p.at \in 1 .. Len(Code(m, p.fn))
  /\ n <= Nesting(Code(m, p.fn), p.at)

\* The counted labels continue in the function that runs: the j-th from the
\* bottom with j - 1 blocks around, as many as there are labels below it.
LabelsOK(m, fn, s, lm, lc) ==
  \A j \in 1 .. lc :
    LET f == s[lm[Len(lm) - lc + j]] IN f.cont.fn = fn /\ Around(m, f.cont, j - 1)

TypesOf(locals) == [k \in DOMAIN locals |-> locals[k].type]

\* The frame of an activation of the function fn, called by the function caller.
ActivOK(m, f, caller, fn) ==
  LET call == Code(m, caller)[f.cont.at - 1] IN
  /\ fn \in 1 .. Len(m.funcs)
  /\ f.cont \in Position /\ f.cont.fn = caller
  /\ caller # 0 => Around(m, f.cont, 0)
  /\ (call.op = "call" /\ call.n + 1 = fn) \/ call.op = "call_indirect"
  /\ f.arity = FuncType(m, fn - 1).results
  /\ TypesOf(f.locals) = FuncType(m, fn - 1).params \o m.funcs[fn].locals

\* The function that the i-th activation runs: the driver is the zeroth.
FnAt(fn, s, am, i) ==
  IF i = 0 THEN 0 ELSE IF i = Len(am) THEN fn ELSE s[am[i + 1]].cont.fn

ActivsOK(m, fn, s, am) ==
  \A i \in 1 .. Len(am) : ActivOK(m, s[am[i]], FnAt(fn, s, am, i - 1), FnAt(fn, s, am, i))

\* The cache holds what the crawl finds from inside a block, or from inside an
\* if with an else.
ContsOK ==
  \A p \in DOMAIN contStore :
    LET op == Code(mod, p.fn)[p.at - 1].op IN
    /\ p \in Position /\ p.fn \in 1 .. Len(mod.funcs)
    /\ p.at - 1 \in 1 .. Len(Code(mod, p.fn))
    /\ op = "block" \/ (op = "if" /\ Len(Crawl(p)) >= 2)
    /\ contStore[p] = Crawl(p)

\* Before the driver's call there is nothing but the arguments.
PcOK ==
  IF Running
  THEN /\ pc \in Position /\ pc.fn \in 1 .. Len(mod.funcs)
       /\ outcome = "running" => Around(mod, pc, labelCount)
  ELSE pc = At(0, 1) /\ Len(stack) = Len(mod.args)

ControlInv == /\ mod \in Modules
              /\ PcOK /\ ContsOK
              /\ LabelsOK(mod, pc.fn, stack, labelMap, labelCount)
              /\ ActivsOK(mod, pc.fn, stack, activMap)

\* What a handler leaves of the stack when it has moved operands: no other frame
\* has moved.
Kept(s) ==
  \A p \in 1 .. Len(stack) : stack[p].kind # "value" => p \in 1 .. Len(s) /\ s[p] = stack[p]
Moved(s) == Good(s) /\ Above(s) /\ Kept(s)

LEMMA MovedStack ==
  ASSUME EngineInv, Running
  PROVE  Moved(stack)
<1>1. Good(stack) /\ Above(stack) /\ Len(stack) \in Nat
  BY StackGood
<1>2. Kept(stack)
  BY <1>1 DEF Kept
<1> QED BY <1>1, <1>2 DEF Moved

LEMMA MovedPop ==
  ASSUME EngineInv, Running, NEW s, Moved(s), NEW n, ValuesOnTop(s, n)
  PROVE  Moved(DropTop(s, n)) /\ Len(DropTop(s, n)) = Len(s) - n
<1>1. Good(s) /\ Above(s) /\ Kept(s) /\ MapsOK
  BY DEF Moved, EngineInv
<1>2. Good(DropTop(s, n)) /\ Above(DropTop(s, n)) /\ Len(DropTop(s, n)) = Len(s) - n
  BY <1>1, GoodPop
<1>3. s \in Seq(FramesOf(s)) /\ n \in 0 .. Len(s)
      /\ \A i \in Len(s) - n + 1 .. Len(s) : s[i].kind = "value"
  BY <1>1 DEF Good, Framed, ValuesOnTop
<1>4. \A p \in 1 .. Len(s) - n : DropTop(s, n)[p] = s[p]
  BY <1>3 DEF DropTop
<1>5. ASSUME NEW p \in 1 .. Len(stack), stack[p].kind # "value"
      PROVE  p \in 1 .. Len(DropTop(s, n)) /\ DropTop(s, n)[p] = stack[p]
  <2>1. p \in 1 .. Len(s) /\ s[p] = stack[p]
    BY <1>1, <1>5 DEF Kept
  <2>2. Len(s) \in Nat
    BY <1>3
  <2>3. p \notin Len(s) - n + 1 .. Len(s)
    BY <1>3, <1>5, <2>1
  <2>4. p \in 1 .. Len(s) - n
    BY <1>3, <2>1, <2>2, <2>3
  <2> QED BY <1>2, <1>4, <2>1, <2>4
<1> QED BY <1>2, <1>5 DEF Moved, Kept

LEMMA MovedPush ==
  ASSUME EngineInv, Running, NEW s, Moved(s), NEW f, IsFrame(f), f.kind = "value"
  PROVE  Moved(Append(s, f))
<1>1. Good(s) /\ Above(s) /\ Kept(s) /\ MapsOK
  BY DEF Moved, EngineInv
<1>2. Good(Append(s, f)) /\ Above(Append(s, f))
  BY <1>1, GoodPush
<1>3. s \in Seq(FramesOf(s))
  BY <1>1 DEF Good, Framed
<1>4. Len(s) \in Nat /\ Len(Append(s, f)) = Len(s) + 1 /\ \A p \in 1 .. Len(s) : Append(s, f)[p] = s[p]
  BY <1>3
<1>5. Kept(Append(s, f))
  BY <1>1, <1>4 DEF Kept
<1> QED BY <1>2, <1>5 DEF Moved

\* The positions of the activations and of the counted labels, and their frames.
CountedLabel(j) == labelMap[Len(labelMap) - labelCount + j]

LEMMA TrackedFrames ==
  ASSUME EngineInv
  PROVE  /\ Len(activMap) \in Nat /\ Len(labelMap) \in Nat /\ labelCount \in 0 .. Len(labelMap)
         /\ Running => Len(activMap) >= 1
         /\ \A i \in 1 .. Len(activMap) :
              activMap[i] \in 1 .. Len(stack) /\ stack[activMap[i]].kind = "activ"
         /\ \A i, j \in 1 .. Len(activMap) : i < j => activMap[i] < activMap[j]
         /\ \A j \in 1 .. labelCount :
              /\ CountedLabel(j) \in 1 .. Len(stack) /\ stack[CountedLabel(j)].kind = "label"
              /\ TopActiv < CountedLabel(j) /\ Running
         /\ \A i, j \in 1 .. labelCount : i < j => CountedLabel(i) < CountedLabel(j)
<1>1. MapsOK /\ ActivIn(stack, activMap) /\ LabelIn(stack, labelMap, activMap, labelCount)
      /\ stack \in Seq(FramesOf(stack))
  BY DEF EngineInv, Good, Framed
<1>2. /\ labelMap \in Seq(Nat \ {0}) /\ activMap \in Seq(Nat \ {0})
      /\ labelCount \in Nat /\ Len(stack) \in Nat
  BY <1>1 DEF MapsOK
<1>3. Len(activMap) \in Nat /\ Len(labelMap) \in Nat /\ labelCount \in 0 .. Len(labelMap)
  BY <1>1, <1>2 DEF LabelIn
<1>4. Running => Len(activMap) >= 1
  BY <1>2 DEF Running
<1>5. \A i \in 1 .. Len(activMap) :
        activMap[i] \in 1 .. Len(stack) /\ stack[activMap[i]].kind = "activ"
  <2>1. \A i \in 1 .. Len(activMap) : activMap[i] \in Nat \ {0}
    BY <1>2
  <2> QED BY <1>1, <1>2, <2>1 DEF ActivIn
<1>6. ASSUME NEW j \in 1 .. labelCount
      PROVE  /\ Len(labelMap) - labelCount + j \in Len(labelMap) - labelCount + 1 .. Len(labelMap)
             /\ Len(labelMap) - labelCount + j \in 1 .. Len(labelMap)
  BY <1>3
<1>7. ASSUME NEW j \in 1 .. labelCount
      PROVE  /\ CountedLabel(j) \in 1 .. Len(stack) /\ stack[CountedLabel(j)].kind = "label"
             /\ TopActiv < CountedLabel(j) /\ Running
  <2>1. CountedLabel(j) \in Nat \ {0}
    BY <1>2, <1>6 DEF CountedLabel
  <2>2. /\ activMap # <<>> /\ activMap[Len(activMap)] < CountedLabel(j)
        /\ CountedLabel(j) <= Len(stack) /\ stack[CountedLabel(j)].kind = "label"
    BY <1>1, <1>6 DEF LabelIn, CountedLabel
  <2> QED BY <1>2, <2>1, <2>2 DEF TopActiv, Running
<1>8. ASSUME NEW i \in 1 .. labelCount, NEW j \in 1 .. labelCount, i < j
      PROVE  CountedLabel(i) < CountedLabel(j)
  <2>1. Len(labelMap) - labelCount + i < Len(labelMap) - labelCount + j
    BY <1>3, <1>8
  <2> QED BY <1>1, <1>6, <2>1 DEF LabelIn, CountedLabel
<1>9. \A i, j \in 1 .. Len(activMap) : i < j => activMap[i] < activMap[j]
  BY <1>1 DEF ActivIn
<1> QED BY <1>3, <1>4, <1>5, <1>7, <1>8, <1>9

\* They are where they were when operands have been moved.
LEMMA MovedFrames ==
  ASSUME EngineInv, NEW s, Moved(s)
  PROVE  /\ s \in Seq(FramesOf(s)) /\ Len(s) \in Nat
         /\ \A i \in 1 .. Len(activMap) :
              activMap[i] \in 1 .. Len(s) /\ s[activMap[i]] = stack[activMap[i]]
         /\ \A j \in 1 .. labelCount :
              CountedLabel(j) \in 1 .. Len(s) /\ s[CountedLabel(j)] = stack[CountedLabel(j)]
<1>1. s \in Seq(FramesOf(s)) /\ Kept(s)
  BY DEF Moved, Good, Framed
<1>2. Len(s) \in Nat
  BY <1>1
<1>3. \A i \in 1 .. Len(activMap) :
        activMap[i] \in 1 .. Len(stack) /\ stack[activMap[i]].kind # "value"
  BY TrackedFrames
<1>4. \A j \in 1 .. labelCount :
        CountedLabel(j) \in 1 .. Len(stack) /\ stack[CountedLabel(j)].kind # "value"
  BY TrackedFrames
<1> QED BY <1>1, <1>2, <1>3, <1>4 DEF Kept

-----------------------------------------------------------------------------
(* The functions the activations and the labels belong to.                 *)

FramesLinked == /\ LabelsOK(mod, pc.fn, stack, labelMap, labelCount)
                /\ ActivsOK(mod, pc.fn, stack, activMap)

\* An activation that stays goes on running the function it ran.
RunsKept ==
  \A i \in 0 .. Len(activMap) : i <= Len(activMap') =>
    FnAt(pc'.fn, stack', activMap', i) = FnAt(pc.fn, stack, activMap, i)

\* The function of an activation depends on the continuations above it only.
LEMMA FnAtCarried ==
  ASSUME NEW fn, NEW s, NEW u, NEW am, Len(am) \in Nat, NEW i \in 0 .. Len(am),
         \A k \in 1 .. Len(am) : u[am[k]].cont = s[am[k]].cont
  PROVE  FnAt(fn, u, am, i) = FnAt(fn, s, am, i)
<1>1. i # Len(am) => i + 1 \in 1 .. Len(am)
  OBVIOUS
<1> QED BY <1>1 DEF FnAt

\* They only depend on the frames of the activations, and on the types of their
\* locals only.
LEMMA ActivsCarried ==
  ASSUME NEW m, NEW fn, NEW s, NEW u, NEW am, Len(am) \in Nat, ActivsOK(m, fn, s, am),
         \A i \in 1 .. Len(am) : /\ u[am[i]].cont = s[am[i]].cont
                                 /\ u[am[i]].arity = s[am[i]].arity
                                 /\ TypesOf(u[am[i]].locals) = TypesOf(s[am[i]].locals)
  PROVE  /\ ActivsOK(m, fn, u, am)
         /\ \A i \in 0 .. Len(am) : FnAt(fn, u, am, i) = FnAt(fn, s, am, i)
<1>1. ASSUME NEW i \in 0 .. Len(am)
      PROVE  FnAt(fn, u, am, i) = FnAt(fn, s, am, i)
  BY FnAtCarried
<1>2. ASSUME NEW i \in 1 .. Len(am)
      PROVE  ActivOK(m, u[am[i]], FnAt(fn, u, am, i - 1), FnAt(fn, u, am, i))
  <2>1. i - 1 \in 0 .. Len(am) /\ i \in 0 .. Len(am)
    OBVIOUS
  <2>2. ActivOK(m, s[am[i]], FnAt(fn, u, am, i - 1), FnAt(fn, u, am, i))
    BY <1>1, <2>1 DEF ActivsOK
  <2> QED BY <2>2 DEF ActivOK
<1>3. ActivsOK(m, fn, u, am)
  BY <1>2 DEF ActivsOK
<1> QED BY <1>1, <1>3

\* And on the frames of the labels.
LEMMA LabelsCarried ==
  ASSUME NEW m, NEW fn, NEW s, NEW u, NEW lm, NEW lc, LabelsOK(m, fn, s, lm, lc),
         \A j \in 1 .. lc : u[lm[Len(lm) - lc + j]] = s[lm[Len(lm) - lc + j]]
  PROVE  LabelsOK(m, fn, u, lm, lc)
BY DEF LabelsOK

\* Both say the same of the stack of which operands have been moved.
LEMMA MovedLinked ==
  ASSUME EngineInv, FramesLinked, NEW s, Moved(s)
  PROVE  /\ LabelsOK(mod, pc.fn, s, labelMap, labelCount)
         /\ ActivsOK(mod, pc.fn, s, activMap)
         /\ \A i \in 0 .. Len(activMap) : FnAt(pc.fn, s, activMap, i) = FnAt(pc.fn, stack, activMap, i)
<1>1. \A j \in 1 .. labelCount :
        s[labelMap[Len(labelMap) - labelCount + j]] = stack[labelMap[Len(labelMap) - labelCount + j]]
  BY MovedFrames DEF CountedLabel
<1>2. Len(activMap) \in Nat /\ \A i \in 1 .. Len(activMap) : s[activMap[i]] = stack[activMap[i]]
  BY MovedFrames, TrackedFrames
<1>3. LabelsOK(mod, pc.fn, s, labelMap, labelCount)
  BY <1>1, LabelsCarried DEF FramesLinked
<1>4. /\ ActivsOK(mod, pc.fn, s, activMap)
      /\ \A i \in 0 .. Len(activMap) : FnAt(pc.fn, s, activMap, i) = FnAt(pc.fn, stack, activMap, i)
  <2>1. ActivsOK(mod, pc.fn, stack, activMap)
    BY DEF FramesLinked
  <2>2. \A i \in 1 .. Len(activMap) :
          /\ s[activMap[i]].cont = stack[activMap[i]].cont
          /\ s[activMap[i]].arity = stack[activMap[i]].arity
          /\ TypesOf(s[activMap[i]].locals) = TypesOf(stack[activMap[i]].locals)
    BY <1>2
  <2>3. ActivsOK(mod, pc.fn, s, activMap)
    BY ONLY <1>2, <2>1, <2>2, ActivsCarried
  <2>4. \A i \in 0 .. Len(activMap) : FnAt(pc.fn, s, activMap, i) = FnAt(pc.fn, stack, activMap, i)
    BY ONLY <1>2, <2>2, FnAtCarried
  <2> QED BY <2>3, <2>4
<1> QED BY <1>3, <1>4

\* Operands moved.
LEMMA KeepFramesLinked ==
  ASSUME EngineInv, FramesLinked, NEW s, Moved(s), KeepFrames(s), mod' = mod, pc'.fn = pc.fn
  PROVE  FramesLinked' /\ RunsKept
<1>1. stack' = s /\ labelMap' = labelMap /\ activMap' = activMap /\ labelCount' = labelCount
  BY DEF KeepFrames, trackVars
<1>2. LabelsOK(mod, pc.fn, s, labelMap, labelCount) /\ ActivsOK(mod, pc.fn, s, activMap)
  BY MovedLinked
<1>3. LabelsOK(mod', pc'.fn, stack', labelMap', labelCount') /\ ActivsOK(mod', pc'.fn, stack', activMap')
  BY <1>1, <1>2
<1>4. RunsKept
  BY <1>1, MovedLinked DEF RunsKept
<1> QED BY <1>3, <1>4 DEF FramesLinked

\* A local assigned a value of its type.
LEMMA AssignLocalLinked ==
  ASSUME EngineInv, Running, FramesLinked, NEW s, Moved(s), NEW locals,
         TypesOf(locals) = TypesOf(s[TopActiv].locals),
         KeepFrames([s EXCEPT ![TopActiv].locals = locals]), mod' = mod, pc'.fn = pc.fn
  PROVE  FramesLinked' /\ RunsKept
<1> DEFINE u == [s EXCEPT ![TopActiv].locals = locals]
<1>1. stack' = u /\ labelMap' = labelMap /\ activMap' = activMap /\ labelCount' = labelCount
  BY DEF KeepFrames, trackVars
<1>2. LabelsOK(mod, pc.fn, s, labelMap, labelCount) /\ ActivsOK(mod, pc.fn, s, activMap)
  BY MovedLinked
<1>3. s \in Seq(FramesOf(s)) /\ Len(s) \in Nat
      /\ (\A i \in 1 .. Len(activMap) :
            activMap[i] \in 1 .. Len(s) /\ s[activMap[i]] = stack[activMap[i]])
      /\ (\A j \in 1 .. labelCount :
            CountedLabel(j) \in 1 .. Len(s) /\ s[CountedLabel(j)] = stack[CountedLabel(j)])
  BY MovedFrames
<1>4. Len(activMap) \in Nat /\ Len(activMap) >= 1
      /\ \A j \in 1 .. labelCount : TopActiv < CountedLabel(j)
  BY TrackedFrames
<1>5. TopActiv \in 1 .. Len(s) /\ stack[TopActiv].kind = "activ" /\ s[TopActiv] = stack[TopActiv]
  BY <1>3, <1>4, StackGood DEF TopActiv
<1>6. IsFrame(s[TopActiv])
  BY <1>5 DEF Moved, Good, Framed
<1>7. s[TopActiv] = ActivFrame(s[TopActiv].locals, s[TopActiv].cont, s[TopActiv].arity)
  BY <1>5, <1>6 DEF IsFrame
<1>8. u[TopActiv] = ActivFrame(locals, s[TopActiv].cont, s[TopActiv].arity)
  BY <1>3, <1>5, <1>7 DEF ActivFrame
<1>9. \A p \in 1 .. Len(s) : p # TopActiv => u[p] = s[p]
  BY <1>3
<1>10. \A i \in 1 .. Len(activMap) : /\ u[activMap[i]].cont = s[activMap[i]].cont
                                     /\ u[activMap[i]].arity = s[activMap[i]].arity
                                     /\ TypesOf(u[activMap[i]].locals) = TypesOf(s[activMap[i]].locals)
  <2> HIDE DEF u
  <2>1. u[TopActiv].cont = s[TopActiv].cont /\ u[TopActiv].arity = s[TopActiv].arity
        /\ u[TopActiv].locals = locals
    BY <1>8 DEF ActivFrame
  <2> QED BY <1>3, <1>9, <2>1
<1>11. \A j \in 1 .. labelCount : u[CountedLabel(j)] = s[CountedLabel(j)]
  <2> HIDE DEF u
  <2>1. TopActiv \in Int
    BY <1>3, <1>5
  <2>2. \A j \in 1 .. labelCount : CountedLabel(j) # TopActiv
    BY <1>3, <1>4, <2>1
  <2> QED BY <1>3, <1>9, <2>2
<1> HIDE DEF u
<1>12. /\ ActivsOK(mod, pc.fn, u, activMap)
       /\ \A i \in 0 .. Len(activMap) : FnAt(pc.fn, u, activMap, i) = FnAt(pc.fn, s, activMap, i)
  BY <1>2, <1>4, <1>10, ActivsCarried
<1>13. LabelsOK(mod, pc.fn, u, labelMap, labelCount)
  BY <1>2, <1>11, LabelsCarried DEF CountedLabel
<1>14. LabelsOK(mod', pc'.fn, stack', labelMap', labelCount') /\ ActivsOK(mod', pc'.fn, stack', activMap')
  BY <1>1, <1>12, <1>13
<1>15. RunsKept
  BY <1>1, <1>12, MovedLinked DEF RunsKept
<1> QED BY <1>14, <1>15 DEF FramesLinked

\* A label pushed, for a block that opens here.
LEMMA PushLabelLinked ==
  ASSUME EngineInv, Running, FramesLinked, NEW s, Moved(s), NEW cont, NEW arity,
         PushLabel(s, cont, arity), mod' = mod, pc'.fn = pc.fn,
         cont.fn = pc.fn, Around(mod, cont, labelCount)
  PROVE  FramesLinked' /\ RunsKept
<1> DEFINE f == LabelFrame(cont, arity)
           u == Append(s, f)
           lm == Append(labelMap, Len(s) + 1)
           lc == labelCount + 1
<1>1. stack' = u /\ labelMap' = lm /\ activMap' = activMap /\ labelCount' = lc
  BY DEF PushLabel
<1>2. LabelsOK(mod, pc.fn, s, labelMap, labelCount) /\ ActivsOK(mod, pc.fn, s, activMap)
  BY MovedLinked
<1>3. s \in Seq(FramesOf(s)) /\ Len(s) \in Nat
      /\ (\A i \in 1 .. Len(activMap) : activMap[i] \in 1 .. Len(s))
      /\ (\A j \in 1 .. labelCount : CountedLabel(j) \in 1 .. Len(s))
  BY MovedFrames
<1>4. /\ Len(activMap) \in Nat /\ Len(labelMap) \in Nat /\ labelCount \in 0 .. Len(labelMap)
      /\ labelMap \in Seq(Nat \ {0})
  BY TrackedFrames DEF EngineInv, MapsOK
<1>5. (\A p \in 1 .. Len(s) : u[p] = s[p]) /\ u[Len(s) + 1] = f
  BY <1>3
<1>6. /\ ActivsOK(mod, pc.fn, u, activMap)
      /\ \A i \in 0 .. Len(activMap) : FnAt(pc.fn, u, activMap, i) = FnAt(pc.fn, s, activMap, i)
  <2>1. \A i \in 1 .. Len(activMap) :
          /\ u[activMap[i]].cont = s[activMap[i]].cont
          /\ u[activMap[i]].arity = s[activMap[i]].arity
          /\ TypesOf(u[activMap[i]].locals) = TypesOf(s[activMap[i]].locals)
    BY <1>3, <1>5
  <2> HIDE DEF u
  <2> QED BY <1>2, <1>4, <2>1, ActivsCarried
<1>7. /\ Len(lm) = Len(labelMap) + 1 /\ lm[Len(labelMap) + 1] = Len(s) + 1
      /\ \A k \in 1 .. Len(labelMap) : lm[k] = labelMap[k]
  BY <1>3, <1>4
<1>8. ASSUME NEW j \in 1 .. lc
      PROVE  LET g == u[lm[Len(lm) - lc + j]] IN g.cont.fn = pc.fn /\ Around(mod, g.cont, j - 1)
  <2>1. Len(lm) - lc + j = Len(labelMap) - labelCount + j
    BY <1>4, <1>7
  <2>2. CASE j \in 1 .. labelCount
    <3>1. Len(labelMap) - labelCount + j \in 1 .. Len(labelMap)
      BY <1>4, <2>2
    <3>2. u[lm[Len(lm) - lc + j]] = s[labelMap[Len(labelMap) - labelCount + j]]
      BY <1>3, <1>5, <1>7, <2>1, <2>2, <3>1 DEF CountedLabel
    <3> QED BY <1>2, <2>2, <3>2 DEF LabelsOK
  <2>3. CASE j = labelCount + 1
    <3>1. Len(labelMap) - labelCount + j = Len(labelMap) + 1 /\ j - 1 = labelCount
      BY <1>4, <2>3
    <3>2. u[lm[Len(lm) - lc + j]] = f
      BY <1>5, <1>7, <2>1, <3>1
    <3>3. f.cont = cont
      BY DEF LabelFrame
    <3>4. f.cont.fn = pc.fn /\ Around(mod, f.cont, j - 1)
      BY <3>1, <3>3
    <3> HIDE DEF f, u, lm, lc
    <3> QED BY <3>2, <3>4
  <2>4. j \in 1 .. labelCount \/ j = labelCount + 1
    BY <1>4
  <2> QED BY <2>2, <2>3, <2>4
<1>9. LabelsOK(mod, pc.fn, u, lm, lc)
  BY <1>8 DEF LabelsOK
<1> HIDE DEF u, lm, lc
<1>10. LabelsOK(mod', pc'.fn, stack', labelMap', labelCount') /\ ActivsOK(mod', pc'.fn, stack', activMap')
  BY <1>1, <1>6, <1>9
<1>11. RunsKept
  BY <1>1, <1>6, MovedLinked DEF RunsKept
<1> QED BY <1>10, <1>11 DEF FramesLinked

\* An activation pushed, of the function that runs next.
LEMMA PushActivLinked ==
  ASSUME EngineInv, FramesLinked, NEW s,
         (Running /\ Moved(s)) \/ (~Running /\ pc.fn = 0 /\ s = <<>>),
         NEW locals, NEW cont, NEW arity, PushActiv(s, locals, cont, arity),
         mod' = mod, cont.fn = pc.fn, ActivOK(mod, ActivFrame(locals, cont, arity), pc.fn, pc'.fn)
  PROVE  FramesLinked' /\ RunsKept
<1> DEFINE f == ActivFrame(locals, cont, arity)
           u == Append(s, f)
           am == Append(activMap, Len(s) + 1)
           n == Len(activMap)
<1>1. stack' = u /\ labelMap' = labelMap /\ activMap' = am /\ labelCount' = 0
  BY DEF PushActiv
<1>2. n \in Nat /\ activMap \in Seq(Nat \ {0}) /\ (~Running => n = 0)
  BY TrackedFrames DEF EngineInv, MapsOK, Running
<1>3. Len(s) \in Nat /\ (\E S : s \in Seq(S)) /\ (\A i \in 1 .. n : activMap[i] \in 1 .. Len(s))
  <2>1. CASE Running /\ Moved(s)
    BY <2>1, MovedFrames
  <2>2. CASE ~Running /\ s = <<>>
    BY <1>2, <2>2
  <2> QED BY <2>1, <2>2
<1>4. ActivsOK(mod, pc.fn, s, activMap)
  <2>1. CASE Running /\ Moved(s)
    BY <2>1, MovedLinked
  <2>2. CASE ~Running
    BY <1>2, <2>2 DEF ActivsOK
  <2> QED BY <2>1, <2>2
<1>5. (\A p \in 1 .. Len(s) : u[p] = s[p]) /\ u[Len(s) + 1] = f
  BY <1>3
<1>6. /\ Len(am) = n + 1 /\ am[n + 1] = Len(s) + 1
      /\ \A k \in 1 .. n : am[k] = activMap[k]
  BY <1>2, <1>3
<1>7. \A i \in 1 .. n : u[am[i]] = s[activMap[i]]
  BY <1>3, <1>5, <1>6
<1>8. u[am[n + 1]] = f /\ f.cont = cont
  BY <1>5, <1>6 DEF ActivFrame
<1>99. ActivOK(mod, f, pc.fn, pc'.fn)
  OBVIOUS
<1> HIDE DEF u, am, f
<1>9. ASSUME NEW i \in 0 .. n
      PROVE  FnAt(pc'.fn, u, am, i) = FnAt(pc.fn, s, activMap, i)
  <2>1. CASE i = 0
    BY <2>1 DEF FnAt
  <2>2. CASE i # 0 /\ i = n
    <3>1. FnAt(pc'.fn, u, am, i) = u[am[n + 1]].cont.fn
      BY <1>2, <1>6, <2>2 DEF FnAt
    <3> QED BY <1>8, <2>2, <3>1 DEF FnAt
  <2>3. CASE i # 0 /\ i # n
    <3>1. i + 1 \in 1 .. n /\ i # n + 1
      BY <1>2, <2>3
    <3>2. FnAt(pc'.fn, u, am, i) = u[am[i + 1]].cont.fn
      BY <1>6, <2>3, <3>1 DEF FnAt
    <3> QED BY <1>7, <2>3, <3>1, <3>2 DEF FnAt
  <2> QED BY <2>1, <2>2, <2>3
<1>10. FnAt(pc'.fn, u, am, n + 1) = pc'.fn /\ FnAt(pc'.fn, u, am, n) = pc.fn
  <2>1. FnAt(pc'.fn, u, am, n + 1) = pc'.fn
    BY <1>2, <1>6 DEF FnAt
  <2>2. n = 0 => pc.fn = 0
    BY <1>2 DEF Running
  <2>3. FnAt(pc.fn, s, activMap, n) = pc.fn
    BY <2>2 DEF FnAt
  <2>4. n \in 0 .. n
    BY <1>2
  <2> QED BY <1>9, <2>1, <2>3, <2>4
<1>11. ASSUME NEW i \in 1 .. n + 1
       PROVE  ActivOK(mod, u[am[i]], FnAt(pc'.fn, u, am, i - 1), FnAt(pc'.fn, u, am, i))
  <2>1. CASE i \in 1 .. n
    <3>1. i - 1 \in 0 .. n /\ i \in 0 .. n
      BY <1>2, <2>1
    <3> QED BY <1>4, <1>7, <1>9, <2>1, <3>1 DEF ActivsOK
  <2>2. CASE i = n + 1
    <3>1. i - 1 = n
      BY <1>2, <2>2
    <3>2. FnAt(pc'.fn, u, am, i - 1) = pc.fn /\ FnAt(pc'.fn, u, am, i) = pc'.fn
      BY <1>10, <2>2, <3>1
    <3>3. u[am[i]] = f
      BY <1>8, <2>2
    <3> QED BY <1>99, <3>2, <3>3
  <2>3. i \in 1 .. n \/ i = n + 1
    BY <1>2
  <2> QED BY <2>1, <2>2, <2>3
<1>12. ActivsOK(mod, pc'.fn, u, am)
  BY <1>6, <1>11 DEF ActivsOK
<1>13. LabelsOK(mod, pc'.fn, u, labelMap, 0)
  BY DEF LabelsOK
<1>14. LabelsOK(mod', pc'.fn, stack', labelMap', labelCount') /\ ActivsOK(mod', pc'.fn, stack', activMap')
  BY <1>1, <1>12, <1>13
<1>15. \A i \in 0 .. n : FnAt(pc.fn, s, activMap, i) = FnAt(pc.fn, stack, activMap, i)
  <2>1. CASE Running /\ Moved(s)
    BY <2>1, MovedLinked
  <2>2. CASE ~Running
    BY <1>2, <2>2 DEF FnAt
  <2> QED BY <2>1, <2>2
<1>16. RunsKept
  BY <1>1, <1>9, <1>15 DEF RunsKept
<1> QED BY <1>14, <1>16 DEF FramesLinked

\* A frame other than a value is below the values that are kept.
LEMMA ErasedAbove ==
  ASSUME NEW S, NEW s \in Seq(S), NEW arity, ArityHolds(s, arity),
         NEW p \in 1 .. Len(s), s[p].kind # "value"
  PROVE  \A q \in 1 .. p - 1 : EraseRange(s, p, Len(arity))[q] = s[q]
<1>1. Len(arity) \in 0 .. Len(s)
      /\ \A i \in Len(s) - Len(arity) + 1 .. Len(s) : s[i].kind = "value"
  BY DEF ArityHolds, ValuesOnTop
<1>2. Len(s) \in Nat
  OBVIOUS
<1>3. p \notin Len(s) - Len(arity) + 1 .. Len(s)
  BY <1>1
<1>4. p \in 1 .. Len(s) - Len(arity)
  BY <1>1, <1>2, <1>3
<1> QED BY <1>1, <1>4, EraseRangeMoves

\* A branch taken: the labels below the target's are the same.
LEMMA RetFromLabelLinked ==
  ASSUME EngineInv, Running, FramesLinked, NEW s, Moved(s),
         NEW depth \in Nat, depth < labelCount, RetFromLabel(s, depth),
         mod' = mod, pc'.fn = pc.fn
  PROVE  FramesLinked' /\ RunsKept
<1> DEFINE p == TrackedLabel(depth)
           u == EraseRange(s, p, Len(s[p].arity))
           lm == DropTop(labelMap, depth + 1)
           lc == labelCount - (depth + 1)
<1>1. stack' = u /\ labelMap' = lm /\ activMap' = activMap /\ labelCount' = lc
      /\ ArityHolds(s, s[p].arity)
  BY DEF RetFromLabel
<1>2. LabelsOK(mod, pc.fn, s, labelMap, labelCount) /\ ActivsOK(mod, pc.fn, s, activMap)
  BY MovedLinked
<1>3. s \in Seq(FramesOf(s)) /\ Len(s) \in Nat
      /\ (\A i \in 1 .. Len(activMap) :
            activMap[i] \in 1 .. Len(s) /\ s[activMap[i]] = stack[activMap[i]])
      /\ (\A j \in 1 .. labelCount :
            CountedLabel(j) \in 1 .. Len(s) /\ s[CountedLabel(j)] = stack[CountedLabel(j)])
  BY MovedFrames
<1>4. /\ Len(activMap) \in Nat /\ Len(activMap) >= 1
      /\ Len(labelMap) \in Nat /\ labelCount \in 0 .. Len(labelMap)
      /\ labelMap \in Seq(Nat \ {0})
      /\ \A i, j \in 1 .. Len(activMap) : i < j => activMap[i] < activMap[j]
      /\ \A j \in 1 .. labelCount : stack[CountedLabel(j)].kind = "label" /\ TopActiv < CountedLabel(j)
      /\ \A i, j \in 1 .. labelCount : i < j => CountedLabel(i) < CountedLabel(j)
  BY TrackedFrames DEF EngineInv, MapsOK
<1>5. /\ labelCount - depth \in 1 .. labelCount /\ p = CountedLabel(labelCount - depth)
      /\ p \in 1 .. Len(s) /\ s[p].kind = "label"
  <2>1. labelCount - depth \in 1 .. labelCount
    BY <1>4
  <2>2. Len(labelMap) - labelCount + (labelCount - depth) = Len(labelMap) - depth
    BY <1>4
  <2>3. p = CountedLabel(labelCount - depth)
    BY <2>2 DEF CountedLabel, TrackedLabel
  <2> HIDE DEF p
  <2> QED BY <1>3, <1>4, <2>1, <2>3
<1> HIDE DEF p
<1>6. \A q \in 1 .. p - 1 : u[q] = s[q]
  BY <1>1, <1>3, <1>5, ErasedAbove
<1> HIDE DEF u
<1>7. \A i \in 1 .. Len(activMap) : u[activMap[i]] = s[activMap[i]]
  <2> SUFFICES ASSUME NEW i \in 1 .. Len(activMap)
               PROVE  u[activMap[i]] = s[activMap[i]]
    OBVIOUS
  <2>1. activMap[i] \in 1 .. Len(s) /\ TopActiv \in 1 .. Len(s) /\ activMap[i] <= TopActiv
    <3> DEFINE n == Len(activMap)
    <3>1. n \in 1 .. n /\ TopActiv = activMap[n]
      BY <1>4 DEF TopActiv
    <3>2. activMap[i] \in 1 .. Len(s) /\ activMap[n] \in 1 .. Len(s) /\ (i < n => activMap[i] < activMap[n])
      BY <1>3, <1>4, <3>1
    <3>3. i < n \/ i = n
      BY <1>4
    <3> HIDE DEF n
    <3> QED BY <3>1, <3>2, <3>3
  <2>2. TopActiv < p
    BY <1>4, <1>5
  <2>3. activMap[i] \in 1 .. p - 1
    BY <1>3, <1>5, <2>1, <2>2
  <2> QED BY <1>6, <2>3
<1>8. /\ ActivsOK(mod, pc.fn, u, activMap)
      /\ \A i \in 0 .. Len(activMap) : FnAt(pc.fn, u, activMap, i) = FnAt(pc.fn, s, activMap, i)
  <2>1. \A i \in 1 .. Len(activMap) :
          /\ u[activMap[i]].cont = s[activMap[i]].cont
          /\ u[activMap[i]].arity = s[activMap[i]].arity
          /\ TypesOf(u[activMap[i]].locals) = TypesOf(s[activMap[i]].locals)
    BY <1>7
  <2>2. ActivsOK(mod, pc.fn, s, activMap) /\ Len(activMap) \in Nat
    BY <1>2, <1>4
  <2>3. ActivsOK(mod, pc.fn, u, activMap)
    BY ONLY <2>1, <2>2, ActivsCarried
  <2>4. \A i \in 0 .. Len(activMap) : FnAt(pc.fn, u, activMap, i) = FnAt(pc.fn, s, activMap, i)
    BY ONLY <2>1, <2>2, FnAtCarried
  <2> QED BY <2>3, <2>4
<1>9. Len(lm) = Len(labelMap) - (depth + 1) /\ lc \in Nat
      /\ \A k \in 1 .. Len(labelMap) - (depth + 1) : lm[k] = labelMap[k]
  <2>1. depth + 1 \in 0 .. Len(labelMap) /\ lc \in Nat
    BY <1>4
  <2> QED BY <1>4, <2>1, DropTopKeeps
<1>10. ASSUME NEW j \in 1 .. lc
       PROVE  u[lm[Len(lm) - lc + j]] = s[labelMap[Len(labelMap) - labelCount + j]]
              /\ j \in 1 .. labelCount
  <2>1. /\ Len(lm) - lc + j = Len(labelMap) - labelCount + j
        /\ Len(labelMap) - labelCount + j \in 1 .. Len(labelMap) - (depth + 1)
        /\ j \in 1 .. labelCount /\ j < labelCount - depth
    <3>1. Len(lm) = Len(labelMap) - (depth + 1) /\ lc = labelCount - (depth + 1)
          /\ labelCount \in Nat /\ Len(labelMap) \in Nat /\ labelCount <= Len(labelMap)
      BY <1>4, <1>9
    <3> HIDE DEF lm, lc
    <3> QED BY <3>1
  <2>2. lm[Len(lm) - lc + j] = CountedLabel(j)
    BY <1>9, <2>1 DEF CountedLabel
  <2>3. CountedLabel(j) \in 1 .. Len(s) /\ CountedLabel(j) < p
    BY <1>3, <1>4, <1>5, <2>1
  <2>4. CountedLabel(j) \in 1 .. p - 1
    BY <1>3, <1>5, <2>3
  <2> QED BY <1>6, <2>1, <2>2, <2>4 DEF CountedLabel
<1> HIDE DEF lm, lc
<1>11. LabelsOK(mod, pc.fn, u, lm, lc)
  BY <1>2, <1>10 DEF LabelsOK
<1>12. LabelsOK(mod', pc'.fn, stack', labelMap', labelCount') /\ ActivsOK(mod', pc'.fn, stack', activMap')
  BY <1>1, <1>8, <1>11
<1>13. RunsKept
  BY <1>1, <1>8, MovedLinked DEF RunsKept
<1> QED BY <1>12, <1>13 DEF FramesLinked

\* A return: the caller's function runs again, and none of its labels counts.
LEMMA RetFromActivLinked ==
  ASSUME EngineInv, Running, FramesLinked, NEW s, Moved(s), RetFromActiv(s, labelCount),
         mod' = mod, pc'.fn = s[TopActiv].cont.fn
  PROVE  FramesLinked' /\ RunsKept
<1> DEFINE p == TopActiv
           u == EraseRange(s, p, Len(s[p].arity))
           am == DropTop(activMap, 1)
           n == Len(activMap)
<1>1. /\ stack' = u /\ activMap' = am /\ labelCount' = labelCount - labelCount
      /\ ArityHolds(s, s[p].arity)
  BY DEF RetFromActiv
<1>2. ActivsOK(mod, pc.fn, s, activMap)
  BY MovedLinked
<1>3. s \in Seq(FramesOf(s)) /\ Len(s) \in Nat
      /\ \A i \in 1 .. n : activMap[i] \in 1 .. Len(s) /\ s[activMap[i]] = stack[activMap[i]]
  BY MovedFrames
<1>4. /\ n \in Nat /\ n >= 1 /\ activMap \in Seq(Nat \ {0})
      /\ labelCount - labelCount = 0
      /\ \A i, j \in 1 .. n : i < j => activMap[i] < activMap[j]
  BY TrackedFrames DEF EngineInv, MapsOK
<1>5. p = activMap[n] /\ p \in 1 .. Len(s) /\ s[p].kind = "activ"
  BY <1>3, <1>4, StackGood DEF TopActiv
<1> HIDE DEF p
<1>6. \A q \in 1 .. p - 1 : u[q] = s[q]
  BY SMTT(30), <1>1, <1>3, <1>5, ErasedAbove
<1> HIDE DEF u
<1>7. Len(am) = n - 1 /\ \A i \in 1 .. n - 1 : am[i] = activMap[i]
  <2>1. 1 \in 0 .. Len(activMap) /\ activMap \in Seq(Nat \ {0})
    BY <1>4
  <2> HIDE DEF n
  <2>2. /\ Len(am) = Len(activMap) - 1
        /\ \A i \in 1 .. Len(activMap) - 1 : am[i] = activMap[i]
    BY <2>1, DropTopKeeps
  <2> QED BY <2>2 DEF n
<1> HIDE DEF am
<1>8. \A i \in 1 .. n - 1 : u[am[i]] = s[activMap[i]]
  <2> SUFFICES ASSUME NEW i \in 1 .. n - 1
               PROVE  u[am[i]] = s[activMap[i]]
    OBVIOUS
  <2>1. i \in 1 .. n /\ n \in 1 .. n /\ i < n
    BY <1>4
  <2>2. activMap[i] \in 1 .. Len(s) /\ activMap[i] < p
    BY <1>3, <1>4, <1>5, <2>1
  <2>3. activMap[i] \in 1 .. p - 1
    BY <1>3, <1>5, <2>2
  <2> QED BY <1>6, <1>7, <2>3
<1>9. ASSUME NEW i \in 0 .. n - 1
      PROVE  FnAt(pc'.fn, u, am, i) = FnAt(pc.fn, s, activMap, i)
  <2>1. CASE i = 0
    BY <2>1 DEF FnAt
  <2>2. CASE i # 0 /\ i = n - 1
    <3>1. FnAt(pc'.fn, u, am, i) = pc'.fn
      BY <1>7, <2>2 DEF FnAt
    <3>2. i # n /\ i + 1 = n
      BY <1>4, <2>2
    <3>3. FnAt(pc.fn, s, activMap, i) = s[p].cont.fn
      BY <1>5, <2>2, <3>2 DEF FnAt
    <3> QED BY <3>1, <3>3 DEF p
  <2>3. CASE i # 0 /\ i # n - 1
    <3>1. i + 1 \in 1 .. n - 1 /\ i # n
      BY <1>4, <2>3
    <3>2. FnAt(pc'.fn, u, am, i) = u[am[i + 1]].cont.fn
      BY <1>7, <2>3 DEF FnAt
    <3> QED BY <1>8, <2>3, <3>1, <3>2 DEF FnAt
  <2> QED BY <2>1, <2>2, <2>3
<1>10. ASSUME NEW i \in 1 .. n - 1
       PROVE  ActivOK(mod, u[am[i]], FnAt(pc'.fn, u, am, i - 1), FnAt(pc'.fn, u, am, i))
  <2>1. i - 1 \in 0 .. n - 1 /\ i \in 0 .. n - 1 /\ i \in 1 .. n
    BY <1>4
  <2> QED BY <1>2, <1>8, <1>9, <2>1 DEF ActivsOK
<1>11. ActivsOK(mod, pc'.fn, u, am)
  BY <1>7, <1>10 DEF ActivsOK
<1>12. LabelsOK(mod, pc'.fn, u, labelMap', 0)
  BY DEF LabelsOK
<1>13. LabelsOK(mod', pc'.fn, stack', labelMap', labelCount') /\ ActivsOK(mod', pc'.fn, stack', activMap')
  BY <1>1, <1>4, <1>11, <1>12
<1>14. \A i \in 0 .. n : FnAt(pc.fn, s, activMap, i) = FnAt(pc.fn, stack, activMap, i)
  BY MovedLinked
<1>15. \A i \in 0 .. n : i <= n - 1 => i \in 0 .. n - 1
  BY <1>4
<1>16. Len(activMap') = n - 1
  BY <1>1, <1>7
<1> HIDE DEF n
<1>17. RunsKept
  BY <1>1, <1>9, <1>14, <1>15, <1>16 DEF RunsKept, n
<1> QED BY <1>13, <1>17 DEF FramesLinked

-----------------------------------------------------------------------------
(* The instruction that is about to run, and the positions it leads to.     *)

\* The engine is about to run an instruction of a function.
AtWork == EngineInv /\ ControlInv /\ Running /\ outcome = "running"

LEMMA InstrFacts ==
  ASSUME AtWork
  PROVE  LET code == Code(mod, pc.fn) IN
         /\ pc \in Position /\ pc.fn \in 1 .. Len(mod.funcs) /\ pc.at \in 1 .. Len(code)
         /\ Structured(code) /\ Len(code) \in Nat /\ Instr = code[pc.at]
         /\ labelCount \in Nat /\ Nesting(code, pc.at) \in Nat /\ labelCount <= Nesting(code, pc.at)
         /\ Instr.op # "const" => Instr.n \in Nat
         /\ Instr.op = "br_table" => /\ Len(Instr.e) \in Nat /\ Len(Instr.e) > 0
                                     /\ \A i \in 1 .. Len(Instr.e) : Instr.e[i] \in Nat
                                     /\ Last(Instr.e) \in Nat
<1> DEFINE code == Code(mod, pc.fn)
<1>1. PcOK /\ mod \in Modules /\ Running /\ outcome = "running" /\ MapsOK
  BY DEF AtWork, ControlInv, EngineInv
<1>2. pc \in Position /\ pc.fn \in 1 .. Len(mod.funcs) /\ Around(mod, pc, labelCount)
  BY <1>1 DEF PcOK
<1>3. code = mod.funcs[pc.fn].code /\ Structured(code)
  BY <1>1, <1>2, ModulesAssumption DEF Code
<1>4. pc.at \in 1 .. Len(code) /\ labelCount <= Nesting(code, pc.at)
  BY <1>2 DEF Around
<1> HIDE DEF code
<1>5. Len(code) \in Nat /\ Nesting(code, pc.at) \in Nat
  BY <1>3, <1>4, BodyNested
<1>6. code[pc.at] \in [op : STRING, n : Int, t : STRING, e : Seq(Nat), last : Nat]
      /\ (code[pc.at].op # "const" => code[pc.at].n \in Nat)
      /\ (code[pc.at].op = "br_table" => code[pc.at].e # <<>>)
  <2>1. code \in Seq([op : STRING, n : Int, t : STRING, e : Seq(Nat), last : Nat])
    BY <1>3 DEF Structured
  <2>2. code[pc.at] \in [op : STRING, n : Int, t : STRING, e : Seq(Nat), last : Nat]
    BY <1>4, <2>1, ElementOfSeq
  <2> QED BY <1>3, <1>4, <2>2 DEF Structured
<1>7. Instr = code[pc.at]
  BY DEF Instr, code
<1>8. labelCount \in Nat
  BY <1>1 DEF MapsOK
<1>9. ASSUME Instr.op = "br_table"
      PROVE  /\ Len(Instr.e) \in Nat /\ Len(Instr.e) > 0
             /\ \A i \in 1 .. Len(Instr.e) : Instr.e[i] \in Nat
             /\ Last(Instr.e) \in Nat
  <2>1. Instr.e \in Seq(Nat) /\ Instr.e # <<>>
    BY <1>6, <1>7, <1>9
  <2>2. Len(Instr.e) \in Nat /\ Len(Instr.e) > 0
    BY <2>1
  <2>3. \A i \in 1 .. Len(Instr.e) : Instr.e[i] \in Nat
    BY <2>1
  <2>4. Last(Instr.e) = Instr.e[Len(Instr.e)] /\ Len(Instr.e) \in 1 .. Len(Instr.e)
    BY <2>2 DEF Last
  <2> QED BY <2>2, <2>3, <2>4
<1> QED BY <1>2, <1>3, <1>4, <1>5, <1>6, <1>7, <1>8, <1>9 DEF code

LEMMA AroundLess ==
  ASSUME NEW m, NEW p, NEW n \in Int, NEW k \in Int, Around(m, p, n), k <= n
  PROVE  Around(m, p, k)
<1>1. p.at \in Nat \ {0}
  BY DEF Around, Position
<1>2. Nesting(Code(m, p.fn), p.at) \in Int
  BY <1>1, NestingStep
<1> QED BY <1>2 DEF Around

\* Behind an instruction that is not the function's own `end`.
LEMMA AfterAround ==
  ASSUME AtWork, Instr.op # "end" \/ labelCount > 0
  PROVE  /\ After = [fn |-> pc.fn, at |-> pc.at + 1] /\ After \in Position
         /\ After.fn = pc.fn /\ After.at = pc.at + 1
         /\ pc.at + 1 \in 1 .. Len(Code(mod, pc.fn))
         /\ Around(mod, After, labelCount + Change(Instr.op))
<1> DEFINE code == Code(mod, pc.fn)
<1>1. /\ pc \in Position /\ pc.fn \in 1 .. Len(mod.funcs) /\ pc.at \in 1 .. Len(code)
      /\ Structured(code) /\ Len(code) \in Nat /\ Instr = code[pc.at]
      /\ labelCount \in Nat /\ Nesting(code, pc.at) \in Nat /\ labelCount <= Nesting(code, pc.at)
  BY InstrFacts
<1> HIDE DEF code
<1>2. code[Len(code)].op = "end" /\ Nesting(code, Len(code)) = 0
  BY <1>1, BodyNested
<1>3. pc.at # Len(code)
  BY <1>1, <1>2
<1>4. pc.at \in Nat \ {0} /\ pc.at + 1 \in 1 .. Len(code)
  BY <1>1, <1>3
<1>5. Nesting(code, pc.at + 1) = Nesting(code, pc.at) + Change(Instr.op)
  BY <1>1, <1>4, NestingStep
<1>6. Change(Instr.op) \in Int
  BY DEF Change
<1>7. After = [fn |-> pc.fn, at |-> pc.at + 1]
  BY DEF After, At
<1>8. pc.fn \in Nat /\ pc.at + 1 \in Nat
  BY <1>1, <1>4 DEF Position
<1>9. After \in Position /\ After.fn = pc.fn /\ After.at = pc.at + 1
  BY <1>7, <1>8 DEF Position
<1>10. labelCount + Change(Instr.op) <= Nesting(code, pc.at + 1)
  BY <1>1, <1>5, <1>6
<1> QED BY <1>1, <1>4, <1>7, <1>9, <1>10 DEF Around, code

\* The continuations of the block that opens here.
LEMMA BlockAround ==
  ASSUME AtWork, Instr.op \in Openers
  PROVE  /\ Crawl(After) \in Seq(Position) /\ Len(Crawl(After)) >= 1
         /\ Last(Crawl(After)).fn = pc.fn
         /\ Around(mod, Last(Crawl(After)), labelCount)
         /\ Len(Crawl(After)) >= 2 =>
              /\ Head(Crawl(After)).fn = pc.fn
              /\ Around(mod, Head(Crawl(After)), labelCount + 1)
<1> DEFINE code == Code(mod, pc.fn)
           conts == Crawl(After)
           a == pc.at
           N(k) == Nesting(code, k)
<1>1. /\ pc \in Position /\ pc.fn \in 1 .. Len(mod.funcs) /\ pc.at \in 1 .. Len(code)
      /\ Structured(code) /\ Len(code) \in Nat /\ Instr = code[pc.at]
      /\ labelCount \in Nat /\ Nesting(code, pc.at) \in Nat /\ labelCount <= Nesting(code, pc.at)
  BY InstrFacts
<1>2. After.fn = pc.fn /\ After.at = pc.at + 1 /\ pc.fn \in Nat
  <2>1. Instr.op # "end"
    BY DEF Openers
  <2> QED BY <1>1, <2>1, AfterAround DEF Position
<1>3. PICK e : /\ Closes(code, a, e) /\ ClosingEnd(code, After.at) = e
               /\ conts \in Seq([fn : Nat, at : Nat]) /\ Len(conts) >= 1
               /\ Last(conts) = At(pc.fn, e + 1)
               /\ \A i \in 1 .. Len(conts) - 1 :
                    /\ conts[i].fn = pc.fn
                    /\ conts[i].at - 1 \in a + 1 .. e - 1
                    /\ conts[i].at - 1 \in OwnElses(code, After.at)
  BY SMTT(30), <1>1, <1>2, CrawlStructural
<1> HIDE DEF conts, code
<1>4. e \in a + 1 .. Len(code) - 1 /\ N(e + 1) = N(a)
  BY <1>3 DEF Closes
<1>5. e + 1 \in 1 .. Len(code) /\ e \in Nat /\ a \in Nat
  BY <1>1, <1>4
<1>6. Last(conts).fn = pc.fn /\ Last(conts).at = e + 1 /\ Last(conts) \in Position
  BY <1>2, <1>3, <1>5 DEF At, Position
<1>7. Around(mod, Last(conts), labelCount)
  BY <1>1, <1>4, <1>5, <1>6 DEF Around, code
<1>8. ASSUME Len(conts) >= 2
      PROVE  Head(conts).fn = pc.fn /\ Around(mod, Head(conts), labelCount + 1)
  <2> DEFINE h == Head(conts)
             k == h.at - 1
  <2>1. h = conts[1] /\ 1 \in 1 .. Len(conts) - 1 /\ 1 \in 1 .. Len(conts)
    BY <1>3, <1>8
  <2>2. h \in Position
    <3>1. conts[1] \in [fn : Nat, at : Nat]
      BY <1>3, <2>1, ElementOfSeq
    <3> QED BY <2>1, <3>1 DEF Position
  <2> HIDE DEF h
  <2>3. h.fn = pc.fn /\ k \in a + 1 .. e - 1 /\ k \in OwnElses(code, a + 1)
    BY <1>2, <1>3, <2>1
  <2>4. code[k].op = "else" /\ N(k) = N(a) + 1
    <3>1. OwnElses(code, a + 1) =
            {j \in a + 1 .. e : code[j].op = "else" /\ Nesting(code, j) = Nesting(code, a) + 1}
      <4>1. a \in 1 .. Len(code) /\ code[a].op \in Openers /\ Structured(code)
        BY <1>1
      <4>2. Closes(code, a, e)
        BY <1>3
      <4> HIDE DEF a
      <4> QED BY <4>1, <4>2, OwnElsesAre
    <3>2. code[k].op = "else" /\ Nesting(code, k) = Nesting(code, a) + 1
      <4> HIDE DEF a, k
      <4> QED BY <2>3, <3>1
    <3> QED BY <3>2
  <2>5. k \in Nat \ {0} /\ k + 1 = h.at /\ h.at \in 1 .. Len(code)
    <3>1. h.at \in Nat
      BY <2>2 DEF Position
    <3>2. e <= Len(code) - 1 /\ Len(code) \in Nat
      BY <1>1, <1>4
    <3>3. a + 1 <= h.at - 1 /\ h.at - 1 <= e - 1
      BY <1>5, <2>3, <3>1
    <3> QED BY <1>5, <3>1, <3>2, <3>3
  <2>6. N(k + 1) = N(k) + Change(code[k].op)
    BY <2>5, NestingStep
  <2>7. N(h.at) = N(a) + 1
    BY <1>1, <2>4, <2>5, <2>6 DEF Change, Openers
  <2>8. labelCount + 1 <= N(h.at)
    BY <1>1, <2>7
  <2>9. Around(mod, h, labelCount + 1)
    BY <1>1, <2>2, <2>3, <2>5, <2>8 DEF Around, code
  <2> QED BY <2>3, <2>9 DEF h
<1>9. conts \in Seq(Position)
  BY <1>3 DEF Position
<1> QED BY <1>3, <1>6, <1>7, <1>8, <1>9 DEF conts

\* A crawl finds the same as long as the module is the same.
LEMMA CrawlUnchanged ==
  ASSUME mod' = mod
  PROVE  \A p : Crawl(p)' = Crawl(p)
BY DEF Crawl

\* The cache still holds what the crawl finds.
LEMMA ContsKept ==
  ASSUME ContsOK, contStore' = contStore, mod' = mod
  PROVE  ContsOK'
<1>1. \A p : Crawl(p)' = Crawl(p)
  BY CrawlUnchanged
<1> QED BY <1>1 DEF ContsOK

\* And after a crawl.
LEMMA ContsLookedUp ==
  ASSUME AtWork, Instr.op = "block" \/ (Instr.op = "if" /\ Len(Crawl(After)) >= 2),
         LookupConts(After), mod' = mod
  PROVE  ContsOK' /\ contStore'[After] = Crawl(After) /\ (status' = status \/ status' = "EXECUTING")
<1>1. \A p : Crawl(p)' = Crawl(p)
  BY CrawlUnchanged
<1>2. ContsOK
  BY DEF AtWork, ControlInv
<1>3. /\ pc.fn \in 1 .. Len(mod.funcs) /\ pc.at \in 1 .. Len(Code(mod, pc.fn))
      /\ Instr = Code(mod, pc.fn)[pc.at]
  BY InstrFacts
<1>4. After \in Position /\ After.fn = pc.fn /\ After.at = pc.at + 1
  BY AfterAround
<1>5. After.at - 1 = pc.at
  BY <1>3, <1>4
<1>6. CASE After \in DOMAIN contStore
  <2>1. contStore' = contStore /\ status' = status
    BY <1>6 DEF LookupConts
  <2>2. contStore[After] = Crawl(After)
    BY <1>2, <1>6 DEF ContsOK
  <2> QED BY <1>2, <2>1, <2>2, ContsKept
<1>7. CASE After \notin DOMAIN contStore
  <2>1. /\ contStore' = [q \in DOMAIN contStore \cup {After} |->
                           IF q = After THEN Crawl(After) ELSE contStore[q]]
        /\ status' = "EXECUTING"
    BY <1>7 DEF LookupConts
  <2>2. contStore'[After] = Crawl(After)
    BY <2>1
  <2>3. ASSUME NEW p \in DOMAIN contStore'
        PROVE  LET op == Code(mod, p.fn)[p.at - 1].op IN
               /\ p \in Position /\ p.fn \in 1 .. Len(mod.funcs)
               /\ p.at - 1 \in 1 .. Len(Code(mod, p.fn))
               /\ op = "block" \/ (op = "if" /\ Len(Crawl(p)) >= 2)
               /\ contStore'[p] = Crawl(p)
    <3>1. CASE p = After
      BY <1>3, <1>4, <1>5, <2>2, <3>1
    <3>2. CASE p # After
      <4>1. p \in DOMAIN contStore /\ contStore'[p] = contStore[p]
        BY <2>1, <3>2
      <4> QED BY <1>2, <4>1 DEF ContsOK
    <3> QED BY <3>1, <3>2
  <2>4. ContsOK'
    BY <1>1, <2>3 DEF ContsOK
  <2> QED BY <2>1, <2>2, <2>4
<1> QED BY <1>6, <1>7

-----------------------------------------------------------------------------
(* What a step keeps, and the ways the handlers end.                       *)

Preserves == EngineInv' /\ ControlInv' /\ CallerUntouched /\ RunsKept

LEMMA GoesOnPreserves ==
  ASSUME mod \in Modules, StepSound, FramesLinked', RunsKept, ContsOK', mod' = mod,
         pc' \in Position, pc'.fn \in 1 .. Len(mod.funcs),
         outcome' = "running" => Around(mod, pc', labelCount')
  PROVE  Preserves
<1>1. EngineInv'
  BY DEF StepSound, EngineInv, Good
<1>2. PcOK'
  BY DEF StepSound, PcOK
<1>3. ControlInv'
  BY <1>2 DEF ControlInv, FramesLinked
<1> QED BY <1>1, <1>3 DEF Preserves, StepSound

\* An error, or an end: the process runs no further instruction.
LEMMA EndsPreserve ==
  ASSUME EngineInv, ControlInv, UNCHANGED frameVars, mod' = mod, pc' = pc,
         contStore' = contStore, outcome' # "running"
  PROVE  Preserves
<1>1. stack' = stack /\ labelMap' = labelMap /\ activMap' = activMap /\ labelCount' = labelCount
  BY DEF frameVars
<1>2. EngineInv'
  BY <1>1 DEF EngineInv, Good, MapsOK, EntryAtBottom, Running
<1>3. ContsOK'
  BY ContsKept DEF ControlInv
<1>4. PcOK'
  BY <1>1 DEF ControlInv, PcOK, Running
<1>5. ControlInv'
  BY <1>1, <1>3, <1>4 DEF ControlInv
<1>6. CallerUntouched
  <2>1. CASE Running
    BY <2>1, UnchangedSound DEF StepSound
  <2>2. CASE ~Running
    BY <2>2 DEF CallerUntouched
  <2> QED BY <2>1, <2>2
<1>7. RunsKept
  BY <1>1 DEF RunsKept, FnAt
<1> QED BY <1>2, <1>5, <1>6, <1>7 DEF Preserves

LEMMA HaltPreserves ==
  ASSUME EngineInv, ControlInv, NEW error, error # "running", Halt(error)
  PROVE  Preserves
<1>1. UNCHANGED frameVars /\ mod' = mod /\ pc' = pc /\ contStore' = contStore /\ outcome' # "running"
  BY DEF Halt, frameVars
<1> QED BY <1>1, EndsPreserve

\* Only the driver calls before there is an activation.
LEMMA Fetched ==
  ASSUME EngineInv, ControlInv, NEW op, Fetch(op), op # "call"
  PROVE  AtWork /\ Instr.op = op
<1>1. outcome = "running" /\ Instr.op = op
  BY DEF Fetch
<1>2. ASSUME ~Running PROVE FALSE
  <2>1. pc = At(0, 1)
    BY <1>2 DEF ControlInv, PcOK
  <2>2. pc.fn = 0 /\ pc.at = 1
    BY <2>1 DEF At
  <2>3. Instr = Ins("call", mod.entry, "void", <<>>)
    BY <2>2 DEF Instr, Code
  <2>4. Instr.op = "call"
    BY <2>3 DEF Ins
  <2> QED BY <1>1, <2>4
<1> QED BY <1>1, <1>2 DEF AtWork

\* Operands moved, on to the next instruction.
LEMMA KeepPreserves ==
  ASSUME AtWork, Instr.op \notin Openers \cup {"end"}, NEW s, Moved(s), KeepFrames(s),
         Dispatch(After), contStore' = contStore
  PROVE  Preserves
<1>1. EngineInv /\ ControlInv /\ Running /\ outcome = "running" /\ FramesLinked
  BY DEF AtWork, ControlInv, FramesLinked
<1>2. mod' = mod /\ pc' = After
  BY DEF Dispatch
<1>3. After \in Position /\ After.fn = pc.fn /\ Around(mod, After, labelCount)
  <2>1. Around(mod, After, labelCount + Change(Instr.op)) /\ Change(Instr.op) = 0 /\ labelCount \in Nat
    BY InstrFacts, AfterAround DEF Change
  <2>2. labelCount + Change(Instr.op) = labelCount
    BY <2>1
  <2> QED BY <2>1, <2>2, AfterAround
<1>4. StepSound
  BY <1>1, KeepFramesSound DEF Moved
<1>5. FramesLinked' /\ RunsKept
  BY <1>1, <1>2, <1>3, KeepFramesLinked
<1>6. ContsOK'
  BY <1>1, <1>2, ContsKept DEF ControlInv
<1>7. labelCount' = labelCount
  BY DEF KeepFrames, trackVars
<1>8. pc'.fn \in 1 .. Len(mod.funcs) /\ mod \in Modules
  BY <1>1, <1>2, <1>3, InstrFacts DEF ControlInv
<1>9. pc' \in Position /\ Around(mod, pc', labelCount')
  BY <1>2, <1>3, <1>7
<1> QED BY <1>2, <1>4, <1>5, <1>6, <1>8, <1>9, GoesOnPreserves

\* The same with a local assigned.
LEMMA AssignPreserves ==
  ASSUME AtWork, Instr.op \notin Openers \cup {"end"}, NEW s, Moved(s),
         NEW locals, TypesOf(locals) = TypesOf(s[TopActiv].locals),
         KeepFrames([s EXCEPT ![TopActiv].locals = locals]),
         Dispatch(After), contStore' = contStore
  PROVE  Preserves
<1>1. EngineInv /\ ControlInv /\ Running /\ outcome = "running" /\ FramesLinked
  BY DEF AtWork, ControlInv, FramesLinked
<1>2. mod' = mod /\ pc' = After
  BY DEF Dispatch
<1>3. After \in Position /\ After.fn = pc.fn /\ Around(mod, After, labelCount)
  <2>1. Around(mod, After, labelCount + Change(Instr.op)) /\ Change(Instr.op) = 0 /\ labelCount \in Nat
    BY InstrFacts, AfterAround DEF Change
  <2>2. labelCount + Change(Instr.op) = labelCount
    BY <2>1
  <2> QED BY <2>1, <2>2, AfterAround
<1>4. StepSound
  BY <1>1, AssignLocalSound DEF Moved
<1>5. FramesLinked' /\ RunsKept
  BY <1>1, <1>2, <1>3, AssignLocalLinked
<1>6. ContsOK'
  BY <1>1, <1>2, ContsKept DEF ControlInv
<1>7. labelCount' = labelCount
  BY DEF KeepFrames, trackVars
<1>8. pc'.fn \in 1 .. Len(mod.funcs) /\ mod \in Modules
  BY <1>1, <1>2, <1>3, InstrFacts DEF ControlInv
<1>9. pc' \in Position /\ Around(mod, pc', labelCount')
  BY <1>2, <1>3, <1>7
<1> QED BY <1>2, <1>4, <1>5, <1>6, <1>8, <1>9, GoesOnPreserves

\* A block entered at `next`.
LEMMA EnterPreserves ==
  ASSUME AtWork, NEW s, Moved(s), NEW cont, NEW arity, PushLabel(s, cont, arity),
         cont.fn = pc.fn, Around(mod, cont, labelCount), ContsOK',
         NEW next, Dispatch(next), next.fn = pc.fn, Around(mod, next, labelCount + 1)
  PROVE  Preserves
<1>1. EngineInv /\ ControlInv /\ Running /\ outcome = "running" /\ FramesLinked
  BY DEF AtWork, ControlInv, FramesLinked
<1>2. mod' = mod /\ pc' = next
  BY DEF Dispatch
<1>3. StepSound
  BY <1>1, PushLabelSound DEF Moved
<1>4. FramesLinked' /\ RunsKept
  BY <1>1, <1>2, PushLabelLinked
<1>5. labelCount' = labelCount + 1
  BY DEF PushLabel
<1>6. pc'.fn \in 1 .. Len(mod.funcs) /\ mod \in Modules
  BY <1>1, <1>2, InstrFacts DEF ControlInv
<1>7. pc' \in Position /\ Around(mod, pc', labelCount')
  BY <1>2, <1>5 DEF Around
<1> QED BY <1>2, <1>3, <1>4, <1>6, <1>7, GoesOnPreserves

\* A branch that stays within the function.
LEMMA LeavePreserves ==
  ASSUME AtWork, NEW s, Moved(s), NEW depth \in Nat, depth < labelCount, RetFromLabel(s, depth),
         contStore' = contStore,
         NEW next, Dispatch(next), next.fn = pc.fn, Around(mod, next, labelCount - (depth + 1))
  PROVE  Preserves
<1>1. EngineInv /\ ControlInv /\ Running /\ outcome = "running" /\ FramesLinked
  BY DEF AtWork, ControlInv, FramesLinked
<1>2. mod' = mod /\ pc' = next
  BY DEF Dispatch
<1>3. StepSound
  BY <1>1, RetFromLabelSound DEF Moved
<1>4. FramesLinked' /\ RunsKept
  BY <1>1, <1>2, RetFromLabelLinked
<1>5. ContsOK'
  BY <1>1, <1>2, ContsKept DEF ControlInv
<1>6. labelCount' = labelCount - (depth + 1)
  BY DEF RetFromLabel
<1>7. pc'.fn \in 1 .. Len(mod.funcs) /\ mod \in Modules
  BY <1>1, <1>2, InstrFacts DEF ControlInv
<1>8. pc' \in Position /\ Around(mod, pc', labelCount')
  BY <1>2, <1>6 DEF Around
<1> QED BY <1>2, <1>3, <1>4, <1>5, <1>7, <1>8, GoesOnPreserves

LEMMA ArityFailsPreserves ==
  ASSUME EngineInv, ControlInv, NEW s, NEW arity, ArityFails(s, arity)
  PROVE  Preserves
BY HaltPreserves DEF ArityFails

\* Where a return goes: behind a call in the caller's body.
LEMMA ReturnTo ==
  ASSUME AtWork, TopActiv # 1
  PROVE  Around(mod, stack[TopActiv].cont, 0)
<1> DEFINE n == Len(activMap)
           caller == FnAt(pc.fn, stack, activMap, n - 1)
<1>1. /\ EngineInv /\ Running /\ ActivsOK(mod, pc.fn, stack, activMap)
      /\ activMap[1] = 1
  BY DEF AtWork, ControlInv, EngineInv, EntryAtBottom
<1>2. n \in Nat /\ n >= 1 /\ TopActiv = activMap[n]
  BY <1>1, TrackedFrames DEF TopActiv
<1>3. n # 1
  BY <1>1, <1>2
<1>4. n \in 1 .. n /\ n - 1 \in 1 .. n
  <2> HIDE DEF n, caller
  <2> QED BY <1>2, <1>3
<1>5. ActivOK(mod, stack[activMap[n]], caller, FnAt(pc.fn, stack, activMap, n))
  BY <1>1, <1>4 DEF ActivsOK
<1>6. ActivOK(mod, stack[activMap[n - 1]], FnAt(pc.fn, stack, activMap, n - 1 - 1), caller)
  BY <1>1, <1>4 DEF ActivsOK
<1> HIDE DEF caller
<1>7. caller \in 1 .. Len(mod.funcs)
  BY <1>6 DEF ActivOK
<1>8. caller # 0
  BY <1>7
<1> QED BY <1>2, <1>5, <1>8 DEF ActivOK

\* doReturn.
LEMMA ReturnPreserves ==
  ASSUME AtWork, Instr.op \notin Openers, NEW s, Moved(s), ReturnWith(s, labelCount)
  PROVE  Preserves
<1>1. /\ EngineInv /\ ControlInv /\ Running /\ outcome = "running" /\ FramesLinked
      /\ ContsOK /\ mod \in Modules
  BY DEF AtWork, ControlInv, FramesLinked
<1>2. /\ pc \in Position /\ pc.fn \in 1 .. Len(mod.funcs) /\ pc.at \in 1 .. Len(Code(mod, pc.fn))
      /\ labelCount \in Nat
  BY InstrFacts
<1>3. CASE TopActiv = 1 /\ KeepFrames(s) /\ status' = "STOPPED" /\ Dispatch(After)
           /\ UNCHANGED <<globals, contStore>>
  <2>1. CASE Instr.op = "end"
    <3>1. mod' = mod /\ pc' = After /\ outcome' = "stopped"
      BY <1>3, <2>1 DEF Dispatch
    <3>2. pc.fn \in Nat /\ pc.at + 1 \in Nat
      BY <1>2 DEF Position
    <3>3. pc'.fn = pc.fn /\ pc' \in Position
      BY <3>1, <3>2 DEF After, At, Position
    <3>4. StepSound
      BY <1>1, <1>3, KeepFramesSound DEF Moved
    <3>5. FramesLinked' /\ RunsKept
      BY <1>1, <1>3, <3>1, <3>3, KeepFramesLinked
    <3>6. ContsOK'
      BY <1>1, <1>3, <3>1, ContsKept
    <3>7. pc'.fn \in 1 .. Len(mod.funcs) /\ outcome' # "running"
      BY <1>2, <3>1, <3>3
    <3> QED BY <1>1, <3>1, <3>3, <3>4, <3>5, <3>6, <3>7, GoesOnPreserves
  <2>2. CASE Instr.op # "end"
    <3>1. Instr.op \notin Openers \cup {"end"}
      BY <2>2
    <3>2. KeepFrames(s) /\ Dispatch(After) /\ contStore' = contStore
      BY <1>3
    <3> QED BY <3>1, <3>2, KeepPreserves
  <2> QED BY <2>1, <2>2
<1>4. CASE TopActiv # 1 /\ RetFromActiv(s, labelCount)
           /\ UNCHANGED <<globals, contStore, status>> /\ Dispatch(s[TopActiv].cont)
  <2>1. s[TopActiv] = stack[TopActiv]
    <3>1. Len(activMap) \in 1 .. Len(activMap)
      BY <1>1, TrackedFrames
    <3> QED BY <1>1, <3>1, MovedFrames DEF TopActiv
  <2>2. mod' = mod /\ pc' = s[TopActiv].cont /\ contStore' = contStore
    BY <1>4 DEF Dispatch
  <2>3. Around(mod, pc', 0)
    BY <1>4, <2>1, <2>2, ReturnTo
  <2>4. labelCount' = 0
    <3>1. labelCount' = labelCount - labelCount
      BY <1>4 DEF RetFromActiv
    <3> QED BY <1>2, <3>1
  <2>5. StepSound
    BY <1>1, <1>4, RetFromActivSound DEF Moved
  <2>6. pc'.fn = s[TopActiv].cont.fn
    BY <2>2
  <2>7. FramesLinked' /\ RunsKept
    BY <1>1, <1>4, <2>2, <2>6, RetFromActivLinked
  <2>8. ContsOK'
    BY <1>1, <2>2, ContsKept
  <2>9. pc' \in Position /\ pc'.fn \in 1 .. Len(mod.funcs)
    BY <2>3 DEF Around
  <2> QED BY <1>1, <2>2, <2>3, <2>4, <2>5, <2>7, <2>8, <2>9, GoesOnPreserves
<1>5. CASE TopActiv # 1 /\ ArityFails(s, s[TopActiv].arity)
  BY <1>1, <1>5, ArityFailsPreserves
<1> QED BY <1>3, <1>4, <1>5 DEF ReturnWith

\* doBr.
LEMMA BranchPreserves ==
  ASSUME AtWork, Instr.op \notin Openers, NEW s, Moved(s), NEW depth \in Nat,
         Instr.op = "end" => depth = 0, BranchTo(s, depth)
  PROVE  Preserves
<1> DEFINE p == TrackedLabel(depth)
<1>1. /\ EngineInv /\ ControlInv /\ Running
      /\ LabelsOK(mod, pc.fn, stack, labelMap, labelCount)
  BY DEF AtWork, ControlInv
<1>2. labelCount \in Nat
  BY InstrFacts
<1>3. CASE labelCount > depth /\ RetFromLabel(s, depth) /\ UNCHANGED <<globals, contStore, status>>
           /\ Dispatch(IF ReadEndByte THEN After ELSE s[p].cont)
  <2>1. contStore' = contStore /\ depth < labelCount
        /\ labelCount - (depth + 1) \in Nat /\ labelCount - depth \in 1 .. labelCount
    BY <1>2, <1>3
  <2>2. Around(mod, After, labelCount - (depth + 1)) /\ After.fn = pc.fn
    <3>1. Around(mod, After, labelCount + Change(Instr.op)) /\ After.fn = pc.fn
      BY <1>2, <2>1, AfterAround
    <3>2. Change(Instr.op) \in Int /\ labelCount - (depth + 1) <= labelCount + Change(Instr.op)
      <4>1. CASE Instr.op = "end"
        BY <1>2, <4>1 DEF Change, Openers
      <4>2. CASE Instr.op # "end"
        <5>1. Change(Instr.op) = 0
          BY <4>2 DEF Change
        <5> QED BY <1>2, <5>1
      <4> QED BY <4>1, <4>2
    <3>3. labelCount + Change(Instr.op) \in Int /\ labelCount - (depth + 1) \in Int
      BY <1>2, <3>2
    <3> QED BY <3>1, <3>2, <3>3, AroundLess
  <2>3. Around(mod, s[p].cont, labelCount - (depth + 1)) /\ s[p].cont.fn = pc.fn
    <3> DEFINE j == labelCount - depth
    <3>1. Len(labelMap) \in Nat
      BY <1>1, TrackedFrames
    <3>2. Len(labelMap) - labelCount + j = Len(labelMap) - depth /\ j - 1 = labelCount - (depth + 1)
      BY <1>2, <3>1
    <3>3. p = CountedLabel(j) /\ j \in 1 .. labelCount
      BY <2>1, <3>2 DEF CountedLabel, TrackedLabel
    <3>4. s[p] = stack[p]
      BY <1>1, <3>3, MovedFrames
    <3> HIDE DEF j, p
    <3>5. stack[p].cont.fn = pc.fn /\ Around(mod, stack[p].cont, j - 1)
      BY <1>1, <3>3 DEF LabelsOK, CountedLabel
    <3> QED BY <3>2, <3>4, <3>5
  <2> DEFINE next == IF ReadEndByte THEN After ELSE s[p].cont
  <2>4. Around(mod, next, labelCount - (depth + 1)) /\ next.fn = pc.fn
    BY <2>2, <2>3
  <2>5. RetFromLabel(s, depth) /\ Dispatch(next)
    BY <1>3
  <2> HIDE DEF next
  <2> QED BY <2>1, <2>4, <2>5, LeavePreserves
<1>4. CASE labelCount > depth /\ ArityFails(s, s[p].arity)
  BY <1>1, <1>4, ArityFailsPreserves
<1>5. CASE labelCount = depth /\ ReturnWith(s, depth)
  BY <1>5, ReturnPreserves
<1>6. CASE labelCount < depth /\ Halt("ILLEGAL_BREAK_LVL")
  BY <1>1, <1>6, HaltPreserves
<1> QED BY <1>3, <1>4, <1>5, <1>6 DEF BranchTo

-----------------------------------------------------------------------------
(* The handlers.                                                           *)

LEMMA OnTop ==
  ASSUME AtWork, I32OnTop
  PROVE  ValuesOnTop(stack, 1) /\ Moved(Under) /\ Len(Under) = Len(stack) - 1
<1>1. EngineInv /\ Running /\ Moved(stack) /\ Len(stack) \in Nat
  BY MovedStack, StackGood DEF AtWork
<1>2. stack # <<>> /\ stack[Len(stack)].kind = "value" /\ stack \in Seq(FramesOf(stack))
  BY <1>1 DEF I32OnTop, IsType, Last, Moved, Good, Framed
<1>3. Len(stack) # 0
  BY <1>2
<1>4. ValuesOnTop(stack, 1)
  BY <1>1, <1>2, <1>3 DEF ValuesOnTop
<1> QED BY <1>1, <1>4, MovedPop DEF Under

\* Nothing but operands moves in an instruction that is no block's.
Plain(op) == op \notin Openers \cup {"end", "call"}

LEMMA LeaveStep ==
  ASSUME AtWork, Plain(Instr.op), NEW s, Moved(s), Leave(s)
  PROVE  Preserves
<1>1. Instr.op \notin Openers \cup {"end"}
  BY DEF Plain
<1>2. KeepFrames(s) /\ Dispatch(After) /\ contStore' = contStore
  BY DEF Leave, Continue
<1> QED BY <1>1, <1>2, KeepPreserves

LEMMA PushValStep ==
  ASSUME AtWork, Plain(Instr.op), NEW s, Moved(s), NEW v, Leave(Append(s, ValueFrame(v)))
  PROVE  Preserves
<1>1. EngineInv /\ Running
  BY DEF AtWork
<1>2. IsFrame(ValueFrame(v)) /\ ValueFrame(v).kind = "value"
  BY AreFrames
<1>3. Moved(Append(s, ValueFrame(v)))
  BY <1>1, <1>2, MovedPush
<1> QED BY <1>3, LeaveStep

LEMMA MismatchStep ==
  ASSUME AtWork, Mismatch
  PROVE  Preserves
BY HaltPreserves DEF AtWork, Mismatch

LEMMA PopStep ==
  ASSUME AtWork, NEW n, ValuesOnTop(stack, n)
  PROVE  Moved(DropTop(stack, n))
BY MovedStack, MovedPop DEF AtWork

\* Constants, and the operands themselves.
LEMMA UnreachableStep ==
  ASSUME EngineInv, ControlInv, DoUnreachable
  PROVE  Preserves
BY HaltPreserves DEF DoUnreachable

LEMMA NopStep ==
  ASSUME EngineInv, ControlInv, DoNop
  PROVE  Preserves
<1>1. AtWork /\ Instr.op = "nop"
  BY Fetched DEF DoNop
<1>2. Plain(Instr.op)
  BY <1>1 DEF Plain, Openers
<1>3. Moved(stack)
  BY <1>1, MovedStack DEF AtWork
<1> QED BY <1>1, <1>2, <1>3, LeaveStep DEF DoNop

LEMMA ConstStep ==
  ASSUME EngineInv, ControlInv, DoConst
  PROVE  Preserves
<1>1. AtWork /\ Instr.op = "const"
  BY Fetched DEF DoConst
<1>2. Plain(Instr.op)
  BY <1>1 DEF Plain, Openers
<1>3. Moved(stack)
  BY <1>1, MovedStack DEF AtWork
<1> QED BY <1>1, <1>2, <1>3, PushValStep DEF DoConst, PushVal

LEMMA DropStep ==
  ASSUME EngineInv, ControlInv, DoDrop
  PROVE  Preserves
<1>1. AtWork /\ Instr.op = "drop"
  BY Fetched DEF DoDrop
<1>2. Plain(Instr.op)
  BY <1>1 DEF Plain, Openers
<1>3. CASE ValuesOnTop(stack, 1)
  <2>1. Moved(Under)
    BY <1>1, <1>3, PopStep DEF Under
  <2> QED BY <1>1, <1>2, <1>3, <2>1, LeaveStep DEF DoDrop
<1>4. CASE ~ValuesOnTop(stack, 1)
  BY <1>1, <1>4, MismatchStep DEF DoDrop
<1> QED BY <1>3, <1>4

LEMMA SelectStep ==
  ASSUME EngineInv, ControlInv, DoSelect
  PROVE  Preserves
<1> DEFINE n == Len(stack)
           ok == /\ I32OnTop /\ ValuesOnTop(stack, 3)
                 /\ IsType(stack[n - 2], stack[n - 1].value.type)
           left == IF TopVal = 0 THEN Append(DropTop(stack, 3), stack[n - 1])
                   ELSE DropTop(stack, 2)
<1>1. AtWork /\ Instr.op = "select"
  BY Fetched DEF DoSelect
<1>2. Plain(Instr.op)
  BY <1>1 DEF Plain, Openers
<1>3. IF ok THEN Leave(left) ELSE Mismatch
  BY DEF DoSelect
<1>4. CASE ok
  <2>1. ValuesOnTop(stack, 3) /\ n \in Nat /\ EngineInv /\ Running /\ Good(stack)
    BY <1>1, <1>4, StackGood DEF AtWork
  <2>2. 3 \in 0 .. n /\ \A i \in n - 3 + 1 .. n : stack[i].kind = "value"
    BY <2>1 DEF ValuesOnTop
  <2>3. ValuesOnTop(stack, 2)
    BY <2>1, <2>2 DEF ValuesOnTop
  <2>4. stack[n - 1].kind = "value" /\ IsFrame(stack[n - 1])
    <3>1. n - 1 \in n - 3 + 1 .. n /\ n - 1 \in 1 .. n
      BY <2>1, <2>2
    <3> QED BY <2>1, <2>2, <3>1 DEF Good, Framed
  <2>5. Moved(DropTop(stack, 3)) /\ Moved(DropTop(stack, 2))
    BY <1>1, <2>1, <2>3, PopStep
  <2>6. Moved(Append(DropTop(stack, 3), stack[n - 1]))
    BY <2>1, <2>4, <2>5, MovedPush
  <2>7. Moved(left) /\ Leave(left)
    BY <1>3, <1>4, <2>5, <2>6
  <2> HIDE DEF left
  <2> QED BY <1>1, <1>2, <2>7, LeaveStep
<1>5. CASE ~ok
  BY <1>1, <1>3, <1>5, MismatchStep
<1> QED BY <1>4, <1>5

\* Locals and globals.
LEMMA LocalGetStep ==
  ASSUME EngineInv, ControlInv, DoLocalGet
  PROVE  Preserves
<1>1. AtWork /\ Instr.op = "local.get"
  BY Fetched DEF DoLocalGet
<1>2. Plain(Instr.op)
  BY <1>1 DEF Plain, Openers
<1>3. Moved(stack)
  BY <1>1, MovedStack DEF AtWork
<1>4. CASE Instr.n < Len(CurrentLocals)
  BY <1>1, <1>2, <1>3, <1>4, PushValStep DEF DoLocalGet, PushVal
<1>5. CASE ~(Instr.n < Len(CurrentLocals))
  BY <1>5, HaltPreserves DEF DoLocalGet
<1> QED BY <1>4, <1>5

LEMMA AssignStep ==
  ASSUME AtWork, Plain(Instr.op), NEW s, Moved(s), AssignTop(s)
  PROVE  Preserves
<1> DEFINE i == Instr.n + 1
           old == CurrentLocals
           locals == [old EXCEPT ![i] = Last(stack).value]
<1>1. EngineInv /\ ControlInv /\ Running
  BY DEF AtWork
<1>2. CASE /\ IsType(Last(stack), old[i].type)
           /\ Leave([s EXCEPT ![TopActiv].locals = locals])
  <2>1. s[TopActiv] = stack[TopActiv]
    <3>1. Len(activMap) \in 1 .. Len(activMap)
      BY <1>1, TrackedFrames
    <3> QED BY <1>1, <3>1, MovedFrames DEF TopActiv
  <2>2. Last(stack).value.type = old[i].type
    BY <1>2 DEF IsType
  <2>3. TypesOf(locals) = TypesOf(old)
    <3> HIDE DEF old, i
    <3>1. DOMAIN locals = DOMAIN old
      OBVIOUS
    <3>2. \A k \in DOMAIN old : locals[k].type = old[k].type
      BY <2>2
    <3> HIDE DEF locals
    <3> QED BY <3>1, <3>2 DEF TypesOf
  <2>4. TypesOf(locals) = TypesOf(s[TopActiv].locals)
    BY <2>1, <2>3 DEF CurrentLocals
  <2> HIDE DEF locals
  <2>5. KeepFrames([s EXCEPT ![TopActiv].locals = locals]) /\ Dispatch(After) /\ contStore' = contStore
    BY <1>2 DEF Leave, Continue
  <2>6. Instr.op \notin Openers \cup {"end"}
    BY DEF Plain
  <2> QED BY <2>4, <2>5, <2>6, AssignPreserves
<1>3. CASE Mismatch
  BY <1>3, MismatchStep
<1>4. CASE Halt("std::out_of_range")
  BY <1>1, <1>4, HaltPreserves
<1> QED BY <1>2, <1>3, <1>4 DEF AssignTop

LEMMA LocalSetStep ==
  ASSUME EngineInv, ControlInv, DoLocalSet
  PROVE  Preserves
<1>1. AtWork /\ Instr.op = "local.set"
  BY Fetched DEF DoLocalSet
<1>2. Plain(Instr.op)
  BY <1>1 DEF Plain, Openers
<1>3. CASE ValuesOnTop(stack, 1)
  <2>1. Moved(Under)
    BY <1>1, <1>3, PopStep DEF Under
  <2> QED BY <1>1, <1>2, <2>1, AssignStep DEF DoLocalSet
<1>4. CASE ~ValuesOnTop(stack, 1)
  BY <1>1, <1>4, MismatchStep DEF DoLocalSet, AssignTop
<1> QED BY <1>3, <1>4

LEMMA LocalTeeStep ==
  ASSUME EngineInv, ControlInv, DoLocalTee
  PROVE  Preserves
<1>1. AtWork /\ Instr.op = "local.tee"
  BY Fetched DEF DoLocalTee
<1>2. Plain(Instr.op)
  BY <1>1 DEF Plain, Openers
<1>3. Moved(stack)
  BY <1>1, MovedStack DEF AtWork
<1> QED BY <1>1, <1>2, <1>3, AssignStep DEF DoLocalTee

LEMMA GlobalGetStep ==
  ASSUME EngineInv, ControlInv, DoGlobalGet
  PROVE  Preserves
<1>1. AtWork /\ Instr.op = "global.get"
  BY Fetched DEF DoGlobalGet
<1>2. Plain(Instr.op)
  BY <1>1 DEF Plain, Openers
<1>3. Moved(stack)
  BY <1>1, MovedStack DEF AtWork
<1>4. CASE Instr.n < Len(globals)
  BY <1>1, <1>2, <1>3, <1>4, PushValStep DEF DoGlobalGet, PushVal
<1>5. CASE ~(Instr.n < Len(globals))
  BY <1>5, HaltPreserves DEF DoGlobalGet
<1> QED BY <1>4, <1>5

LEMMA GlobalSetStep ==
  ASSUME EngineInv, ControlInv, DoGlobalSet
  PROVE  Preserves
<1>1. AtWork /\ Instr.op = "global.set"
  BY Fetched DEF DoGlobalSet
<1>2. Instr.op \notin Openers \cup {"end"}
  BY <1>1 DEF Openers
<1>3. CASE ValuesOnTop(stack, 1) /\ KeepFrames(Under) /\ Dispatch(After) /\ contStore' = contStore
  <2>1. Moved(Under)
    BY <1>1, <1>3, PopStep DEF Under
  <2> QED BY <1>1, <1>2, <1>3, <2>1, KeepPreserves
<1>4. CASE Mismatch
  BY <1>1, <1>4, MismatchStep
<1>5. CASE Halt("GLOBAL_ACCESS_OOB") \/ Halt("IMMUTABLE_GLOBAL_MUTATION")
  BY <1>5, HaltPreserves
<1> QED BY <1>3, <1>4, <1>5 DEF DoGlobalSet

\* Integers.
LEMMA BinaryTraps ==
  ASSUME NEW op \in Ints!Binaries, NEW x, NEW y, NEW w, NEW o \in Ints!Binary(op, x, y, w)
  PROVE  o.trap \in {"none", "DIVISION_BY_ZERO", "VAL_NOT_REPRESENTABLE", "SIGFPE"}
<1>1. \A v : Ints!Value(v).trap = "none"
  BY DEF Ints!Value
<1>2. \A e : Ints!Trap(e).trap = e
  BY DEF Ints!Trap
<1>3. CASE op \in Ints!Divisions
  <2>1. o \in Ints!Divide(op, x, y, w)
    BY <1>3 DEF Ints!Binary
  <2>2. \/ \E v : o = Ints!Value(v)
        \/ o \in {Ints!Trap("DIVISION_BY_ZERO"), Ints!Trap("VAL_NOT_REPRESENTABLE"), Ints!Trap("SIGFPE")}
    <3>1. op \in {"div_s", "div_u", "rem_s", "rem_u"}
      BY <1>3 DEF Ints!Divisions
    <3>2. CASE y = 0
      BY <2>1, <3>2 DEF Ints!Divide
    <3>3. CASE y # 0 /\ op = "div_s"
      BY <2>1, <3>3 DEF Ints!Divide
    <3>4. CASE y # 0 /\ op = "div_u"
      BY <2>1, <3>4 DEF Ints!Divide
    <3>5. CASE y # 0 /\ op = "rem_s"
      BY <2>1, <3>5 DEF Ints!Divide
    <3>6. CASE y # 0 /\ op = "rem_u"
      BY <2>1, <3>6 DEF Ints!Divide
    <3> QED BY <3>1, <3>2, <3>3, <3>4, <3>5, <3>6
  <2> QED BY <1>1, <1>2, <2>2
<1>4. CASE op \notin Ints!Divisions
  <2>1. \E v : o = Ints!Value(v)
    BY <1>4 DEF Ints!Binary
  <2> QED BY <1>1, <2>1
<1> QED BY <1>3, <1>4

LEMMA IntegersPlain ==
  ASSUME NEW op \in Ints!Binaries \cup Ints!Unaries \cup Ints!Conversions
  PROVE  Plain(op) /\ op # "call"
BY DEF Ints!Binaries, Ints!Unaries, Ints!Conversions, Ints!Totals, Ints!Comparisons,
       Ints!Divisions, Ints!Shifts, Plain, Openers

LEMMA BinaryStep ==
  ASSUME EngineInv, ControlInv, DoBinary
  PROVE  Preserves
<1>1. PICK op \in Ints!Binaries : Fetch(op)
  BY DEF DoBinary
<1>2. AtWork /\ Instr.op = op /\ Plain(Instr.op)
  BY <1>1, Fetched, IntegersPlain
<1>3. CASE Mismatch
  BY <1>2, <1>3, MismatchStep
<1>4. ASSUME ValuesOnTop(stack, 2), NEW x, NEW o \in Ints!Binary(op, x, TopVal, WidthOf(Instr.t)),
             o.trap = "none", Leave(Append(DropTop(stack, 2), ValueFrame(IntResult(o.val))))
      PROVE  Preserves
  <2>1. Moved(DropTop(stack, 2))
    BY <1>2, <1>4, PopStep
  <2> QED BY <1>2, <1>4, <2>1, PushValStep
<1>5. ASSUME NEW x, NEW o \in Ints!Binary(op, x, TopVal, WidthOf(Instr.t)),
             o.trap # "none", Halt(o.trap)
      PROVE  Preserves
  <2>1. o.trap # "running"
    BY <1>1, BinaryTraps
  <2> QED BY <1>5, <2>1, HaltPreserves
<1> QED BY <1>2, <1>3, <1>4, <1>5 DEF DoBinary

LEMMA UnaryStep ==
  ASSUME EngineInv, ControlInv, DoUnary
  PROVE  Preserves
<1>1. PICK op \in Ints!Unaries : Fetch(op)
  BY DEF DoUnary
<1>2. AtWork /\ Instr.op = op /\ Plain(Instr.op)
  BY <1>1, Fetched, IntegersPlain
<1>3. CASE Mismatch
  BY <1>2, <1>3, MismatchStep
<1>4. ASSUME ValuesOnTop(stack, 1), NEW v, Leave(Append(Under, ValueFrame(v)))
      PROVE  Preserves
  <2>1. Moved(Under)
    BY <1>2, <1>4, PopStep DEF Under
  <2> QED BY <1>2, <1>4, <2>1, PushValStep
<1> QED BY <1>3, <1>4 DEF DoUnary

LEMMA ConvertStep ==
  ASSUME EngineInv, ControlInv, DoConvert
  PROVE  Preserves
<1>1. PICK op \in Ints!Conversions : Fetch(op)
  BY DEF DoConvert
<1>2. AtWork /\ Instr.op = op /\ Plain(Instr.op)
  BY <1>1, Fetched, IntegersPlain
<1>3. CASE Mismatch
  BY <1>2, <1>3, MismatchStep
<1>4. ASSUME ValuesOnTop(stack, 1), NEW v, Leave(Append(Under, ValueFrame(v)))
      PROVE  Preserves
  <2>1. Moved(Under)
    BY <1>2, <1>4, PopStep DEF Under
  <2> QED BY <1>2, <1>4, <2>1, PushValStep
<1> QED BY <1>3, <1>4 DEF DoConvert

\* Blocks.
LEMMA BlockStep ==
  ASSUME EngineInv, ControlInv, DoBlock
  PROVE  Preserves
<1>1. AtWork /\ Instr.op = "block"
  BY Fetched DEF DoBlock
<1>2. /\ LookupConts(After) /\ PushLabel(stack, Last(contStore'[After]), BlockArity(Instr.t))
      /\ Dispatch(After) /\ mod' = mod
  BY DEF DoBlock, Dispatch
<1>3. Instr.op \in Openers
  BY <1>1 DEF Openers
<1>4. ContsOK' /\ contStore'[After] = Crawl(After)
  BY <1>1, <1>2, ContsLookedUp
<1>5. Last(Crawl(After)).fn = pc.fn /\ Around(mod, Last(Crawl(After)), labelCount)
  BY <1>1, <1>3, BlockAround
<1>6. After.fn = pc.fn /\ Around(mod, After, labelCount + 1)
  BY <1>1, AfterAround DEF Change, Openers
<1>7. Moved(stack)
  BY <1>1, MovedStack DEF AtWork
<1>8. PushLabel(stack, Last(Crawl(After)), BlockArity(Instr.t))
  BY <1>2, <1>4
<1> QED BY <1>1, <1>2, <1>4, <1>5, <1>6, <1>7, <1>8, EnterPreserves

LEMMA LoopStep ==
  ASSUME EngineInv, ControlInv, DoLoop
  PROVE  Preserves
<1>1. AtWork /\ Instr.op = "loop"
  BY Fetched DEF DoLoop
<1>2. PushLabel(stack, pc, BlockArity(Instr.t)) /\ Dispatch(After) /\ contStore' = contStore /\ mod' = mod
  BY DEF DoLoop, Continue, Dispatch
<1>3. ContsOK'
  BY <1>2, ContsKept DEF ControlInv
<1>4. After.fn = pc.fn /\ Around(mod, After, labelCount + 1)
  BY <1>1, AfterAround DEF Change, Openers
<1>5. Around(mod, pc, labelCount)
  BY <1>1, InstrFacts DEF Around
<1>6. Moved(stack)
  BY <1>1, MovedStack DEF AtWork
<1> QED BY <1>1, <1>2, <1>3, <1>4, <1>5, <1>6, EnterPreserves

LEMMA IfStep ==
  ASSUME EngineInv, ControlInv, DoIf
  PROVE  Preserves
<1> DEFINE conts == IF After \in DOMAIN contStore THEN contStore[After] ELSE Crawl(After)
           next == IF TopVal = 0 THEN Head(conts) ELSE After
<1>1. AtWork /\ Instr.op = "if"
  BY Fetched DEF DoIf
<1>2. conts = Crawl(After)
  BY DEF ControlInv, ContsOK
<1>3. \/ Halt("ILLFORMED_STRUCTURE")
      \/ Mismatch
      \/ /\ Len(conts) >= 2 /\ I32OnTop /\ LookupConts(After)
         /\ PushLabel(Under, Last(conts), BlockArity(Instr.t)) /\ Dispatch(next)
  BY DEF DoIf
<1> HIDE DEF conts
<1>4. CASE /\ Len(conts) >= 2 /\ I32OnTop /\ LookupConts(After)
           /\ PushLabel(Under, Last(conts), BlockArity(Instr.t)) /\ Dispatch(next)
  <2>1. Instr.op \in Openers
    BY <1>1 DEF Openers
  <2>2. mod' = mod
    BY <1>4 DEF Dispatch
  <2>3. ContsOK'
    BY <1>1, <1>2, <1>4, <2>2, ContsLookedUp
  <2>4. /\ Last(conts).fn = pc.fn /\ Around(mod, Last(conts), labelCount)
        /\ Head(conts).fn = pc.fn /\ Around(mod, Head(conts), labelCount + 1)
    BY <1>1, <1>2, <1>4, <2>1, BlockAround
  <2>5. After.fn = pc.fn /\ Around(mod, After, labelCount + 1)
    BY <1>1, AfterAround DEF Change, Openers
  <2>6. next.fn = pc.fn /\ Around(mod, next, labelCount + 1)
    BY <2>4, <2>5
  <2>7. Moved(Under)
    BY <1>1, <1>4, OnTop
  <2> HIDE DEF next
  <2> QED BY <1>1, <1>4, <2>3, <2>4, <2>6, <2>7, EnterPreserves
<1>5. CASE Mismatch
  BY <1>1, <1>5, MismatchStep
<1>6. CASE Halt("ILLFORMED_STRUCTURE")
  BY <1>6, HaltPreserves
<1> QED BY <1>3, <1>4, <1>5, <1>6

\* Branches and returns.
LEMMA BranchSteps ==
  ASSUME EngineInv, ControlInv, DoBr \/ DoElse \/ DoEnd \/ DoReturn
  PROVE  Preserves
<1>1. AtWork /\ Instr.op \in {"br", "else", "end", "return"}
  BY Fetched DEF DoBr, DoElse, DoEnd, DoReturn
<1>2. Instr.op \notin Openers
  BY <1>1 DEF Openers
<1>3. Moved(stack)
  BY <1>1, MovedStack DEF AtWork
<1>4. CASE DoBr
  <2>1. Instr.op = "br" /\ BranchTo(stack, Instr.n)
    BY <1>4 DEF DoBr, Fetch
  <2>2. Instr.n \in Nat
    BY <1>1, <2>1, InstrFacts
  <2> QED BY <1>1, <1>2, <1>3, <2>1, <2>2, BranchPreserves
<1>5. CASE DoElse \/ DoEnd
  BY <1>1, <1>2, <1>3, <1>5, BranchPreserves, 0 \in Nat DEF DoElse, DoEnd
<1>6. CASE DoReturn
  BY <1>1, <1>2, <1>3, <1>6, ReturnPreserves DEF DoReturn
<1> QED BY <1>4, <1>5, <1>6

LEMMA BrIfStep ==
  ASSUME EngineInv, ControlInv, DoBrIf
  PROVE  Preserves
<1>1. AtWork /\ Instr.op = "br_if"
  BY Fetched DEF DoBrIf
<1>2. Instr.op \notin Openers /\ Plain(Instr.op) /\ Instr.n \in Nat
  BY <1>1, InstrFacts DEF Plain, Openers
<1>3. CASE I32OnTop /\ BranchTo(Under, Instr.n)
  BY <1>1, <1>2, <1>3, OnTop, BranchPreserves
<1>4. CASE I32OnTop /\ Leave(Under)
  BY <1>1, <1>2, <1>4, OnTop, LeaveStep
<1>5. CASE Mismatch
  BY <1>1, <1>5, MismatchStep
<1> QED BY <1>3, <1>4, <1>5 DEF DoBrIf

LEMMA BrTableStep ==
  ASSUME EngineInv, ControlInv, DoBrTable
  PROVE  Preserves
<1> DEFINE depth == IF TopVal \in 0 .. Len(Instr.e) - 1 THEN Instr.e[TopVal + 1] ELSE Last(Instr.e)
<1>1. AtWork /\ Instr.op = "br_table"
  BY Fetched DEF DoBrTable
<1>2. Instr.op \notin Openers
  BY <1>1 DEF Openers
<1>3. /\ Len(Instr.e) \in Nat /\ Last(Instr.e) \in Nat
      /\ \A i \in 1 .. Len(Instr.e) : Instr.e[i] \in Nat
  BY <1>1, InstrFacts
<1>4. depth \in Nat
  <2>1. TopVal \in 0 .. Len(Instr.e) - 1 => TopVal + 1 \in 1 .. Len(Instr.e)
    BY <1>3
  <2> QED BY <1>3, <2>1
<1>5. CASE I32OnTop /\ BranchTo(Under, depth)
  <2> HIDE DEF depth
  <2> QED BY <1>1, <1>2, <1>4, <1>5, OnTop, BranchPreserves
<1>6. CASE Mismatch
  BY <1>1, <1>6, MismatchStep
<1> QED BY <1>5, <1>6 DEF DoBrTable

\* Calls.
LEMMA Concatenated ==
  ASSUME NEW S, NEW T, NEW a \in Seq(S), NEW b \in Seq(T)
  PROVE  /\ a \o b \in Seq(S \cup T) /\ Len(a \o b) = Len(a) + Len(b)
         /\ \A k \in 1 .. Len(a) + Len(b) :
              (a \o b)[k] = IF k <= Len(a) THEN a[k] ELSE b[k - Len(a)]
<1>1. a \in Seq(S \cup T) /\ b \in Seq(S \cup T)
  OBVIOUS
<1> QED BY <1>1, ConcatProperties

LEMMA TypesOfIs ==
  ASSUME NEW S, NEW a \in Seq(S)
  PROVE  /\ TypesOf(a) \in Seq({a[k].type : k \in 1 .. Len(a)})
         /\ Len(TypesOf(a)) = Len(a)
         /\ \A k \in 1 .. Len(a) : TypesOf(a)[k] = a[k].type
<1>1. DOMAIN a = 1 .. Len(a) /\ Len(a) \in Nat
  OBVIOUS
<1>2. TypesOf(a) = [k \in 1 .. Len(a) |-> a[k].type]
  BY <1>1 DEF TypesOf
<1> HIDE DEF TypesOf
<1> QED BY <1>1, <1>2

LEMMA TypesOfConcat ==
  ASSUME NEW S, NEW T, NEW a \in Seq(S), NEW b \in Seq(T)
  PROVE  TypesOf(a \o b) = TypesOf(a) \o TypesOf(b)
<1> DEFINE c == a \o b
           ta == TypesOf(a)
           tb == TypesOf(b)
           U == {a[k].type : k \in 1 .. Len(a)}
           V == {b[k].type : k \in 1 .. Len(b)}
           tc == ta \o tb
           n == Len(a) + Len(b)
<1>1. Len(a) \in Nat /\ Len(b) \in Nat /\ n \in Nat
  OBVIOUS
<1>2. /\ ta \in Seq(U) /\ tb \in Seq(V) /\ Len(ta) = Len(a) /\ Len(tb) = Len(b)
      /\ (\A k \in 1 .. Len(a) : ta[k] = a[k].type)
      /\ (\A k \in 1 .. Len(b) : tb[k] = b[k].type)
  BY TypesOfIs
<1> HIDE DEF ta, tb, U, V
<1>3. /\ c \in Seq(S \cup T) /\ Len(c) = n
      /\ \A k \in 1 .. n : c[k] = IF k <= Len(a) THEN a[k] ELSE b[k - Len(a)]
  BY Concatenated
<1>4. /\ tc \in Seq(U \cup V) /\ Len(tc) = n
      /\ \A k \in 1 .. n : tc[k] = IF k <= Len(a) THEN ta[k] ELSE tb[k - Len(a)]
  <2>1. /\ tc \in Seq(U \cup V) /\ Len(tc) = Len(ta) + Len(tb)
        /\ \A k \in 1 .. Len(ta) + Len(tb) : tc[k] = IF k <= Len(ta) THEN ta[k] ELSE tb[k - Len(ta)]
    <3>1. ta \in Seq(U) /\ tb \in Seq(V)
      BY <1>2
    <3> QED BY ONLY <3>1, Concatenated
  <2> HIDE DEF tc
  <2> QED BY <1>2, <2>1
<1>5. DOMAIN c = 1 .. n /\ DOMAIN tc = 1 .. n
  BY <1>3, <1>4
<1>6. ASSUME NEW k \in 1 .. n PROVE c[k].type = tc[k]
  <2>1. CASE k <= Len(a)
    <3>1. k \in 1 .. Len(a)
      BY <1>1, <2>1
    <3>2. c[k] = a[k] /\ tc[k] = ta[k]
      BY <1>3, <1>4, <2>1
    <3> QED BY <1>2, <3>1, <3>2
  <2>2. CASE ~(k <= Len(a))
    <3>1. k - Len(a) \in 1 .. Len(b)
      BY <1>1, <2>2
    <3>2. c[k] = b[k - Len(a)] /\ tc[k] = tb[k - Len(a)]
      BY <1>3, <1>4, <2>2
    <3> QED BY <1>2, <3>1, <3>2
  <2> QED BY <2>1, <2>2
<1> HIDE DEF c, tc
<1>7. TypesOf(c) = [k \in 1 .. n |-> tc[k]]
  BY <1>5, <1>6 DEF TypesOf
<1>8. tc = [k \in 1 .. n |-> tc[k]]
  BY <1>4
<1> QED BY <1>7, <1>8 DEF c, tc, ta, tb

\* What is known of a function that is called.
LEMMA FuncFacts ==
  ASSUME mod \in Modules, NEW idx \in Nat, idx < Len(mod.funcs)
  PROVE  /\ idx + 1 \in 1 .. Len(mod.funcs)
         /\ FuncType(mod, idx).params \in Seq(STRING) /\ FuncType(mod, idx).results \in Seq(STRING)
         /\ mod.funcs[idx + 1].locals \in Seq(ValType)
         /\ Structured(Code(mod, idx + 1))
         /\ At(idx + 1, 1) \in Position /\ Around(mod, At(idx + 1, 1), 0)
<1>1. Startable(mod) /\ \A i \in 1 .. Len(mod.funcs) : Structured(mod.funcs[i].code)
  BY ModulesAssumption
<1>2. Len(mod.funcs) \in Int => idx + 1 \in 1 .. Len(mod.funcs)
  OBVIOUS
<1>3. Len(mod.funcs) \in Int
  BY <1>1 DEF Startable
<1>4. idx + 1 \in 1 .. Len(mod.funcs)
  BY <1>2, <1>3
<1>5. mod.funcs[idx + 1].type \in 0 .. Len(mod.types) - 1
      /\ mod.funcs[idx + 1].locals \in Seq(ValType)
      /\ mod.types \in Seq([params : Seq(STRING), results : Seq(STRING)])
  BY <1>1, <1>4 DEF Startable
<1>6. mod.funcs[idx + 1].type + 1 \in 1 .. Len(mod.types)
  <2> DEFINE t == mod.funcs[idx + 1].type
             l == Len(mod.types)
  <2>1. t \in 0 .. l - 1 /\ l \in Nat
    BY <1>5
  <2> HIDE DEF t, l
  <2>2. t + 1 \in 1 .. l
    BY <2>1
  <2> QED BY <2>2 DEF t, l
<1>7. FuncType(mod, idx) \in [params : Seq(STRING), results : Seq(STRING)]
  BY <1>5, <1>6, ElementOfSeq DEF FuncType
<1>8. Code(mod, idx + 1) = mod.funcs[idx + 1].code
  <2>1. idx + 1 # 0
    OBVIOUS
  <2> QED BY <2>1 DEF Code
<1>9. Structured(Code(mod, idx + 1))
  BY <1>1, <1>4, <1>8
<1>10. /\ Len(Code(mod, idx + 1)) \in Nat \ {0} /\ Nesting(Code(mod, idx + 1), 1) = 0
  BY <1>9, BodyNested, NestingStep
<1>11. At(idx + 1, 1) \in Position /\ At(idx + 1, 1).fn = idx + 1 /\ At(idx + 1, 1).at = 1
  BY DEF At, Position
<1>12. Around(mod, At(idx + 1, 1), 0)
  BY <1>4, <1>10, <1>11 DEF Around
<1> QED BY <1>4, <1>5, <1>7, <1>9, <1>11, <1>12

\* The frame of the callee, as its function wants it.
LEMMA CalleeOK ==
  ASSUME mod \in Modules, NEW idx \in Nat, idx < Len(mod.funcs), NEW s, Good(s),
         After \in Position, After.fn = pc.fn, pc.fn # 0 => Around(mod, After, 0),
         \/ Code(mod, pc.fn)[After.at - 1].op = "call" /\ Code(mod, pc.fn)[After.at - 1].n = idx
         \/ Code(mod, pc.fn)[After.at - 1].op = "call_indirect",
         ValuesOnTop(s, Len(FuncType(mod, idx).params)),
         \A i \in 1 .. Len(FuncType(mod, idx).params) :
           s[Len(s) - i + 1].value.type = FuncType(mod, idx).params[i]
  PROVE  LET type == FuncType(mod, idx)
             vars0 == mod.funcs[idx + 1].locals
             popped == [i \in 1 .. Len(type.params) |-> s[Len(s) - i + 1].value]
             locals == popped \o [i \in DOMAIN vars0 |-> Zero(vars0[i])]
         IN  ActivOK(mod, ActivFrame(locals, After, type.results), pc.fn, idx + 1)
<1> DEFINE type == FuncType(mod, idx)
           vars0 == mod.funcs[idx + 1].locals
           popped == [i \in 1 .. Len(type.params) |-> s[Len(s) - i + 1].value]
           zeros == [i \in DOMAIN vars0 |-> Zero(vars0[i])]
           locals == popped \o zeros
           f == ActivFrame(locals, After, type.results)
<1>1. /\ idx + 1 \in 1 .. Len(mod.funcs)
      /\ type.params \in Seq(STRING) /\ vars0 \in Seq(ValType)
  BY FuncFacts
<1>2. Len(type.params) \in Nat
  BY <1>1
<1>3. /\ popped \in Seq({popped[i] : i \in 1 .. Len(type.params)})
      /\ Len(popped) = Len(type.params)
      /\ \A i \in 1 .. Len(popped) : popped[i].type = type.params[i]
  BY SMTT(30), <1>2
<1>4. /\ zeros \in Seq({zeros[i] : i \in 1 .. Len(vars0)})
      /\ Len(zeros) = Len(vars0)
      /\ \A i \in 1 .. Len(zeros) : zeros[i].type = vars0[i]
  <2>1. Len(vars0) \in Nat /\ DOMAIN vars0 = 1 .. Len(vars0)
    BY <1>1
  <2> QED BY SMTT(30), <2>1 DEF Zero
<1>5. (idx + 1) - 1 = idx
  OBVIOUS
<1> HIDE DEF popped, zeros
<1>6. TypesOf(locals) = type.params \o vars0
  <2>1. PICK S : popped \in Seq(S)
    BY <1>3
  <2>2. PICK T : zeros \in Seq(T)
    BY <1>4
  <2>3. TypesOf(popped) = type.params
    <3> DEFINE params == type.params
    <3>1. params = [k \in 1 .. Len(params) |-> params[k]] /\ DOMAIN popped = 1 .. Len(params)
      BY <1>1, <1>3
    <3> HIDE DEF params
    <3>2. TypesOf(popped) = [k \in 1 .. Len(params) |-> params[k]]
      BY <1>3, <3>1 DEF TypesOf, params
    <3> QED BY <3>1, <3>2 DEF params
  <2>4. TypesOf(zeros) = vars0
    <3>1. vars0 = [k \in 1 .. Len(vars0) |-> vars0[k]] /\ DOMAIN zeros = 1 .. Len(vars0)
      BY <1>1, <1>4
    <3> HIDE DEF vars0
    <3> QED BY <1>4, <3>1 DEF TypesOf
  <2>5. TypesOf(locals) = TypesOf(popped) \o TypesOf(zeros)
    BY <2>1, <2>2, TypesOfConcat
  <2> QED BY <2>3, <2>4, <2>5
<1> HIDE DEF locals
<1>7. f.cont = After /\ f.arity = type.results /\ f.locals = locals
  BY DEF ActivFrame
<1>8. FuncType(mod, idx + 1 - 1) = type
  BY <1>5
<1> HIDE DEF f, type, vars0
<1>9. (Code(mod, pc.fn)[f.cont.at - 1].op = "call" /\ Code(mod, pc.fn)[f.cont.at - 1].n + 1 = idx + 1)
      \/ Code(mod, pc.fn)[f.cont.at - 1].op = "call_indirect"
  BY <1>7
<1>10. f.cont \in Position /\ f.cont.fn = pc.fn /\ (pc.fn # 0 => Around(mod, f.cont, 0))
  BY <1>7
<1>11. /\ f.arity = FuncType(mod, idx + 1 - 1).results
       /\ TypesOf(f.locals) = FuncType(mod, idx + 1 - 1).params \o mod.funcs[idx + 1].locals
  BY <1>6, <1>7, <1>8 DEF vars0
<1>12. ActivOK(mod, f, pc.fn, idx + 1)
  BY <1>1, <1>9, <1>10, <1>11 DEF ActivOK
<1> QED BY <1>12 DEF f, type, vars0, locals, popped, zeros

\* Who calls: a function, with its operands moved, or the driver, with the
\* arguments on the stack.
Caller(s, idx) ==
  \/ AtWork /\ Moved(s) /\ Instr.op = "call" /\ idx = Instr.n
  \/ AtWork /\ Moved(s) /\ Instr.op = "call_indirect"
  \/ ~Running /\ s = stack /\ idx = mod.entry

LEMMA CallerFacts ==
  ASSUME EngineInv, ControlInv, NEW s, NEW idx, Caller(s, idx)
  PROVE  /\ Good(s) /\ After \in Position /\ After.fn = pc.fn
         /\ pc.fn # 0 => Around(mod, After, 0)
         /\ \/ Code(mod, pc.fn)[After.at - 1].op = "call" /\ Code(mod, pc.fn)[After.at - 1].n = idx
            \/ Code(mod, pc.fn)[After.at - 1].op = "call_indirect"
<1>1. CASE AtWork /\ Moved(s) /\ ((Instr.op = "call" /\ idx = Instr.n) \/ Instr.op = "call_indirect")
  <2>1. Instr.op # "end" /\ Change(Instr.op) = 0
    BY <1>1 DEF Change, Openers
  <2>2. /\ After \in Position /\ After.fn = pc.fn /\ After.at = pc.at + 1
        /\ Around(mod, After, labelCount + Change(Instr.op))
    BY <1>1, <2>1, AfterAround
  <2>3. labelCount \in Nat /\ pc.at \in Nat /\ Instr = Code(mod, pc.fn)[pc.at]
    BY <1>1, InstrFacts
  <2>4. labelCount + Change(Instr.op) \in Int /\ 0 <= labelCount + Change(Instr.op)
    BY <2>1, <2>3
  <2>5. Around(mod, After, 0)
    BY <2>2, <2>4, AroundLess
  <2>6. After.at - 1 = pc.at
    BY <2>2, <2>3
  <2>7. Good(s)
    BY <1>1 DEF Moved
  <2> QED BY <1>1, <2>2, <2>3, <2>5, <2>6, <2>7
<1>2. CASE ~Running /\ s = stack /\ idx = mod.entry
  <2>1. pc = At(0, 1)
    BY <1>2 DEF ControlInv, PcOK
  <2>2. pc.fn = 0 /\ After = [fn |-> 0, at |-> 2]
    BY <2>1 DEF At, After
  <2>3. After \in Position /\ After.fn = 0 /\ After.at - 1 = 1
    BY <2>2 DEF Position
  <2>4. Code(mod, 0)[1] = Ins("call", mod.entry, "void", <<>>)
    BY DEF Code
  <2>5. Code(mod, 0)[1].op = "call" /\ Code(mod, 0)[1].n = mod.entry
    BY <2>4 DEF Ins
  <2>6. Good(s)
    BY <1>2 DEF EngineInv
  <2> QED BY <1>2, <2>2, <2>3, <2>5, <2>6
<1> QED BY <1>1, <1>2 DEF Caller

\* The arguments are all there is below the entry's activation.
LEMMA DriverPops ==
  ASSUME EngineInv, ControlInv, ~Running
  PROVE  DropTop(stack, Len(FuncType(mod, mod.entry).params)) = <<>>
<1>1. Startable(mod) /\ Len(stack) = Len(mod.args)
  BY ModulesAssumption DEF ControlInv, PcOK
<1>2. Len(FuncType(mod, mod.entry).params) = Len(stack)
  BY <1>1 DEF Startable
<1>3. \E S : stack \in Seq(S)
  BY DEF EngineInv, Good, Framed
<1>4. Len(stack) \in Nat /\ Len(stack) - Len(stack) = 0
  BY <1>3
<1>5. SubSeq(stack, 1, 0) = <<>>
  BY <1>3
<1> QED BY <1>2, <1>4, <1>5 DEF DropTop

\* doCall without JIT.
LEMMA InvokePreserves ==
  ASSUME EngineInv, ControlInv, outcome = "running", NEW s, NEW idx \in Nat,
         Caller(s, idx), Invoke(s, idx)
  PROVE  Preserves
<1> DEFINE type == FuncType(mod, idx)
           n == Len(type.params)
           vars0 == mod.funcs[idx + 1].locals
           popped == [i \in 1 .. n |-> s[Len(s) - i + 1].value]
           locals == popped \o [i \in DOMAIN vars0 |-> Zero(vars0[i])]
           cond == ValuesOnTop(s, n) /\ \A i \in 1 .. n : popped[i].type = type.params[i]
<1>1. CASE idx >= Len(mod.funcs)
  BY <1>1, HaltPreserves DEF Invoke
<1>2. CASE ~(idx >= Len(mod.funcs)) /\ ~cond
  <2>1. Halt(ParamError(s, type.params))
    BY <1>2 DEF Invoke
  <2>2. ParamError(s, type.params) # "running"
    BY DEF ParamError
  <2> QED BY <2>1, <2>2, HaltPreserves
<1>3. CASE ~(idx >= Len(mod.funcs)) /\ cond
  <2>1. /\ PushActiv(DropTop(s, n), locals, After, type.results)
        /\ contStore' = contStore /\ Dispatch(At(idx + 1, 1))
    BY <1>3 DEF Invoke
  <2>2. mod' = mod /\ pc' = At(idx + 1, 1)
    BY <2>1 DEF Dispatch
  <2>3. mod \in Modules /\ ContsOK /\ FramesLinked /\ MapsOK
    BY DEF ControlInv, FramesLinked, EngineInv
  <2>4. Len(mod.funcs) \in Int
    BY <2>3, ModulesAssumption DEF Startable
  <2>5. idx < Len(mod.funcs)
    BY <1>3, <2>4
  <2>6. /\ Good(s) /\ After \in Position /\ After.fn = pc.fn
        /\ pc.fn # 0 => Around(mod, After, 0)
        /\ \/ Code(mod, pc.fn)[After.at - 1].op = "call" /\ Code(mod, pc.fn)[After.at - 1].n = idx
           \/ Code(mod, pc.fn)[After.at - 1].op = "call_indirect"
    BY CallerFacts
  <2>7. ValuesOnTop(s, n) /\ \A i \in 1 .. n : s[Len(s) - i + 1].value.type = type.params[i]
    BY <1>3
  <2>8. ActivOK(mod, ActivFrame(locals, After, type.results), pc.fn, idx + 1)
    BY <2>3, <2>5, <2>6, <2>7, CalleeOK
  <2>9. \/ Running /\ Moved(DropTop(s, n))
        \/ ~Running /\ pc.fn = 0 /\ DropTop(s, n) = <<>>
    <3>1. CASE AtWork /\ Moved(s)
      <4>1. Running
        BY <3>1 DEF AtWork
      <4> HIDE DEF n
      <4> QED BY <2>7, <3>1, <4>1, MovedPop
    <3>2. CASE ~Running /\ s = stack /\ idx = mod.entry
      <4>1. pc.fn = 0
        BY <3>2 DEF ControlInv, PcOK, At
      <4> QED BY <3>2, <4>1, DriverPops
    <3> QED BY <3>1, <3>2 DEF Caller
  <2>10. Good(DropTop(s, n))
    BY <2>3, <2>6, <2>7, GoodPop
  <2> HIDE DEF n, type, locals, popped, vars0, cond
  <2>11. (Running /\ Above(DropTop(s, n))) \/ DropTop(s, n) = <<>>
    BY <2>9 DEF Moved
  <2>12. StepSound
    BY <2>1, <2>10, <2>11, PushActivSound
  <2>13. pc'.fn = idx + 1
    BY <2>2 DEF At
  <2>14. FramesLinked' /\ RunsKept
    BY <2>1, <2>2, <2>3, <2>6, <2>8, <2>9, <2>13, PushActivLinked
  <2>15. ContsOK'
    BY <2>1, <2>2, <2>3, ContsKept
  <2>16. labelCount' = 0
    BY <2>1 DEF PushActiv
  <2>17. idx + 1 \in 1 .. Len(mod.funcs) /\ At(idx + 1, 1) \in Position /\ Around(mod, At(idx + 1, 1), 0)
    BY <2>3, <2>5, FuncFacts
  <2>18. pc' \in Position /\ pc'.fn \in 1 .. Len(mod.funcs) /\ Around(mod, pc', labelCount')
    BY <2>2, <2>13, <2>16, <2>17
  <2> QED BY <2>2, <2>3, <2>12, <2>14, <2>15, <2>18, GoesOnPreserves
<1> QED BY <1>1, <1>2, <1>3

\* The call instruction: the driver's or a function's.
LEMMA CallFetched ==
  ASSUME EngineInv, ControlInv, Fetch("call")
  PROVE  outcome = "running" /\ Instr.n \in Nat /\ Caller(stack, Instr.n)
<1>1. outcome = "running" /\ Instr.op = "call"
  BY DEF Fetch
<1>2. CASE Running
  <2>1. AtWork /\ Moved(stack)
    BY <1>1, <1>2, MovedStack DEF AtWork
  <2>2. Instr.n \in Nat
    BY <1>1, <2>1, InstrFacts
  <2> QED BY <1>1, <2>1, <2>2 DEF Caller
<1>3. CASE ~Running
  <2>1. pc = At(0, 1) /\ mod \in Modules
    BY <1>3 DEF ControlInv, PcOK
  <2>2. pc.fn = 0 /\ pc.at = 1
    BY <2>1 DEF At
  <2>3. Instr = Ins("call", mod.entry, "void", <<>>)
    BY <2>2 DEF Instr, Code
  <2>4. Instr.n = mod.entry
    BY <2>3 DEF Ins
  <2>5. mod.entry \in Nat
    BY <2>1, ModulesAssumption DEF Startable
  <2> QED BY <1>1, <1>3, <2>4, <2>5 DEF Caller
<1> QED BY <1>2, <1>3

\* The indirect call, when its tests hold.
LEMMA IndirectFetched ==
  ASSUME EngineInv, ControlInv, Fetch("call_indirect")
  PROVE  /\ AtWork /\ Instr.op = "call_indirect" /\ outcome = "running"
         /\ IndirectError # "running"
         /\ IndirectError = "none" => /\ I32OnTop /\ TopVal \in Nat /\ Caller(Under, TopVal)
                                      /\ Moved(Under)
<1>1. AtWork /\ Instr.op = "call_indirect" /\ outcome = "running"
  BY Fetched DEF AtWork
<1>2. IndirectError # "running"
  BY DEF IndirectError
<1>3. ASSUME IndirectError = "none"
      PROVE  I32OnTop /\ TopVal \in Nat /\ Caller(Under, TopVal) /\ Moved(Under)
  <2>1. I32OnTop /\ TopVal \in 0 .. Len(mod.table) - 1
    BY <1>3 DEF IndirectError
  <2>2. Moved(Under)
    BY <1>1, <2>1, OnTop
  <2> QED BY <1>1, <2>1, <2>2 DEF Caller
<1> QED BY <1>1, <1>2, <1>3

LEMMA CallStep ==
  ASSUME EngineInv, ControlInv, DoCall
  PROVE  Preserves
<1>1. Fetch("call") /\ Invoke(stack, Instr.n)
  BY DEF DoCall
<1> QED BY <1>1, CallFetched, InvokePreserves

LEMMA CallIndirectStep ==
  ASSUME EngineInv, ControlInv, DoCallIndirect
  PROVE  Preserves
<1>1. Fetch("call_indirect")
  BY DEF DoCallIndirect
<1>2. CASE IndirectError = "none"
  <2>1. Invoke(Under, TopVal)
    BY <1>2 DEF DoCallIndirect
  <2> QED BY <1>1, <1>2, <2>1, IndirectFetched, InvokePreserves
<1>3. CASE IndirectError # "none"
  BY <1>1, <1>3, IndirectFetched, HaltPreserves DEF DoCallIndirect
<1> QED BY <1>2, <1>3

\* The ends that run no instruction.
LEMMA EndSteps ==
  ASSUME EngineInv, ControlInv, OutOfMemory \/ PostProcess
  PROVE  Preserves
<1>1. CASE OutOfMemory
  BY <1>1, HaltPreserves DEF OutOfMemory
<1>2. CASE PostProcess
  <2>1. UNCHANGED frameVars /\ mod' = mod /\ pc' = pc /\ contStore' = contStore
    BY <1>2 DEF PostProcess, frameVars
  <2>2. outcome' # "running"
    BY <1>2 DEF PostProcess
  <2> QED BY <2>1, <2>2, EndsPreserve
<1> QED BY <1>1, <1>2

-----------------------------------------------------------------------------
(* The induction.                                                          *)

LEMMA StepWithinPreserves ==
  ASSUME EngineInv, ControlInv, StepWithin
  PROVE  Preserves
BY UnreachableStep, NopStep, BlockStep, LoopStep, IfStep, BranchSteps, BrIfStep, BrTableStep,
   DropStep, SelectStep, LocalGetStep, LocalSetStep, LocalTeeStep, GlobalGetStep, GlobalSetStep,
   ConstStep, BinaryStep, UnaryStep, ConvertStep, EndSteps DEF StepWithin

LEMMA StepPreserves ==
  ASSUME EngineInv, ControlInv, Step
  PROVE  Preserves
BY StepWithinPreserves, CallStep, CallIndirectStep DEF Step

\* A step that changes nothing.
LEMMA StutterPreserves ==
  ASSUME EngineInv, ControlInv, UNCHANGED vars
  PROVE  EngineInv' /\ ControlInv'
<1>1. /\ stack' = stack /\ labelMap' = labelMap /\ activMap' = activMap /\ labelCount' = labelCount
      /\ mod' = mod /\ pc' = pc /\ contStore' = contStore /\ outcome' = outcome
  BY DEF vars
<1>2. EngineInv'
  BY <1>1 DEF EngineInv, Good, MapsOK, EntryAtBottom, Running
<1>3. ContsOK'
  BY <1>1, ContsKept DEF ControlInv
<1>4. PcOK'
  BY <1>1 DEF ControlInv, PcOK, Running
<1> QED BY <1>1, <1>2, <1>3, <1>4 DEF ControlInv

LEMMA StartsSound ==
  ASSUME Init
  PROVE  EngineInv /\ ControlInv
<1>1. /\ mod \in Modules /\ stack = [i \in DOMAIN mod.args |-> ValueFrame(mod.args[i])]
      /\ labelMap = <<>> /\ activMap = <<>> /\ labelCount = 0 /\ pc = At(0, 1) /\ contStore = << >>
  BY DEF Init
<1>2. mod.args \in Seq([type : ValType, val : Int])
  BY <1>1, ModulesAssumption DEF Startable
<1>3. DOMAIN mod.args = 1 .. Len(mod.args) /\ Len(mod.args) \in Nat
  BY <1>2
<1>4. /\ stack \in Seq(FramesOf(stack)) /\ Len(stack) = Len(mod.args)
      /\ \A p \in 1 .. Len(stack) : stack[p] = ValueFrame(mod.args[p])
  <2> DEFINE n == Len(mod.args)
  <2>1. stack = [i \in 1 .. n |-> ValueFrame(mod.args[i])] /\ n \in Nat
    BY <1>1, <1>3
  <2> HIDE DEF n
  <2>2. Len(stack) = n /\ \A p \in 1 .. n : stack[p] = ValueFrame(mod.args[p])
    BY <2>1
  <2>3. stack \in [1 .. n -> FramesOf(stack)]
    BY <2>1, <2>2 DEF FramesOf
  <2>4. stack \in Seq(FramesOf(stack))
    BY <2>1, <2>3
  <2> QED BY <2>2, <2>4 DEF n
<1>5. \A p \in 1 .. Len(stack) : IsFrame(stack[p]) /\ stack[p].kind = "value"
  BY <1>4, AreFrames
<1>6. Len(labelMap) = 0 /\ Len(activMap) = 0 /\ ~Running
  BY <1>1 DEF Running
<1>7. Good(stack)
  BY <1>1, <1>4, <1>5, <1>6 DEF Good, Framed, ActivIn, LabelIn
<1>8. MapsOK /\ EntryAtBottom
  BY <1>1, <1>6 DEF MapsOK, EntryAtBottom
<1>9. PcOK
  BY <1>1, <1>4, <1>6 DEF PcOK
<1>10. ContsOK
  <2>1. DOMAIN contStore = {}
    BY <1>1
  <2> QED BY <2>1 DEF ContsOK
<1>11. LabelsOK(mod, pc.fn, stack, labelMap, labelCount) /\ ActivsOK(mod, pc.fn, stack, activMap)
  BY <1>1, <1>6 DEF LabelsOK, ActivsOK
<1> QED BY <1>1, <1>7, <1>8, <1>9, <1>10, <1>11 DEF EngineInv, ControlInv

\* The inductive invariant: the index vectors and the counter describe the
\* stack, and every position that is recorded or reached is one that the nesting
\* of the code justifies.
THEOREM EngineSound == Spec => [](EngineInv /\ ControlInv)
<1>1. Init => EngineInv /\ ControlInv
  BY StartsSound
<1>2. EngineInv /\ ControlInv /\ [Next]_vars => (EngineInv /\ ControlInv)'
  BY StepPreserves, StutterPreserves DEF Next, Preserves
<1> QED BY <1>1, <1>2, PTL DEF Spec

-----------------------------------------------------------------------------
(* The properties the runs check.                                          *)

\* The invariant implies them.
LEMMA TrackedBoth ==
  ASSUME EngineInv
  PROVE  ActivTracked /\ LabelTracked /\ EntryAtBottom
BY DEF EngineInv, Good, ActivIn, LabelIn, ActivTracked, LabelTracked, Running, TopActiv

\* frameBitmap[ACTIVATION] lists exactly the activation frames of the stack,
\* whatever program is run.
THEOREM ProgramActivationsTracked == Spec => []ActivTracked
BY TrackedBoth, EngineSound, PTL

\* The counted labels are label frames of the running activation: a branch that
\* passes the counter's test never meets another kind of frame.
THEOREM ProgramLabelsTracked == Spec => []LabelTracked
BY TrackedBoth, EngineSound, PTL

\* The test of doReturn recognises the entry function's activation.
THEOREM ProgramEntryAtBottom == Spec => []EntryAtBottom
BY TrackedBoth, EngineSound, PTL

\* No instruction of a callee reaches the frames of its callers, and a return
\* leaves exactly the results above them.
THEOREM ProgramFramesIsolated == Spec => FrameIsolation
<1>1. (EngineInv /\ ControlInv) /\ [Next]_vars => [CallerUntouched]_frameVars
  <2>1. EngineInv /\ ControlInv /\ Step => CallerUntouched
    BY StepPreserves DEF Preserves
  <2>2. UNCHANGED vars => UNCHANGED frameVars
    BY DEF vars, frameVars
  <2> QED BY <2>1, <2>2 DEF Next
<1> QED BY <1>1, EngineSound, PTL DEF Spec, FrameIsolation

\* The invariant implies the property.
LEMMA LabelsWithin ==
  ASSUME EngineInv, ControlInv
  PROVE  LabelsWithinNesting
<1> SUFFICES ASSUME outcome = "running"
             PROVE  /\ pc.at \in 1 .. Len(Code(mod, pc.fn))
                    /\ labelCount <= Nesting(Code(mod, pc.fn), pc.at)
  BY DEF LabelsWithinNesting
<1>1. CASE Running
  BY <1>1, InstrFacts DEF AtWork
<1>2. CASE ~Running
  <2>1. pc.fn = 0 /\ pc.at = 1
    BY <1>2 DEF ControlInv, PcOK, At
  <2>2. Code(mod, 0) = <<Ins("call", mod.entry, "void", <<>>)>>
    BY DEF Code
  <2>3. Len(Code(mod, 0)) = 1
    BY <2>2
  <2>4. labelCount \in Nat /\ ~(1 \in 1 .. labelCount)
    BY <1>2, TrackedFrames
  <2>5. labelCount = 0
    BY <2>4
  <2>6. Nesting(Code(mod, 0), 1) = 0
    BY NestingStep
  <2>7. pc.at \in 1 .. 1 /\ labelCount <= 0
    BY <2>1, <2>5
  <2> QED BY <2>1, <2>3, <2>6, <2>7
<1> QED BY <1>1, <1>2

\* The engine never fetches beyond a function's body, and never counts more
\* labels than there are blocks around the instruction.
THEOREM LabelsStayWithinNesting == Spec => []LabelsWithinNesting
BY LabelsWithin, EngineSound, PTL

\* The invariant implies the property.
LEMMA LinkedControl ==
  ASSUME EngineInv, ControlInv
  PROVE  ControlLinked
<1> DEFINE n == Len(activMap)
           m == Len(labelMap)
<1>1. /\ n \in Nat /\ m \in Nat /\ labelCount \in 0 .. m
      /\ activMap \in Seq(Nat \ {0})
  BY TrackedFrames DEF EngineInv, MapsOK
<1>2. DOMAIN activMap = 1 .. n
  BY <1>1
<1>3. \A i \in 1 .. n : FnAt(pc.fn, stack, activMap, i) = RunBy(i)
  BY DEF FnAt, RunBy
<1>4. ASSUME NEW i \in 1 .. n
      PROVE  LET f == stack[activMap[i]]
                 caller == IF i = 1 THEN 0 ELSE RunBy(i - 1)
                 call == Code(mod, f.cont.fn)[f.cont.at - 1]
             IN  /\ f.cont.fn = caller
                 /\ (call.op = "call" /\ call.n + 1 = RunBy(i)) \/ call.op = "call_indirect"
                 /\ f.arity = FuncType(mod, RunBy(i) - 1).results
                 /\ [k \in DOMAIN f.locals |-> f.locals[k].type] =
                      FuncType(mod, RunBy(i) - 1).params \o mod.funcs[RunBy(i)].locals
  <2> DEFINE caller == IF i = 1 THEN 0 ELSE RunBy(i - 1)
  <2>1. FnAt(pc.fn, stack, activMap, i - 1) = caller
    <3>1. CASE i = 1
      BY <3>1 DEF FnAt
    <3>2. CASE i # 1
      <4>1. i - 1 \in 1 .. n
        BY <1>1, <3>2
      <4> QED BY <1>3, <3>2, <4>1
    <3> QED BY <3>1, <3>2
  <2>2. ActivOK(mod, stack[activMap[i]], FnAt(pc.fn, stack, activMap, i - 1),
                FnAt(pc.fn, stack, activMap, i))
    BY DEF ControlInv, ActivsOK
  <2> HIDE DEF caller
  <2>3. ActivOK(mod, stack[activMap[i]], caller, RunBy(i))
    BY <1>3, <2>1, <2>2
  <2> QED BY <2>3 DEF ActivOK, TypesOf, caller
<1>5. ASSUME NEW k \in m - labelCount + 1 .. m
      PROVE  stack[labelMap[k]].cont.fn = pc.fn
  <2> DEFINE j == k - (m - labelCount)
  <2>1. j \in 1 .. labelCount /\ m - labelCount + j = k
    BY <1>1
  <2> HIDE DEF j
  <2> QED BY <2>1 DEF ControlInv, LabelsOK
<1> HIDE DEF n, m
<1> QED BY <1>2, <1>4, <1>5 DEF ControlLinked, n, m

\* Every activation returns behind the call that made it, with the result types
\* and the locals of the function it runs, and every counted label continues in
\* the function that opened it.
THEOREM ControlStaysLinked == Spec => []ControlLinked
BY LinkedControl, EngineSound, PTL

\* The invariant implies the property.
LEMMA StructuralConts ==
  ASSUME EngineInv, ControlInv
  PROVE  ContsStructural
<1>1. ASSUME NEW p \in DOMAIN contStore
      PROVE  LET code == Code(mod, p.fn)
                 conts == contStore[p]
             IN  /\ Last(conts).at = ClosingEnd(code, p.at) + 1
                 /\ code[p.at - 1].op = "if" =>
                      {conts[k].at - 1 : k \in 1 .. Len(conts) - 1} = OwnElses(code, p.at)
  <2> DEFINE a == p.at - 1
             code == Code(mod, p.fn)
             conts == Crawl(p)
  <2>1. /\ p \in Position /\ p.fn \in 1 .. Len(mod.funcs) /\ a \in 1 .. Len(code)
        /\ code[a].op = "block" \/ (code[a].op = "if" /\ Len(conts) >= 2)
        /\ contStore[p] = conts /\ mod \in Modules
    BY DEF ControlInv, ContsOK
  <2>2. code = mod.funcs[p.fn].code /\ Structured(code)
    BY <2>1, ModulesAssumption DEF Code
  <2>3. p.fn \in Nat /\ p.at \in Nat
    BY <2>1 DEF Position
  <2>4. p.at = a + 1 /\ code[a].op \in Openers
    BY <2>1, <2>3 DEF Openers
  <2> HIDE DEF a
  <2>5. PICK e : /\ ClosingEnd(code, p.at) = e
                 /\ Last(conts) = At(p.fn, e + 1)
                 /\ Len(conts) >= 2 =>
                      {conts[i].at - 1 : i \in 1 .. Len(conts) - 1} = OwnElses(code, p.at)
    BY <2>1, <2>2, <2>3, <2>4, CrawlStructural
  <2>6. Last(conts).at = ClosingEnd(code, p.at) + 1
    BY <2>5 DEF At
  <2>7. code[p.at - 1].op = "if" =>
          {conts[k].at - 1 : k \in 1 .. Len(conts) - 1} = OwnElses(code, p.at)
    BY <2>1, <2>5 DEF a
  <2> QED BY <2>1, <2>6, <2>7
<1> QED BY <1>1 DEF ContsStructural

\* What the crawl finds, and the cache gives to every later entry of a block, is
\* what the nesting of the code says.
THEOREM ContinuationsStructural == Spec => []ContsStructural
BY StructuralConts, EngineSound, PTL

-----------------------------------------------------------------------------
(* The types of the other variables.                                       *)

Outcomes == {"running", "stopped", "done"} \cup Errors

GlobalsOK == \A i \in DOMAIN globals : globals[i].type = mod.globals[i].init.type

ValuesInv == /\ GlobalsOK
             /\ status \in {"EXECUTING", "STOPPED"}
             /\ outcome \in Outcomes
             /\ Len(result) <= 1

\* What a handler may do to them; only global.set does more.
Tame == /\ mod' = mod /\ globals' = globals /\ result' = result
        /\ status' \in {status, "EXECUTING", "STOPPED"}
        /\ outcome' \in {outcome, "stopped"} \cup Errors

LEMMA HaltTame ==
  ASSUME NEW error \in Errors, Halt(error)
  PROVE  Tame
BY DEF Halt, Tame

LEMMA MismatchTame == Mismatch => Tame
BY HaltTame DEF Mismatch, Errors, ErrorType

LEMMA DispatchTame ==
  ASSUME NEW next, Dispatch(next), globals' = globals, status' \in {status, "EXECUTING", "STOPPED"}
  PROVE  Tame
BY DEF Dispatch, Tame

LEMMA ContinueTame ==
  ASSUME NEW s, Leave(s)
  PROVE  Tame
BY DispatchTame DEF Leave, Continue

LEMMA ArityFailsTame ==
  ASSUME NEW s, NEW arity, ArityFails(s, arity)
  PROVE  Tame
BY HaltTame DEF ArityFails, Errors, ErrorType

LEMMA ReturnTame ==
  ASSUME NEW s, NEW depth, ReturnWith(s, depth)
  PROVE  Tame
BY DispatchTame, ArityFailsTame DEF ReturnWith

LEMMA BranchTame ==
  ASSUME NEW s, NEW depth, BranchTo(s, depth)
  PROVE  Tame
<1>1. Halt("ILLEGAL_BREAK_LVL") => Tame
  BY HaltTame DEF Errors, ErrorType
<1> QED BY <1>1, DispatchTame, ArityFailsTame, ReturnTame DEF BranchTo

LEMMA LookupTame ==
  ASSUME LookupConts(After)
  PROVE  status' \in {status, "EXECUTING", "STOPPED"}
BY DEF LookupConts

LEMMA InvokeTame ==
  ASSUME NEW s, NEW idx, Invoke(s, idx)
  PROVE  Tame
<1>1. "std::out_of_range" \in Errors
  BY DEF Errors, Uncaught
<1>2. \A params : ParamError(s, params) \in Errors
  BY DEF ParamError, Errors, ErrorType
<1>3. CASE \E error \in Errors : Halt(error)
  BY <1>3, HaltTame
<1>4. CASE UNCHANGED <<globals, contStore, status>> /\ Dispatch(At(idx + 1, 1))
  BY <1>4, DispatchTame
<1> QED BY <1>1, <1>2, <1>3, <1>4 DEF Invoke

LEMMA IndirectTame ==
  ASSUME IndirectError # "none", Halt(IndirectError)
  PROVE  Tame
<1>1. IndirectError \in Errors
  BY DEF IndirectError, Errors, ErrorType, Uncaught
<1> QED BY <1>1, HaltTame

LEMMA AssignTame ==
  ASSUME NEW s, AssignTop(s)
  PROVE  Tame
<1>1. Halt("std::out_of_range") => Tame
  BY HaltTame DEF Errors, Uncaught
<1> QED BY <1>1, MismatchTame, ContinueTame DEF AssignTop

LEMMA BlocksTame ==
  ASSUME DoBlock \/ DoLoop \/ DoIf
  PROVE  Tame
<1>1. CASE DoBlock
  BY <1>1, LookupTame, DispatchTame DEF DoBlock
<1>2. CASE DoLoop
  BY <1>2, DispatchTame DEF DoLoop, Continue
<1>3. CASE DoIf
  <2>1. Halt("ILLFORMED_STRUCTURE") => Tame
    BY HaltTame DEF Errors, ErrorType
  <2> QED BY <1>3, <2>1, MismatchTame, LookupTame, DispatchTame DEF DoIf
<1> QED BY <1>1, <1>2, <1>3

LEMMA IntegersTame ==
  ASSUME DoBinary \/ DoUnary \/ DoConvert
  PROVE  Tame
<1>1. CASE DoBinary
  <2>1. PICK op \in Ints!Binaries : Fetch(op)
    BY <1>1 DEF DoBinary
  <2>2. Instr.op = op
    BY <2>1 DEF Fetch
  <2>3. \A x, o : o \in Ints!Binary(Instr.op, x, TopVal, WidthOf(Instr.t)) /\ o.trap # "none"
                  => o.trap \in Errors
    BY <2>1, <2>2, BinaryTraps DEF Errors, ErrorType, Signals
  <2> QED BY <1>1, <2>3, MismatchTame, ContinueTame, HaltTame DEF DoBinary
<1>2. CASE DoUnary
  BY <1>2, MismatchTame, ContinueTame DEF DoUnary
<1>3. CASE DoConvert
  BY <1>3, MismatchTame, ContinueTame DEF DoConvert
<1> QED BY <1>1, <1>2, <1>3

LEMMA OperandsTame ==
  ASSUME \/ DoUnreachable \/ DoNop \/ DoConst \/ DoDrop \/ DoSelect
         \/ DoLocalGet \/ DoLocalSet \/ DoLocalTee \/ DoGlobalGet \/ OutOfMemory
  PROVE  Tame
<1>1. \A error \in {"UNREACHABLE", "ILLEGAL_LOCAL_IDX", "GLOBAL_ACCESS_OOB", "std::bad_alloc"} :
        Halt(error) => Tame
  BY HaltTame DEF Errors, ErrorType, Uncaught
<1>2. CASE DoUnreachable \/ DoNop \/ DoConst \/ DoDrop
  BY <1>1, <1>2, MismatchTame, ContinueTame DEF DoUnreachable, DoNop, DoConst, DoDrop, PushVal
<1>3. CASE DoSelect
  BY <1>3, MismatchTame, ContinueTame DEF DoSelect
<1>4. CASE DoLocalGet \/ DoGlobalGet
  BY <1>1, <1>4, ContinueTame DEF DoLocalGet, DoGlobalGet, PushVal
<1>5. CASE DoLocalSet \/ DoLocalTee
  BY <1>5, AssignTame DEF DoLocalSet, DoLocalTee
<1>6. CASE OutOfMemory
  BY <1>1, <1>6 DEF OutOfMemory
<1> QED BY <1>2, <1>3, <1>4, <1>5, <1>6

LEMMA ControlTame ==
  ASSUME DoElse \/ DoEnd \/ DoBr \/ DoBrIf \/ DoBrTable \/ DoReturn
  PROVE  Tame
BY BranchTame, ReturnTame, MismatchTame, ContinueTame
   DEF DoElse, DoEnd, DoBr, DoBrIf, DoBrTable, DoReturn

LEMMA TameKeepsValues ==
  ASSUME ValuesInv, Tame
  PROVE  ValuesInv'
BY DEF ValuesInv, Tame, GlobalsOK, Outcomes

LEMMA GlobalSetKeepsValues ==
  ASSUME ValuesInv, DoGlobalSet
  PROVE  ValuesInv'
<1>1. \A error \in {"GLOBAL_ACCESS_OOB", "IMMUTABLE_GLOBAL_MUTATION"} : Halt(error) => Tame
  BY HaltTame DEF Errors, ErrorType
<1>2. CASE Mismatch \/ \E error \in {"GLOBAL_ACCESS_OOB", "IMMUTABLE_GLOBAL_MUTATION"} : Halt(error)
  BY <1>1, <1>2, MismatchTame, TameKeepsValues
<1>3. CASE /\ IsType(Last(stack), globals[Instr.n + 1].type)
           /\ globals' = [globals EXCEPT ![Instr.n + 1] = Last(stack).value]
           /\ Dispatch(After) /\ UNCHANGED <<contStore, status>>
  <2>1. mod' = mod /\ result' = result /\ status' = status /\ outcome' \in {outcome, "stopped"}
    BY <1>3 DEF Dispatch
  <2>2. DOMAIN globals' = DOMAIN globals
        /\ \A i \in DOMAIN globals : globals'[i].type = globals[i].type
    BY <1>3 DEF IsType
  <2>3. GlobalsOK'
    BY <2>1, <2>2 DEF ValuesInv, GlobalsOK
  <2> QED BY <2>1, <2>3 DEF ValuesInv, Outcomes
<1> QED BY <1>2, <1>3 DEF DoGlobalSet

LEMMA PostProcessKeepsValues ==
  ASSUME ValuesInv, PostProcess
  PROVE  ValuesInv'
<1>1. mod' = mod /\ globals' = globals /\ status' = status
  BY DEF PostProcess
<1>2. outcome' \in Outcomes
  BY DEF PostProcess, Outcomes, Errors, Uncaught
<1>3. Len(result') <= 1
  <2>1. result' = result \/ \E v : result' = <<v>>
    BY DEF PostProcess
  <2>2. CASE result' = result
    BY <2>2 DEF ValuesInv
  <2>3. ASSUME NEW v, result' = <<v>> PROVE Len(result') <= 1
    BY <2>3
  <2> QED BY <2>1, <2>2, <2>3
<1> QED BY <1>1, <1>2, <1>3 DEF ValuesInv, GlobalsOK

LEMMA StepKeepsValues ==
  ASSUME ValuesInv, Step
  PROVE  ValuesInv'
<1>1. CASE DoCall \/ DoCallIndirect
  BY <1>1, InvokeTame, IndirectTame, TameKeepsValues DEF DoCall, DoCallIndirect
<1>2. CASE StepWithin
  BY <1>2, BlocksTame, IntegersTame, OperandsTame, ControlTame, TameKeepsValues,
     GlobalSetKeepsValues, PostProcessKeepsValues DEF StepWithin
<1> QED BY <1>1, <1>2 DEF Step

\* The engine's status, its outcome, its result and the types of the globals.
THEOREM ValuesSound == Spec => []ValuesInv
<1>1. Init => ValuesInv
  BY DEF Init, ValuesInv, GlobalsOK, Outcomes
<1>2. ValuesInv /\ [Next]_vars => ValuesInv'
  <2>1. ValuesInv /\ UNCHANGED vars => ValuesInv'
    BY DEF vars, ValuesInv, GlobalsOK
  <2> QED BY <2>1, StepKeepsValues DEF Next
<1> QED BY <1>1, <1>2, PTL DEF Spec

\* The types of the variables, and of the globals: an assignment never changes
\* the type of a global, a run ends with one of the engine's outcomes, and
\* returns one value at most.
THEOREM TypesCorrect == Spec => []TypeOK
<1>1. ASSUME EngineInv, ControlInv, ValuesInv PROVE TypeOK
  <2>1. /\ stack \in Seq(FramesOf(stack))
        /\ \A p \in 1 .. Len(stack) : stack[p].kind \in {"value", "label", "activ"}
    BY <1>1 DEF EngineInv, Good, Framed, IsFrame
  <2>2. DOMAIN stack = 1 .. Len(stack)
    BY <2>1
  <2>3. labelMap \in Seq(Nat \ {0}) /\ activMap \in Seq(Nat \ {0}) /\ labelCount \in Nat
    BY <1>1 DEF EngineInv, MapsOK
  <2>4. pc.fn \in 0 .. Len(mod.funcs)
    <3>1. Len(mod.funcs) \in Nat
      <4>1. mod.entry \in 0 .. Len(mod.funcs) - 1
        BY <1>1, ModulesAssumption DEF ControlInv, Startable
      <4>2. Len(mod.funcs) \in Int
        BY <1>1, ModulesAssumption DEF ControlInv, Startable
      <4> QED BY <4>1, <4>2
    <3>2. pc.fn = 0 \/ pc.fn \in 1 .. Len(mod.funcs)
      BY <1>1 DEF ControlInv, PcOK, At
    <3> QED BY <3>1, <3>2
  <2> QED BY <1>1, <2>1, <2>2, <2>3, <2>4 DEF TypeOK, ValuesInv, GlobalsOK, Outcomes
<1> QED BY <1>1, EngineSound, ValuesSound, PTL
=============================================================================
