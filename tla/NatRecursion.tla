---------------------------- MODULE NatRecursion ----------------------------
(***************************************************************************)
(* Induction and recursion over the natural numbers, for proofs about the  *)
(* recursive functions that model the loops of the code.  The induction    *)
(* rules are stated with sets of numbers for predicates.                   *)
(***************************************************************************)
EXTENDS Integers, WellFoundedInduction, TLAPS

Below == {p \in Nat \X Nat : p[1] < p[2]}

\* A set of naturals that is not empty has a least element.
LEMMA LeastElement ==
  ASSUME NEW T \in SUBSET Nat, T # {}
  PROVE  \E n \in T : \A m \in T : n <= m
<1>1. IsWellFoundedOn(Below, Nat)
  BY NatLessThanWellFounded DEF OpToRel, Below
<1>2. PICK n \in T : \A m \in T : ~ (<<m, n>> \in Below)
  BY <1>1, WFMin
<1>3. \A m \in T : ~ (m < n)
  BY <1>2 DEF Below
<1> QED BY <1>3

\* A set that holds zero and every successor holds every number.
LEMMA SetInduction ==
  ASSUME NEW T, 0 \in T, \A n \in Nat : n \in T => n + 1 \in T
  PROVE  Nat \subseteq T
<1>1. SUFFICES ASSUME Nat \ T # {} PROVE FALSE
  OBVIOUS
<1>2. PICK n \in Nat \ T : \A m \in Nat \ T : n <= m
  BY <1>1, LeastElement
<1>3. n # 0 /\ n - 1 \in Nat /\ n - 1 \in T
  BY <1>2
<1> QED BY <1>2, <1>3

\* The values of a recursion up to n.
UpToN(g, n, S, s0, step) ==
  /\ g \in [0 .. n -> S]
  /\ g[0] = s0
  /\ \A k \in 1 .. n : g[k] = step[k][g[k - 1]]

\* Every recursion is defined up to every number,
LEMMA PartialExists ==
  ASSUME NEW S, NEW s0 \in S, NEW step \in [Nat -> [S -> S]], NEW n \in Nat
  PROVE  \E g : UpToN(g, n, S, s0, step)
<1> DEFINE T == {m \in Nat : \E g : UpToN(g, m, S, s0, step)}
<1>1. 0 \in T
  <2>1. UpToN([k \in 0 .. 0 |-> s0], 0, S, s0, step)
    BY DEF UpToN
  <2> QED BY <2>1
<1>2. ASSUME NEW m \in Nat, m \in T PROVE m + 1 \in T
  <2>1. PICK g : UpToN(g, m, S, s0, step)
    BY <1>2
  <2> DEFINE h == [k \in 0 .. m + 1 |-> IF k = m + 1 THEN step[m + 1][g[m]] ELSE g[k]]
  <2>2. g \in [0 .. m -> S] /\ g[0] = s0 /\ \A k \in 1 .. m : g[k] = step[k][g[k - 1]]
    BY <2>1 DEF UpToN
  <2>3. g[m] \in S
    BY <2>2
  <2>4. step[m + 1][g[m]] \in S
    BY <2>3
  <2>5. h \in [0 .. m + 1 -> S] /\ h[0] = s0
    BY <2>2, <2>4
  <2>6. ASSUME NEW k \in 1 .. m + 1 PROVE h[k] = step[k][h[k - 1]]
    <3>1. CASE k = m + 1
      BY <3>1
    <3>2. CASE k \in 1 .. m
      <4>1. h[k] = g[k] /\ h[k - 1] = g[k - 1]
        BY <3>2
      <4> QED BY <4>1, <2>2, <3>2
    <3> QED BY <3>1, <3>2
  <2>7. UpToN(h, m + 1, S, s0, step)
    BY <2>5, <2>6 DEF UpToN
  <2> QED BY <2>7
<1>3. Nat \subseteq T
  <2> HIDE DEF T
  <2> QED BY <1>1, <1>2, SetInduction
<1> QED BY <1>3

\* with the same values each time.
LEMMA PartialUnique ==
  ASSUME NEW S, NEW s0 \in S, NEW step \in [Nat -> [S -> S]],
         NEW m \in Nat, NEW n \in Nat, m <= n,
         NEW g, UpToN(g, m, S, s0, step), NEW h, UpToN(h, n, S, s0, step)
  PROVE  g[m] = h[m]
<1> DEFINE T == {k \in Nat : k <= m => g[k] = h[k]}
<1>1. 0 \in T
  BY DEF UpToN
<1>2. ASSUME NEW k \in Nat, k \in T PROVE k + 1 \in T
  <2>1. SUFFICES ASSUME k + 1 <= m PROVE g[k + 1] = h[k + 1]
    OBVIOUS
  <2>2. g[k] = h[k] /\ k + 1 \in 1 .. m /\ k + 1 \in 1 .. n /\ (k + 1) - 1 = k
    BY <1>2, <2>1
  <2>3. g[k + 1] = step[k + 1][g[(k + 1) - 1]] /\ h[k + 1] = step[k + 1][h[(k + 1) - 1]]
    BY <2>2 DEF UpToN
  <2> QED BY <2>2, <2>3
<1>3. Nat \subseteq T
  <2> HIDE DEF T
  <2> QED BY <1>1, <1>2, SetInduction
<1> QED BY <1>3

Recursion(f, s0, step) == f = [n \in Nat |-> IF n = 0 THEN s0 ELSE step[n][f[n - 1]]]

\* A recursion over the natural numbers has a solution,
LEMMA RecursionExists ==
  ASSUME NEW S, NEW s0 \in S, NEW step \in [Nat -> [S -> S]]
  PROVE  \E f : Recursion(f, s0, step)
<1> DEFINE G(n) == CHOOSE g : UpToN(g, n, S, s0, step)
           f == [n \in Nat |-> G(n)[n]]
<1>1. ASSUME NEW n \in Nat PROVE UpToN(G(n), n, S, s0, step)
  <2>1. \E g : UpToN(g, n, S, s0, step)
    BY PartialExists
  <2> QED BY <2>1
<1>2. f[0] = s0
  BY <1>1 DEF UpToN
<1>3. ASSUME NEW n \in Nat, n # 0 PROVE f[n] = step[n][f[n - 1]]
  <2>1. n - 1 \in Nat /\ n - 1 <= n /\ n \in 1 .. n
    BY <1>3
  <2>2. UpToN(G(n), n, S, s0, step) /\ UpToN(G(n - 1), n - 1, S, s0, step)
    BY <1>1, <2>1
  <2> HIDE DEF G
  <2>3. G(n - 1)[n - 1] = G(n)[n - 1]
    BY <2>1, <2>2, PartialUnique
  <2>4. G(n)[n] = step[n][G(n)[n - 1]]
    BY <2>1, <2>2 DEF UpToN
  <2> QED BY <2>1, <2>3, <2>4
<1>4. f = [n \in Nat |-> IF n = 0 THEN s0 ELSE step[n][f[n - 1]]]
  <2> DEFINE g == [n \in Nat |-> IF n = 0 THEN s0 ELSE step[n][f[n - 1]]]
  <2>1. \A n \in Nat : f[n] = g[n]
    BY <1>2, <1>3
  <2> HIDE DEF G
  <2> QED BY <2>1
<1>5. Recursion(f, s0, step)
  BY <1>4 DEF Recursion
<1> HIDE DEF f
<1> QED BY <1>5

\* and the function it defines is one, of the type of its steps.
Solution(s0, step) == CHOOSE f : Recursion(f, s0, step)

LEMMA RecursionHolds ==
  ASSUME NEW S, NEW s0 \in S, NEW step \in [Nat -> [S -> S]]
  PROVE  LET f == Solution(s0, step)
         IN  /\ f \in [Nat -> S]
             /\ f[0] = s0
             /\ \A n \in Nat : f[n + 1] = step[n + 1][f[n]]
<1> DEFINE f == Solution(s0, step)
<1>1. Recursion(f, s0, step)
  <2>1. \E g : Recursion(g, s0, step)
    BY RecursionExists
  <2> QED BY <2>1 DEF Solution
<1> HIDE DEF f
<1>2. f = [n \in Nat |-> IF n = 0 THEN s0 ELSE step[n][f[n - 1]]]
  BY <1>1 DEF Recursion
<1>3. f[0] = s0 /\ \A n \in Nat : f[n + 1] = step[n + 1][f[n]]
  <2> DEFINE g == [n \in Nat |-> IF n = 0 THEN s0 ELSE step[n][f[n - 1]]]
  <2>1. f = g
    BY <1>2
  <2>2. g[0] = s0
    OBVIOUS
  <2>3. ASSUME NEW n \in Nat PROVE g[n + 1] = step[n + 1][f[n]]
    <3>1. n + 1 \in Nat /\ n + 1 # 0 /\ (n + 1) - 1 = n
      OBVIOUS
    <3>2. g[n + 1] = step[n + 1][f[(n + 1) - 1]]
      BY <3>1
    <3> QED BY <3>1, <3>2
  <2> HIDE DEF g
  <2> QED BY <2>1, <2>2, <2>3
<1>4. Nat \subseteq {n \in Nat : f[n] \in S}
  <2> DEFINE T == {n \in Nat : f[n] \in S}
  <2>1. 0 \in T
    BY <1>3
  <2>2. ASSUME NEW n \in Nat, n \in T PROVE n + 1 \in T
    <3>1. f[n] \in S /\ n + 1 \in Nat
      BY <2>2
    <3>2. step[n + 1][f[n]] \in S
      BY <3>1
    <3> QED BY <1>3, <3>1, <3>2
  <2> HIDE DEF T
  <2>3. Nat \subseteq T
    BY <2>1, <2>2, SetInduction
  <2> QED BY <2>3 DEF T
<1>5. f \in [Nat -> S]
  BY <1>2, <1>4
<1> QED BY <1>3, <1>5 DEF f
=============================================================================
