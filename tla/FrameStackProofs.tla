-------------------------- MODULE FrameStackProofs --------------------------
(***************************************************************************)
(* Proofs about FrameStack, for every set of values, continuations, result *)
(* types and locals, and every capacity.                                   *)
(***************************************************************************)
EXTENDS FrameStack, SequenceTheorems, TLAPS

\* Dropping the top of a vector keeps the rest of it in place.
LEMMA DropTopKeeps ==
  ASSUME NEW S, NEW s \in Seq(S), NEW n \in 0 .. Len(s)
  PROVE  /\ DropTop(s, n) \in Seq(S)
         /\ Len(DropTop(s, n)) = Len(s) - n
         /\ \A p \in 1 .. Len(s) - n : DropTop(s, n)[p] = s[p]
<1>1. Len(s) \in Nat
  BY LenProperties
<1>2. Len(s) - n \in 0 .. Len(s)
  BY <1>1
<1>3. /\ SubSeq(s, 1, Len(s) - n) \in Seq(S)
      /\ Len(SubSeq(s, 1, Len(s) - n)) = Len(s) - n
      /\ \A p \in 1 .. Len(s) - n : SubSeq(s, 1, Len(s) - n)[p] = s[p]
  BY <1>1, <1>2
<1> QED BY <1>3 DEF DropTop

\* Erasing a range keeps what is below it and moves down what is above it.
LEMMA EraseRangeMoves ==
  ASSUME NEW S, NEW s \in Seq(S), NEW keep \in 0 .. Len(s),
         NEW start \in 1 .. Len(s) - keep
  PROVE  /\ EraseRange(s, start, keep) \in Seq(S)
         /\ Len(EraseRange(s, start, keep)) = start - 1 + keep
         /\ \A p \in 1 .. start - 1 : EraseRange(s, start, keep)[p] = s[p]
         /\ \A p \in start .. start - 1 + keep :
              EraseRange(s, start, keep)[p] = s[p - start + 1 + (Len(s) - keep)]
<1> DEFINE low == SubSeq(s, 1, start - 1)
           high == SubSeq(s, Len(s) - keep + 1, Len(s))
<1>1. Len(s) \in Nat
  BY LenProperties
<1>2. /\ low \in Seq(S) /\ Len(low) = start - 1
      /\ \A p \in 1 .. start - 1 : low[p] = s[p]
  BY <1>1
<1>3. /\ high \in Seq(S) /\ Len(high) = keep
      /\ \A p \in 1 .. keep : high[p] = s[p + (Len(s) - keep)]
  BY <1>1
<1>4. low \o high \in Seq(S) /\ Len(low \o high) = start - 1 + keep
  BY <1>1, <1>2, <1>3
<1>5. \A p \in 1 .. start - 1 : (low \o high)[p] = s[p]
  BY <1>1, <1>2, <1>3, ConcatProperties
<1>6. \A p \in start .. start - 1 + keep :
         (low \o high)[p] = s[p - start + 1 + (Len(s) - keep)]
  BY <1>1, <1>2, <1>3
<1> QED BY <1>4, <1>5, <1>6 DEF EraseRange

-----------------------------------------------------------------------------
(* The inductive invariant.  The three tracking facts need each other: an  *)
(* activation is popped where activMap says, so the counted labels must    *)
(* lie above that place, and the entry activation must be the one at the   *)
(* bottom for doReturn never to pop the last index.  They are stated of a  *)
(* stack `s` so that they can be carried over the operands a handler pops. *)

ActivIn(s, a) ==
  /\ \A i, j \in 1 .. Len(a) : i < j => a[i] < a[j]
  /\ \A i \in 1 .. Len(a) : a[i] <= Len(s) /\ s[a[i]].kind = "activ"
  /\ \A p \in 1 .. Len(s) :
       s[p].kind = "activ" => \E i \in 1 .. Len(a) : a[i] = p

LabelIn(s, l, a, c) ==
  /\ c <= Len(l)
  /\ \A i \in Len(l) - c + 1 .. Len(l) :
       /\ a # <<>> /\ a[Len(a)] < l[i]
       /\ l[i] <= Len(s) /\ s[l[i]].kind = "label"
  /\ \A i, j \in Len(l) - c + 1 .. Len(l) : i < j => l[i] < l[j]

\* The stack is tracked, its frames taken from the set S.  S is a parameter: a
\* program's stack holds frames of no set given beforehand.
Tracked(S, s) == /\ s \in Seq(S)
                 /\ ActivIn(s, activMap)
                 /\ LabelIn(s, labelMap, activMap, labelCount)

MapsOK == /\ labelMap \in Seq(Nat \ {0})
          /\ activMap \in Seq(Nat \ {0})
          /\ labelCount \in Nat

FrameInv == FrameTypeOK /\ ActivTracked /\ EntryAtBottom /\ LabelTracked

\* What a step that keeps the invariant establishes of the next state.
TrackedAfter(S) == /\ stack' \in Seq(S)
                   /\ ActivIn(stack', activMap')
                   /\ LabelIn(stack', labelMap', activMap', labelCount')
                   /\ MapsOK'
                   /\ EntryAtBottom'

\* The invariant, restated over a stack given as an argument.
LEMMA FrameInvTracked == FrameInv <=> Tracked(Frame, stack) /\ MapsOK /\ EntryAtBottom
BY DEF FrameInv, Tracked, MapsOK, FrameTypeOK, ActivTracked, LabelTracked,
       ActivIn, LabelIn, Running, TopActiv

\* The same for the state after a step.
LEMMA FrameInvTrackedNext == TrackedAfter(Frame) => FrameInv'
BY DEF TrackedAfter, FrameInv, MapsOK, FrameTypeOK, ActivTracked, LabelTracked,
       ActivIn, LabelIn, Running, TopActiv

\* Popping operands loses no tracked frame.
LEMMA PopKeepsTracked ==
  ASSUME NEW S, NEW s, Tracked(S, s), MapsOK, NEW n \in 0 .. Len(s), ValuesOnTop(s, n)
  PROVE  /\ Tracked(S, DropTop(s, n))
         /\ Len(DropTop(s, n)) = Len(s) - n
         /\ \A p \in 1 .. Len(s) - n : DropTop(s, n)[p] = s[p]
<1> DEFINE u == DropTop(s, n)
<1>1. s \in Seq(S) /\ Len(s) \in Nat
  BY LenProperties DEF Tracked
<1>2. /\ u \in Seq(S) /\ Len(u) = Len(s) - n
      /\ \A p \in 1 .. Len(s) - n : u[p] = s[p]
  BY <1>1, DropTopKeeps
<1> HIDE DEF u
<1>3. \A p \in 1 .. Len(s) :
         s[p].kind # "value" => p \in 1 .. Len(u) /\ u[p] = s[p]
  BY <1>1, <1>2 DEF ValuesOnTop
<1>4. Len(activMap) \in Nat /\ \A i \in 1 .. Len(activMap) : activMap[i] \in Nat \ {0}
  BY DEF MapsOK
<1>5. Len(labelMap) \in Nat /\ \A i \in 1 .. Len(labelMap) : labelMap[i] \in Nat \ {0}
  BY DEF MapsOK
<1>6. ActivIn(u, activMap)
  <2>1. ActivIn(s, activMap)
    BY DEF Tracked
  <2>2. ASSUME NEW i \in 1 .. Len(activMap)
        PROVE  activMap[i] <= Len(u) /\ u[activMap[i]].kind = "activ"
    <3>1. activMap[i] \in 1 .. Len(s) /\ s[activMap[i]].kind = "activ"
      BY <1>1, <1>4, <2>1 DEF ActivIn
    <3>2. activMap[i] \in 1 .. Len(u) /\ u[activMap[i]] = s[activMap[i]]
      BY <1>3, <3>1
    <3> QED BY <1>1, <1>2, <3>1, <3>2
  <2>3. ASSUME NEW p \in 1 .. Len(u), u[p].kind = "activ"
        PROVE  \E i \in 1 .. Len(activMap) : activMap[i] = p
    BY <1>1, <1>2, <2>1, <2>3 DEF ActivIn
  <2> QED BY <2>1, <2>2, <2>3 DEF ActivIn
<1>7. LabelIn(u, labelMap, activMap, labelCount)
  <2>1. labelCount \in Nat /\ LabelIn(s, labelMap, activMap, labelCount)
    BY DEF Tracked, MapsOK
  <2>2. ASSUME NEW i \in Len(labelMap) - labelCount + 1 .. Len(labelMap)
        PROVE  labelMap[i] <= Len(u) /\ u[labelMap[i]].kind = "label"
    <3>1. labelMap[i] \in 1 .. Len(s) /\ s[labelMap[i]].kind = "label"
      BY <1>1, <1>5, <2>1 DEF LabelIn
    <3>2. labelMap[i] \in 1 .. Len(u) /\ u[labelMap[i]] = s[labelMap[i]]
      BY <1>3, <3>1
    <3> QED BY <1>1, <1>2, <3>1, <3>2
  <2> QED BY <2>1, <2>2 DEF LabelIn
<1> QED BY <1>2, <1>6, <1>7 DEF Tracked, u

\* A value, or a label, pushed on a tracked stack leaves its frames tracked.
LEMMA PushOther ==
  ASSUME NEW S, NEW s, Tracked(S, s), MapsOK, NEW f \in S, f.kind # "activ"
  PROVE  Tracked(S, Append(s, f))
<1>1. /\ s \in Seq(S) /\ Append(s, f) \in Seq(S)
      /\ Len(s) \in Nat /\ Len(Append(s, f)) = Len(s) + 1
      /\ \A p \in 1 .. Len(s) : Append(s, f)[p] = s[p]
      /\ Append(s, f)[Len(s) + 1] = f
  BY DEF Tracked
<1> DEFINE u == Append(s, f)
<1> HIDE DEF u
<1>2. ActivIn(u, activMap)
  <2>1. /\ Len(activMap) \in Nat
        /\ \A i \in 1 .. Len(activMap) : activMap[i] \in Nat \ {0}
    BY DEF MapsOK
  <2>2. ActivIn(s, activMap)
    BY DEF Tracked
  <2>3. ASSUME NEW i \in 1 .. Len(activMap)
        PROVE  activMap[i] <= Len(u) /\ u[activMap[i]].kind = "activ"
    BY <1>1, <2>1, <2>2 DEF ActivIn, u
  <2>4. ASSUME NEW p \in 1 .. Len(u), u[p].kind = "activ"
        PROVE  \E i \in 1 .. Len(activMap) : activMap[i] = p
    <3>1. p \in 1 .. Len(s) /\ s[p].kind = "activ"
      BY <1>1, <2>4 DEF u
    <3> QED BY <2>2, <3>1 DEF ActivIn
  <2> QED BY <2>2, <2>3, <2>4 DEF ActivIn
<1>3. LabelIn(u, labelMap, activMap, labelCount)
  <2>1. /\ LabelIn(s, labelMap, activMap, labelCount)
        /\ Len(labelMap) \in Nat /\ labelCount \in Nat
        /\ \A i \in 1 .. Len(labelMap) : labelMap[i] \in Nat \ {0}
    BY DEF Tracked, MapsOK
  <2>2. ASSUME NEW i \in Len(labelMap) - labelCount + 1 .. Len(labelMap)
        PROVE  labelMap[i] <= Len(u) /\ u[labelMap[i]].kind = "label"
    <3>1. labelMap[i] \in 1 .. Len(s) /\ s[labelMap[i]].kind = "label"
      BY <1>1, <2>1 DEF LabelIn
    <3> QED BY <1>1, <3>1 DEF u
  <2> QED BY <2>1, <2>2 DEF LabelIn
<1> QED BY <1>1, <1>2, <1>3 DEF Tracked, u

\* Erasing from a frame up to the values on top leaves the frames below the
\* erased one, and nothing but values above them.
LEMMA EraseKeepsBelow ==
  ASSUME NEW S, NEW s \in Seq(S), NEW keep \in 0 .. Len(s), ValuesOnTop(s, keep),
         NEW start \in 1 .. Len(s), s[start].kind # "value"
  PROVE  /\ EraseRange(s, start, keep) \in Seq(S)
         /\ Len(EraseRange(s, start, keep)) = start - 1 + keep
         /\ \A p \in 1 .. start - 1 : EraseRange(s, start, keep)[p] = s[p]
         /\ \A p \in start .. start - 1 + keep :
              /\ EraseRange(s, start, keep)[p] = s[p - start + 1 + (Len(s) - keep)]
              /\ EraseRange(s, start, keep)[p].kind = "value"
<1>1. Len(s) \in Nat
  BY LenProperties
<1>2. start \in 1 .. Len(s) - keep
  BY <1>1 DEF ValuesOnTop
<1>3. /\ EraseRange(s, start, keep) \in Seq(S)
      /\ Len(EraseRange(s, start, keep)) = start - 1 + keep
      /\ \A p \in 1 .. start - 1 : EraseRange(s, start, keep)[p] = s[p]
      /\ \A p \in start .. start - 1 + keep :
           EraseRange(s, start, keep)[p] = s[p - start + 1 + (Len(s) - keep)]
  BY <1>2, EraseRangeMoves
<1>4. ASSUME NEW p \in start .. start - 1 + keep
      PROVE  s[p - start + 1 + (Len(s) - keep)].kind = "value"
  <2> DEFINE q == p - start + 1 + (Len(s) - keep)
  <2>1. q \in Len(s) - keep + 1 .. Len(s)
    BY <1>1, <1>2
  <2> QED BY <2>1 DEF ValuesOnTop
<1> QED BY <1>3, <1>4

-----------------------------------------------------------------------------
(* One lemma for each kind of step.                                        *)

\* A step that moves operands only.
LEMMA KeepFramesStep ==
  ASSUME MapsOK, EntryAtBottom, NEW S, NEW s, Tracked(S, s), KeepFrames(s)
  PROVE  TrackedAfter(S)
<1>1. /\ stack' = s /\ labelMap' = labelMap /\ activMap' = activMap
      /\ labelCount' = labelCount
  BY DEF KeepFrames, trackVars
<1>2. MapsOK' /\ EntryAtBottom'
  BY <1>1 DEF MapsOK, EntryAtBottom, Running
<1> QED BY <1>1, <1>2 DEF Tracked, TrackedAfter

\* block, loop and if push a label above the running activation.
LEMMA PushLabelStep ==
  ASSUME MapsOK, EntryAtBottom, Running, NEW S, NEW s, Tracked(S, s),
         NEW cont, NEW arity, LabelFrame(cont, arity) \in S, PushLabel(s, cont, arity)
  PROVE  TrackedAfter(S)
<1> DEFINE f == LabelFrame(cont, arity)
<1>1. f \in S /\ f.kind = "label"
  BY DEF LabelFrame
<1>2. /\ stack' = Append(s, f)
      /\ labelMap' = Append(labelMap, Len(s) + 1)
      /\ labelCount' = labelCount + 1
      /\ activMap' = activMap
  BY DEF PushLabel
<1>3. f.kind # "activ"
  BY <1>1
<1>4. Tracked(S, Append(s, f))
  BY <1>1, <1>3, PushOther
<1>5. /\ s \in Seq(S) /\ Len(s) \in Nat
      /\ Len(labelMap) \in Nat /\ labelCount \in Nat /\ labelCount <= Len(labelMap)
      /\ Len(activMap) \in Nat /\ Len(activMap) > 0
  BY DEF Tracked, LabelIn, MapsOK, Running
<1>6. MapsOK' /\ EntryAtBottom'
  BY <1>2, <1>5 DEF MapsOK, EntryAtBottom, Running
<1>7. LabelIn(stack', labelMap', activMap', labelCount')
  <2>1. Len(labelMap') = Len(labelMap) + 1
        /\ labelMap'[Len(labelMap) + 1] = Len(s) + 1
        /\ \A i \in 1 .. Len(labelMap) : labelMap'[i] = labelMap[i]
    BY <1>2, <1>5 DEF MapsOK
  <2>2. Len(stack') = Len(s) + 1 /\ stack'[Len(s) + 1].kind = "label"
    BY <1>1, <1>2, <1>5
  <2>3. LabelIn(stack', labelMap, activMap, labelCount)
    BY <1>2, <1>4 DEF Tracked
  <2>4. activMap[Len(activMap)] \in 1 .. Len(s)
    BY <1>5 DEF Tracked, ActivIn, MapsOK
  <2>5. ASSUME NEW i \in Len(labelMap') - labelCount' + 1 .. Len(labelMap')
        PROVE  /\ activMap' # <<>> /\ activMap'[Len(activMap')] < labelMap'[i]
               /\ labelMap'[i] <= Len(stack') /\ stack'[labelMap'[i]].kind = "label"
    <3>1. CASE i = Len(labelMap) + 1
      BY <1>2, <1>5, <2>1, <2>2, <2>4, <3>1
    <3>2. CASE i # Len(labelMap) + 1
      <4>1. i \in Len(labelMap) - labelCount + 1 .. Len(labelMap)
        BY <1>2, <1>5, <2>1, <3>2
      <4>2. labelMap'[i] = labelMap[i]
        BY <1>5, <2>1, <4>1
      <4> QED BY <1>2, <2>3, <4>1, <4>2 DEF LabelIn
    <3> QED BY <3>1, <3>2
  <2>6. ASSUME NEW i \in Len(labelMap') - labelCount' + 1 .. Len(labelMap'),
               NEW j \in Len(labelMap') - labelCount' + 1 .. Len(labelMap'),
               i < j
        PROVE  labelMap'[i] < labelMap'[j]
    <3>1. i \in Len(labelMap) - labelCount + 1 .. Len(labelMap)
      BY <1>2, <1>5, <2>1, <2>6
    <3>2. CASE j = Len(labelMap) + 1
      <4>1. labelMap[i] <= Len(s) /\ labelMap[i] \in Nat
        BY SMTT(30), <1>5, <3>1 DEF MapsOK, Tracked, LabelIn
      <4> QED BY <1>5, <2>1, <3>1, <3>2, <4>1
    <3>3. CASE j # Len(labelMap) + 1
      <4>1. j \in Len(labelMap) - labelCount + 1 .. Len(labelMap)
        BY <1>2, <1>5, <2>1, <3>3
      <4>2. labelMap[i] < labelMap[j]
        BY <2>3, <2>6, <3>1, <4>1 DEF LabelIn
      <4>3. labelMap'[i] = labelMap[i] /\ labelMap'[j] = labelMap[j]
        BY <1>5, <2>1, <3>1, <4>1
      <4> QED BY <4>2, <4>3
    <3> QED BY <3>2, <3>3
  <2>7. labelCount' <= Len(labelMap')
    BY <1>2, <1>5, <2>1
  <2> QED BY <2>5, <2>6, <2>7 DEF LabelIn
<1>8. stack' \in Seq(S) /\ ActivIn(stack', activMap')
  BY <1>2, <1>4 DEF Tracked
<1> QED BY <1>6, <1>7, <1>8 DEF TrackedAfter

\* A call, or the start, pushes an activation and restarts the count.
LEMMA PushActivStep ==
  ASSUME MapsOK, EntryAtBottom, NEW S, NEW s, Tracked(S, s), Running \/ s = <<>>,
         NEW locals, NEW cont, NEW arity, ActivFrame(locals, cont, arity) \in S,
         PushActiv(s, locals, cont, arity)
  PROVE  TrackedAfter(S)
<1> DEFINE f == ActivFrame(locals, cont, arity)
<1>1. f \in S /\ f.kind = "activ"
  BY DEF ActivFrame
<1>2. /\ stack' = Append(s, f)
      /\ activMap' = Append(activMap, Len(s) + 1)
      /\ labelCount' = 0
      /\ labelMap' = labelMap
  BY DEF PushActiv
<1>3. /\ s \in Seq(S) /\ Len(s) \in Nat
      /\ Len(labelMap) \in Nat /\ Len(activMap) \in Nat
      /\ \A i \in 1 .. Len(activMap) : activMap[i] \in Nat \ {0}
  BY DEF Tracked, MapsOK
<1>4. /\ stack' \in Seq(S) /\ Len(stack') = Len(s) + 1
      /\ \A p \in 1 .. Len(s) : stack'[p] = s[p]
      /\ stack'[Len(s) + 1].kind = "activ"
  BY <1>1, <1>2, <1>3
<1>5. /\ activMap' \in Seq(Nat \ {0}) /\ Len(activMap') = Len(activMap) + 1
      /\ \A i \in 1 .. Len(activMap) : activMap'[i] = activMap[i]
      /\ activMap'[Len(activMap) + 1] = Len(s) + 1
  BY <1>2, <1>3 DEF MapsOK
<1>6. ActivIn(s, activMap)
  BY DEF Tracked
<1>7. ActivIn(stack', activMap')
  <2>1. ASSUME NEW i \in 1 .. Len(activMap'), NEW j \in 1 .. Len(activMap'), i < j
        PROVE  activMap'[i] < activMap'[j]
    <3>1. i \in 1 .. Len(activMap)
      BY <1>3, <1>5, <2>1
    <3>2. CASE j = Len(activMap) + 1
      <4>1. activMap[i] <= Len(s) /\ activMap[i] \in Nat
        BY <1>3, <1>6, <3>1 DEF ActivIn
      <4> QED BY <1>3, <1>5, <3>1, <3>2, <4>1
    <3>3. CASE j # Len(activMap) + 1
      <4>1. j \in 1 .. Len(activMap)
        BY <1>3, <1>5, <3>3
      <4> QED BY <1>5, <1>6, <2>1, <3>1, <4>1 DEF ActivIn
    <3> QED BY <3>2, <3>3
  <2>2. ASSUME NEW i \in 1 .. Len(activMap')
        PROVE  activMap'[i] <= Len(stack') /\ stack'[activMap'[i]].kind = "activ"
    <3>1. CASE i = Len(activMap) + 1
      BY <1>3, <1>4, <1>5, <3>1
    <3>2. CASE i # Len(activMap) + 1
      <4>1. i \in 1 .. Len(activMap)
        BY <1>3, <1>5, <3>2
      <4>2. activMap[i] \in 1 .. Len(s) /\ s[activMap[i]].kind = "activ"
        BY <1>3, <1>6, <4>1 DEF ActivIn
      <4> QED BY <1>3, <1>4, <1>5, <4>1, <4>2
    <3> QED BY <3>1, <3>2
  <2>3. ASSUME NEW p \in 1 .. Len(stack'), stack'[p].kind = "activ"
        PROVE  \E i \in 1 .. Len(activMap') : activMap'[i] = p
    <3>1. CASE p = Len(s) + 1
      BY <1>3, <1>5, <3>1
    <3>2. CASE p # Len(s) + 1
      <4>1. p \in 1 .. Len(s) /\ s[p].kind = "activ"
        BY <1>3, <1>4, <2>3, <3>2
      <4>2. PICK i \in 1 .. Len(activMap) : activMap[i] = p
        BY <1>6, <4>1 DEF ActivIn
      <4> QED BY <1>3, <1>5, <4>2
    <3> QED BY <3>1, <3>2
  <2> QED BY <2>1, <2>2, <2>3 DEF ActivIn
<1>8. LabelIn(stack', labelMap', activMap', labelCount')
  BY <1>2, <1>3 DEF LabelIn
<1>9. MapsOK'
  BY <1>2, <1>5 DEF MapsOK
<1>10. EntryAtBottom'
  <2>1. CASE Running
    BY <1>3, <1>5, <2>1 DEF EntryAtBottom, Running
  <2>2. CASE ~Running
    <3>1. activMap = <<>> /\ Len(s) = 0
      BY <2>2 DEF Running
    <3> QED BY <1>5, <3>1 DEF EntryAtBottom
  <2> QED BY <2>1, <2>2
<1> QED BY <1>4, <1>7, <1>8, <1>9, <1>10 DEF TrackedAfter

\* A branch erases its label and every label and operand above it.
LEMMA RetFromLabelStep ==
  ASSUME MapsOK, EntryAtBottom, NEW S, NEW s, Tracked(S, s),
         NEW depth \in Nat, depth < labelCount, RetFromLabel(s, depth)
  PROVE  TrackedAfter(S)
<1> DEFINE k == Len(labelMap) - depth
           p == labelMap[k]
           keep == Len(s[p].arity)
<1>1. /\ s \in Seq(S) /\ Len(s) \in Nat
      /\ Len(labelMap) \in Nat /\ labelCount \in Nat /\ Len(activMap) \in Nat
      /\ \A i \in 1 .. Len(labelMap) : labelMap[i] \in Nat \ {0}
      /\ \A i \in 1 .. Len(activMap) : activMap[i] \in Nat \ {0}
  BY DEF Tracked, MapsOK
<1>2. ActivIn(s, activMap) /\ LabelIn(s, labelMap, activMap, labelCount)
  BY DEF Tracked
<1>3. k \in Len(labelMap) - labelCount + 1 .. Len(labelMap) /\ k \in 1 .. Len(labelMap)
  BY <1>1, <1>2 DEF LabelIn
<1>4. /\ p \in 1 .. Len(s) /\ s[p].kind = "label"
      /\ activMap # <<>> /\ activMap[Len(activMap)] < p
  BY <1>1, <1>2, <1>3 DEF LabelIn
<1>5. ValuesOnTop(s, keep) /\ keep \in 0 .. Len(s)
  BY DEF RetFromLabel, TrackedLabel, ArityHolds, ValuesOnTop
<1>6. /\ stack' = EraseRange(s, p, keep)
      /\ labelMap' = DropTop(labelMap, depth + 1)
      /\ labelCount' = labelCount - (depth + 1)
      /\ activMap' = activMap
  BY DEF RetFromLabel, TrackedLabel
<1>7. /\ stack' \in Seq(S) /\ Len(stack') = p - 1 + keep
      /\ \A q \in 1 .. p - 1 : stack'[q] = s[q]
      /\ \A q \in p .. p - 1 + keep : stack'[q].kind = "value"
  <2>1. s[p].kind # "value"
    BY <1>4
  <2> DEFINE u == EraseRange(s, p, keep)
  <2>2. /\ u \in Seq(S) /\ Len(u) = p - 1 + keep
        /\ \A q \in 1 .. p - 1 : u[q] = s[q]
        /\ \A q \in p .. p - 1 + keep : u[q].kind = "value"
    <3>1. /\ s \in Seq(S) /\ keep \in 0 .. Len(s) /\ ValuesOnTop(s, keep)
          /\ p \in 1 .. Len(s) /\ s[p].kind # "value"
      BY <1>1, <1>4, <1>5, <2>1
    <3> HIDE DEF p, keep
    <3> QED BY <3>1, EraseKeepsBelow
  <2> QED BY <1>6, <2>2
<1>8. /\ labelMap' \in Seq(Nat \ {0}) /\ Len(labelMap') = k - 1
      /\ \A i \in 1 .. k - 1 : labelMap'[i] = labelMap[i]
  <2>1. depth + 1 \in 0 .. Len(labelMap)
    BY <1>1, <1>2 DEF LabelIn
  <2> DEFINE u == DropTop(labelMap, depth + 1)
  <2>2. /\ u \in Seq(Nat \ {0}) /\ Len(u) = Len(labelMap) - (depth + 1)
        /\ \A i \in 1 .. Len(labelMap) - (depth + 1) : u[i] = labelMap[i]
    BY <2>1, DropTopKeeps DEF MapsOK
  <2>3. Len(labelMap) - (depth + 1) = k - 1
    BY <1>1
  <2> QED BY <1>6, <2>2, <2>3
<1> HIDE DEF k, p, keep
<1>9. k \in Nat /\ keep \in Nat /\ labelCount' = labelCount - (Len(labelMap) - k) - 1
  BY <1>1, <1>3, <1>5, <1>6 DEF k
<1>10. ASSUME NEW i \in Len(labelMap') - labelCount' + 1 .. Len(labelMap')
       PROVE  /\ i \in Len(labelMap) - labelCount + 1 .. Len(labelMap) /\ i \in 1 .. k - 1
              /\ labelMap'[i] = labelMap[i] /\ i < k
  <2>1. i \in Len(labelMap) - labelCount + 1 .. k - 1
    BY <1>1, <1>3, <1>8, <1>9
  <2>2. labelCount <= Len(labelMap)
    BY <1>2 DEF LabelIn
  <2> QED BY <1>1, <1>3, <1>8, <2>1, <2>2
<1>11. LabelIn(stack', labelMap', activMap', labelCount')
  <2>1. labelCount' <= Len(labelMap')
    BY <1>1, <1>2, <1>3, <1>8, <1>9 DEF LabelIn
  <2>2. ASSUME NEW i \in Len(labelMap') - labelCount' + 1 .. Len(labelMap')
        PROVE  /\ activMap' # <<>> /\ activMap'[Len(activMap')] < labelMap'[i]
               /\ labelMap'[i] <= Len(stack') /\ stack'[labelMap'[i]].kind = "label"
    <3>1. labelMap[i] < p
      BY <1>2, <1>3, <1>10 DEF LabelIn, p
    <3>2. /\ labelMap[i] \in 1 .. Len(s) /\ s[labelMap[i]].kind = "label"
          /\ activMap[Len(activMap)] < labelMap[i]
      BY <1>1, <1>2, <1>10 DEF LabelIn
    <3>3. labelMap[i] \in 1 .. p - 1
      BY <1>4, <3>1, <3>2
    <3>4. stack'[labelMap[i]] = s[labelMap[i]] /\ labelMap[i] <= Len(stack')
      <4>1. stack'[labelMap[i]] = s[labelMap[i]]
        BY <1>7, <3>3
      <4>2. labelMap[i] <= p - 1 /\ labelMap[i] \in Int /\ p \in Int
        BY <1>1, <1>4, <3>3
      <4> QED BY <1>7, <1>9, <4>1, <4>2
    <3> QED BY <1>4, <1>6, <1>10, <3>2, <3>4
  <2>3. ASSUME NEW i \in Len(labelMap') - labelCount' + 1 .. Len(labelMap'),
               NEW j \in Len(labelMap') - labelCount' + 1 .. Len(labelMap'), i < j
        PROVE  labelMap'[i] < labelMap'[j]
    BY <1>2, <1>10, <2>3 DEF LabelIn
  <2> QED BY <2>1, <2>2, <2>3 DEF LabelIn
<1>12. ActivIn(stack', activMap')
  <2>1. ASSUME NEW i \in 1 .. Len(activMap)
        PROVE  activMap[i] \in 1 .. p - 1 /\ s[activMap[i]].kind = "activ"
    <3>1. activMap[i] \in 1 .. Len(s) /\ s[activMap[i]].kind = "activ"
      BY <1>1, <1>2 DEF ActivIn
    <3>2. activMap[i] <= activMap[Len(activMap)]
      BY <1>1, <1>2 DEF ActivIn
    <3>3. activMap[Len(activMap)] \in Nat
      BY <1>1
    <3> QED BY <1>4, <3>1, <3>2, <3>3
  <2>2. ASSUME NEW i \in 1 .. Len(activMap')
        PROVE  activMap'[i] <= Len(stack') /\ stack'[activMap'[i]].kind = "activ"
    <3>1. i \in 1 .. Len(activMap)
      BY <1>6
    <3>2. stack'[activMap[i]] = s[activMap[i]] /\ activMap[i] <= Len(stack')
      BY SMTT(30), <1>4, <1>7, <1>9, <2>1, <3>1
    <3> QED BY <1>6, <2>1, <3>1, <3>2
  <2>3. ASSUME NEW q \in 1 .. Len(stack'), stack'[q].kind = "activ"
        PROVE  \E i \in 1 .. Len(activMap') : activMap'[i] = q
    <3>1. q \in 1 .. p - 1
      BY <1>4, <1>7, <1>9, <2>3
    <3>2. q \in 1 .. Len(s) /\ s[q].kind = "activ"
      BY <1>1, <1>4, <1>7, <2>3, <3>1
    <3> QED BY <1>2, <1>6, <3>2 DEF ActivIn
  <2>4. \A i, j \in 1 .. Len(activMap') : i < j => activMap'[i] < activMap'[j]
    BY <1>2, <1>6 DEF ActivIn
  <2> QED BY <2>2, <2>3, <2>4 DEF ActivIn
<1>13. MapsOK' /\ EntryAtBottom'
  <2>1. labelCount' \in Nat
    BY <1>1, <1>6
  <2> QED BY <1>6, <1>8, <2>1 DEF MapsOK, EntryAtBottom, Running
<1> QED BY <1>7, <1>11, <1>12, <1>13 DEF TrackedAfter

\* A return erases its activation and everything above the results.
LEMMA RetFromActivStep ==
  ASSUME MapsOK, EntryAtBottom, NEW S, NEW s, Tracked(S, s), Running, TopActiv # 1,
         RetFromActiv(s, labelCount)
  PROVE  TrackedAfter(S)
<1> DEFINE m == Len(activMap)
           p == activMap[m]
           keep == Len(s[p].arity)
<1>1. /\ s \in Seq(S) /\ Len(s) \in Nat
      /\ Len(labelMap) \in Nat /\ labelCount \in Nat /\ labelCount <= Len(labelMap)
      /\ m \in Nat /\ m > 1
      /\ \A i \in 1 .. m : activMap[i] \in Nat \ {0}
  <2>1. activMap # <<>> /\ activMap[1] = 1 /\ activMap[m] # 1
    BY DEF EntryAtBottom, Running, TopActiv
  <2>2. m \in Nat /\ m # 0
    BY <2>1 DEF MapsOK
  <2>3. m # 1
    BY <2>1
  <2>4. s \in Seq(S) /\ labelCount <= Len(labelMap)
    BY DEF Tracked, LabelIn
  <2>5. Len(s) \in Nat /\ Len(labelMap) \in Nat /\ labelCount \in Nat
    BY <2>4 DEF MapsOK
  <2>6. m > 1
    <3> HIDE DEF m
    <3> QED BY <2>2, <2>3
  <2>7. \A i \in 1 .. m : activMap[i] \in Nat \ {0}
    BY DEF MapsOK
  <2> QED BY <2>2, <2>4, <2>5, <2>6, <2>7
<1>2. ActivIn(s, activMap)
  BY DEF Tracked
<1>3. p \in 1 .. Len(s) /\ s[p].kind = "activ"
  BY <1>1, <1>2 DEF ActivIn
<1>4. ValuesOnTop(s, keep) /\ keep \in 0 .. Len(s)
  BY DEF RetFromActiv, TopActiv, ArityHolds, ValuesOnTop
<1>5. /\ stack' = EraseRange(s, p, keep)
      /\ labelMap' = DropTop(labelMap, labelCount)
      /\ activMap' = DropTop(activMap, 1)
      /\ labelCount' = labelCount - labelCount
  BY DEF RetFromActiv, TopActiv
<1>6. /\ stack' \in Seq(S) /\ Len(stack') = p - 1 + keep
      /\ \A q \in 1 .. p - 1 : stack'[q] = s[q]
      /\ \A q \in p .. p - 1 + keep : stack'[q].kind = "value"
  <2>1. s[p].kind # "value"
    BY <1>3
  <2> DEFINE u == EraseRange(s, p, keep)
  <2>2. /\ u \in Seq(S) /\ Len(u) = p - 1 + keep
        /\ \A q \in 1 .. p - 1 : u[q] = s[q]
        /\ \A q \in p .. p - 1 + keep : u[q].kind = "value"
    <3> HIDE DEF p, keep
    <3> QED BY <1>1, <1>3, <1>4, <2>1, EraseKeepsBelow
  <2> QED BY <1>5, <2>2
<1>7. labelMap' \in Seq(Nat \ {0}) /\ labelCount' = 0 /\ Len(labelMap') \in Nat
  <2>1. labelCount \in 0 .. Len(labelMap)
    BY <1>1
  <2>2. DropTop(labelMap, labelCount) \in Seq(Nat \ {0})
    BY <2>1, DropTopKeeps DEF MapsOK
  <2> QED BY <1>1, <1>5, <2>2
<1>8. /\ activMap' \in Seq(Nat \ {0}) /\ Len(activMap') = m - 1
      /\ \A i \in 1 .. m - 1 : activMap'[i] = activMap[i]
  <2> DEFINE u == DropTop(activMap, 1)
  <2>1. 1 \in 0 .. Len(activMap)
    BY <1>1
  <2>2. /\ u \in Seq(Nat \ {0}) /\ Len(u) = Len(activMap) - 1
        /\ \A i \in 1 .. Len(activMap) - 1 : u[i] = activMap[i]
    BY <2>1, DropTopKeeps DEF MapsOK
  <2> QED BY <1>5, <2>2
<1>9. keep \in Nat
  BY <1>1, <1>4
<1> HIDE DEF p, keep, m
<1>10. ASSUME NEW i \in 1 .. m - 1
       PROVE  /\ activMap[i] \in 1 .. p - 1 /\ s[activMap[i]].kind = "activ"
              /\ stack'[activMap[i]] = s[activMap[i]] /\ activMap[i] <= Len(stack')
  <2>1. activMap[i] \in 1 .. Len(s) /\ s[activMap[i]].kind = "activ" /\ activMap[i] < p
    BY <1>1, <1>2 DEF ActivIn, p, m
  <2>2. activMap[i] \in 1 .. p - 1
    BY <1>3, <2>1
  <2> QED BY <1>3, <1>6, <1>9, <2>1, <2>2
<1>11. ActivIn(stack', activMap')
  <2>1. ASSUME NEW i \in 1 .. Len(activMap')
        PROVE  activMap'[i] <= Len(stack') /\ stack'[activMap'[i]].kind = "activ"
    BY <1>8, <1>10
  <2>2. ASSUME NEW q \in 1 .. Len(stack'), stack'[q].kind = "activ"
        PROVE  \E i \in 1 .. Len(activMap') : activMap'[i] = q
    <3>1. q \in 1 .. p - 1
      BY <1>3, <1>6, <1>9, <2>2
    <3>2. q \in 1 .. Len(s) /\ s[q].kind = "activ"
      BY <1>1, <1>3, <1>6, <2>2, <3>1
    <3>3. PICK i \in 1 .. m : activMap[i] = q
      BY <1>2, <3>2 DEF ActivIn, m
    <3>4. i # m
      BY <1>3, <3>1, <3>3 DEF p
    <3>5. i \in 1 .. m - 1
      BY <1>1, <3>4
    <3> QED BY <1>8, <3>3, <3>5
  <2>3. ASSUME NEW i \in 1 .. Len(activMap'), NEW j \in 1 .. Len(activMap'), i < j
        PROVE  activMap'[i] < activMap'[j]
    <3>1. /\ i \in 1 .. m - 1 /\ j \in 1 .. m - 1
          /\ i \in 1 .. Len(activMap) /\ j \in 1 .. Len(activMap)
      BY <1>1, <1>8 DEF m
    <3>2. activMap[i] < activMap[j]
      BY <1>2, <2>3, <3>1 DEF ActivIn
    <3> QED BY <1>8, <3>1, <3>2
  <2> QED BY <2>1, <2>2, <2>3 DEF ActivIn
<1>12. LabelIn(stack', labelMap', activMap', labelCount')
  BY <1>7 DEF LabelIn
<1>13. MapsOK' /\ EntryAtBottom'
  <2>1. activMap'[1] = 1
    BY <1>1, <1>8 DEF EntryAtBottom
  <2> QED BY <1>7, <1>8, <2>1 DEF MapsOK, EntryAtBottom, Running
<1> QED BY <1>6, <1>11, <1>12, <1>13 DEF TrackedAfter

\* An assignment to a local changes one activation in place.
LEMMA AssignLocalStep ==
  ASSUME MapsOK, EntryAtBottom, NEW S, NEW s, Tracked(S, s), Running, NEW locals,
         [s[TopActiv] EXCEPT !.locals = locals] \in S, "kind" \in DOMAIN s[TopActiv],
         KeepFrames([s EXCEPT ![TopActiv].locals = locals])
  PROVE  TrackedAfter(S)
<1> DEFINE p == TopActiv
           f == [s[p] EXCEPT !.locals = locals]
           u == [s EXCEPT ![p] = f]
<1>1. /\ s \in Seq(S) /\ Len(s) \in Nat /\ ActivIn(s, activMap)
      /\ LabelIn(s, labelMap, activMap, labelCount)
      /\ Len(activMap) \in Nat /\ Len(activMap) > 0
      /\ \A i \in 1 .. Len(activMap) : activMap[i] \in Nat \ {0}
      /\ \A i \in 1 .. Len(labelMap) : labelMap[i] \in Nat \ {0}
      /\ Len(labelMap) \in Nat /\ labelCount \in Nat
  BY DEF Tracked, MapsOK, Running
<1>2. p \in 1 .. Len(s) /\ s[p].kind = "activ"
  BY <1>1 DEF ActivIn, TopActiv
<1> HIDE DEF p
<1>3. s[p] \in S
  BY <1>1, <1>2
<1>4. f \in S /\ f.kind = "activ"
  BY <1>2, <1>3 DEF p
<1>5. /\ u \in Seq(S) /\ Len(u) = Len(s)
      /\ \A q \in 1 .. Len(s) : q # p => u[q] = s[q]
      /\ u[p] = f
  <2> HIDE DEF f
  <2> QED BY <1>1, <1>2, <1>4
<1>6. \A q \in 1 .. Len(s) : u[q].kind = s[q].kind
  BY <1>2, <1>4, <1>5
<1> HIDE DEF u, f
<1>7. ActivIn(u, activMap)
  <2>1. ASSUME NEW i \in 1 .. Len(activMap)
        PROVE  activMap[i] <= Len(u) /\ u[activMap[i]].kind = "activ"
    <3>1. activMap[i] \in 1 .. Len(s) /\ s[activMap[i]].kind = "activ"
      BY <1>1 DEF ActivIn
    <3> QED BY <1>1, <1>5, <1>6, <3>1
  <2>2. \A q \in 1 .. Len(u) :
           u[q].kind = "activ" => \E i \in 1 .. Len(activMap) : activMap[i] = q
    BY <1>1, <1>5, <1>6 DEF ActivIn
  <2> QED BY <1>1, <2>1, <2>2 DEF ActivIn
<1>8. LabelIn(u, labelMap, activMap, labelCount)
  <2>1. ASSUME NEW i \in Len(labelMap) - labelCount + 1 .. Len(labelMap)
        PROVE  labelMap[i] <= Len(u) /\ u[labelMap[i]].kind = "label"
    <3>1. labelMap[i] \in 1 .. Len(s) /\ s[labelMap[i]].kind = "label"
      BY <1>1 DEF LabelIn
    <3> QED BY <1>1, <1>5, <1>6, <3>1
  <2> QED BY <1>1, <2>1 DEF LabelIn
<1>9. Tracked(S, u)
  BY <1>5, <1>7, <1>8 DEF Tracked
<1>10. KeepFrames(u)
  BY <1>2 DEF u, f, p
<1> QED BY <1>9, <1>10, KeepFramesStep

-----------------------------------------------------------------------------
(* Isolation of activations, again one lemma for each kind of step.        *)

\* s keeps the frames of the stack up to the running activation.
Above(s) == TopActiv <= Len(s) /\ \A p \in 1 .. TopActiv : s[p] = stack[p]

\* The running activation lies on the stack.
LEMMA TopActivOnStack ==
  ASSUME NEW S, NEW s, Tracked(S, s), MapsOK, Running
  PROVE  /\ s \in Seq(S) /\ Len(s) \in Nat /\ Len(activMap) \in Nat \ {0}
         /\ TopActiv \in 1 .. Len(s) /\ s[TopActiv].kind = "activ"
<1>1. s \in Seq(S) /\ ActivIn(s, activMap)
  BY DEF Tracked
<1>2. /\ Len(activMap) \in Nat \ {0}
      /\ \A i \in 1 .. Len(activMap) : activMap[i] \in Nat \ {0}
  BY DEF MapsOK, Running
<1>3. TopActiv <= Len(s) /\ s[TopActiv].kind = "activ" /\ TopActiv \in Nat \ {0}
  BY <1>1, <1>2 DEF ActivIn, TopActiv
<1>4. Len(s) \in Nat
  BY <1>1
<1> QED BY <1>1, <1>2, <1>3, <1>4

\* Operands are popped from above the running activation only.
LEMMA PoppedAboveActiv ==
  ASSUME NEW S, NEW s, Tracked(S, s), MapsOK, Running, Above(s),
         NEW n \in 0 .. Len(s), ValuesOnTop(s, n)
  PROVE  Above(DropTop(s, n))
<1> DEFINE u == DropTop(s, n)
<1>1. Tracked(S, u) /\ Len(u) = Len(s) - n /\ \A p \in 1 .. Len(s) - n : u[p] = s[p]
  BY PopKeepsTracked
<1> HIDE DEF u
<1>2. Len(s) \in Nat
  BY DEF Tracked
<1>3. TopActiv \in 1 .. Len(u)
  BY <1>1, TopActivOnStack
<1> QED BY <1>1, <1>2, <1>3 DEF Above, u

\* A frame pushed comes above the running activation.
LEMMA PushedAboveActiv ==
  ASSUME NEW S, NEW s, Tracked(S, s), MapsOK, Running, Above(s), NEW f
  PROVE  Above(Append(s, f))
<1>1. s \in Seq(S) /\ Len(s) \in Nat /\ TopActiv \in 1 .. Len(s)
  BY TopActivOnStack
<1>2. s \in Seq(S \cup {f})
  BY <1>1
<1>3. Len(Append(s, f)) = Len(s) + 1 /\ \A p \in 1 .. Len(s) : Append(s, f)[p] = s[p]
  BY <1>1, <1>2
<1> QED BY <1>1, <1>3 DEF Above

\* Operands moved.
LEMMA KeepFramesIsolated ==
  ASSUME NEW S, NEW s, Tracked(S, s), MapsOK, Running, Above(s), KeepFrames(s)
  PROVE  CallerUntouched
<1>1. TopActiv \in 1 .. Len(s) /\ Len(s) \in Nat /\ Len(activMap) \in Nat
  BY TopActivOnStack
<1> QED BY <1>1 DEF CallerUntouched, KeepFrames, trackVars, Above

\* A label pushed.
LEMMA PushLabelIsolated ==
  ASSUME NEW S, NEW s, Tracked(S, s), MapsOK, Running, Above(s),
         NEW cont, NEW arity, PushLabel(s, cont, arity)
  PROVE  CallerUntouched
<1>1. TopActiv \in 1 .. Len(s) /\ Len(s) \in Nat /\ Len(activMap) \in Nat
  BY TopActivOnStack
<1>2. Above(stack')
  BY PushedAboveActiv DEF PushLabel
<1>3. TopActiv <= Len(stack') /\ activMap' = activMap
  BY <1>2 DEF Above, PushLabel
<1>4. Len(stack') \in Nat
  BY DEF PushLabel, Tracked
<1> QED BY <1>1, <1>2, <1>3, <1>4 DEF CallerUntouched, Above

\* An activation pushed.
LEMMA PushActivIsolated ==
  ASSUME NEW S, NEW s, Tracked(S, s), MapsOK, Running, Above(s),
         NEW locals, NEW cont, NEW arity, PushActiv(s, locals, cont, arity)
  PROVE  CallerUntouched
<1>1. TopActiv \in 1 .. Len(s) /\ Len(s) \in Nat /\ Len(activMap) \in Nat
  BY TopActivOnStack
<1>2. Above(stack')
  BY PushedAboveActiv DEF PushActiv
<1>3. Len(activMap') = Len(activMap) + 1
  BY AppendProperties DEF PushActiv, MapsOK
<1>4. Len(stack') \in Nat
  BY DEF PushActiv, Tracked
<1> QED BY <1>1, <1>2, <1>3, <1>4 DEF CallerUntouched, Above

\* A local assigned.
LEMMA AssignLocalIsolated ==
  ASSUME NEW S, NEW s, Tracked(S, s), MapsOK, Running, Above(s), NEW locals,
         KeepFrames([s EXCEPT ![TopActiv].locals = locals])
  PROVE  CallerUntouched
<1>1. s \in Seq(S) /\ TopActiv \in 1 .. Len(s) /\ Len(s) \in Nat /\ Len(activMap) \in Nat
  BY TopActivOnStack
<1>2. stack' = [s EXCEPT ![TopActiv].locals = locals] /\ activMap' = activMap
  BY DEF KeepFrames, trackVars
<1>3. /\ Len(stack') = Len(s)
      /\ \A p \in 1 .. Len(s) : p # TopActiv => stack'[p] = s[p]
  <2> DEFINE f == [s[TopActiv] EXCEPT !.locals = locals]
  <2>1. stack' = [s EXCEPT ![TopActiv] = f]
    BY <1>2
  <2> HIDE DEF f
  <2>2. s \in Seq(S \cup {f})
    BY <1>1
  <2> QED BY <1>1, <2>1, <2>2
<1> QED BY <1>1, <1>2, <1>3 DEF CallerUntouched, Above

\* A branch taken.
LEMMA RetFromLabelIsolated ==
  ASSUME NEW S, NEW s, Tracked(S, s), MapsOK, Running, Above(s),
         NEW depth \in Nat, depth < labelCount, RetFromLabel(s, depth)
  PROVE  CallerUntouched
<1> DEFINE k == Len(labelMap) - depth
           p == labelMap[k]
           keep == Len(s[p].arity)
<1>1. s \in Seq(S) /\ TopActiv \in 1 .. Len(s) /\ Len(s) \in Nat /\ Len(activMap) \in Nat
  BY TopActivOnStack
<1>2. /\ LabelIn(s, labelMap, activMap, labelCount) /\ Len(labelMap) \in Nat
      /\ labelCount \in Nat /\ \A i \in 1 .. Len(labelMap) : labelMap[i] \in Nat \ {0}
  BY DEF Tracked, MapsOK
<1>3. k \in Len(labelMap) - labelCount + 1 .. Len(labelMap) /\ k \in 1 .. Len(labelMap)
  BY <1>2 DEF LabelIn
<1>4. p \in 1 .. Len(s) /\ s[p].kind # "value" /\ TopActiv < p
  BY SMTT(30), <1>1, <1>2, <1>3 DEF LabelIn, TopActiv
<1>5. ValuesOnTop(s, keep) /\ keep \in 0 .. Len(s)
  BY DEF RetFromLabel, TrackedLabel, ArityHolds, ValuesOnTop
<1>6. stack' = EraseRange(s, p, keep) /\ activMap' = activMap
  BY DEF RetFromLabel, TrackedLabel
<1> HIDE DEF p, keep
<1>7. Len(stack') = p - 1 + keep /\ \A q \in 1 .. p - 1 : stack'[q] = s[q]
  BY <1>1, <1>4, <1>5, <1>6, EraseKeepsBelow
<1>8. keep \in Nat
  BY <1>1, <1>5
<1>9. \A q \in 1 .. TopActiv - 1 : q <= Len(stack') /\ stack'[q] = stack[q]
  BY <1>1, <1>4, <1>7, <1>8 DEF Above
<1> QED BY <1>1, <1>6, <1>9 DEF CallerUntouched

\* A return.
LEMMA RetFromActivIsolated ==
  ASSUME NEW S, NEW s, Tracked(S, s), MapsOK, Running, Above(s),
         RetFromActiv(s, labelCount)
  PROVE  CallerUntouched
<1> DEFINE arity == s[TopActiv].arity
           keep == Len(arity)
<1>1. /\ s \in Seq(S) /\ TopActiv \in 1 .. Len(s) /\ Len(s) \in Nat
      /\ s[TopActiv].kind # "value" /\ Len(activMap) \in Nat
  BY TopActivOnStack
<1>2. /\ activMap' = DropTop(activMap, 1)
      /\ stack' = EraseRange(s, TopActiv, keep) /\ ArityHolds(s, arity)
  BY DEF RetFromActiv
<1>3. /\ ValuesOnTop(s, keep) /\ keep \in 0 .. Len(s)
      /\ \A i \in 1 .. keep : s[Len(s) - i + 1].value.type = arity[i]
  BY <1>2 DEF ArityHolds, ValuesOnTop
<1>4. arity = stack[TopActiv].arity
  BY <1>1 DEF Above
<1> HIDE DEF arity, keep
<1>5. /\ Len(stack') = TopActiv - 1 + keep
      /\ \A q \in 1 .. TopActiv - 1 : stack'[q] = s[q]
      /\ \A q \in TopActiv .. TopActiv - 1 + keep :
           /\ stack'[q] = s[q - TopActiv + 1 + (Len(s) - keep)]
           /\ stack'[q].kind = "value"
  BY ZenonT(40), <1>1, <1>2, <1>3, EraseKeepsBelow
<1>6. \A q \in 1 .. TopActiv - 1 : q <= Len(stack') /\ stack'[q] = stack[q]
  BY <1>1, <1>3, <1>5 DEF Above
<1>7. ASSUME NEW q \in TopActiv .. Len(stack')
      PROVE  /\ stack'[q].kind = "value"
             /\ stack'[q].value.type = arity[Len(stack') - q + 1]
  <2> DEFINE i == Len(stack') - q + 1
  <2>1. i \in 1 .. keep
    <3>1. TopActiv \in Nat /\ keep \in Nat /\ Len(stack') = TopActiv - 1 + keep
      BY <1>1, <1>3, <1>5
    <3> QED BY <3>1
  <2>2. s[Len(s) - i + 1].value.type = arity[i]
    BY <1>3, <2>1
  <2>3. Len(s) - i + 1 = q - TopActiv + 1 + (Len(s) - keep)
    BY <1>1, <1>3, <1>5
  <2>4. q \in TopActiv .. TopActiv - 1 + keep
    BY <1>5
  <2> QED BY <1>5, <2>2, <2>3, <2>4
<1> QED BY <1>2, <1>4, <1>5, <1>6, <1>7 DEF CallerUntouched, keep

-----------------------------------------------------------------------------
(* The invariant.                                                          *)

\* Arguments on the stack, nothing tracked.
LEMMA FrameInitInv == FrameInit => FrameInv
<1> SUFFICES ASSUME FrameInit PROVE FrameInv
  OBVIOUS
<1>1. PICK args \in Locals : stack = [i \in 1 .. Len(args) |-> ValueFrame(args[i])]
  BY DEF FrameInit
<1>2. args \in Seq(Value)
  BY LocalsAssumption
<1>3. /\ stack \in Seq(Frame) /\ Len(stack) = Len(args)
      /\ \A p \in 1 .. Len(stack) : stack[p].kind = "value"
  <2>1. Len(args) \in Nat /\ \A i \in 1 .. Len(args) : ValueFrame(args[i]) \in Frame
    BY <1>2 DEF ValueFrame, Frame
  <2> QED BY <1>1, <2>1 DEF ValueFrame
<1>4. labelMap = <<>> /\ activMap = <<>> /\ labelCount = 0
  BY DEF FrameInit
<1> QED BY <1>3, <1>4 DEF FrameInv, FrameTypeOK, ActivTracked, LabelTracked,
                          EntryAtBottom, Running

\* The invariant is inductive: one step for each action.
LEMMA FrameNextInv == FrameInv /\ [FrameNext]_frameVars => FrameInv'
<1> SUFFICES ASSUME FrameInv, [FrameNext]_frameVars PROVE FrameInv'
  OBVIOUS
<1>1. Tracked(Frame, stack) /\ MapsOK /\ EntryAtBottom
  BY FrameInvTracked
<1>2. CASE UNCHANGED frameVars
  BY <1>2 DEF frameVars, FrameInv, FrameTypeOK, ActivTracked, LabelTracked,
              EntryAtBottom, Running, TopActiv
<1>3. ASSUME NEW locals \in Locals, NEW cont \in Addr, NEW arity \in Arity,
             Start(locals, cont, arity)
      PROVE  FrameInv'
  <2>1. DropTop(stack, Len(stack)) = <<>>
    BY <1>1 DEF DropTop, Tracked
  <2>2. Tracked(Frame, <<>>)
    BY <1>1, <1>3 DEF Tracked, ActivIn, LabelIn, Running, Start, MapsOK
  <2>3. ActivFrame(locals, cont, arity) \in Frame
    BY DEF ActivFrame, Frame
  <2>4. TrackedAfter(Frame)
    BY <1>1, <1>3, <2>1, <2>2, <2>3, PushActivStep DEF Start
  <2> QED BY <2>4, FrameInvTrackedNext
<1>4. ASSUME NEW n \in 0 .. Len(stack), Running, ValuesOnTop(stack, n)
      PROVE  Tracked(Frame, DropTop(stack, n))
  BY <1>1, <1>4, PopKeepsTracked
<1>5. ASSUME NEW n \in 0 .. Len(stack), Evaluate(n)
      PROVE  FrameInv'
  <2> DEFINE s == DropTop(stack, n)
  <2>1. Tracked(Frame, s)
    BY <1>4, <1>5 DEF Evaluate
  <2> HIDE DEF s
  <2>2. CASE KeepFrames(s)
    BY <1>1, <2>1, <2>2, KeepFramesStep, FrameInvTrackedNext
  <2>3. ASSUME NEW v \in Value, KeepFrames(Append(s, ValueFrame(v)))
        PROVE  FrameInv'
    <3>1. ValueFrame(v) \in Frame /\ ValueFrame(v).kind # "activ"
      BY DEF ValueFrame, Frame
    <3>2. Tracked(Frame, Append(s, ValueFrame(v)))
      BY <1>1, <2>1, <3>1, PushOther
    <3> QED BY <1>1, <2>3, <3>2, KeepFramesStep, FrameInvTrackedNext
  <2> QED BY <1>5, <2>2, <2>3 DEF Evaluate, s
<1>6. ASSUME NEW n \in 0 .. Len(stack), NEW locals \in Locals, AssignLocal(n, locals)
      PROVE  FrameInv'
  <2> DEFINE s == DropTop(stack, n)
  <2>1. Tracked(Frame, s) /\ Running /\ KeepFrames([s EXCEPT ![TopActiv].locals = locals])
    BY <1>4, <1>6 DEF AssignLocal
  <2> HIDE DEF s
  <2>2. s[TopActiv] \in Frame /\ s[TopActiv].kind = "activ"
    BY <1>1, <2>1, TopActivOnStack
  <2>3. [s[TopActiv] EXCEPT !.locals = locals] \in Frame /\ "kind" \in DOMAIN s[TopActiv]
    BY <2>2 DEF Frame
  <2>4. TrackedAfter(Frame)
    BY <1>1, <2>1, <2>3, AssignLocalStep
  <2> QED BY <2>4, FrameInvTrackedNext
<1>7. ASSUME NEW n \in 0 .. Len(stack), NEW cont \in Addr, NEW arity \in Arity,
             OpenLabel(n, cont, arity)
      PROVE  FrameInv'
  <2> DEFINE s == DropTop(stack, n)
  <2>1. Tracked(Frame, s) /\ Running /\ PushLabel(s, cont, arity)
    BY <1>4, <1>7 DEF OpenLabel
  <2> HIDE DEF s
  <2>2. LabelFrame(cont, arity) \in Frame
    BY DEF LabelFrame, Frame
  <2> QED BY <1>1, <2>1, <2>2, PushLabelStep, FrameInvTrackedNext
<1>8. ASSUME NEW n \in 0 .. Len(stack), NEW depth \in 0 .. labelCount, Branch(n, depth)
      PROVE  FrameInv'
  <2> DEFINE s == DropTop(stack, n)
  <2>1. Tracked(Frame, s) /\ depth \in Nat /\ depth < labelCount /\ RetFromLabel(s, depth)
    BY <1>1, <1>4, <1>8 DEF Branch, MapsOK
  <2> HIDE DEF s
  <2> QED BY <1>1, <2>1, RetFromLabelStep, FrameInvTrackedNext
<1>9. ASSUME NEW n \in 0 .. Len(stack), NEW locals \in Locals, NEW cont \in Addr,
             NEW arity \in Arity, Call(n, locals, cont, arity)
      PROVE  FrameInv'
  <2> DEFINE s == DropTop(stack, n)
  <2>1. Tracked(Frame, s) /\ Running /\ PushActiv(s, locals, cont, arity)
    BY <1>4, <1>9 DEF Call
  <2> HIDE DEF s
  <2>2. ActivFrame(locals, cont, arity) \in Frame
    BY DEF ActivFrame, Frame
  <2> QED BY <1>1, <2>1, <2>2, PushActivStep, FrameInvTrackedNext
<1>10. ASSUME NEW n \in 0 .. Len(stack), Return(n)
       PROVE  FrameInv'
  <2> DEFINE s == DropTop(stack, n)
  <2>1. Tracked(Frame, s) /\ Running /\ TopActiv # 1 /\ RetFromActiv(s, labelCount)
    BY <1>4, <1>10 DEF Return
  <2> HIDE DEF s
  <2> QED BY <1>1, <2>1, RetFromActivStep, FrameInvTrackedNext
<1>11. CASE FrameNext
  BY <1>3, <1>5, <1>6, <1>7, <1>8, <1>9, <1>10, <1>11 DEF FrameNext
<1> QED BY <1>2, <1>11

\* The index vectors and the counter describe the stack in every reachable
\* state, whatever bytecode is executed.
THEOREM FrameSpecInv == FrameSpec => []FrameInv
BY FrameInitInv, FrameNextInv, PTL DEF FrameSpec

\* The C++ types of the four variables are respected.
THEOREM FrameTypeCorrect == FrameSpec => []FrameTypeOK
BY FrameSpecInv, PTL DEF FrameInv

\* The activation index lists exactly the activation frames.
THEOREM ActivationsTracked == FrameSpec => []ActivTracked
BY FrameSpecInv, PTL DEF FrameInv

\* The counted labels are label frames of the running activation.
THEOREM LabelsTracked == FrameSpec => []LabelTracked
BY FrameSpecInv, PTL DEF FrameInv

\* The entry function's activation stays at the bottom of the stack.
THEOREM EntryStaysAtBottom == FrameSpec => []EntryAtBottom
BY FrameSpecInv, PTL DEF FrameInv

-----------------------------------------------------------------------------
(* Isolation.                                                              *)

\* No step touches what is below the running activation.
LEMMA FrameNextIsolated == FrameInv /\ [FrameNext]_frameVars => CallerUntouched
<1> SUFFICES ASSUME FrameInv, [FrameNext]_frameVars, Running PROVE CallerUntouched
  BY DEF CallerUntouched
<1>1. Tracked(Frame, stack) /\ MapsOK
  BY FrameInvTracked
<1>2. Above(stack)
  BY <1>1, TopActivOnStack DEF Above
<1>3. CASE UNCHANGED frameVars
  <2>1. KeepFrames(stack)
    BY <1>3 DEF frameVars, KeepFrames, trackVars
  <2> QED BY <1>1, <1>2, <2>1, KeepFramesIsolated
<1>4. ASSUME NEW n \in 0 .. Len(stack), ValuesOnTop(stack, n)
      PROVE  Tracked(Frame, DropTop(stack, n)) /\ Above(DropTop(stack, n))
  BY <1>1, <1>2, <1>4, PopKeepsTracked, PoppedAboveActiv
<1>5. ASSUME NEW n \in 0 .. Len(stack), Evaluate(n)
      PROVE  CallerUntouched
  <2> DEFINE s == DropTop(stack, n)
  <2>1. Tracked(Frame, s) /\ Above(s)
    BY <1>4, <1>5 DEF Evaluate
  <2> HIDE DEF s
  <2>2. CASE KeepFrames(s)
    BY <1>1, <2>1, <2>2, KeepFramesIsolated
  <2>3. ASSUME NEW v \in Value, KeepFrames(Append(s, ValueFrame(v)))
        PROVE  CallerUntouched
    <3>1. ValueFrame(v) \in Frame /\ ValueFrame(v).kind # "activ"
      BY DEF ValueFrame, Frame
    <3>2. Tracked(Frame, Append(s, ValueFrame(v)))
      BY <1>1, <2>1, <3>1, PushOther
    <3>3. Above(Append(s, ValueFrame(v)))
      BY <1>1, <2>1, PushedAboveActiv
    <3> QED BY <1>1, <2>3, <3>2, <3>3, KeepFramesIsolated
  <2> QED BY <1>5, <2>2, <2>3 DEF Evaluate, s
<1>6. ASSUME NEW n \in 0 .. Len(stack), NEW locals \in Locals, AssignLocal(n, locals)
      PROVE  CallerUntouched
  BY <1>1, <1>4, <1>6, AssignLocalIsolated DEF AssignLocal
<1>7. ASSUME NEW n \in 0 .. Len(stack), NEW cont \in Addr, NEW arity \in Arity,
             OpenLabel(n, cont, arity)
      PROVE  CallerUntouched
  BY <1>1, <1>4, <1>7, PushLabelIsolated DEF OpenLabel
<1>8. ASSUME NEW n \in 0 .. Len(stack), NEW locals \in Locals, NEW cont \in Addr,
             NEW arity \in Arity, Call(n, locals, cont, arity)
      PROVE  CallerUntouched
  BY <1>1, <1>4, <1>8, PushActivIsolated DEF Call
<1>9. ASSUME NEW n \in 0 .. Len(stack), NEW depth \in 0 .. labelCount, Branch(n, depth)
      PROVE  CallerUntouched
  BY <1>1, <1>4, <1>9, RetFromLabelIsolated DEF Branch, MapsOK
<1>10. ASSUME NEW n \in 0 .. Len(stack), Return(n)
       PROVE  CallerUntouched
  BY <1>1, <1>4, <1>10, RetFromActivIsolated DEF Return
<1>11. CASE FrameNext
  <2>1. ~ \E locals \in Locals, cont \in Addr, arity \in Arity : Start(locals, cont, arity)
    BY DEF Start
  <2> QED BY <1>5, <1>6, <1>7, <1>8, <1>9, <1>10, <1>11, <2>1 DEF FrameNext
<1> QED BY <1>3, <1>11

\* No step of a function's code, however malformed, reaches the frames of its
\* callers; a return hands them back with the results on top.
THEOREM ActivationsIsolated == FrameSpec => FrameIsolation
<1>1. FrameInv /\ [FrameNext]_frameVars => [CallerUntouched]_frameVars
  BY FrameNextIsolated
<1> QED BY <1>1, FrameSpecInv, PTL DEF FrameSpec, FrameIsolation

=============================================================================
