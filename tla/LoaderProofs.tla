---------------------------- MODULE LoaderProofs ----------------------------
(***************************************************************************)
(* Proofs about Loader, for all files: every handler stops behind the byte *)
(* where it began, so that the loop of load consumes the file; the state   *)
(* is of its type; and the magic code and the version are checked.         *)
(***************************************************************************)
EXTENDS Loader, NatRecursion

-----------------------------------------------------------------------------
(* The stream.                                                             *)

BytesOK == bytes \in Seq(0 .. 255)

\* The ends of entities, from each position on: none goes back.
Advancing(next) == next \in [Positions -> Positions] /\ \A q \in Positions : q <= next[q]

LEMMA PositionNumbers ==
  ASSUME BytesOK
  PROVE  /\ Eof \in Nat /\ Eof = Len(bytes) + 1 /\ Failed = Eof + 1 /\ Stuck = Eof + 2
         /\ BadType = Eof + 3 /\ Throws = Eof + 4
         /\ Positions = 1 .. Eof + 4
  BY DEF BytesOK, Eof, Failed, Stuck, BadType, Throws, Positions

LEMMA LeastOf ==
  ASSUME NEW T \in SUBSET Nat, T # {}
  PROVE  Least(T) \in T /\ \A q \in T : Least(T) <= q
<1>1. \E p \in T : \A q \in T : p <= q
  BY LeastElement
<1> QED BY <1>1 DEF Least

LEMMA ByteTyped ==
  ASSUME BytesOK, NEW p
  PROVE  Byte(p) \in 0 .. 255
<1>1. \A q \in 1 .. Len(bytes) : bytes[q] \in 0 .. 255
  <2> DEFINE S == 0 .. 255
  <2>1. bytes \in Seq(S)
    BY DEF BytesOK
  <2> HIDE DEF S
  <2>2. \A q \in 1 .. Len(bytes) : bytes[q] \in S
    BY <2>1
  <2> QED BY <2>2 DEF S
<1>2. CASE p \in 1 .. Len(bytes)
  BY <1>1, <1>2 DEF Byte
<1>3. CASE p \notin 1 .. Len(bytes)
  <2>1. Byte(p) = 255
    BY <1>3 DEF Byte
  <2> QED BY <2>1
<1> QED BY <1>2, <1>3

LEMMA BehindMoves ==
  ASSUME BytesOK, NEW p \in Positions, NEW found \in SUBSET (p .. Len(bytes))
  PROVE  /\ Behind(p, found) \in Positions /\ p <= Behind(p, found)
         /\ p <= Failed => p < Behind(p, found)
         /\ Behind(p, found) <= Eof \/ Behind(p, found) >= Stuck
<1>1. CASE p > Failed
  BY <1>1, PositionNumbers DEF Behind
<1>2. CASE p <= Failed /\ found = {}
  BY <1>2, PositionNumbers DEF Behind
<1>3. CASE p <= Failed /\ found # {}
  <2>1. found \in SUBSET Nat /\ Len(bytes) \in Nat
    BY PositionNumbers DEF BytesOK
  <2>2. Least(found) \in p .. Len(bytes)
    BY <1>3, <2>1, LeastOf
  <2>3. Behind(p, found) = Least(found) + 1
    <3>1. ~(p > Failed)
      BY <1>3, PositionNumbers
    <3> QED BY <1>3, <3>1, Zenon DEF Behind
  <2> QED BY <2>1, <2>2, <2>3, PositionNumbers
<1> QED BY <1>1, <1>2, <1>3, PositionNumbers

LEMMA SkipMoves ==
  ASSUME BytesOK, NEW p \in Positions, NEW n \in Nat
  PROVE  Skip(p, n) \in Positions /\ p <= Skip(p, n)
  BY PositionNumbers DEF Skip

LEMMA U32EndMoves ==
  ASSUME BytesOK, NEW p \in Positions
  PROVE  /\ U32End(p) \in Positions /\ p <= U32End(p)
         /\ p <= Failed => p < U32End(p)
         /\ U32End(p) <= Eof \/ U32End(p) >= Stuck
  BY BehindMoves DEF U32End

LEMMA InitExprMoves ==
  ASSUME BytesOK, NEW p \in Positions
  PROVE  InitExpr(p) \in Positions /\ p <= InitExpr(p)
  BY BehindMoves DEF InitExpr

\* The value of a U32 is a number.
Digit(end) == [n \in Nat |-> [v \in Nat |-> (Byte(end - n) % 128) + (128 * v)]]

LEMMA U32Typed ==
  ASSUME BytesOK, NEW p \in Positions
  PROVE  U32(p) \in Nat
<1> DEFINE end == U32End(p)
           value == Solution(0, Digit(end))
<1>1. U32(p) = IF end > Eof THEN 0 ELSE value[end - p]
  BY DEF U32, Solution, Recursion, Digit
<1>2. Digit(end) \in [Nat -> [Nat -> Nat]]
  <2>1. ASSUME NEW n \in Nat, NEW v \in Nat PROVE (Byte(end - n) % 128) + (128 * v) \in Nat
    <3>1. Byte(end - n) \in 0 .. 255
      BY ByteTyped
    <3> HIDE DEF end
    <3>2. Byte(end - n) % 128 \in Nat
      BY <3>1
    <3> QED BY <3>2
  <2> HIDE DEF end
  <2> QED BY <2>1 DEF Digit
<1> HIDE DEF end
<1>3. value \in [Nat -> Nat]
  BY <1>2, RecursionHolds
<1>4. end - p \in Nat
  BY U32EndMoves, PositionNumbers DEF end
<1> HIDE DEF value
<1> QED BY <1>1, <1>3, <1>4

-----------------------------------------------------------------------------
(* Vectors.                                                                *)

Turn(next) == [i \in Nat |-> next]

\* However many entities there are, the end is not before the first.
LEMMA VectorMoves ==
  ASSUME BytesOK, NEW p \in Positions, NEW next, Advancing(next)
  PROVE  Vector(p, next) \in Positions /\ U32End(p) <= Vector(p, next)
<1> DEFINE count == Least({U32(p), Len(bytes) + 2})
           first == U32End(p)
           end == Solution(first, Turn(next))
<1>1. Vector(p, next) = end[count]
  BY DEF Vector, Solution, Recursion, Turn
<1>2. count \in Nat
  <2>1. U32(p) \in Nat /\ Len(bytes) + 2 \in Nat
    BY U32Typed, PositionNumbers DEF BytesOK
  <2> QED BY <2>1, LeastOf
<1>3. first \in Positions
  BY U32EndMoves
<1>4. Turn(next) \in [Nat -> [Positions -> Positions]]
  BY DEF Turn, Advancing
<1>5. /\ end \in [Nat -> Positions] /\ end[0] = first
      /\ \A n \in Nat : end[n + 1] = Turn(next)[n + 1][end[n]]
  <2> HIDE DEF first
  <2> QED BY <1>3, <1>4, RecursionHolds
<1> HIDE DEF end, first, count
<1> DEFINE T == {n \in Nat : first <= end[n]}
<1>6. 0 \in T
  BY <1>3, <1>5, PositionNumbers
<1>7. ASSUME NEW n \in Nat, n \in T PROVE n + 1 \in T
  <2>1. end[n] \in Positions /\ end[n + 1] \in Positions
    BY <1>5
  <2>2. end[n + 1] = next[end[n]]
    BY <1>5 DEF Turn
  <2>3. end[n] <= end[n + 1]
    BY <2>1, <2>2 DEF Advancing
  <2>4. first <= end[n]
    BY <1>7
  <2> QED BY <1>3, <2>1, <2>3, <2>4, PositionNumbers
<1>8. count \in T
  <2> HIDE DEF T
  <2> QED BY <1>2, <1>6, <1>7, SetInduction
<1> QED BY <1>1, <1>2, <1>5, <1>8 DEF first

-----------------------------------------------------------------------------
(* One entity of each section.                                             *)

LEMMA Transitive ==
  ASSUME BytesOK, NEW p \in Positions, NEW q \in Positions, NEW r \in Positions, p <= q, q <= r
  PROVE  p <= r
  BY PositionNumbers

LEMMA StringMoves ==
  ASSUME BytesOK, NEW p \in Positions
  PROVE  String(p) \in Positions /\ p <= String(p)
<1>1. U32End(p) \in Positions /\ p <= U32End(p)
  BY U32EndMoves
<1>2. String(p) \in Positions /\ U32End(p) <= String(p)
  BY <1>1, U32Typed, SkipMoves DEF String
<1> QED BY <1>1, <1>2, Transitive

LEMMA LimitsMove ==
  ASSUME BytesOK, NEW p \in Positions
  PROVE  Limits(p) \in Positions /\ p <= Limits(p)
<1> DEFINE s == Skip(p, 1)
           q == U32End(s)
<1>1. s \in Positions /\ p <= s
  BY SkipMoves
<1>2. q \in Positions /\ s <= q
  BY <1>1, U32EndMoves
<1>3. U32End(q) \in Positions /\ q <= U32End(q)
  BY <1>2, U32EndMoves
<1>4. Limits(p) = q \/ Limits(p) = U32End(q)
  BY DEF Limits
<1> HIDE DEF s, q
<1>5. p <= q
  BY <1>1, <1>2, Transitive
<1>6. p <= U32End(q)
  BY <1>2, <1>3, <1>5, Transitive
<1> QED BY <1>2, <1>3, <1>4, <1>5, <1>6

\* What follows something that moves, moves.
LEMMA ThenMoves ==
  ASSUME BytesOK, NEW p \in Positions, NEW q \in Positions, p <= q
  PROVE  /\ U32End(q) \in Positions /\ p <= U32End(q)
         /\ InitExpr(q) \in Positions /\ p <= InitExpr(q)
         /\ String(q) \in Positions /\ p <= String(q)
         /\ Limits(q) \in Positions /\ p <= Limits(q)
         /\ \A n \in Nat : Skip(q, n) \in Positions /\ p <= Skip(q, n)
<1>1. \A n \in Nat : Skip(q, n) \in Positions /\ q <= Skip(q, n)
  BY SkipMoves
<1>2. U32End(q) \in Positions /\ q <= U32End(q)
  BY U32EndMoves
<1>3. InitExpr(q) \in Positions /\ q <= InitExpr(q)
  BY InitExprMoves
<1>4. String(q) \in Positions /\ q <= String(q)
  BY StringMoves
<1>5. Limits(q) \in Positions /\ q <= Limits(q)
  BY LimitsMove
<1>6. \A r \in Positions : q <= r => p <= r
  BY Transitive
<1> QED BY <1>1, <1>2, <1>3, <1>4, <1>5, <1>6

LEMMA VectorsMove ==
  ASSUME BytesOK, NEW p \in Positions, NEW q \in Positions, p <= q, NEW next, Advancing(next)
  PROVE  Vector(q, next) \in Positions /\ p <= Vector(q, next)
<1>1. U32End(q) \in Positions /\ p <= U32End(q)
  BY ThenMoves
<1>2. Vector(q, next) \in Positions /\ U32End(q) <= Vector(q, next)
  BY VectorMoves
<1> QED BY <1>1, <1>2, Transitive

LEMMA Reflexive == ASSUME BytesOK, NEW p \in Positions PROVE p <= p
BY PositionNumbers

LEMMA TypeMoves ==
  ASSUME BytesOK, NEW p \in Positions
  PROVE  TypeEntity(p) \in Positions /\ p <= TypeEntity(p)
<1>1. Skip(p, 1) \in Positions /\ p <= Skip(p, 1)
  BY SkipMoves
<1>2. String(Skip(p, 1)) \in Positions /\ p <= String(Skip(p, 1))
  BY <1>1, ThenMoves
<1>3. String(String(Skip(p, 1))) \in Positions /\ p <= String(String(Skip(p, 1)))
  BY <1>2, ThenMoves
<1>4. CASE p > Failed
  BY <1>4, Reflexive DEF TypeEntity
<1>5. CASE ~(p > Failed) /\ Byte(p) # 96
  BY <1>5, PositionNumbers DEF TypeEntity
<1>6. CASE ~(p > Failed) /\ Byte(p) = 96
  BY <1>6, <1>3 DEF TypeEntity
<1> QED BY <1>4, <1>5, <1>6

LEMMA ImportMetaMoves ==
  ASSUME BytesOK, NEW p \in Positions, NEW q \in Positions, p <= q, NEW kind
  PROVE  ImportMeta(q, kind) \in Positions /\ p <= ImportMeta(q, kind)
<1>1. Skip(q, 1) \in Positions /\ p <= Skip(q, 1)
  BY ThenMoves
<1>2. Limits(Skip(q, 1)) \in Positions /\ p <= Limits(Skip(q, 1))
  BY <1>1, ThenMoves
<1>3. Skip(q, 2) \in Positions /\ p <= Skip(q, 2)
  BY ThenMoves
<1>4. U32End(q) \in Positions /\ p <= U32End(q) /\ Limits(q) \in Positions /\ p <= Limits(q)
  BY ThenMoves
<1>5. ImportMeta(q, kind) \in {U32End(q), Limits(Skip(q, 1)), Limits(q), Skip(q, 2), q}
  BY DEF ImportMeta
<1> QED BY <1>2, <1>3, <1>4, <1>5

LEMMA ImportMoves ==
  ASSUME BytesOK, NEW p \in Positions
  PROVE  ImportEntity(p) \in Positions /\ p <= ImportEntity(p)
<1> DEFINE q == String(String(p))
<1>1. String(p) \in Positions /\ p <= String(p)
  BY StringMoves
<1>2. q \in Positions /\ p <= q
  BY <1>1, ThenMoves
<1>3. ImportEntity(p) = ImportMeta(Skip(q, 1), Byte(q))
  BY DEF ImportEntity
<1> HIDE DEF q
<1>4. Skip(q, 1) \in Positions /\ p <= Skip(q, 1)
  BY <1>2, ThenMoves
<1> QED BY <1>3, <1>4, ImportMetaMoves

LEMMA SimpleMove ==
  ASSUME BytesOK, NEW p \in Positions
  PROVE  /\ TableEntity(p) \in Positions /\ p <= TableEntity(p)
         /\ GlobalEntity(p) \in Positions /\ p <= GlobalEntity(p)
         /\ ExportEntity(p) \in Positions /\ p <= ExportEntity(p)
         /\ DataEntity(p) \in Positions /\ p <= DataEntity(p)
         /\ LocalsEntity(p) \in Positions /\ p <= LocalsEntity(p)
<1>1. /\ Skip(p, 1) \in Positions /\ p <= Skip(p, 1)
      /\ Skip(p, 2) \in Positions /\ p <= Skip(p, 2)
      /\ String(p) \in Positions /\ p <= String(p)
      /\ U32End(p) \in Positions /\ p <= U32End(p)
  BY SkipMoves, StringMoves, U32EndMoves
<1>2. TableEntity(p) \in Positions /\ p <= TableEntity(p)
  BY <1>1, ThenMoves DEF TableEntity
<1>3. GlobalEntity(p) \in Positions /\ p <= GlobalEntity(p)
  BY <1>1, ThenMoves DEF GlobalEntity
<1>4. ExportEntity(p) \in Positions /\ p <= ExportEntity(p)
  <2>1. Skip(String(p), 1) \in Positions /\ p <= Skip(String(p), 1)
    BY <1>1, ThenMoves
  <2> QED BY <2>1, ThenMoves DEF ExportEntity
<1>5. DataEntity(p) \in Positions /\ p <= DataEntity(p)
  <2>1. InitExpr(U32End(p)) \in Positions /\ p <= InitExpr(U32End(p))
    BY <1>1, ThenMoves
  <2> QED BY <2>1, ThenMoves DEF DataEntity
<1>6. LocalsEntity(p) \in Positions /\ p <= LocalsEntity(p)
  BY <1>1, ThenMoves DEF LocalsEntity
<1> QED BY <1>2, <1>3, <1>4, <1>5, <1>6

LEMMA U32sAdvance == ASSUME BytesOK PROVE Advancing(U32s)
BY U32EndMoves DEF Advancing, U32s

LEMMA ElementMoves ==
  ASSUME BytesOK, NEW p \in Positions
  PROVE  ElementEntity(p) \in Positions /\ p <= ElementEntity(p)
<1>1. U32End(p) \in Positions /\ p <= U32End(p)
  BY U32EndMoves
<1>2. InitExpr(U32End(p)) \in Positions /\ p <= InitExpr(U32End(p))
  BY <1>1, ThenMoves
<1> QED BY <1>2, U32sAdvance, VectorsMove DEF ElementEntity

LEMMA CodeMoves ==
  ASSUME BytesOK, NEW p \in Positions
  PROVE  CodeEntity(p) \in Positions /\ p <= CodeEntity(p)
<1> DEFINE first == U32End(p)
           body == Vector(first, Locals)
           left == U32(p) - (body - first)
<1>1. first \in Positions /\ p <= first
  BY U32EndMoves
<1>2. Advancing(Locals)
  BY SimpleMove DEF Advancing, Locals
<1>3. body \in Positions /\ p <= body
  BY <1>1, <1>2, VectorsMove
<1>4. U32(p) \in Nat
  BY U32Typed
<1>5. CodeEntity(p) = IF body > Eof THEN body ELSE IF left < 0 THEN Throws ELSE Skip(body, left)
  BY DEF CodeEntity
<1>6. left \in Int
  BY <1>1, <1>3, <1>4, PositionNumbers
<1> HIDE DEF first, body, left
<1>7. CASE body > Eof
  BY <1>3, <1>5, <1>7
<1>8. CASE ~(body > Eof) /\ left < 0
  <2>1. CodeEntity(p) = Throws
    BY <1>5, <1>8
  <2> QED BY <2>1, PositionNumbers
<1>9. CASE ~(body > Eof) /\ ~(left < 0)
  <2>1. CodeEntity(p) = Skip(body, left) /\ left \in Nat
    BY <1>5, <1>6, <1>9
  <2> QED BY <1>3, <2>1, ThenMoves
<1> QED BY <1>7, <1>8, <1>9

-----------------------------------------------------------------------------
(* The handlers.                                                           *)

LEMMA HandlerEnds ==
  ASSUME NEW p
  PROVE  /\ HandlerEnd(0, p) = Seek(U32End(p), U32(p))
         /\ HandlerEnd(StartId, p) = U32End(p)
         /\ HandlerEnd(1, p) = Vector(U32End(p), [r \in Positions |-> TypeEntity(r)])
         /\ HandlerEnd(2, p) = Vector(U32End(p), [r \in Positions |-> ImportEntity(r)])
         /\ HandlerEnd(3, p) = Vector(U32End(p), U32s)
         /\ HandlerEnd(4, p) = Vector(U32End(p), [r \in Positions |-> TableEntity(r)])
         /\ HandlerEnd(5, p) = Vector(U32End(p), [r \in Positions |-> Limits(r)])
         /\ HandlerEnd(6, p) = Vector(U32End(p), [r \in Positions |-> GlobalEntity(r)])
         /\ HandlerEnd(7, p) = Vector(U32End(p), [r \in Positions |-> ExportEntity(r)])
         /\ HandlerEnd(9, p) = Vector(U32End(p), [r \in Positions |-> ElementEntity(r)])
         /\ HandlerEnd(10, p) = Vector(U32End(p), [r \in Positions |-> CodeEntity(r)])
         /\ HandlerEnd(11, p) = Vector(U32End(p), [r \in Positions |-> DataEntity(r)])
<1>0. HandlerEnd(0, p) = Seek(U32End(p), U32(p))
  BY DEF HandlerEnd, StartId
<1>8. HandlerEnd(StartId, p) = U32End(p)
  BY DEF HandlerEnd, StartId
<1>1. HandlerEnd(1, p) = Vector(U32End(p), [r \in Positions |-> TypeEntity(r)])
  BY DEF HandlerEnd, StartId
<1>2. HandlerEnd(2, p) = Vector(U32End(p), [r \in Positions |-> ImportEntity(r)])
  BY DEF HandlerEnd, StartId
<1>3. HandlerEnd(3, p) = Vector(U32End(p), U32s)
  BY DEF HandlerEnd, StartId
<1>4. HandlerEnd(4, p) = Vector(U32End(p), [r \in Positions |-> TableEntity(r)])
  BY DEF HandlerEnd, StartId
<1>5. HandlerEnd(5, p) = Vector(U32End(p), [r \in Positions |-> Limits(r)])
  BY DEF HandlerEnd, StartId
<1>6. HandlerEnd(6, p) = Vector(U32End(p), [r \in Positions |-> GlobalEntity(r)])
  BY DEF HandlerEnd, StartId
<1>7. HandlerEnd(7, p) = Vector(U32End(p), [r \in Positions |-> ExportEntity(r)])
  BY DEF HandlerEnd, StartId
<1>9. HandlerEnd(9, p) = Vector(U32End(p), [r \in Positions |-> ElementEntity(r)])
  BY DEF HandlerEnd, StartId
<1>10. HandlerEnd(10, p) = Vector(U32End(p), [r \in Positions |-> CodeEntity(r)])
  BY DEF HandlerEnd, StartId
<1>11. HandlerEnd(11, p) = Vector(U32End(p), [r \in Positions |-> DataEntity(r)])
  BY DEF HandlerEnd, StartId
<1> QED BY <1>0, <1>8, <1>1, <1>2, <1>3, <1>4, <1>5, <1>6, <1>7, <1>9, <1>10, <1>11

\* A handler that begins inside of the file stops behind where it began.
LEMMA HandlerMoves ==
  ASSUME BytesOK, NEW id \in 0 .. 11, NEW p \in Positions, p <= Eof
  PROVE  HandlerEnd(id, p) \in Positions /\ p < HandlerEnd(id, p)
<1> DEFINE q == U32End(p)
<1>1. q \in Positions /\ p < q /\ (q <= Eof \/ q >= Stuck)
  BY U32EndMoves, PositionNumbers
<1>2. \A end \in Positions : q <= end => p < end
  BY <1>1, PositionNumbers
<1> HIDE DEF q
<1>3. /\ Advancing([r \in Positions |-> TypeEntity(r)])
      /\ Advancing([r \in Positions |-> ImportEntity(r)])
      /\ Advancing([r \in Positions |-> TableEntity(r)])
      /\ Advancing([r \in Positions |-> Limits(r)])
      /\ Advancing([r \in Positions |-> GlobalEntity(r)])
      /\ Advancing([r \in Positions |-> ExportEntity(r)])
      /\ Advancing([r \in Positions |-> ElementEntity(r)])
      /\ Advancing([r \in Positions |-> CodeEntity(r)])
      /\ Advancing([r \in Positions |-> DataEntity(r)])
      /\ Advancing(U32s)
  BY TypeMoves, ImportMoves, SimpleMove, LimitsMove, ElementMoves, CodeMoves, U32sAdvance DEF Advancing
<1>4. \A next : Advancing(next) => Vector(q, next) \in Positions /\ q <= Vector(q, next)
  BY <1>1, Reflexive, VectorsMove
<1>5. Seek(q, U32(p)) \in Positions /\ q <= Seek(q, U32(p))
  <2>1. U32(p) \in Nat
    BY U32Typed
  <2>2. Skip(q, U32(p)) \in Positions /\ q <= Skip(q, U32(p))
    BY <1>1, <2>1, SkipMoves
  <2>3. CASE Skip(q, U32(p)) = Failed
    <3>1. q <= Eof
      BY <1>1, <2>2, <2>3, PositionNumbers
    <3>2. Seek(q, U32(p)) = Eof
      BY <2>3 DEF Seek
    <3> QED BY <3>1, <3>2, PositionNumbers
  <2>4. CASE Skip(q, U32(p)) # Failed
    BY <2>2, <2>4 DEF Seek
  <2> QED BY <2>3, <2>4
<1>6. HandlerEnd(id, p) \in Positions /\ q <= HandlerEnd(id, p)
  <2>1. CASE id = 0
    BY <2>1, <1>5, HandlerEnds DEF q
  <2>2. CASE id = StartId
    BY <2>2, <1>1, Reflexive, HandlerEnds DEF q
  <2>3. CASE id \in {1, 2, 3, 4}
    BY <2>3, <1>3, <1>4, HandlerEnds DEF q
  <2>4. CASE id \in {5, 6, 7}
    BY <2>4, <1>3, <1>4, HandlerEnds DEF q
  <2>5. CASE id \in {9, 10, 11}
    BY <2>5, <1>3, <1>4, HandlerEnds DEF q
  <2> QED BY <2>1, <2>2, <2>3, <2>4, <2>5 DEF StartId
<1> QED BY <1>2, <1>6

-----------------------------------------------------------------------------
(* Loading.                                                                *)

Refusals == {"INVALID_MAGIC_CODE", "INVALID_VER_NUM"}

LoadInv ==
  /\ input \in Files
  /\ LoadTypeOK
  /\ outcome \in {"opened", "loading"} => pos <= Eof
  /\ outcome \notin Refusals \cup {"opened"} => MagicOK /\ VersionOK

LEMMA InputBytes == ASSUME input \in Files PROVE BytesOK
BY FilesAssumption DEF BytesOK, bytes

LEMMA SectionIds ==
  ASSUME BytesOK, NEW p
  PROVE  SectionId(p) \in -128 .. 127
<1>1. Byte(p) \in 0 .. 255
  BY ByteTyped
<1> QED BY <1>1 DEF SectionId

\* A section id that is not negative stands in the file.
LEMMA IdInside ==
  ASSUME BytesOK, pos \in Positions, SectionId(pos) >= 0
  PROVE  pos \in 1 .. Len(bytes) /\ pos + 1 \in Positions /\ pos + 1 <= Eof
<1>1. pos \in 1 .. Len(bytes)
  <2>1. SUFFICES ASSUME pos \notin 1 .. Len(bytes) PROVE FALSE
    OBVIOUS
  <2>2. Byte(pos) = 255
    BY <2>1 DEF Byte
  <2> QED BY <2>2 DEF SectionId
<1> QED BY <1>1, PositionNumbers

LEMMA LoadStarts == LoadInit => LoadInv
<1> SUFFICES ASSUME LoadInit PROVE LoadInv
  OBVIOUS
<1>1. BytesOK /\ pos = 1 /\ lastId = 0 /\ start = -1 /\ outcome = "opened"
      /\ entities = [id \in 1 .. 11 |-> 0] /\ input \in Files
  BY InputBytes DEF LoadInit
<1>2. pos \in Positions /\ pos <= Eof
  BY <1>1, PositionNumbers
<1> QED BY <1>1, <1>2 DEF LoadInv, LoadTypeOK

LEMMA LoadStops ==
  ASSUME LoadInv, NEW error, Stop(error),
         error \in {"loading", "INVALID_MAGIC_CODE", "INVALID_VER_NUM", "INVALID_SECTION_ID",
                    "std::out_of_range"},
         \/ error \in Refusals
         \/ MagicOK /\ VersionOK,
         error = "loading" => pos <= Eof
  PROVE  LoadInv'
<1>1. UNCHANGED <<input, pos, lastId, entities, start>> /\ outcome' = error
  BY DEF Stop
<1>2. Eof' = Eof /\ Positions' = Positions /\ MagicOK' = MagicOK /\ VersionOK' = VersionOK
  BY <1>1 DEF Eof, Positions, Throws, bytes, MagicOK, VersionOK, HeaderByte
<1> QED BY <1>1, <1>2 DEF LoadInv, LoadTypeOK, Refusals

LEMMA PreambleLoads == ASSUME LoadInv, Preamble PROVE LoadInv'
<1>1. outcome = "opened" /\ pos <= Eof
  BY DEF Preamble, LoadInv
<1> QED BY <1>1, LoadStops DEF Preamble, Refusals

LEMMA RefusedLoads == ASSUME LoadInv, ParseRefused PROVE LoadInv'
<1>1. MagicOK /\ VersionOK
  BY DEF ParseRefused, LoadInv, Refusals
<1> QED BY <1>1, LoadStops DEF ParseRefused

\* Where the input stays, so do the positions.
LEMMA SameInput ==
  ASSUME input' = input
  PROVE  Eof' = Eof /\ Positions' = Positions /\ MagicOK' = MagicOK /\ VersionOK' = VersionOK
  BY DEF Eof, Positions, Throws, bytes, MagicOK, VersionOK, HeaderByte

LEMMA NothingLoads ==
  ASSUME LoadInv, ParseNothing
  PROVE  LoadInv' /\ Advances
<1>1. BytesOK /\ outcome = "loading" /\ pos \in Positions /\ pos <= Eof /\ MagicOK /\ VersionOK
  BY InputBytes DEF LoadInv, LoadTypeOK, ParseNothing, Refusals
<1>2. /\ pos' = Skip(pos, 1) /\ lastId' = Stored(SectionId(pos))
      /\ outcome' = IF pos' = Failed THEN "loaded" ELSE "loading"
      /\ UNCHANGED <<input, entities, start>>
  BY DEF ParseNothing
<1>3. pos' \in Positions
  BY <1>1, <1>2, SkipMoves
<1>4. pos' # Failed => pos < pos' /\ pos' <= Eof
  BY <1>1, <1>2, PositionNumbers DEF Skip
<1>5. lastId' \in Nat
  BY <1>1, <1>2, SectionIds DEF Stored
<1>6. outcome' \in {"loaded", "loading"} /\ (outcome' = "loading" => pos' # Failed)
  BY <1>2
<1>7. Eof' = Eof /\ Positions' = Positions /\ MagicOK' = MagicOK /\ VersionOK' = VersionOK
  BY <1>2, SameInput
<1>8. Advances
  BY <1>4, <1>6 DEF Advances
<1> QED
  BY <1>1, <1>2, <1>3, <1>4, <1>5, <1>6, <1>7, <1>8 DEF LoadInv, LoadTypeOK, Refusals

LEMMA SectionLoads ==
  ASSUME LoadInv, ParseSection
  PROVE  LoadInv' /\ Advances
<1> DEFINE id == SectionId(pos)
           end == HandlerEnd(id, pos + 1)
<1>1. BytesOK /\ pos \in Positions /\ MagicOK /\ VersionOK /\ id \in 0 .. 11
  BY InputBytes DEF LoadInv, LoadTypeOK, ParseSection, Refusals
<1>2. /\ lastId' = id /\ pos' = end
      /\ entities' = [i \in 1 .. 11 |-> entities[i] + IF i = id THEN Appended(id, pos + 1) ELSE 0]
      /\ start' = IF id = StartId THEN U32(pos + 1) ELSE start
      /\ outcome' = CASE end <= Eof -> "loading"
                      [] end = Failed -> "loaded"
                      [] end = Stuck -> "std::bad_alloc"
                      [] end = BadType -> "INVALID_FUNC_TYPE"
                      [] end = Throws -> "std::length_error"
      /\ input' = input
  BY DEF ParseSection
<1>3. pos + 1 \in Positions /\ pos + 1 <= Eof
  BY <1>1, IdInside
<1> HIDE DEF id
<1>4. end \in Positions /\ pos + 1 < end
  BY <1>1, <1>3, HandlerMoves
<1> HIDE DEF end
<1>5. U32(pos + 1) \in Nat /\ Appended(id, pos + 1) \in Nat
  <2>1. U32End(pos + 1) \in Positions
    BY <1>1, <1>3, U32EndMoves
  <2>2. U32(pos + 1) \in Nat /\ U32(U32End(pos + 1)) \in Nat
    BY <1>1, <1>3, <2>1, U32Typed
  <2> QED BY <2>2 DEF Appended
<1>6. entities' \in [1 .. 11 -> Nat] /\ start' \in Nat \cup {-1} /\ lastId' \in Nat
  <2>1. entities \in [1 .. 11 -> Nat] /\ start \in Nat \cup {-1}
    BY DEF LoadInv, LoadTypeOK
  <2>2. \A i \in 1 .. 11 : entities[i] + (IF i = id THEN Appended(id, pos + 1) ELSE 0) \in Nat
    BY <2>1, <1>5
  <2> QED BY <2>1, <2>2, <1>1, <1>2, <1>5
<1>7. /\ outcome' \in {"loading", "loaded", "std::bad_alloc", "INVALID_FUNC_TYPE", "std::length_error"}
      /\ outcome' = "loading" => end <= Eof
  <2>1. end <= Eof \/ end = Failed \/ end = Stuck \/ end = BadType \/ end = Throws
    BY <1>1, <1>4, PositionNumbers
  <2> QED BY <1>2, <2>1
<1>8. Eof' = Eof /\ Positions' = Positions /\ MagicOK' = MagicOK /\ VersionOK' = VersionOK
  BY <1>2, SameInput
<1>9. pos < pos'
  BY SMTT(30), <1>1, <1>2, <1>4, PositionNumbers
<1>10. Advances
  BY <1>2, <1>7, <1>9 DEF Advances
<1> QED
  BY <1>1, <1>2, <1>4, <1>6, <1>7, <1>8, <1>10 DEF LoadInv, LoadTypeOK, Refusals

LEMMA LoadSteps ==
  ASSUME LoadInv, [LoadNext]_loadVars
  PROVE  LoadInv' /\ [Advances]_loadVars
<1>1. CASE UNCHANGED loadVars
  <2>1. UNCHANGED <<input, pos, lastId, entities, start, outcome>>
    BY <1>1 DEF loadVars
  <2>2. Eof' = Eof /\ Positions' = Positions /\ MagicOK' = MagicOK /\ VersionOK' = VersionOK
    BY <2>1, SameInput
  <2> QED BY <1>1, <2>1, <2>2 DEF LoadInv, LoadTypeOK
<1>2. CASE Preamble
  BY <1>2, PreambleLoads DEF Preamble, Advances
<1>3. CASE ParseRefused
  BY <1>3, RefusedLoads DEF ParseRefused, Stop, Advances
<1>4. CASE ParseNothing
  BY <1>4, NothingLoads
<1>5. CASE ParseSection
  BY <1>5, SectionLoads
<1> QED BY <1>1, <1>2, <1>3, <1>4, <1>5 DEF LoadNext, Ended

THEOREM LoadInvariant == LoadSpec => []LoadInv
BY LoadStarts, LoadSteps, PTL DEF LoadSpec

\* The position of the stream, the last section id and what was counted are of
\* their types, whatever the file holds.
THEOREM LoadTypesCorrect == LoadSpec => []LoadTypeOK
<1>1. LoadInv => LoadTypeOK
  BY DEF LoadInv
<1> QED BY <1>1, LoadInvariant, PTL

\* Each turn of the loop of load that goes on consumes bytes and stays inside of
\* the file, whatever it holds: there are no more turns than bytes.
THEOREM LoadingAdvancesAlways == LoadSpec => LoadingAdvances
BY LoadInvariant, LoadSteps, PTL DEF LoadSpec, LoadingAdvances

\* A file is loaded only behind its magic code and its version, unless it ends
\* inside of the version: retrieveBytes fills in the zeros of a version 1.
THEOREM HeaderCheckedAlways ==
  LoadSpec => []((\A f \in Files : Len(f.header) \notin 5 .. 7) => HeaderChecked)
<1>1. LoadInv => ((\A f \in Files : Len(f.header) \notin 5 .. 7) => HeaderChecked)
  <2> SUFFICES ASSUME LoadInv, \A f \in Files : Len(f.header) \notin 5 .. 7, outcome = "loaded"
               PROVE  input.header = <<0, 97, 115, 109, 1, 0, 0, 0>>
    BY DEF HeaderChecked
  <2> DEFINE h == input.header
  <2>1. h \in Seq(0 .. 255) /\ Len(h) <= 8 /\ Len(h) \notin 5 .. 7 /\ MagicOK /\ VersionOK
    BY FilesAssumption DEF LoadInv, Refusals
  <2>2. /\ HeaderByte(1) = 0 /\ HeaderByte(2) = 97 /\ HeaderByte(3) = 115 /\ HeaderByte(4) = 109
        /\ HeaderByte(5) = 1 /\ HeaderByte(6) = 0 /\ HeaderByte(7) = 0 /\ HeaderByte(8) = 0
    <3>1. \A i \in 1 .. 4 : /\ HeaderByte(i) = <<0, 97, 115, 109>>[i]
                            /\ HeaderByte(i + 4) = <<1, 0, 0, 0>>[i]
      BY <2>1 DEF MagicOK, VersionOK
    <3> QED BY <3>1
  <2>3. \A i \in 1 .. 8 : i <= Len(h) => HeaderByte(i) = h[i]
    BY DEF HeaderByte
  <2>4. \A i \in 1 .. 8 : ~(i <= Len(h)) => HeaderByte(i) = 0
    BY DEF HeaderByte
  <2> HIDE DEF h
  <2>5. Len(h) = 8
    <3>1. Len(h) \in Nat
      BY <2>1
    <3>2. 5 <= Len(h)
      BY <2>2, <2>4, <3>1
    <3>3. Len(h) <= 8 /\ Len(h) \notin 5 .. 7
      BY <2>1
    <3> HIDE DEF h
    <3>4. ASSUME NEW n \in Nat, 5 <= n, n <= 8, n \notin 5 .. 7 PROVE n = 8
      BY <3>4
    <3> QED BY <3>1, <3>2, <3>3, <3>4
  <2>6. /\ h[1] = 0 /\ h[2] = 97 /\ h[3] = 115 /\ h[4] = 109
        /\ h[5] = 1 /\ h[6] = 0 /\ h[7] = 0 /\ h[8] = 0
    BY <2>2, <2>3, <2>5
  <2>7. h = <<0, 97, 115, 109, 1, 0, 0, 0>>
    BY <2>1, <2>5, <2>6
  <2> QED BY <2>7 DEF h
<1> QED BY <1>1, LoadInvariant, PTL
=============================================================================
