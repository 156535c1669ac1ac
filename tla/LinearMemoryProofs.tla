------------------------- MODULE LinearMemoryProofs -------------------------
(***************************************************************************)
(* For every page size of 8 bytes or more, every number of pages and every *)
(* operand: the size stays within its limits and, unless a memory begins   *)
(* with no page, no accepted access leaves the block.  The access test     *)
(* bounds an address by the number of pages; that there is a page at all,  *)
(* and that block = pages * PageSize, turn that into a bound in bytes, so  *)
(* that the second invariant rests on the first.                           *)
(***************************************************************************)
EXTENDS LinearMemory, TLAPS

SizeInv == MemTypeOK /\ SizeWithinLimits

NonEmpty == outcome \in {"instantiating", "running"} => pages # 0
AccessInv == NonEmpty /\ AccessInside

\* A conversion to size_t changes no number that size_t can hold.
LEMMA ToSizeSmall == ASSUME NEW n \in Nat, n < SizeSize PROVE ToSize(n) = n
BY SizeSizeAssumption DEF ToSize

\* A conversion to int32_t is an integer.
LEMMA ToIntInt == ASSUME NEW n \in Int PROVE ToInt(n) \in Int
<1>1. WordSize \in Int /\ WordSize > 0 /\ WordSize \div 2 \in Int
  BY WordSizeAssumption, MaxPagesAssumption
<1>2. n % WordSize \in Int
  BY <1>1
<1> QED BY <1>1, <1>2 DEF ToInt

\* Bytes above the old end that are cleared again leave the old bytes alone.
LEMMA ClearedRange ==
  ASSUME NEW a \in Nat, NEW b \in Nat, a <= b, NEW bytes, bytes \subseteq 0 .. a - 1
  PROVE  /\ (bytes \cup (a .. b - 1)) \ (a .. b - 1) \subseteq 0 .. b - 1
         /\ (bytes \cup (a .. b - 1)) \ (a .. b - 1) \subseteq Int
<1>1. \A i \in 0 .. a - 1 : i \in 0 .. b - 1 /\ i \in Int
  OBVIOUS
<1>2. (bytes \cup (a .. b - 1)) \ (a .. b - 1) \subseteq 0 .. a - 1
  OBVIOUS
<1> QED BY <1>1, <1>2

\* Bytes written inside a block leave all bytes inside it.
LEMMA WrittenRange ==
  ASSUME NEW b \in Nat, NEW bytes, bytes \subseteq 0 .. b - 1,
         NEW at \in Nat, NEW len \in Nat, at + len <= b
  PROVE  /\ bytes \cup (at .. at + len - 1) \subseteq 0 .. b - 1
         /\ bytes \cup (at .. at + len - 1) \subseteq Int
<1>1. \A i \in at .. at + len - 1 : i \in 0 .. b - 1
  OBVIOUS
<1>2. 0 .. b - 1 \subseteq Int
  OBVIOUS
<1> QED BY <1>1, <1>2

\* More pages have more bytes.
LEMMA PagesOrder ==
  ASSUME NEW m \in Nat, NEW n \in Nat, m <= n
  PROVE  m * PageSize \in Nat /\ n * PageSize \in Nat /\ m * PageSize <= n * PageSize
<1>1. PICK d \in Nat : n = m + d
  <2>1. n - m \in Nat /\ n = m + (n - m)
    OBVIOUS
  <2> QED BY <2>1
<1>2. (m + d) * PageSize = m * PageSize + d * PageSize /\ d * PageSize \in Nat
  BY PageSizeAssumption
<1> QED BY <1>1, <1>2, PageSizeAssumption

\* From one page on: eight bytes a page, and size_t counts the bytes.
LEMMA PagesInBytes ==
  ASSUME NEW n \in Nat, n \in 1 .. WordSize
  PROVE  /\ n * PageSize \in Nat /\ 8 * n <= n * PageSize
         /\ n * PageSize < SizeSize
<1>1. PICK k \in Nat : PageSize = 8 + k
  <2>1. PageSize - 8 \in Nat /\ PageSize = 8 + (PageSize - 8)
    BY PageSizeAssumption
  <2> QED BY <2>1
<1>2. n * (8 + k) = 8 * n + n * k /\ n * k \in Nat
  OBVIOUS
<1>3. n <= WordSize /\ WordSize \in Nat
  BY WordSizeAssumption
<1>4. n * PageSize <= WordSize * PageSize
  BY <1>3, PagesOrder
<1>5. WordSize * PageSize = PageSize * WordSize
  BY <1>3, PageSizeAssumption
<1> QED BY <1>1, <1>2, <1>4, <1>5, PageSizeAssumption, SizeSizeAssumption, <1>3

\* A conversion to size_t is a natural number.
LEMMA ToSizeNat == ASSUME NEW n \in Int PROVE ToSize(n) \in Nat
<1>1. WordSize \in 1 .. WordSize /\ WordSize \in Nat
  BY WordSizeAssumption, MaxPagesAssumption
<1>2. WordSize * PageSize \in Nat /\ WordSize * PageSize < SizeSize
  BY <1>1, PagesInBytes
<1>3. SizeSize \in Nat /\ SizeSize > 0
  BY <1>2, SizeSizeAssumption
<1> QED BY <1>3 DEF ToSize

\* The access test, in pages, keeps every byte of the access in the block.
LEMMA AccessFits ==
  ASSUME NEW ea \in Nat, ea < WordSize, NEW size \in Accesses,
         pages \in 1 .. MaxPages, InBounds(ea, size.t)
  PROVE  ea + size.c <= pages * PageSize /\ size.c \in Nat
<1>1. pages \in 1 .. WordSize /\ WordSize \in 1 .. WordSize /\ pages \in Nat /\ WordSize \in Nat
  BY MaxPagesAssumption, WordSizeAssumption
<1>2. pages \in Nat /\ 8 * pages <= pages * PageSize /\ pages * PageSize \in Nat
  BY <1>1, PagesInBytes
<1>3. ea + 1 < SizeSize
  <2>1. 8 * WordSize <= WordSize * PageSize /\ WordSize * PageSize < SizeSize
    BY <1>1, PagesInBytes
  <2>2. SizeSize \in Nat /\ WordSize * PageSize \in Nat
    BY <1>1, PageSizeAssumption, SizeSizeAssumption
  <2>3. ea + 1 <= WordSize /\ WordSize <= 8 * WordSize
    BY <1>1
  <2> QED BY <2>1, <2>2, <2>3, <1>1
<1>4. \/ size.t = 4 /\ size.c \in {1, 2, 4}
      \/ size.t = 8 /\ size.c \in {1, 2, 4, 8}
  BY DEF Accesses
<1>5. CASE size.t = 4
  <2>1. size.t \div 8 = 0
    BY <1>5
  <2>2. ea <= pages
    BY <2>1, <1>3, ToSizeSmall, SizeSizeAssumption DEF InBounds
  <2> QED BY <2>2, <1>2, <1>4, <1>5
<1>6. CASE size.t = 8
  <2>1. size.t \div 8 = 1
    BY <1>6
  <2>2. ea + 1 <= pages
    BY <2>1, <1>3, ToSizeSmall, SizeSizeAssumption DEF InBounds
  <2> QED BY <2>2, <1>2, <1>4, <1>6
<1> QED BY <1>4, <1>5, <1>6

\* A data segment that passes its test lies in the block.
LEMMA SegmentFits ==
  ASSUME NEW seg \in Segments, pages \in 1 .. MaxPages,
         ToSize(ToSize(seg.at) + seg.len) < ToSize(pages * PageSize)
  PROVE  /\ seg.at \in Nat /\ seg.len \in Nat
         /\ seg.at + seg.len <= pages * PageSize
<1>1. pages \in 1 .. WordSize /\ WordSize \in 1 .. WordSize /\ pages \in Nat /\ WordSize \in Nat
  BY MaxPagesAssumption, WordSizeAssumption
<1>2. /\ seg.at \in Nat /\ seg.len \in Nat
      /\ seg.at < WordSize /\ seg.len < WordSize
  BY SegmentsAssumption, <1>1
<1>3. 8 * WordSize <= WordSize * PageSize /\ WordSize * PageSize < SizeSize
  BY <1>1, PagesInBytes
<1>4. pages * PageSize \in Nat /\ pages * PageSize < SizeSize
  BY <1>1, PagesInBytes
<1>5. seg.at < SizeSize /\ seg.at + seg.len < SizeSize /\ seg.at + seg.len \in Nat
  <2>1. SizeSize \in Nat /\ WordSize * PageSize \in Nat
    BY <1>1, PageSizeAssumption, SizeSizeAssumption
  <2>2. seg.at + seg.len <= 8 * WordSize /\ seg.at <= 8 * WordSize
    BY <1>1, <1>2
  <2> QED BY <2>1, <2>2, <1>1, <1>2, <1>3
<1>6. ToSize(seg.at) = seg.at /\ ToSize(seg.at + seg.len) = seg.at + seg.len
  BY <1>2, <1>5, ToSizeSmall
<1>7. ToSize(pages * PageSize) = pages * PageSize
  BY <1>4, ToSizeSmall
<1> QED BY <1>2, <1>5, <1>6, <1>7, <1>4

\* The size resizeMem computes is a natural number.
LEMMA GrowTotal ==
  ASSUME NEW n \in Delta, pages \in Nat
  PROVE  ToSize(pages + ToInt(n + pages \div PageSize)) \in Nat
<1>1. pages \div PageSize \in Int /\ n \in Int
  BY PageSizeAssumption, OperandsAssumption, WordSizeAssumption
<1>2. ToInt(n + pages \div PageSize) \in Int
  BY <1>1, ToIntInt
<1> QED BY <1>2, ToSizeNat

-----------------------------------------------------------------------------
(* The size.                                                               *)

\* The initial states satisfy the invariant of the size.
LEMMA SizeInitInv == MemInit => SizeInv
<1> SUFFICES ASSUME MemInit PROVE SizeInv
  OBVIOUS
<1>1. pages \in 0 .. MaxPages /\ pages \in Nat /\ limit \in Nat
  BY InitialAssumption, MaxPagesAssumption DEF MemInit
<1>2. pages * PageSize \in Nat
  BY <1>1, PageSizeAssumption
<1> QED
  BY <1>1, <1>2 DEF MemInit, SizeInv, MemTypeOK, SizeWithinLimits

\* Every step keeps it: the size changes only where resizeMem accepts a new one.
LEMMA SizeNextInv == SizeInv /\ [MemNext]_memVars => SizeInv'
<1> SUFFICES ASSUME SizeInv, [MemNext]_memVars PROVE SizeInv'
  OBVIOUS
<1>1. pages \in Nat /\ limit \in Nat /\ block \in Nat /\ dirty \subseteq Int
  BY DEF SizeInv, MemTypeOK
<1>2. ASSUME NEW error \in {"MEM_DATA_EXCEED_MAX", "MEM_ACCESS_OOB"},
             NEW at, NEW len, Refuse(error, at, len)
      PROVE  SizeInv'
  BY <1>1, <1>2 DEF Refuse, SizeInv, MemTypeOK, SizeWithinLimits
<1>3. ASSUME NEW seg \in Segments, DataSegment(seg) PROVE SizeInv'
  <2>1. CASE Refuse("MEM_DATA_EXCEED_MAX", seg.at, seg.len)
    BY <1>2, <2>1
  <2>2. CASE /\ dirty' = dirty \cup (seg.at .. seg.at + seg.len - 1)
             /\ last' = [op |-> "data", at |-> seg.at, len |-> seg.len]
             /\ UNCHANGED <<pages, limit, block, outcome>>
    <3>1. seg.at \in Int /\ seg.len \in Int
      BY SegmentsAssumption, WordSizeAssumption
    <3>2. seg.at .. seg.at + seg.len - 1 \subseteq Int
      BY <3>1
    <3> QED BY <1>1, <2>2, <3>2 DEF SizeInv, MemTypeOK, SizeWithinLimits
  <2> QED BY <1>3, <2>1, <2>2 DEF DataSegment
<1>4. ASSUME Instantiated PROVE SizeInv'
  BY <1>4 DEF Instantiated, SizeInv, MemTypeOK, SizeWithinLimits
<1>5. ASSUME NEW op \in {"load", "store"}, NEW addr \in Address, NEW offset \in Offset,
             NEW size \in Accesses, Access(op, addr, offset, size)
      PROVE  SizeInv'
  <2> DEFINE ea == EffectiveAddr(addr, offset)
  <2>1. CASE Refuse("MEM_ACCESS_OOB", (addr % WordSize) + offset, size.c)
    BY <1>2, <2>1
  <2>2. CASE /\ last' = [op |-> op, at |-> ea, len |-> size.c]
             /\ dirty' = IF op = "store" THEN dirty \cup (ea .. ea + size.c - 1) ELSE dirty
             /\ UNCHANGED <<pages, limit, block, outcome>>
    <3>1. ea \in Int /\ size.c \in Int
      BY WordSizeAssumption, OperandsAssumption, MaxPagesAssumption DEF EffectiveAddr, Accesses
    <3> HIDE DEF ea
    <3>2. ea .. ea + size.c - 1 \subseteq Int
      BY <3>1
    <3>3. dirty' \subseteq Int
      BY <1>1, <2>2, <3>2
    <3> QED BY <1>1, <2>2, <3>3 DEF SizeInv, MemTypeOK, SizeWithinLimits
  <2> QED BY <1>5, <2>1, <2>2 DEF Access
<1>6. ASSUME MemorySize PROVE SizeInv'
  BY <1>6 DEF MemorySize, SizeInv, MemTypeOK, SizeWithinLimits
<1>7. ASSUME NEW n \in Delta, MemoryGrow(n) PROVE SizeInv'
  <2> DEFINE delta == ToInt(n + pages \div PageSize)
             total == ToSize(pages + delta)
             added == block .. total * PageSize - 1
             cleared == pages * PageSize .. total * PageSize - 1
  <2>1. Resize(n, delta)
    BY <1>7 DEF MemoryGrow
  <2>2. total \in Nat
    BY <1>1, <1>7, GrowTotal
  <2> HIDE DEF delta
  <2>3. CASE Grown(n, -1) /\ UNCHANGED <<pages, limit, block, dirty, outcome>>
    BY <1>1, <2>3 DEF Grown, SizeInv, MemTypeOK, SizeWithinLimits
  <2>4. CASE /\ total <= MaxPages /\ (limit = 0 \/ total <= limit)
             /\ total >= pages /\ total > 0
             /\ pages' = total /\ block' = total * PageSize
             /\ dirty' = (dirty \cup added) \ cleared
             /\ Grown(n, ToInt(pages)) /\ UNCHANGED <<limit, outcome>>
    <3> HIDE DEF total
    <3>1. total \in 0 .. MaxPages /\ total * PageSize \in Nat
      BY <2>2, <2>4, MaxPagesAssumption, PageSizeAssumption
    <3>2. added \subseteq Int
      BY <1>1, <3>1
    <3>3. dirty' \subseteq Int
      BY <1>1, <2>4, <3>2
    <3> QED BY <1>1, <2>2, <2>4, <3>1, <3>3 DEF Grown, SizeInv, MemTypeOK, SizeWithinLimits
  <2>5. CASE outcome' = "undefined" /\ UNCHANGED <<pages, limit, block, dirty, last>>
    BY <1>1, <2>5 DEF SizeInv, MemTypeOK, SizeWithinLimits
  <2> QED BY <2>1, <2>3, <2>4, <2>5 DEF Resize
<1>8. CASE UNCHANGED memVars
  BY <1>8 DEF memVars, SizeInv, MemTypeOK, SizeWithinLimits
<1> QED BY <1>3, <1>4, <1>5, <1>6, <1>7, <1>8 DEF MemNext

\* The variables keep the ranges of their C++ types.
THEOREM MemTypeCorrect == MemSpec => []MemTypeOK
<1>1. SizeInv => MemTypeOK
  BY DEF SizeInv
<1> QED BY <1>1, SizeInitInv, SizeNextInv, PTL DEF MemSpec

\* The size in pages stays within the module's limit and the address space, and
\* the block that realloc returned last always has the bytes of those pages.
THEOREM SizeStaysWithinLimits == MemSpec => []SizeWithinLimits
<1>1. SizeInv => SizeWithinLimits
  BY DEF SizeInv
<1> QED BY <1>1, SizeInitInv, SizeNextInv, PTL DEF MemSpec

-----------------------------------------------------------------------------
(* The accesses.                                                           *)

\* A memory that begins with a page satisfies the invariant of the accesses.
LEMMA AccessInitInv == 0 \notin Initial /\ MemInit => AccessInv
<1> SUFFICES ASSUME 0 \notin Initial, MemInit PROVE AccessInv
  OBVIOUS
<1>1. pages # 0
  BY DEF MemInit
<1> QED BY <1>1 DEF MemInit, AccessInv, NonEmpty, AccessInside

\* Every step keeps it: the size never goes down to zero, and each access is
\* compared with a number that is at most the number of bytes.
LEMMA AccessNextInv == SizeInv /\ AccessInv /\ [MemNext]_memVars => AccessInv'
<1> SUFFICES ASSUME SizeInv, AccessInv, [MemNext]_memVars PROVE AccessInv'
  OBVIOUS
<1>1. /\ pages \in Nat /\ limit \in Nat /\ block \in Nat /\ dirty \subseteq Int
      /\ dirty \subseteq 0 .. block - 1
  BY DEF SizeInv, MemTypeOK, AccessInv, AccessInside
<1>2. ASSUME NEW seg \in Segments, DataSegment(seg) PROVE AccessInv'
  <2>1. pages \in 1 .. MaxPages /\ block = pages * PageSize
    BY <1>2 DEF SizeInv, SizeWithinLimits, AccessInv, NonEmpty, DataSegment
  <2>2. CASE ToSize(ToSize(seg.at) + seg.len) < ToSize(pages * PageSize)
    <3>1. seg.at \in Nat /\ seg.len \in Nat /\ seg.at + seg.len <= block
      BY <2>1, <2>2, SegmentFits
    <3>2. ~(ToSize(ToSize(seg.at) + seg.len) >= ToSize(pages * PageSize))
      <4>1. pages * PageSize \in Int
        BY <1>1, PageSizeAssumption
      <4>2. ToSize(pages * PageSize) \in Nat /\ ToSize(seg.at) \in Nat
        BY <4>1, <3>1, ToSizeNat
      <4>3. ToSize(ToSize(seg.at) + seg.len) \in Nat
        BY <4>2, <3>1, ToSizeNat
      <4> QED BY <4>2, <4>3, <2>2
    <3>3. /\ dirty' = dirty \cup (seg.at .. seg.at + seg.len - 1)
          /\ last' = [op |-> "data", at |-> seg.at, len |-> seg.len]
          /\ UNCHANGED <<pages, limit, block, outcome>>
      BY <1>2, <3>2 DEF DataSegment
    <3>4. dirty' \subseteq 0 .. block - 1 /\ dirty' \subseteq Int
      BY <1>1, <3>1, <3>3, WrittenRange
    <3> QED
      BY <1>1, <3>1, <3>3, <3>4 DEF AccessInv, NonEmpty, AccessInside
  <2>3. CASE ~(ToSize(ToSize(seg.at) + seg.len) < ToSize(pages * PageSize))
    <3>1. Refuse("MEM_DATA_EXCEED_MAX", seg.at, seg.len)
      BY <1>2, <2>3 DEF DataSegment
    <3> QED
      BY <1>1, <3>1 DEF Refuse, AccessInv, NonEmpty, AccessInside
  <2> QED BY <2>2, <2>3
<1>3. ASSUME Instantiated PROVE AccessInv'
  BY <1>3 DEF Instantiated, AccessInv, NonEmpty, AccessInside
<1>4. ASSUME NEW op \in {"load", "store"}, NEW addr \in Address, NEW offset \in Offset,
             NEW size \in Accesses, Access(op, addr, offset, size)
      PROVE  AccessInv'
  <2> DEFINE ea == EffectiveAddr(addr, offset)
  <2>1. pages \in 1 .. MaxPages /\ block = pages * PageSize
    BY <1>4 DEF SizeInv, SizeWithinLimits, AccessInv, NonEmpty, Access
  <2>2. CASE InBounds(ea, size.t)
    <3>1. ea \in Nat /\ ea < WordSize
      BY WordSizeAssumption, OperandsAssumption, MaxPagesAssumption DEF EffectiveAddr
    <3>2. ea + size.c <= block /\ size.c \in Nat
      BY <2>1, <2>2, <3>1, AccessFits
    <3>3. /\ last' = [op |-> op, at |-> ea, len |-> size.c]
          /\ dirty' = IF op = "store" THEN dirty \cup (ea .. ea + size.c - 1) ELSE dirty
          /\ UNCHANGED <<pages, limit, block, outcome>>
      BY <1>4, <2>2 DEF Access
    <3> HIDE DEF ea
    <3>5. dirty' \subseteq 0 .. block - 1 /\ dirty' \subseteq Int
      <4>1. CASE op = "store"
        BY <1>1, <3>1, <3>2, <3>3, <4>1, WrittenRange
      <4>2. CASE op # "store"
        BY <1>1, <3>3, <4>2
      <4> QED BY <4>1, <4>2
    <3> QED
      BY <1>1, <3>1, <3>2, <3>3, <3>5 DEF AccessInv, NonEmpty, AccessInside
  <2>3. CASE ~InBounds(ea, size.t)
    <3>1. Refuse("MEM_ACCESS_OOB", (addr % WordSize) + offset, size.c)
      BY <1>4, <2>3 DEF Access
    <3> QED
      BY <1>1, <3>1 DEF Refuse, AccessInv, NonEmpty, AccessInside
  <2> QED BY <2>2, <2>3
<1>5. ASSUME MemorySize PROVE AccessInv'
  BY <1>5 DEF MemorySize, AccessInv, NonEmpty, AccessInside
<1>6. ASSUME NEW n \in Delta, MemoryGrow(n) PROVE AccessInv'
  <2> DEFINE delta == ToInt(n + pages \div PageSize)
             total == ToSize(pages + delta)
             added == block .. total * PageSize - 1
             cleared == pages * PageSize .. total * PageSize - 1
  <2>1. pages \in 1 .. MaxPages /\ block = pages * PageSize
    BY <1>6 DEF SizeInv, SizeWithinLimits, AccessInv, NonEmpty, MemoryGrow
  <2>2. total \in Nat
    BY <1>1, <1>6, GrowTotal
  <2>3. Resize(n, delta)
    BY <1>6 DEF MemoryGrow
  <2> HIDE DEF delta
  <2>4. CASE Grown(n, -1) /\ UNCHANGED <<pages, limit, block, dirty, outcome>>
    BY <1>1, <2>4 DEF Grown, AccessInv, NonEmpty, AccessInside
  <2>5. CASE /\ total <= MaxPages /\ (limit = 0 \/ total <= limit)
             /\ total >= pages /\ total > 0
             /\ pages' = total /\ block' = total * PageSize
             /\ dirty' = (dirty \cup added) \ cleared
             /\ Grown(n, ToInt(pages)) /\ UNCHANGED <<limit, outcome>>
    <3> HIDE DEF total
    <3>1. total \in 1 .. MaxPages
      BY <2>1, <2>2, <2>5, MaxPagesAssumption
    <3>2. /\ total * PageSize \in Nat /\ pages * PageSize \in Nat
          /\ pages * PageSize <= total * PageSize
      BY <1>1, <2>2, <2>5, PagesOrder
    <3>3. dirty' \subseteq 0 .. block' - 1 /\ dirty' \subseteq Int
      <4> DEFINE old == pages * PageSize
                 new == total * PageSize
      <4>1. dirty \subseteq 0 .. old - 1
        BY <1>1, <2>1
      <4>2. dirty' = (dirty \cup (old .. new - 1)) \ (old .. new - 1) /\ block' = new
        BY <2>1, <2>5
      <4>3. old \in Nat /\ new \in Nat /\ old <= new
        BY <3>2
      <4> HIDE DEF old, new
      <4> QED BY <4>1, <4>2, <4>3, ClearedRange
    <3>4. last'.op = "grow"
      BY <2>5 DEF Grown
    <3> QED
      BY <1>1, <2>2, <2>5, <3>1, <3>2, <3>3, <3>4
      DEF AccessInv, NonEmpty, AccessInside
  <2>6. CASE outcome' = "undefined" /\ UNCHANGED <<pages, limit, block, dirty, last>>
    BY <1>1, <2>6 DEF AccessInv, NonEmpty, AccessInside
  <2> QED BY <2>3, <2>4, <2>5, <2>6 DEF Resize
<1>7. CASE UNCHANGED memVars
  BY <1>7 DEF memVars, AccessInv, NonEmpty, AccessInside
<1> QED BY <1>2, <1>3, <1>4, <1>5, <1>6, <1>7 DEF MemNext

\* No load, store or data segment that the engine accepts leaves the block,
\* whatever its operands and the memory's history of growing, when no memory
\* begins empty.
THEOREM AcceptedAccessesInside == MemSpec => [](0 \notin Initial => AccessInside)
<1> DEFINE Inv == SizeInv /\ (0 \notin Initial => AccessInv)
<1>1. MemInit => Inv
  BY SizeInitInv, AccessInitInv
<1>2. Inv /\ [MemNext]_memVars => Inv'
  BY SizeNextInv, AccessNextInv
<1>3. Inv => (0 \notin Initial => AccessInside)
  BY DEF AccessInv
<1> QED BY <1>1, <1>2, <1>3, PTL DEF MemSpec

-----------------------------------------------------------------------------
(* memory.grow.                                                            *)

\* An int32_t that is one stays what it is.
LEMMA ToIntSmall ==
  ASSUME NEW n \in -(WordSize \div 2) .. WordSize \div 2 - 1
  PROVE  ToInt(n) = n
<1>1. WordSize \in Nat /\ WordSize > 0 /\ WordSize \div 2 \in Nat /\ 2 * (WordSize \div 2) <= WordSize
  BY WordSizeAssumption, MaxPagesAssumption
<1>2. CASE n >= 0
  <2>1. n % WordSize = n
    BY <1>1, <1>2
  <2> QED BY <1>1, <1>2, <2>1 DEF ToInt
<1>3. CASE n < 0
  <2>1. n + WordSize \in 0 .. WordSize - 1 /\ n + WordSize >= WordSize \div 2
    BY <1>1, <1>3
  <2>2. n % WordSize = n + WordSize
    BY <1>1, <1>3, <2>1
  <2> QED BY <1>1, <1>3, <2>1, <2>2 DEF ToInt
<1> QED BY <1>2, <1>3

LEMMA SizeSizeLarge ==
  SizeSize \in Nat /\ WordSize \in Nat /\ MaxPages \in Nat /\ WordSize \div 2 \in Nat
  /\ MaxPages < WordSize \div 2 /\ 2 * (WordSize \div 2) <= WordSize
  /\ WordSize \div 2 < WordSize /\ SizeSize > 8 * WordSize
<1>1. WordSize \in Nat /\ WordSize \div 2 > MaxPages /\ MaxPages \in Nat
  BY WordSizeAssumption, MaxPagesAssumption
<1>2. PageSize * WordSize >= 8 * WordSize
  BY <1>1, PageSizeAssumption
<1> QED BY <1>1, <1>2, SizeSizeAssumption, PageSizeAssumption

\* The sum of a size and an increment that is an int32_t, where it is accepted
\* as a size that is not smaller: the increment was taken as it is.
LEMMA SumAccepted ==
  ASSUME NEW p \in 0 .. MaxPages, NEW d \in -(WordSize \div 2) .. WordSize \div 2,
         ToSize(p + d) <= MaxPages
  PROVE  ToSize(p + d) = p + d
<1>1. p + d \in Int /\ p + d < SizeSize /\ p + d >= -WordSize
  BY SizeSizeLarge
<1>2. CASE p + d >= 0
  BY <1>1, <1>2, SizeSizeLarge, ToSizeSmall
<1>3. CASE p + d < 0
  <2>1. p + d + SizeSize \in 0 .. SizeSize - 1 /\ p + d + SizeSize > MaxPages
    BY <1>1, <1>3, SizeSizeLarge
  <2>2. ToSize(p + d) = p + d + SizeSize
    BY <1>1, <1>3, <2>1, SizeSizeLarge DEF ToSize
  <2>3. p + d + SizeSize <= MaxPages
    BY <2>2
  <2> QED BY <1>1, <2>1, <2>3, SizeSizeLarge
<1> QED BY <1>1, <1>2, <1>3

\* The first number that is no int32_t is taken for the least one.
LEMMA ToIntHalf == ToInt(WordSize \div 2) = WordSize \div 2 - WordSize
<1> DEFINE h == WordSize \div 2
<1>1. h \in Nat /\ WordSize \in Nat /\ h < WordSize
  BY SizeSizeLarge
<1>2. ToInt(h) = IF h % WordSize >= h THEN (h % WordSize) - WordSize ELSE h % WordSize
  BY DEF ToInt
<1> HIDE DEF h
<1>3. h % WordSize = h
  BY <1>1
<1>4. ToInt(h) = h - WordSize
  BY <1>1, <1>2, <1>3
<1> QED BY <1>4 DEF h

\* A size that is divided by the page size: there are no more pages than a page
\* has bytes.
LEMMA PagesPerPage ==
  ASSUME MaxPages <= PageSize, NEW p \in 0 .. MaxPages
  PROVE  /\ p < PageSize => p \div PageSize = 0
         /\ p >= PageSize => p = MaxPages /\ p \div PageSize = 1
<1>1. PageSize \in Nat /\ PageSize > 0 /\ p \in Nat /\ MaxPages \in Nat
  BY PageSizeAssumption, MaxPagesAssumption
<1>2. p < PageSize => p \div PageSize = 0
  BY <1>1
<1>3. p >= PageSize => p = MaxPages /\ p = PageSize
  BY <1>1
<1>4. PageSize \div PageSize = 1
  BY <1>1
<1> QED BY <1>2, <1>3, <1>4

\* A grow that is accepted adds the operand, except by -1 at the largest size.
LEMMA GrowsByOperand ==
  ASSUME MaxPages <= PageSize, NEW n \in Delta, n # -1, NEW p \in 0 .. MaxPages,
         NEW total, total = ToSize(p + ToInt(n + p \div PageSize)), total <= MaxPages, p <= total
  PROVE  total = p + n
<1>1. n \in -(WordSize \div 2) .. WordSize \div 2 - 1 /\ p \in Nat
  BY OperandsAssumption, SizeSizeLarge
<1>2. CASE p < PageSize
  <2>1. n + p \div PageSize = n
    BY <1>1, <1>2, PagesPerPage, SizeSizeLarge
  <2>2. total = ToSize(p + n)
    BY <1>1, <2>1, ToIntSmall
  <2>3. n \in -(WordSize \div 2) .. WordSize \div 2 /\ ToSize(p + n) <= MaxPages
    BY <1>1, <2>2, SizeSizeLarge
  <2> QED BY <2>2, <2>3, SumAccepted
<1>3. CASE ~(p < PageSize)
  <2>1. n + p \div PageSize = n + 1 /\ p = MaxPages
    BY <1>1, <1>3, PagesPerPage, PageSizeAssumption, SizeSizeLarge
  <2>2. CASE n + 1 < WordSize \div 2
    <3>1. n + 1 \in -(WordSize \div 2) .. WordSize \div 2 - 1
      BY <1>1, <2>2, SizeSizeLarge
    <3>2. ToInt(n + 1) = n + 1
      BY <3>1, ToIntSmall
    <3>3. total = p + (n + 1)
      <4>1. n + 1 \in -(WordSize \div 2) .. WordSize \div 2
        BY <3>1, SizeSizeLarge
      <4>2. total = ToSize(p + (n + 1)) /\ ToSize(p + (n + 1)) <= MaxPages
        BY <2>1, <3>2
      <4> QED BY <4>1, <4>2, SumAccepted
    <3> QED BY <1>1, <2>1, <3>3, SizeSizeLarge
  <2>3. CASE ~(n + 1 < WordSize \div 2)
    <3> DEFINE h == WordSize \div 2
               sum == p + (h - WordSize)
    <3>1. n + 1 = h /\ ToInt(h) = h - WordSize
      BY <1>1, <2>3, SizeSizeLarge, ToIntHalf
    <3>2. total = ToSize(sum)
      BY <2>1, <3>1
    <3>3. h \in Nat /\ MaxPages < h /\ 2 * h <= WordSize
      BY SizeSizeLarge
    <3> HIDE DEF h
    <3>4. sum \in Int /\ sum < 0 /\ sum + SizeSize \in 0 .. SizeSize - 1 /\ sum + SizeSize > MaxPages
      BY <1>1, <3>3, SizeSizeLarge
    <3> HIDE DEF sum
    <3>5. ToSize(sum) = sum + SizeSize
      BY <3>4, SizeSizeLarge DEF ToSize
    <3>6. sum + SizeSize <= MaxPages
      BY <3>2, <3>5
    <3> QED BY <3>4, <3>6, SizeSizeLarge
  <2> QED BY <2>2, <2>3
<1> QED BY <1>2, <1>3

\* Bytes above the end that are cleared leave the contents as they were.
LEMMA ClearedSame ==
  ASSUME NEW a \in Nat, NEW b \in Nat, NEW bytes, bytes \subseteq 0 .. a - 1
  PROVE  (bytes \cup (a .. b - 1)) \ (a .. b - 1) = bytes
<1>1. \A i \in 0 .. a - 1 : i \notin a .. b - 1
  OBVIOUS
<1> QED BY <1>1

LEMMA GrowNext ==
  ASSUME MaxPages <= PageSize, -1 \notin Delta,
         SizeInv, AccessInv, [MemNext]_memVars
  PROVE  [GrowStep]_memVars
<1>1. ASSUME pages' = pages, last'.op # "grow" PROVE GrowStep
  BY <1>1 DEF GrowStep
<1>2. ASSUME NEW error, NEW at, NEW len, Refuse(error, at, len) PROVE GrowStep
  BY <1>2, <1>1 DEF Refuse
<1>3. ASSUME NEW seg \in Segments, DataSegment(seg) PROVE GrowStep
  <2>1. CASE Refuse("MEM_DATA_EXCEED_MAX", seg.at, seg.len)
    BY <2>1, <1>2
  <2>2. CASE last' = [op |-> "data", at |-> seg.at, len |-> seg.len] /\ pages' = pages
    BY <2>2, <1>1
  <2> QED BY <1>3, <2>1, <2>2 DEF DataSegment
<1>4. ASSUME NEW op \in {"load", "store"}, NEW addr \in Address, NEW offset \in Offset,
             NEW size \in Accesses, Access(op, addr, offset, size)
      PROVE  GrowStep
  <2> DEFINE ea == EffectiveAddr(addr, offset)
  <2>1. CASE Refuse("MEM_ACCESS_OOB", (addr % WordSize) + offset, size.c)
    BY <2>1, <1>2
  <2>2. CASE last' = [op |-> op, at |-> ea, len |-> size.c] /\ pages' = pages
    <3>1. last'.op = op
      BY <2>2
    <3> QED BY <2>2, <3>1, <1>1
  <2> QED BY <1>4, <2>1, <2>2 DEF Access
<1>5. CASE Instantiated
  BY <1>5 DEF Instantiated, GrowStep
<1>6. CASE MemorySize
  BY <1>6, <1>1 DEF MemorySize
<1>7. ASSUME NEW n \in Delta, MemoryGrow(n) PROVE GrowStep
  <2> DEFINE delta == ToInt(n + pages \div PageSize)
             total == ToSize(pages + delta)
             old == pages * PageSize
             new == total * PageSize
  <2>1. pages \in 0 .. MaxPages /\ pages \in Nat /\ block = old /\ dirty \subseteq 0 .. block - 1
    BY <1>7, MaxPagesAssumption DEF SizeInv, SizeWithinLimits, AccessInv, AccessInside, MemoryGrow
  <2>2. total \in Nat
    BY <2>1, <1>7, GrowTotal
  <2>3. Resize(n, delta)
    BY <1>7 DEF MemoryGrow
  <2>4. n # -1
    BY <1>7
  <2>5. total <= MaxPages /\ pages <= total => total = pages + n
    BY <2>1, <2>4, GrowsByOperand
  <2>6. n \in Int
    BY <1>7, OperandsAssumption, SizeSizeLarge
  <2> HIDE DEF delta
  <2>7. CASE Grown(n, -1) /\ UNCHANGED <<pages, limit, block, dirty, outcome>>
    BY <2>7 DEF Grown, GrowStep
  <2>8. CASE /\ total <= MaxPages /\ (limit = 0 \/ total <= limit)
             /\ total >= pages /\ total > 0
             /\ pages' = total /\ block' = new
             /\ dirty' = (dirty \cup (block .. new - 1)) \ (old .. new - 1)
             /\ Grown(n, ToInt(pages)) /\ UNCHANGED <<limit, outcome>>
    <3> HIDE DEF total
    <3>1. total = pages + n
      BY <2>1, <2>2, <2>5, <2>8
    <3>2. ToInt(pages) = pages
      <4>1. pages \in -(WordSize \div 2) .. WordSize \div 2 - 1
        BY <2>1, SizeSizeLarge
      <4> QED BY <4>1, ToIntSmall
    <3>3. last' = [op |-> "grow", n |-> n, ret |-> pages]
      BY <2>8, <3>2 DEF Grown
    <3>4. dirty' = dirty
      <4>1. old \in Nat /\ new \in Nat
        BY <2>1, <2>2, PageSizeAssumption
      <4>2. dirty \subseteq 0 .. old - 1 /\ dirty' = (dirty \cup (old .. new - 1)) \ (old .. new - 1)
        BY <2>1, <2>8
      <4> HIDE DEF old, new
      <4> QED BY <4>1, <4>2, ClearedSame
    <3>5. n = pages' - pages /\ (pages' = pages => n = 0)
      BY <2>1, <2>6, <2>8, <3>1
    <3>6. last'.op = "grow" /\ last'.n = n /\ last'.ret = pages
      BY <3>3
    <3> QED BY <3>4, <3>5, <3>6 DEF GrowStep
  <2>9. CASE outcome' = "undefined" /\ UNCHANGED <<pages, limit, block, dirty, last>>
    BY <2>9 DEF GrowStep
  <2> QED BY <2>3, <2>7, <2>8, <2>9 DEF Resize
<1> QED BY <1>3, <1>4, <1>5, <1>6, <1>7 DEF MemNext

\* memory.grow answers -1 and leaves the memory alone, or adds the pages asked
\* for, all zero, and answers the old size: of memories that do not begin empty,
\* when there are no more pages than a page has bytes, and for every operand but
\* -1, which is taken for 0 by a memory of the largest size.
THEOREM GrowFaithfulAlways ==
  ASSUME 0 \notin Initial, MaxPages <= PageSize, -1 \notin Delta
  PROVE  MemSpec => GrowFaithful
<1> DEFINE Inv == SizeInv /\ AccessInv
<1>1. MemInit => Inv
  BY SizeInitInv, AccessInitInv
<1>2. Inv /\ [MemNext]_memVars => Inv'
  BY SizeNextInv, AccessNextInv
<1>3. Inv /\ [MemNext]_memVars => [GrowStep]_memVars
  BY GrowNext
<1> QED BY <1>1, <1>2, <1>3, PTL DEF MemSpec, GrowFaithful
=============================================================================
