---------------------------- MODULE LinearMemory ----------------------------
(***************************************************************************)
(* The default memory: its allocation and data segments                    *)
(* (lib/instantiator.cc), memory.size, memory.grow and the loads and       *)
(* stores (lib/interpreter.cc), and Executor::resizeMem                    *)
(* (lib/include/executor.hh).                                              *)
(*                                                                         *)
(* The operands are any integers of their width.  The widths are those of  *)
(* the C++ types, scaled: PageSize * MaxPages is 2^Width as 2^16 * 2^16 is *)
(* 2^32, and size_t is wide enough for every product.  Of the contents the *)
(* set of bytes that may differ from zero is kept.                         *)
(***************************************************************************)
EXTENDS Integers

CONSTANTS PageSize,   \* WASM_PAGE_SIZE_IN_BYTE
          MaxPages,   \* WASM_MAX_PAGES
          WordSize,   \* 2^32: the number of values of an i32
          SizeSize,   \* 2^64: the number of values of a size_t
          Initial,    \* initial sizes of the memories at hand, in pages
          Segments,   \* offsets and lengths of data segments: [at, len]
          Address,    \* i32 operands of loads and stores
          Offset,     \* their immediates
          Delta       \* i32 operands of memory.grow

ASSUME PageSizeAssumption == PageSize \in Nat /\ PageSize >= 8
ASSUME MaxPagesAssumption == MaxPages \in Nat
ASSUME WordSizeAssumption == WordSize \in Nat /\ WordSize \div 2 > MaxPages
ASSUME SizeSizeAssumption == SizeSize \in Nat /\ SizeSize > PageSize * WordSize
ASSUME InitialAssumption == Initial \subseteq 0 .. MaxPages
ASSUME SegmentsAssumption ==
  Segments \subseteq [at : 0 .. WordSize - 1, len : 0 .. WordSize - 1]

ASSUME OperandsAssumption ==
  /\ Address \subseteq Int /\ Offset \subseteq Nat
  /\ Delta \subseteq -(WordSize \div 2) .. WordSize \div 2 - 1

VARIABLES pages,     \* rtMems[0].size
          limit,     \* rtMems[0].maximumPages, 0 when the module gives none
          block,     \* bytes allocated at rtMems[0].ptr
          dirty,     \* bytes that may differ from zero
          outcome,   \* "instantiating", "running", "undefined" or an error
          last       \* the operation just done: operands and result

memVars == <<pages, limit, block, dirty, outcome, last>>

\* Conversions: int32_t to size_t, size_t to int32_t.
ToSize(n) == n % SizeSize
ToInt(n) == LET m == n % WordSize IN IF m >= WordSize \div 2 THEN m - WordSize ELSE m

\* Exception::terminate, for the bytes at .. at + len - 1.
Refuse(error, at, len) ==
  /\ outcome' = error
  /\ last' = [op |-> "refused", at |-> at, len |-> len]
  /\ UNCHANGED <<pages, limit, block, dirty>>

-----------------------------------------------------------------------------
(* Instantiation.                                                          *)

MemInit ==
  /\ pages \in Initial
  /\ limit \in 0 .. MaxPages
  /\ block = pages * PageSize
  /\ dirty = {}
  /\ last = [op |-> "none"]
  /\ outcome = IF limit = 0 \/ pages <= limit THEN "instantiating" ELSE "MEM_EXCEED_MAX"

DataSegment(seg) ==
  LET end == ToSize(ToSize(seg.at) + seg.len) IN
  /\ outcome = "instantiating"
  /\ \/ /\ end < ToSize(pages * PageSize)
        /\ dirty' = dirty \cup (seg.at .. seg.at + seg.len - 1)
        /\ last' = [op |-> "data", at |-> seg.at, len |-> seg.len]
        /\ UNCHANGED <<pages, limit, block, outcome>>
     \/ end >= ToSize(pages * PageSize) /\ Refuse("MEM_DATA_EXCEED_MAX", seg.at, seg.len)

Instantiated ==
  /\ outcome = "instantiating"
  /\ outcome' = "running"
  /\ UNCHANGED <<pages, limit, block, dirty, last>>

-----------------------------------------------------------------------------
(* Loads and stores.                                                       *)

\* Sizes of the operand type T and of the memory type C, of every opcode.
Accesses == {[t |-> t, c |-> c] : t \in {4, 8}, c \in {1, 2, 4}} \cup {[t |-> 8, c |-> 8]}

\* i32 + u32: the effective address wraps.
EffectiveAddr(addr, offset) == (addr + offset) % WordSize

\* Mutant: compares with the size in bytes, and still counts one byte for eight.
InBoundsOfBytes(ea, t) == ToSize(ea + t \div 8) <= pages * PageSize

\* The test of the macros: it compares with the size in pages.
InBounds(ea, t) == ToSize(ea + t \div 8) <= pages

Access(op, addr, offset, size) ==
  LET ea == EffectiveAddr(addr, offset) IN
  /\ outcome = "running"
  /\ \/ /\ InBounds(ea, size.t)
        /\ last' = [op |-> op, at |-> ea, len |-> size.c]
        /\ dirty' = IF op = "store" THEN dirty \cup (ea .. ea + size.c - 1) ELSE dirty
        /\ UNCHANGED <<pages, limit, block, outcome>>
     \/ /\ ~InBounds(ea, size.t)
        /\ Refuse("MEM_ACCESS_OOB", (addr % WordSize) + offset, size.c)

-----------------------------------------------------------------------------
(* memory.size, memory.grow.                                               *)

MemorySize ==
  /\ outcome = "running"
  /\ last' = [op |-> "size", ret |-> ToInt(pages)]
  /\ UNCHANGED <<pages, limit, block, dirty, outcome>>

Grown(n, ret) == last' = [op |-> "grow", n |-> n, ret |-> ret]

\* Mutant: the cleared range begins where the block begins.
ResizeClearsAll(n, delta) ==
  LET total == ToSize(pages + delta) IN
  /\ total <= MaxPages /\ (limit = 0 \/ total <= limit) /\ total >= pages
  /\ pages' = total /\ block' = total * PageSize
  /\ dirty' = dirty \ (0 .. total * PageSize - 1)
  /\ Grown(n, ToInt(pages)) /\ UNCHANGED <<limit, outcome>>

\* Mutant: the limit of the module is not looked at.
ResizeUnlimited(n, delta) ==
  LET total == ToSize(pages + delta) IN
  /\ total <= MaxPages /\ total >= pages
  /\ pages' = total /\ block' = total * PageSize
  /\ Grown(n, ToInt(pages)) /\ UNCHANGED <<limit, dirty, outcome>>

\* Mutant: the sum is a signed number.
ResizeSigned(n, delta) ==
  /\ pages + delta <= MaxPages /\ (limit = 0 \/ pages + delta <= limit)
  /\ pages' = pages + delta /\ block' = (pages + delta) * PageSize
  /\ Grown(n, ToInt(pages)) /\ UNCHANGED <<limit, dirty, outcome>>

\* resizeMem: realloc may fail.  The bytes it adds hold anything until memset
\* clears them.  When the size goes down, the length given to memset is nearly
\* 2^64; when it is zero, realloc frees the block, which stays in use.
Resize(n, delta) ==
  LET total == ToSize(pages + delta)
      fits == total <= MaxPages /\ (limit = 0 \/ total <= limit)
      added == block .. total * PageSize - 1
      cleared == pages * PageSize .. total * PageSize - 1
  IN \/ /\ Grown(n, -1)
        /\ ~fits \/ total > 0
        /\ UNCHANGED <<pages, limit, block, dirty, outcome>>
     \/ /\ fits /\ total >= pages /\ total > 0
        /\ pages' = total
        /\ block' = total * PageSize
        /\ dirty' = (dirty \cup added) \ cleared
        /\ Grown(n, ToInt(pages))
        /\ UNCHANGED <<limit, outcome>>
     \/ /\ fits /\ (total < pages \/ total = 0)
        /\ outcome' = "undefined" /\ UNCHANGED <<pages, limit, block, dirty, last>>

\* doMemoryGrow adds the size, divided by the page size, to its operand.
MemoryGrow(n) ==
  /\ outcome = "running"
  /\ Resize(n, ToInt(n + pages \div PageSize))

-----------------------------------------------------------------------------
MemNext ==
  \/ \E seg \in Segments : DataSegment(seg)
  \/ Instantiated
  \/ \E op \in {"load", "store"}, addr \in Address, offset \in Offset,
        size \in Accesses : Access(op, addr, offset, size)
  \/ MemorySize
  \/ \E n \in Delta : MemoryGrow(n)

MemSpec == MemInit /\ [][MemNext]_memVars

-----------------------------------------------------------------------------
(* Properties.                                                             *)

MemTypeOK ==
  /\ pages \in Nat /\ limit \in Nat /\ block \in Nat
  /\ dirty \subseteq Int
  /\ outcome \in {"instantiating", "running", "undefined",
                  "MEM_EXCEED_MAX", "MEM_DATA_EXCEED_MAX", "MEM_ACCESS_OOB"}
  /\ last.op \in {"none", "data", "load", "store", "refused", "size", "grow"}

\* A memory that is in use never has more pages than the module's limit or than
\* the address space holds, and its block always has the bytes of its pages.
SizeWithinLimits ==
  outcome \in {"instantiating", "running"} =>
    /\ pages \in 0 .. MaxPages /\ (limit # 0 => pages <= limit)
    /\ block = pages * PageSize

\* Every load, store and data segment that passes its test touches only bytes of
\* the block, although loads and stores compare bytes with pages.  (A memory that
\* begins with no page at all is the exception.)
AccessInside ==
  /\ dirty \subseteq 0 .. block - 1
  /\ last.op \in {"load", "store", "data"} =>
       last.at >= 0 /\ last.at + last.len <= block

\* memory.grow either answers -1 and leaves the memory alone, or answers the old
\* size and adds the pages asked for, all zero, below which nothing changes.
GrowStep ==
  /\ pages' # pages => /\ last'.op = "grow"
                      /\ last'.ret = pages /\ last'.n = pages' - pages
  /\ (last' # last /\ last'.op = "grow") =>
       /\ dirty' = dirty
       /\ pages' # pages \/ last'.ret = -1 \/ (last'.n = 0 /\ last'.ret = pages)

GrowFaithful == [][GrowStep]_memVars

\* A load, a store or a data segment is refused, as the standard has it, only
\* when a byte of it lies outside of the memory.
RefusedOutside == last.op = "refused" => last.at + last.len > block

\* No operand of memory.grow leaves the behaviour of the process undefined.
GrowDefined == outcome # "undefined"
=============================================================================
