---------------------------- MODULE Instantiator ----------------------------
(***************************************************************************)
(* Instantiator::instantiate (lib/instantiator.cc) of the module that the  *)
(* command line names: globals, functions, memories and their data, tables *)
(* and their elements, the entry function and its arguments.  What the     *)
(* data segments write is in LinearMemory.                                 *)
(*                                                                         *)
(* A loaded module is a record                                             *)
(*   types   sequence of [params, results]           (funcTypes)           *)
(*   indices sequence of indices of types            (funcTypesIndices)    *)
(*   defs    sequence of [locals, code]              (funcDefs)            *)
(*   globals sequence of [mutable, type, init]                             *)
(*   mems, tables  sequences of [initial, maximum]                         *)
(*   data, elements  sequences of [idx, init, items]                       *)
(*   exports sequence of [name, kind, idx]                                 *)
(* An initialiser is [op, val], with the type for the opcode of a constant. *)
(***************************************************************************)
EXTENDS CommandLine, Functions, FiniteSetsExt

CONSTANTS PageSize,   \* WASM_PAGE_SIZE_IN_BYTE
          SizeSize,   \* 2^64
          Width,      \* bits of an i32
          LongWidth   \* bits of an i64

\* What the Loader makes of a file that is named: vectors, of which an element
\* segment has fewer than 2^32 items at an i32 offset.
ASSUME FilesAssumption ==
  /\ SizeSize \in Nat \ {0}
  /\ \A line \in CommandLines : \A k \in DOMAIN line :
       line[k].opt = "path" =>
         LET m == Files[line[k].value[1]] IN
         /\ Len(m.tables) \in Nat /\ DOMAIN m.tables = 1 .. Len(m.tables)
         /\ \A t \in DOMAIN m.tables : m.tables[t].initial \in Nat
         /\ Len(m.elements) \in Nat /\ DOMAIN m.elements = 1 .. Len(m.elements)
         /\ \A e \in DOMAIN m.elements :
              LET seg == m.elements[e] IN
              /\ seg.idx \in Nat
              /\ Len(seg.items) \in Nat /\ DOMAIN seg.items = 1 .. Len(seg.items)
              /\ seg.items = <<>> <=> Len(seg.items) = 0
              /\ seg.init.op = "i32" =>
                   seg.init.val \in Int /\ Len(seg.items) + seg.init.val < SizeSize

VARIABLES rtGlobals, rtFuncs, rtMems, rtTables, rtStack,
          rtEntryIdx,  \* <<>> or <<index>>
          segment,     \* the element segment that is looked at
          argView      \* the pieces of the arguments not yet taken

rtVars == <<rtGlobals, rtFuncs, rtMems, rtTables, rtStack, rtEntryIdx, segment, argView>>
launchVars == <<commandVars, rtVars>>

Null == -1   \* std::nullopt
ValueTypes == {"i32", "i64", "f32", "f64"}
Typed(t, v) == [type |-> t, val |-> v]
mod == file[1]

\* On with the next part; or Exception::terminate, or an exception nobody catches.
Go(next) == phase' = next /\ UNCHANGED <<argv, at, paths, store, file, jitEnabled>>
Fail(error) == End(error) /\ UNCHANGED rtVars

-----------------------------------------------------------------------------
\* evalInitExpr: one constant, of the type that is wanted.
SigMatches(type, init) == type \in ValueTypes /\ init.op = type

InitGlobals ==
  /\ phase = "globals"
  /\ IF \A i \in DOMAIN mod.globals : SigMatches(mod.globals[i].type, mod.globals[i].init)
     THEN /\ rtGlobals' = [i \in DOMAIN mod.globals |-> Typed(mod.globals[i].type, mod.globals[i].init.val)]
          /\ Go("functions")
          /\ UNCHANGED <<rtFuncs, rtMems, rtTables, rtStack, rtEntryIdx, segment, argView>>
     ELSE Fail("INVALID_GLOBAL_SIG")

\* expandWasmTypesToRTValues: a zero for each type it knows.
Zeros(types) ==
  LET known == SelectSeq(types, LAMBDA t : t \in ValueTypes)
  IN  [k \in DOMAIN known |-> Typed(known[k], 0)]

InitFuncs ==
  /\ phase = "functions"
  /\ IF \A i \in DOMAIN mod.defs :
          i \in DOMAIN mod.indices /\ mod.indices[i] < Len(mod.types)
     THEN /\ rtFuncs' = [i \in DOMAIN mod.defs |->
                           LET t == mod.types[mod.indices[i] + 1] IN
                           [funcType |-> t, codeEntry |-> mod.defs[i].code,
                            localsDefault |-> Zeros(t.params) \o Zeros(mod.defs[i].locals)]]
          /\ Go("memories")
          /\ UNCHANGED <<rtGlobals, rtMems, rtTables, rtStack, rtEntryIdx, segment, argView>>
     ELSE Fail("std::out_of_range")

WithinLimits(l) == l.maximum = 0 \/ l.initial <= l.maximum

InitMems ==
  /\ phase = "memories"
  /\ IF \A i \in DOMAIN mod.mems : WithinLimits(mod.mems[i])
     THEN /\ rtMems' = [i \in DOMAIN mod.mems |-> mod.mems[i].initial]
          /\ Go("data")
          /\ UNCHANGED <<rtGlobals, rtFuncs, rtTables, rtStack, rtEntryIdx, segment, argView>>
     ELSE Fail("MEM_EXCEED_MAX")

DataError(seg) ==
  IF ~SigMatches("i32", seg.init) THEN "INVALID_GLOBAL_SIG"
  ELSE IF seg.idx >= Len(rtMems) THEN "MEM_ACCESS_OOB"
  ELSE IF (seg.init.val + Len(seg.items)) % SizeSize < rtMems[seg.idx + 1] * PageSize THEN "none"
  ELSE "MEM_DATA_EXCEED_MAX"

\* The first segment that is refused ends the process.
InitData ==
  /\ phase = "data"
  /\ LET bad == {k \in DOMAIN mod.data : DataError(mod.data[k]) # "none"} IN
     IF bad = {} THEN Go("tables") /\ UNCHANGED rtVars
     ELSE Fail(DataError(mod.data[FirstOf(bad)]))

InitTables ==
  /\ phase = "tables"
  /\ IF \A i \in DOMAIN mod.tables : WithinLimits(mod.tables[i])
     THEN /\ rtTables' = [i \in DOMAIN mod.tables |-> [j \in 1 .. mod.tables[i].initial |-> Null]]
          /\ Go("elements")
          /\ UNCHANGED <<rtGlobals, rtFuncs, rtMems, rtStack, rtEntryIdx, segment, argView>>
     ELSE Fail("TBL_EXCEED_MAX")

\* Mutant: a segment may end one entry behind the table.
FitsOneMore(seg, table) == (Len(seg.items) + seg.init.val) % SizeSize <= Len(table) + 1

\* funcIndices.size() + offsetIdx, as size_t, and what at(offsetIdx++) accepts.
Fits(seg, table) == (Len(seg.items) + seg.init.val) % SizeSize <= Len(table)

Written(table, seg) ==
  [j \in DOMAIN table |->
     IF j - seg.init.val \in DOMAIN seg.items THEN seg.items[j - seg.init.val] ELSE table[j]]

InitElement ==
  /\ phase = "elements" /\ segment < Len(mod.elements)
  /\ LET seg == mod.elements[segment + 1] IN
     IF ~SigMatches("i32", seg.init) THEN Fail("INVALID_GLOBAL_SIG")
     ELSE IF seg.idx >= Len(rtTables) THEN Fail("TBL_ACCESS_OOB")
     ELSE IF ~Fits(seg, rtTables[seg.idx + 1]) THEN Fail("TBL_ELEM_EXCEED_MAX")
     ELSE IF seg.items # <<>> /\ seg.init.val < 0 THEN Fail("std::out_of_range")
     ELSE /\ rtTables' = [rtTables EXCEPT ![seg.idx + 1] = Written(@, seg)]
          /\ segment' = segment + 1
          /\ UNCHANGED <<commandVars, rtGlobals, rtFuncs, rtMems, rtStack, rtEntryIdx, argView>>

ElementsDone ==
  /\ phase = "elements" /\ segment = Len(mod.elements)
  /\ Go("entry") /\ UNCHANGED rtVars

-----------------------------------------------------------------------------
(* The entry function.                                                     *)

Wanted == IF EntryName \in DOMAIN store THEN store[EntryName] ELSE "main"

\* Mutant: an export of any kind will do.
EntriesOfAnyKind == {k \in DOMAIN mod.exports : mod.exports[k].name = Wanted}

Entries == {k \in DOMAIN mod.exports : mod.exports[k].name = Wanted /\ mod.exports[k].kind = "func"}

\* No such export: the read of its index, before the comparison with end(),
\* is undefined; the builds fault, or read nothing.
NoEntry ==
  /\ phase = "entry" /\ Entries = {}
  /\ Fail("SIGSEGV") \/ (Go("execute") /\ UNCHANGED rtVars)

FindEntry ==
  /\ phase = "entry" /\ Entries # {}
  /\ LET idx == mod.exports[FirstOf(Entries)].idx IN
     IF idx >= Len(rtFuncs) THEN Fail("std::out_of_range")
     ELSE /\ rtEntryIdx' = <<idx>>
          /\ argView' = IF EntryArgs \in DOMAIN store THEN store[EntryArgs] ELSE <<>>
          /\ Go("arguments")
          /\ UNCHANGED <<rtGlobals, rtFuncs, rtMems, rtTables, rtStack, segment>>

ArgTypes == rtFuncs[rtEntryIdx[1] + 1].funcType.params
EmptyView == argView = <<>> \/ (Len(argView) = 1 /\ argView[1].kind = "empty")

\* Mutant: a number is taken for a value of any type.
ConversionErrorUntyped(piece, type) ==
  IF piece.kind # "number" THEN "std::invalid_argument" ELSE "none"

\* The exceptions of convertStrToRTVal: text that is no number, or too large a one.
ConversionError(piece, type) ==
  LET TooLarge(w) == piece.n \notin -(2 ^ (w - 1)) .. 2 ^ (w - 1) - 1
  IN  IF type \notin ValueTypes THEN "INVALID_VAL_TYPE"
      ELSE IF piece.kind # "number" THEN "std::invalid_argument"
      ELSE IF (type = "i32" /\ TooLarge(Width)) \/ (type = "i64" /\ TooLarge(LongWidth))
      THEN "std::out_of_range" ELSE "none"

PushArg(piece, view) ==
  LET type == ArgTypes[Len(rtStack) + 1] IN
  IF ConversionError(piece, type) # "none" THEN Fail(ConversionError(piece, type))
  ELSE /\ rtStack' = Append(rtStack, Typed(type, piece.n))
       /\ argView' = view
       /\ UNCHANGED <<commandVars, rtGlobals, rtFuncs, rtMems, rtTables, rtEntryIdx, segment>>

Missing == phase = "arguments" /\ Len(rtStack) < Len(ArgTypes)

NoArgument == Missing /\ EmptyView /\ Fail("INSUFFICIENT_INPUT_ARGS")

\* Up to the next comma.
NextArgument == Missing /\ Len(argView) > 1 /\ PushArg(Head(argView), Tail(argView))

\* The last one is converted from the whole text: its number is that of the
\* first piece.  The view stays as it is.
LastArgument == Missing /\ ~EmptyView /\ Len(argView) = 1 /\ PushArg(Head(store[EntryArgs]), argView)

ArgumentsDone ==
  /\ phase = "arguments" /\ Len(rtStack) = Len(ArgTypes)
  /\ Go("execute") /\ UNCHANGED rtVars

\* Executor::execute.
Execute ==
  /\ phase = "execute"
  /\ Go(IF rtEntryIdx = <<>> THEN "exit" ELSE "run") /\ UNCHANGED rtVars

-----------------------------------------------------------------------------
LaunchInit ==
  /\ CommandInit
  /\ rtGlobals = <<>> /\ rtFuncs = <<>> /\ rtMems = <<>> /\ rtTables = <<>> /\ rtStack = <<>>
  /\ rtEntryIdx = <<>> /\ segment = 0 /\ argView = <<>>

Instantiate ==
  \/ InitGlobals \/ InitFuncs \/ InitMems \/ InitData \/ InitTables \/ InitElement \/ ElementsDone
  \/ NoEntry \/ FindEntry \/ NoArgument \/ NextArgument \/ LastArgument \/ ArgumentsDone \/ Execute

LaunchNext == (CommandNext /\ UNCHANGED rtVars) \/ Instantiate

LaunchSpec == LaunchInit /\ [][LaunchNext]_launchVars

-----------------------------------------------------------------------------
(* Properties.                                                             *)

UnderWay == {"globals", "functions", "memories", "data", "tables", "elements", "entry",
             "arguments", "execute"}

LaunchTypeOK ==
  /\ at \in 1 .. Len(argv) + 1 /\ segment \in Nat /\ Len(rtEntryIdx) <= 1
  /\ file = <<>> => phase \notin UnderWay \cup {"run"}
  /\ \A i \in DOMAIN rtStack : rtStack[i].type \in ValueTypes
  /\ \A i \in DOMAIN rtTables : DOMAIN rtTables[i] = 1 .. mod.tables[i].initial

\* The entries an element segment names, of its table.
Covers(k, t, j) ==
  /\ mod.elements[k].idx + 1 = t
  /\ j - mod.elements[k].init.val \in DOMAIN mod.elements[k].items
Inside(k) ==
  LET seg == mod.elements[k] IN
  seg.items # <<>> => seg.init.val >= 0 /\ seg.init.val + Len(seg.items) <= mod.tables[seg.idx + 1].initial

\* Once the elements are written, every segment lies inside its table, and an
\* entry is the function that the last segment over it names, or null: of what
\* overlaps, order decides.  No segment that lies inside is refused as too long.
TablesFilled ==
  /\ phase \in {"entry", "arguments", "execute", "run"} =>
       /\ \A k \in DOMAIN mod.elements : Inside(k)
       /\ \A t \in DOMAIN rtTables : \A j \in DOMAIN rtTables[t] :
            LET over == {k \in DOMAIN mod.elements : Covers(k, t, j)}
            IN  rtTables[t][j] = IF over = {} THEN Null
                                 ELSE mod.elements[Max(over)].items[j - mod.elements[Max(over)].init.val]
  /\ phase = "TBL_ELEM_EXCEED_MAX" =>
       ~Inside(segment + 1) \/ mod.elements[segment + 1].items = <<>>
=============================================================================
