---------------------------- MODULE LaunchProofs ----------------------------
(***************************************************************************)
(* Proof that a process which loads a module loads the one its command     *)
(* line names first, with the JIT if and only if it is asked for, and that *)
(* no option that ends the process was passed over: for all command lines  *)
(* and files, and through the whole of the instantiation.                  *)
(***************************************************************************)
EXTENDS Instantiator, TLAPS

-----------------------------------------------------------------------------
(* The inductive invariant.                                                *)

\* argument k names the first file.
FirstPath(k) ==
  /\ k \in 1 .. Len(argv) /\ argv[k].opt = "path"
  /\ \A j \in 1 .. k - 1 : argv[j].opt # "path"

\* Of the first n arguments none ends the process, and --jit is stored if it is
\* among them.
Endings == {"", "-v", "-h"}
NoneEnds(n) == \A k \in 1 .. n : argv[k].opt \notin Endings
JitStored(n) ==
  /\ ("jit_enabled" \in DOMAIN store) <=> (\E k \in 1 .. n : argv[k].opt = "--jit")
  /\ "jit_enabled" \in DOMAIN store => store["jit_enabled"] = "true"

\* paths are those of the first n arguments, of which the first is kept.
PathValues == {argv[k].value[1] : k \in {j \in 1 .. Len(argv) : argv[j].opt = "path"}}
PathsRead(n) ==
  /\ paths \in Seq(PathValues)
  /\ paths = <<>> => \A k \in 1 .. n : argv[k].opt # "path"
  /\ paths # <<>> => \E k \in 1 .. n : FirstPath(k) /\ paths[1] = argv[k].value[1]

WhileParsing ==
  phase = "parse" =>
    /\ at \in 1 .. Len(argv) + 1
    /\ NoneEnds(at - 1) /\ JitStored(at - 1) /\ PathsRead(at - 1)
    /\ "path" \notin DOMAIN store

BeforeMain ==
  phase = "main" =>
    /\ NoneEnds(Len(argv)) /\ JitStored(Len(argv))
    /\ "path" \in DOMAIN store => \E k \in 1 .. Len(argv) : FirstPath(k) /\ store["path"] = argv[k].value[1]

WhenLoaded ==
  /\ phase \in {"parse", "main"} => file = <<>>
  /\ file # <<>> =>
       /\ NoneEnds(Len(argv))
       /\ \E k \in 1 .. Len(argv) : FirstPath(k) /\ file[1] = Files[argv[k].value[1]]
       /\ jitEnabled <=> (\E k \in 1 .. Len(argv) : argv[k].opt = "--jit")
  /\ jitEnabled \in BOOLEAN

LaunchInv == argv \in CommandLines /\ WhileParsing /\ BeforeMain /\ WhenLoaded

-----------------------------------------------------------------------------
\* The keys of -i are none of the keys that main reads.
LEMMA InvokedKeeps ==
  ASSUME NEW v, NEW s, NEW key \in {"path", "jit_enabled"}
  PROVE  /\ key \in DOMAIN Invoked(v, s) <=> key \in DOMAIN s
         /\ key \in DOMAIN s => Invoked(v, s)[key] = s[key]
<1>1. key # EntryName /\ key # EntryArgs
  BY DEF EntryName, EntryArgs
<1> DEFINE named == CreateItem(EntryName, v.name, s)
           whole == CreateItem(EntryArgs, v.pieces, named)
<1>2. /\ key \in DOMAIN named <=> key \in DOMAIN s
      /\ key \in DOMAIN s => named[key] = s[key]
  BY <1>1 DEF CreateItem
<1>3. /\ key \in DOMAIN whole <=> key \in DOMAIN named
      /\ key \in DOMAIN named => whole[key] = named[key]
  BY <1>1 DEF CreateItem
<1>4. Invoked(v, s) = named \/ Invoked(v, s) = whole
  BY DEF Invoked
<1> HIDE DEF named, whole
<1> QED BY <1>2, <1>3, <1>4

\* argv is a sequence of which the first at - 1 arguments were looked at.
LEMMA LookedAt ==
  ASSUME LaunchInv, phase = "parse", at <= Len(argv)
  PROVE  /\ Len(argv) \in Nat /\ at \in 1 .. Len(argv)
         /\ at + 1 \in 1 .. Len(argv) + 1 /\ at + 1 - 1 = at
         /\ 1 .. at = (1 .. at - 1) \cup {at}
         /\ \A k \in 1 .. at - 1 : k \in 1 .. Len(argv)
<1>1. Len(argv) \in Nat
  BY CommandLinesAssumption DEF LaunchInv
<1>2. at \in 1 .. Len(argv) + 1
  BY DEF LaunchInv, WhileParsing
<1> QED BY <1>1, <1>2

\* No argument up to this one ends the process.
LEMMA NoneAt ==
  ASSUME LaunchInv, phase = "parse", at <= Len(argv), argv[at].opt \notin Endings
  PROVE  NoneEnds(at)
<1>1. NoneEnds(at - 1)
  BY DEF LaunchInv, WhileParsing
<1> QED BY <1>1, LookedAt DEF NoneEnds

\* What the parse does at an argument that does not end the process: it is one
\* further, and what it knows holds of one argument more.
LEMMA OneFurther ==
  ASSUME LaunchInv, phase = "parse", at <= Len(argv), NEW s, NEW ps, Parsed(s, ps),
         NoneEnds(at), JitStored(at - 1)', PathsRead(at - 1)', "path" \notin DOMAIN s
  PROVE  LaunchInv'
<1>1. at' \in 1 .. Len(argv) + 1 /\ at' - 1 = at
  BY LookedAt DEF Parsed
<1>2. argv' = argv /\ phase' = "parse" /\ file' = file /\ jitEnabled' = jitEnabled /\ store' = s
  BY DEF Parsed
<1>3. NoneEnds(at - 1)'
  BY <1>1, <1>2 DEF NoneEnds
<1> QED BY <1>1, <1>2, <1>3 DEF LaunchInv, WhileParsing, BeforeMain, WhenLoaded

\* --jit is in the store behind an argument if it was before, or is the argument.
LEMMA JitAt ==
  ASSUME LaunchInv, phase = "parse", at <= Len(argv), argv' = argv, at' = at + 1,
         ("jit_enabled" \in DOMAIN store') <=>
           ("jit_enabled" \in DOMAIN store \/ argv[at].opt = "--jit"),
         "jit_enabled" \in DOMAIN store' =>
           \/ "jit_enabled" \in DOMAIN store /\ store'["jit_enabled"] = store["jit_enabled"]
           \/ store'["jit_enabled"] = "true"
  PROVE  JitStored(at - 1)'
<1>1. JitStored(at - 1) /\ at' - 1 = at
  BY LookedAt DEF LaunchInv, WhileParsing
<1>2. (\E k \in 1 .. at : argv[k].opt = "--jit") <=>
        ((\E k \in 1 .. at - 1 : argv[k].opt = "--jit") \/ argv[at].opt = "--jit")
  BY LookedAt
<1> QED BY <1>1, <1>2 DEF JitStored

\* The paths are those of one argument more that is no path.
LEMMA PathsStay ==
  ASSUME LaunchInv, phase = "parse", at <= Len(argv), argv[at].opt # "path",
         argv' = argv, paths' = paths, at' = at + 1
  PROVE  PathsRead(at - 1)'
<1>1. PathsRead(at - 1)
  BY DEF LaunchInv, WhileParsing
<1>2. PathsRead(at)
  BY <1>1, LookedAt DEF PathsRead
<1>3. at' - 1 = at
  BY LookedAt
<1> QED BY <1>2, <1>3 DEF PathsRead, PathValues, FirstPath

\* An argument that ends nothing and is neither a path nor --jit leaves it all
\* as it was, one argument further.
LEMMA OtherArgument ==
  ASSUME LaunchInv, phase = "parse", at <= Len(argv),
         argv[at].opt \notin Endings \cup {"path", "--jit"}, NEW s, Parsed(s, paths),
         \A key \in {"path", "jit_enabled"} :
           /\ key \in DOMAIN s <=> key \in DOMAIN store
           /\ key \in DOMAIN s => s[key] = store[key]
  PROVE  LaunchInv'
<1>1. NoneEnds(at)
  BY NoneAt
<1>2. JitStored(at - 1)'
  BY JitAt DEF LaunchInv, WhileParsing, JitStored, Parsed
<1>3. PathsRead(at - 1)'
  BY PathsStay DEF Parsed
<1>4. "path" \notin DOMAIN s
  BY DEF LaunchInv, WhileParsing
<1> QED BY <1>1, <1>2, <1>3, <1>4, OneFurther

\* --jit is stored, whatever stood before it.
LEMMA JitStep ==
  ASSUME LaunchInv, ParseJit
  PROVE  LaunchInv'
<1> DEFINE s == CreateItem("jit_enabled", "true", store)
<1>1. phase = "parse" /\ at <= Len(argv) /\ argv[at].opt = "--jit" /\ Parsed(s, paths)
      /\ "--jit" \notin Endings
  BY DEF ParseJit, Parsing, Endings
<1>2. /\ DOMAIN s = DOMAIN store \cup {"jit_enabled"}
      /\ \A x \in DOMAIN store : s[x] = store[x]
      /\ "jit_enabled" \notin DOMAIN store => s["jit_enabled"] = "true"
  BY DEF CreateItem
<1> HIDE DEF s
<1>3. NoneEnds(at)
  BY <1>1, NoneAt
<1>4. JitStored(at - 1)'
  BY <1>1, <1>2, JitAt DEF Parsed
<1>5. PathsRead(at - 1)'
  BY <1>1, PathsStay DEF Parsed
<1>6. "path" \notin DOMAIN s
  BY <1>1, <1>2 DEF LaunchInv, WhileParsing
<1> QED BY <1>1, <1>3, <1>4, <1>5, <1>6, OneFurther

\* A path is added behind the paths there are: the first stays the first.
LEMMA PathStep ==
  ASSUME LaunchInv, ParsePath
  PROVE  LaunchInv'
<1> DEFINE added == Append(paths, argv[at].value[1])
<1>1. phase = "parse" /\ at <= Len(argv) /\ argv[at].opt = "path" /\ Parsed(store, added)
      /\ "path" \notin Endings
  BY DEF ParsePath, Parsing, Endings
<1>2. NoneEnds(at)
  BY <1>1, NoneAt
<1>3. JitStored(at - 1)'
  BY <1>1, JitAt DEF Parsed
<1>4. PathsRead(at - 1) /\ paths \in Seq(PathValues) /\ argv[at].value[1] \in PathValues
  BY <1>1, LookedAt DEF LaunchInv, WhileParsing, PathsRead, PathValues
<1>5. /\ added \in Seq(PathValues) /\ added # <<>>
      /\ paths = <<>> => added[1] = argv[at].value[1]
      /\ paths # <<>> => added[1] = paths[1]
  <2>1. added \in Seq(PathValues) /\ Len(added) = Len(paths) + 1 /\ Len(paths) \in Nat
    BY <1>4
  <2>2. paths # <<>> => 1 \in 1 .. Len(paths)
    BY <1>4
  <2>3. paths = <<>> => Len(paths) = 0
    OBVIOUS
  <2>4. added[Len(paths) + 1] = argv[at].value[1]
    BY <1>4
  <2>5. \A i \in 1 .. Len(paths) : added[i] = paths[i]
    BY <1>4
  <2> HIDE DEF added
  <2> QED BY <2>1, <2>2, <2>3, <2>4, <2>5
<1>6. paths = <<>> => FirstPath(at)
  BY <1>1, <1>4, LookedAt DEF FirstPath, PathsRead
<1>7. paths # <<>> => \E k \in 1 .. at : FirstPath(k) /\ added[1] = argv[k].value[1]
  BY <1>4, <1>5, <1>1, LookedAt DEF PathsRead
<1>8. added # <<>> /\ \E k \in 1 .. at : FirstPath(k) /\ added[1] = argv[k].value[1]
  BY <1>1, <1>5, <1>6, <1>7, LookedAt
<1>9. PathsRead(at - 1)'
  <2>1. at' - 1 = at /\ argv' = argv /\ paths' = added
    BY <1>1, LookedAt DEF Parsed
  <2> QED BY <2>1, <1>5, <1>8 DEF PathsRead, PathValues, FirstPath, Parsed
<1>10. "path" \notin DOMAIN store
  BY <1>1 DEF LaunchInv, WhileParsing
<1> QED BY <1>1, <1>2, <1>3, <1>9, <1>10, OneFurther

\* -i, with a value or without one.
LEMMA InvokeStep ==
  ASSUME LaunchInv, ParseInvoke
  PROVE  LaunchInv'
<1> DEFINE s == IF argv[at].value = <<>> THEN store ELSE Invoked(argv[at].value[1], store)
<1>1. phase = "parse" /\ at <= Len(argv) /\ argv[at].opt = "-i" /\ Parsed(s, paths)
      /\ "-i" \notin Endings \cup {"path", "--jit"}
  BY DEF ParseInvoke, Parsing, Endings
<1>2. \A key \in {"path", "jit_enabled"} :
        /\ key \in DOMAIN s <=> key \in DOMAIN store
        /\ key \in DOMAIN s => s[key] = store[key]
  BY InvokedKeeps
<1> HIDE DEF s
<1> QED BY <1>1, <1>2, OtherArgument

\* An option that nobody added.
LEMMA UnknownStep ==
  ASSUME LaunchInv, ParseUnknown
  PROVE  LaunchInv'
<1>1. phase = "parse" /\ at <= Len(argv) /\ Parsed(store, paths)
      /\ argv[at].opt \notin Endings \cup {"path", "--jit"}
  BY DEF ParseUnknown, Endings
<1> QED BY <1>1, OtherArgument

\* Behind the last argument the first path is stored.
LEMMA DoneStep ==
  ASSUME LaunchInv, ParseDone
  PROVE  LaunchInv'
<1>1. at - 1 = Len(argv)
  BY CommandLinesAssumption DEF LaunchInv, WhileParsing, ParseDone
<1>2. NoneEnds(Len(argv)) /\ JitStored(Len(argv)) /\ PathsRead(Len(argv)) /\ "path" \notin DOMAIN store
  BY <1>1 DEF LaunchInv, WhileParsing, ParseDone
<1>3. argv' = argv /\ phase' = "main" /\ file' = file /\ jitEnabled' = jitEnabled /\ file = <<>>
  BY DEF ParseDone, LaunchInv, WhenLoaded
<1>4. CASE paths = <<>>
  <2>1. store' = store
    BY <1>4 DEF ParseDone
  <2> QED BY <1>2, <1>3, <2>1 DEF LaunchInv, WhileParsing, BeforeMain, WhenLoaded, NoneEnds, JitStored
<1>5. CASE paths # <<>>
  <2>1. PICK k \in 1 .. Len(argv) : FirstPath(k) /\ paths[1] = argv[k].value[1]
    BY <1>2, <1>5 DEF PathsRead
  <2>2. /\ "jit_enabled" \in DOMAIN store' <=> "jit_enabled" \in DOMAIN store
        /\ "jit_enabled" \in DOMAIN store => store'["jit_enabled"] = store["jit_enabled"]
        /\ store'["path"] = argv[k].value[1]
    BY <1>2, <1>5, <2>1 DEF ParseDone, CreateItem
  <2>3. JitStored(Len(argv))' /\ NoneEnds(Len(argv))' /\ FirstPath(k)'
    BY <1>2, <1>3, <2>1, <2>2 DEF JitStored, NoneEnds, FirstPath
  <2> QED BY <1>3, <2>2, <2>3 DEF LaunchInv, WhileParsing, BeforeMain, WhenLoaded
<1> QED BY <1>4, <1>5

\* A step behind the parse that loads nothing.
LEMMA Untouched ==
  ASSUME LaunchInv, argv' = argv, file' = file, jitEnabled' = jitEnabled,
         phase' \notin {"parse", "main"}
  PROVE  LaunchInv'
  BY DEF LaunchInv, WhileParsing, BeforeMain, WhenLoaded, NoneEnds, FirstPath

\* An argument that ends the process.
LEMMA EndStep ==
  ASSUME LaunchInv, ParseEmpty \/ ParseExclusive
  PROVE  LaunchInv'
  BY Untouched DEF ParseEmpty, ParseExclusive, End

\* main loads the file that is stored.
LEMMA MainStep ==
  ASSUME LaunchInv, Main
  PROVE  LaunchInv'
<1>1. NoneEnds(Len(argv)) /\ JitStored(Len(argv)) /\ argv' = argv
  BY DEF LaunchInv, BeforeMain, Main, End
<1>2. CASE "path" \in DOMAIN store
  <2>1. PICK k \in 1 .. Len(argv) : FirstPath(k) /\ store["path"] = argv[k].value[1]
    BY <1>2 DEF LaunchInv, BeforeMain, Main
  <2>2. /\ file' = <<Files[store["path"]]>> /\ phase' = "globals"
        /\ jitEnabled' = ("jit_enabled" \in DOMAIN store /\ store["jit_enabled"] = "true")
    BY <1>2 DEF Main
  <2>3. file'[1] = Files[argv[k].value[1]] /\ FirstPath(k)' /\ NoneEnds(Len(argv))'
    BY <1>1, <2>1, <2>2 DEF FirstPath, NoneEnds
  <2>4. /\ jitEnabled' <=> (\E j \in 1 .. Len(argv) : argv[j].opt = "--jit")
        /\ jitEnabled' \in BOOLEAN
    BY <1>1, <2>2 DEF JitStored
  <2> QED BY <1>1, <2>2, <2>3, <2>4 DEF LaunchInv, WhileParsing, BeforeMain, WhenLoaded
<1>3. CASE "path" \notin DOMAIN store
  BY <1>3, Untouched DEF Main, End
<1> QED BY <1>2, <1>3

-----------------------------------------------------------------------------
\* The instantiation leaves argv, the module and the JIT alone, and never goes
\* back to the parse.
LEMMA InstantiateStep ==
  ASSUME LaunchInv, Instantiate
  PROVE  LaunchInv'
<1>1. \A seg : DataError(seg) \notin {"parse", "main"}
  BY DEF DataError
<1>2. \A piece, type : ConversionError(piece, type) \notin {"parse", "main"}
  BY DEF ConversionError
<1>3. \A error : Fail(error) /\ error \notin {"parse", "main"} => LaunchInv'
  BY Untouched DEF Fail, End
<1>4. \A next : Go(next) /\ next \notin {"parse", "main"} => LaunchInv'
  BY Untouched DEF Go
<1>5. UNCHANGED commandVars /\ phase \notin {"parse", "main"} => LaunchInv'
  BY Untouched DEF commandVars
<1>6. \A piece, view : PushArg(piece, view) /\ phase = "arguments" => LaunchInv'
  BY <1>2, <1>3, <1>5 DEF PushArg
<1>7. CASE InitGlobals \/ InitFuncs \/ InitMems \/ InitTables
  BY <1>7, <1>3, <1>4 DEF InitGlobals, InitFuncs, InitMems, InitTables
<1>8. CASE InitData
  BY <1>8, <1>1, <1>3, <1>4 DEF InitData
<1>9. CASE InitElement
  BY <1>9, <1>3, <1>5 DEF InitElement
<1>10. CASE ElementsDone \/ NoEntry \/ FindEntry \/ ArgumentsDone \/ Execute
  BY <1>10, <1>3, <1>4 DEF ElementsDone, NoEntry, FindEntry, ArgumentsDone, Execute
<1>11. CASE NoArgument \/ NextArgument \/ LastArgument
  BY <1>11, <1>3, <1>6 DEF NoArgument, NextArgument, LastArgument, Missing
<1> QED BY <1>7, <1>8, <1>9, <1>10, <1>11 DEF Instantiate

-----------------------------------------------------------------------------
\* LaunchInv is an invariant of the launch.
THEOREM LaunchedInvariant == LaunchSpec => []LaunchInv
<1>1. LaunchInit => LaunchInv
  <2> SUFFICES ASSUME LaunchInit PROVE LaunchInv
    OBVIOUS
  <2>1. /\ argv \in CommandLines /\ Len(argv) \in Nat /\ at = 1 /\ paths = <<>> /\ store = << >>
        /\ phase = "parse" /\ file = <<>> /\ jitEnabled = FALSE
    BY CommandLinesAssumption DEF LaunchInit, CommandInit
  <2>2. 1 .. at - 1 = {} /\ DOMAIN store = {}
    BY <2>1
  <2>3. paths \in Seq(PathValues)
    BY <2>1
  <2>4. NoneEnds(at - 1)
    BY <2>2 DEF NoneEnds
  <2>5. JitStored(at - 1)
    BY <2>2 DEF JitStored
  <2>6. PathsRead(at - 1)
    BY <2>1, <2>2, <2>3 DEF PathsRead
  <2>7. WhileParsing
    BY <2>1, <2>2, <2>4, <2>5, <2>6 DEF WhileParsing
  <2>8. BeforeMain /\ WhenLoaded
    BY <2>1 DEF BeforeMain, WhenLoaded
  <2> QED BY <2>1, <2>7, <2>8 DEF LaunchInv
<1>2. LaunchInv /\ [LaunchNext]_launchVars => LaunchInv'
  <2> SUFFICES ASSUME LaunchInv, [LaunchNext]_launchVars PROVE LaunchInv'
    OBVIOUS
  <2>1. CASE CommandNext
    BY <2>1, EndStep, PathStep, InvokeStep, JitStep, UnknownStep, DoneStep, MainStep DEF CommandNext
  <2>2. CASE Instantiate
    BY <2>2, InstantiateStep
  <2>3. CASE UNCHANGED launchVars
    BY <2>3 DEF launchVars, commandVars, LaunchInv, WhileParsing, BeforeMain, WhenLoaded,
                NoneEnds, JitStored, PathsRead, PathValues, FirstPath
  <2> QED BY <2>1, <2>2, <2>3 DEF LaunchNext
<1> QED BY <1>1, <1>2, PTL DEF LaunchSpec

\* The least of a set of numbers is the one FirstOf chooses.
LEMMA FirstOfLeast ==
  ASSUME NEW ks \in SUBSET Int, NEW k \in ks, \A j \in ks : k <= j
  PROVE  FirstOf(ks) = k
<1>1. \A c \in ks : (\A j \in ks : c <= j) => c = k
  <2> SUFFICES ASSUME NEW c \in ks, \A j \in ks : c <= j PROVE c = k
    OBVIOUS
  <2>1. c <= k /\ k <= c /\ c \in Int /\ k \in Int
    OBVIOUS
  <2> QED BY <2>1
<1>2. /\ FirstOf(ks) \in ks
      /\ \A j \in ks : FirstOf(ks) <= j
  BY DEF FirstOf
<1> QED BY <1>1, <1>2

\* A module is instantiated only for a command line without an option that ends
\* the program; it is the first of the files named, with the JIT if and only if
\* --jit stands anywhere.
THEOREM LaunchedAsAskedAlways == LaunchSpec => []LaunchedAsAsked
<1>1. LaunchInv => LaunchedAsAsked
  <2> SUFFICES ASSUME LaunchInv, file # <<>>
               PROVE  /\ Given(argv, Endings) = {}
                      /\ file[1] = Files[argv[FirstOf(Given(argv, {"path"}))].value[1]]
                      /\ jitEnabled = (Given(argv, {"--jit"}) # {})
    BY DEF LaunchedAsAsked, Endings
  <2>1. DOMAIN argv = 1 .. Len(argv) /\ Len(argv) \in Nat
    BY CommandLinesAssumption DEF LaunchInv
  <2>2. Given(argv, Endings) = {}
    BY <2>1 DEF LaunchInv, WhenLoaded, NoneEnds, Given
  <2>3. PICK k \in 1 .. Len(argv) : FirstPath(k) /\ file[1] = Files[argv[k].value[1]]
    BY DEF LaunchInv, WhenLoaded
  <2>4. /\ Given(argv, {"path"}) \in SUBSET Int /\ k \in Given(argv, {"path"})
        /\ \A j \in Given(argv, {"path"}) : k <= j
    BY <2>1, <2>3 DEF FirstPath, Given
  <2>5. FirstOf(Given(argv, {"path"})) = k
    BY <2>4, FirstOfLeast
  <2>6. jitEnabled = (Given(argv, {"--jit"}) # {})
    BY <2>1 DEF LaunchInv, WhenLoaded, Given
  <2> QED BY <2>2, <2>3, <2>5, <2>6
<1> QED BY <1>1, LaunchedInvariant, PTL

-----------------------------------------------------------------------------
(* The tables: what the first n element segments have written.             *)

Over(n, t, j) == {k \in 1 .. n : Covers(k, t, j)}
Entry(n, t, j) ==
  IF Over(n, t, j) = {} THEN Null
  ELSE mod.elements[Max(Over(n, t, j))].items[j - mod.elements[Max(Over(n, t, j))].init.val]

WrittenBy(n) ==
  /\ \A k \in 1 .. n : Inside(k)
  /\ \A t \in DOMAIN rtTables : \A j \in DOMAIN rtTables[t] : rtTables[t][j] = Entry(n, t, j)

Shaped ==
  /\ \E S : rtTables \in Seq(S)
  /\ DOMAIN rtTables = DOMAIN mod.tables
  /\ \A t \in DOMAIN rtTables : DOMAIN rtTables[t] = 1 .. mod.tables[t].initial

BeforeTables == {"parse", "main", "globals", "functions", "memories", "data", "tables"}
AfterElements == {"entry", "arguments", "execute", "run"}

TablesInv ==
  /\ file = <<>> => phase \notin UnderWay \cup {"run"}
  /\ phase \in BeforeTables => rtTables = <<>> /\ segment = 0
  /\ rtTables = <<>> \/ (file # <<>> /\ Shaped)
  /\ segment \in Nat
  /\ phase = "elements" => Shaped /\ segment <= Len(mod.elements) /\ WrittenBy(segment)
  /\ phase \in AfterElements => WrittenBy(Len(mod.elements))
  /\ phase = "TBL_ELEM_EXCEED_MAX" =>
       ~Inside(segment + 1) \/ mod.elements[segment + 1].items = <<>>

\* What the Loader made of the file.
Vectors ==
  /\ Len(mod.tables) \in Nat /\ DOMAIN mod.tables = 1 .. Len(mod.tables)
  /\ \A t \in DOMAIN mod.tables : mod.tables[t].initial \in Nat
  /\ Len(mod.elements) \in Nat /\ DOMAIN mod.elements = 1 .. Len(mod.elements)
  /\ \A e \in DOMAIN mod.elements :
       /\ mod.elements[e].idx \in Nat
       /\ Len(mod.elements[e].items) \in Nat
       /\ DOMAIN mod.elements[e].items = 1 .. Len(mod.elements[e].items)
       /\ mod.elements[e].items = <<>> <=> Len(mod.elements[e].items) = 0
       /\ mod.elements[e].init.op = "i32" =>
            /\ mod.elements[e].init.val \in Int
            /\ Len(mod.elements[e].items) + mod.elements[e].init.val < SizeSize

LEMMA ModVectors == ASSUME LaunchInv, file # <<>> PROVE Vectors
<1>1. PICK k \in 1 .. Len(argv) : FirstPath(k) /\ file[1] = Files[argv[k].value[1]]
  BY DEF LaunchInv, WhenLoaded
<1>2. argv \in CommandLines /\ k \in DOMAIN argv /\ argv[k].opt = "path"
  BY <1>1, CommandLinesAssumption DEF LaunchInv, FirstPath
<1>3. mod = Files[argv[k].value[1]]
  BY <1>1 DEF mod
<1> QED BY ZenonT(40), <1>2, <1>3, FilesAssumption DEF Vectors

LEMMA MaxIs ==
  ASSUME NEW ks \in SUBSET Int, NEW k \in ks, \A j \in ks : k >= j
  PROVE  Max(ks) = k
<1>1. \A c \in ks : (\A j \in ks : c >= j) => c = k
  <2> SUFFICES ASSUME NEW c \in ks, \A j \in ks : c >= j PROVE c = k
    OBVIOUS
  <2>1. c <= k /\ k <= c /\ c \in Int /\ k \in Int
    OBVIOUS
  <2> QED BY <2>1
<1>2. /\ Max(ks) \in ks
      /\ \A j \in ks : Max(ks) >= j
  BY DEF Max
<1> QED BY <1>1, <1>2

\* The next segment is the last over the entries it names; over the others
\* are the segments there were.
LEMMA NextEntry ==
  ASSUME Vectors, NEW n \in Nat, n + 1 \in 1 .. Len(mod.elements), NEW t, NEW j
  PROVE  /\ Covers(n + 1, t, j) =>
              Entry(n + 1, t, j) = mod.elements[n + 1].items[j - mod.elements[n + 1].init.val]
         /\ ~Covers(n + 1, t, j) => Entry(n + 1, t, j) = Entry(n, t, j)
<1>1. CASE Covers(n + 1, t, j)
  <2>1. Max(Over(n + 1, t, j)) = n + 1
    <3>1. Over(n + 1, t, j) \in SUBSET Int /\ n + 1 \in Over(n + 1, t, j)
      BY <1>1 DEF Over
    <3>2. \A k \in Over(n + 1, t, j) : n + 1 >= k
      BY DEF Over
    <3> QED BY <3>1, <3>2, MaxIs
  <2>2. Over(n + 1, t, j) # {}
    BY <1>1 DEF Over
  <2> QED BY <1>1, <2>1, <2>2 DEF Entry
<1>2. CASE ~Covers(n + 1, t, j)
  <2>1. Over(n + 1, t, j) = Over(n, t, j)
    <3>1. 1 .. n + 1 = (1 .. n) \cup {n + 1}
      OBVIOUS
    <3> QED BY <3>1, <1>2 DEF Over
  <2> QED BY <1>2, <2>1 DEF Entry
<1> QED BY <1>1, <1>2

LEMMA SmallMod ==
  ASSUME NEW n \in Nat, NEW m \in Nat \ {0}, n < m
  PROVE  n % m = n
  OBVIOUS

\* A segment that lies inside its table fits, and one that fits and does not
\* begin below zero lies inside, unless it is empty.
LEMMA FitsInside ==
  ASSUME Vectors, Shaped, NEW k \in DOMAIN mod.elements, mod.elements[k].init.op = "i32",
         mod.elements[k].idx < Len(rtTables), mod.elements[k].items # <<>>
  PROVE  /\ Inside(k) => Fits(mod.elements[k], rtTables[mod.elements[k].idx + 1])
         /\ Fits(mod.elements[k], rtTables[mod.elements[k].idx + 1]) /\ mod.elements[k].init.val >= 0
              => Inside(k)
<1> DEFINE seg == mod.elements[k]
           t == seg.idx + 1
           size == mod.tables[t].initial
           count == Len(seg.items)
           first == seg.init.val
<1>1. count \in Nat /\ first \in Int /\ count + first < SizeSize /\ SizeSize \in Nat \ {0} /\ seg.idx \in Nat
  BY FilesAssumption DEF Vectors
<1>2. PICK S : rtTables \in Seq(S)
  BY DEF Shaped
<1>3. t \in DOMAIN rtTables
  BY <1>1, <1>2
<1>4. size \in Nat /\ DOMAIN rtTables[t] = 1 .. size
  BY <1>3 DEF Shaped, Vectors
<1>5. Len(rtTables[t]) = size
  BY <1>4
<1>6. Inside(k) <=> (first >= 0 /\ first + count <= size)
  BY DEF Inside
<1>7. Fits(seg, rtTables[t]) <=> (count + first) % SizeSize <= size
  BY <1>5 DEF Fits
<1> HIDE DEF seg, t, size, count, first
<1>8. first >= 0 => (count + first) % SizeSize = count + first
  <2> DEFINE n == count + first
  <2>1. SizeSize \in Nat \ {0} /\ n \in Int /\ n < SizeSize /\ (first >= 0 => n >= 0)
    BY <1>1
  <2> HIDE DEF n
  <2>2. n >= 0 => n % SizeSize = n
    BY <2>1, SmallMod
  <2> QED BY <2>1, <2>2 DEF n
<1>9. Inside(k) <=> (first >= 0 /\ count + first <= size)
  BY <1>6, <1>1, <1>4
<1>10. /\ Inside(k) => Fits(seg, rtTables[t])
       /\ Fits(seg, rtTables[t]) /\ first >= 0 => Inside(k)
  BY <1>7, <1>8, <1>9
<1> QED BY <1>10 DEF seg, t, first

\* An element segment is written over its entries.
LEMMA ElementWritten ==
  ASSUME LaunchInv, TablesInv, phase = "elements", segment < Len(mod.elements),
         NEW seg, seg = mod.elements[segment + 1],
         SigMatches("i32", seg.init), seg.idx < Len(rtTables),
         Fits(seg, rtTables[seg.idx + 1]), seg.items # <<>> => seg.init.val >= 0,
         rtTables' = [rtTables EXCEPT ![seg.idx + 1] = Written(@, seg)],
         segment' = segment + 1, UNCHANGED commandVars
  PROVE  TablesInv'
<1>1. file # <<>> /\ Vectors /\ Shaped /\ segment \in Nat /\ WrittenBy(segment)
  BY ModVectors DEF TablesInv, UnderWay
<1> DEFINE k == segment + 1
           i == seg.idx + 1
<1>2. k \in 1 .. Len(mod.elements) /\ DOMAIN mod.elements = 1 .. Len(mod.elements)
      /\ 1 .. k = (1 .. segment) \cup {k}
  BY <1>1 DEF Vectors
<1>3. PICK S : rtTables \in Seq(S)
  BY <1>1 DEF Shaped
<1>4. i \in DOMAIN rtTables /\ seg.idx \in Nat
  BY <1>1, <1>2, <1>3 DEF Vectors
<1>5. Inside(k)
  <2>1. CASE seg.items = <<>>
    BY <2>1 DEF Inside
  <2>2. CASE seg.items # <<>>
    BY <1>1, <1>2, <2>2, FitsInside DEF SigMatches
  <2> QED BY <2>1, <2>2
<1>6. mod' = mod /\ file' = file /\ phase' = "elements"
  BY DEF commandVars, mod
<1>7. /\ DOMAIN rtTables' = DOMAIN rtTables
      /\ \A t \in DOMAIN rtTables : t # i => rtTables'[t] = rtTables[t]
      /\ rtTables'[i] = Written(rtTables[i], seg)
  BY <1>4
<1>8. \E T : rtTables' \in Seq(T)
  <2>1. rtTables' \in Seq(S \cup {Written(rtTables[i], seg)})
    BY <1>3, <1>4
  <2> QED BY <2>1
<1>9. \A t \in DOMAIN rtTables : DOMAIN rtTables'[t] = DOMAIN rtTables[t]
  <2>1. DOMAIN Written(rtTables[i], seg) = DOMAIN rtTables[i]
    BY DEF Written
  <2> QED BY <1>7, <2>1
<1>10. Shaped'
  BY <1>1, <1>6, <1>7, <1>8, <1>9 DEF Shaped
<1>11. ASSUME NEW t \in DOMAIN rtTables, NEW j \in DOMAIN rtTables[t]
       PROVE  rtTables'[t][j] = Entry(k, t, j)
  <2>1. rtTables[t][j] = Entry(segment, t, j)
    BY <1>1 DEF WrittenBy
  <2>2. /\ Covers(k, t, j) => Entry(k, t, j) = seg.items[j - seg.init.val]
        /\ ~Covers(k, t, j) => Entry(k, t, j) = Entry(segment, t, j)
    BY <1>1, <1>2, NextEntry
  <2>3. Covers(k, t, j) <=> i = t /\ j - seg.init.val \in DOMAIN seg.items
    BY DEF Covers
  <2>4. CASE t = i
    <3>1. rtTables'[t][j] = IF j - seg.init.val \in DOMAIN seg.items THEN seg.items[j - seg.init.val]
                            ELSE rtTables[t][j]
      BY <1>7, <2>4 DEF Written
    <3> QED BY <3>1, <2>1, <2>2, <2>3, <2>4
  <2>5. CASE t # i
    BY <2>5, <1>7, <2>1, <2>2, <2>3
  <2> QED BY <2>4, <2>5
<1>12. WrittenBy(segment)'
  <2>1. \A n \in 1 .. k : Inside(n)
    BY <1>1, <1>2, <1>5 DEF WrittenBy
  <2>2. segment' = k
    OBVIOUS
  <2> HIDE DEF k, i
  <2>3. \A n \in 1 .. segment' : Inside(n)'
    BY <1>6, <2>1, <2>2 DEF Inside
  <2>4. ASSUME NEW t \in DOMAIN rtTables', NEW j \in DOMAIN rtTables'[t]
        PROVE  rtTables'[t][j] = Entry(segment, t, j)'
    <3>1. t \in DOMAIN rtTables /\ j \in DOMAIN rtTables[t]
      BY <1>7, <1>9
    <3>2. Over(segment, t, j)' = Over(k, t, j)
      BY <1>6, <2>2 DEF Over, Covers
    <3>3. Entry(segment, t, j)' = Entry(k, t, j)
      BY <1>6, <3>2 DEF Entry
    <3> QED BY <3>1, <3>3, <1>11
  <2> QED BY <2>3, <2>4 DEF WrittenBy
<1>13. segment' \in Nat /\ segment' <= Len(mod.elements)
  BY <1>1, <1>2
<1>14. segment' <= Len(mod.elements)'
  BY <1>13, <1>6
<1> HIDE DEF k, i
<1> QED
  BY <1>1, <1>6, <1>10, <1>12, <1>13, <1>14
  DEF TablesInv, BeforeTables, AfterElements, UnderWay

\* A step that leaves the tables, the module and the segment alone and does not
\* come to the elements.
LEMMA TablesStay ==
  ASSUME TablesInv, rtTables' = rtTables, segment' = segment, file' = file,
         phase' \notin AfterElements \cup {"elements", "TBL_ELEM_EXCEED_MAX"},
         phase' \in BeforeTables => phase \in BeforeTables,
         file = <<>> => phase' \notin UnderWay \cup {"run"}
  PROVE  TablesInv'
<1>1. mod' = mod
  BY DEF mod
<1>2. Shaped => Shaped'
  BY <1>1 DEF Shaped
<1> QED BY <1>1, <1>2 DEF TablesInv

LEMMA TablesStayFilled ==
  ASSUME TablesInv, rtTables' = rtTables, segment' = segment, file' = file,
         phase \in AfterElements, phase' \in AfterElements
  PROVE  TablesInv'
<1>1. mod' = mod
  BY DEF mod
<1>2. Shaped => Shaped'
  BY <1>1 DEF Shaped
<1>3. WrittenBy(Len(mod.elements)) => WrittenBy(Len(mod.elements))'
  <2>1. \A k : Inside(k)' <=> Inside(k)
    BY <1>1 DEF Inside
  <2>2. \A t, j : Over(Len(mod.elements), t, j)' = Over(Len(mod.elements), t, j)
    BY <1>1 DEF Over, Covers
  <2>3. \A t, j : Entry(Len(mod.elements), t, j)' = Entry(Len(mod.elements), t, j)
    BY <1>1, <2>2 DEF Entry
  <2> QED BY <1>1, <2>1, <2>3 DEF WrittenBy
<1>4. file # <<>>
  BY DEF TablesInv, AfterElements, UnderWay
<1> QED BY <1>1, <1>2, <1>3, <1>4 DEF TablesInv, AfterElements, BeforeTables, UnderWay

LEMMA FailStays ==
  ASSUME TablesInv, NEW error, Fail(error),
         error \notin UnderWay \cup BeforeTables \cup {"run", "TBL_ELEM_EXCEED_MAX"}
  PROVE  TablesInv'
  BY TablesStay DEF Fail, End, rtVars, AfterElements, UnderWay

LEMMA GoStays ==
  ASSUME TablesInv, NEW next, Go(next), rtTables' = rtTables, segment' = segment,
         \/ phase \in BeforeTables /\ next \in BeforeTables /\ file # <<>>
         \/ next = "exit"
         \/ phase \in AfterElements /\ next \in AfterElements
  PROVE  TablesInv'
<1>1. CASE next = "exit"
  BY <1>1, TablesStay DEF Go, BeforeTables, AfterElements, UnderWay
<1>2. CASE phase \in BeforeTables /\ next \in BeforeTables /\ file # <<>>
  BY <1>2, TablesStay DEF Go, BeforeTables, AfterElements, UnderWay
<1>3. CASE phase \in AfterElements /\ next \in AfterElements
  BY <1>3, TablesStayFilled DEF Go
<1> QED BY <1>1, <1>2, <1>3

\* Nothing touches the tables before they are there.
LEMMA CommandTables ==
  ASSUME LaunchInv, TablesInv, CommandNext, UNCHANGED rtVars
  PROVE  TablesInv'
<1>1. rtTables' = rtTables /\ segment' = segment
  BY DEF rtVars
<1>2. phase \in {"parse", "main"} /\ file = <<>>
  BY DEF CommandNext, ParseEmpty, ParseExclusive, ParsePath, ParseInvoke, ParseJit, ParseUnknown,
         ParseDone, Main, Parsing, LaunchInv, WhenLoaded
<1>3. rtTables = <<>> /\ segment = 0
  BY <1>2 DEF TablesInv, BeforeTables
<1>4. (phase' \in {"parse", "main", "exit", "std::out_of_range", "INVALID_INPUT_PATH"} /\ file' = file)
      \/ (phase' = "globals" /\ file' # <<>>)
  <2>1. CASE ParseEmpty
    <3>1. End("std::out_of_range")
      BY <2>1, Zenon DEF ParseEmpty
    <3> QED BY <3>1 DEF End
  <2>2. CASE ParseExclusive
    BY <2>2 DEF ParseExclusive, End
  <2>3. CASE \E s, ps : Parsing({"path", "-i", "--jit"}) /\ Parsed(s, ps)
    BY <2>3 DEF Parsing, Parsed
  <2>4. CASE ParseUnknown
    <3>1. phase = "parse" /\ Parsed(store, paths)
      BY <2>4, Zenon DEF ParseUnknown
    <3> QED BY <3>1 DEF Parsed
  <2>5. CASE ParseDone
    BY <2>5 DEF ParseDone
  <2>6. CASE Main
    <3>1. CASE "path" \in DOMAIN store
      <4>1. phase' = "globals" /\ file' = <<Files[store["path"]]>>
        BY <2>6, <3>1 DEF Main
      <4>2. <<Files[store["path"]]>> # <<>>
        OBVIOUS
      <4> QED BY <4>1, <4>2
    <3>2. CASE "path" \notin DOMAIN store
      <4>1. End("INVALID_INPUT_PATH")
        BY <2>6, <3>2 DEF Main
      <4> QED BY <4>1 DEF End
    <3> QED BY <3>1, <3>2
  <2>7. ParsePath \/ ParseInvoke \/ ParseJit => \E s, ps : Parsing({"path", "-i", "--jit"}) /\ Parsed(s, ps)
    BY DEF ParsePath, ParseInvoke, ParseJit, Parsing
  <2> QED BY <2>1, <2>2, <2>3, <2>4, <2>5, <2>6, <2>7, Zenon DEF CommandNext
<1> QED BY <1>1, <1>2, <1>3, <1>4 DEF TablesInv, BeforeTables, AfterElements, UnderWay

\* The tables are made of nulls.
LEMMA TablesMade ==
  ASSUME LaunchInv, TablesInv, InitTables
  PROVE  TablesInv'
<1>1. phase = "tables" /\ file # <<>> /\ Vectors /\ segment = 0
  BY ModVectors DEF InitTables, TablesInv, UnderWay, BeforeTables
<1>2. CASE Fail("TBL_EXCEED_MAX")
  BY <1>2, FailStays DEF UnderWay, BeforeTables
<1>3. CASE /\ rtTables' = [i \in DOMAIN mod.tables |-> [j \in 1 .. mod.tables[i].initial |-> Null]]
           /\ Go("elements") /\ UNCHANGED <<rtGlobals, rtFuncs, rtMems, rtStack, rtEntryIdx, segment, argView>>
  <2>1. file' = file /\ mod' = mod /\ phase' = "elements" /\ segment' = 0
    BY <1>1, <1>3 DEF Go, mod
  <2>2. Shaped'
    <3>1. rtTables' \in Seq({[j \in 1 .. mod.tables[i].initial |-> Null] : i \in DOMAIN mod.tables})
      BY <1>1, <1>3 DEF Vectors
    <3> QED BY <1>3, <2>1, <3>1 DEF Shaped
  <2>3. \A t \in DOMAIN rtTables' : \A j \in DOMAIN rtTables'[t] : rtTables'[t][j] = Null
    BY <1>3
  <2>4. 1 .. 0 = {}
    OBVIOUS
  <2>5. WrittenBy(segment)'
    BY <2>1, <2>3, <2>4 DEF WrittenBy, Entry, Over
  <2> QED BY <1>1, <2>1, <2>2, <2>5 DEF TablesInv, BeforeTables, AfterElements, UnderWay, Vectors
<1> QED BY <1>2, <1>3 DEF InitTables

LEMMA ElementTables ==
  ASSUME LaunchInv, TablesInv, InitElement
  PROVE  TablesInv'
<1> DEFINE seg == mod.elements[segment + 1]
<1>1. phase = "elements" /\ segment < Len(mod.elements) /\ file # <<>> /\ Vectors /\ Shaped
      /\ segment \in Nat /\ segment + 1 \in DOMAIN mod.elements
  BY ModVectors DEF InitElement, TablesInv, UnderWay, Vectors
<1>2. PICK S : rtTables \in Seq(S)
  BY <1>1 DEF Shaped
<1>3. /\ Len(rtTables) \in Nat /\ seg.idx \in Nat
      /\ SigMatches("i32", seg.init) => seg.init.op = "i32" /\ seg.init.val \in Int
  BY <1>1, <1>2 DEF Vectors, SigMatches
<1>4. CASE \E error \in {"INVALID_GLOBAL_SIG", "TBL_ACCESS_OOB", "std::out_of_range"} : Fail(error)
  BY <1>4, FailStays DEF UnderWay, BeforeTables
<1>5. CASE /\ SigMatches("i32", seg.init) /\ seg.idx < Len(rtTables)
           /\ ~Fits(seg, rtTables[seg.idx + 1]) /\ Fail("TBL_ELEM_EXCEED_MAX")
  <2>1. ~Inside(segment + 1) \/ seg.items = <<>>
    BY <1>1, <1>3, <1>5, FitsInside
  <2>2. /\ phase' = "TBL_ELEM_EXCEED_MAX" /\ rtTables' = rtTables /\ segment' = segment
        /\ file' = file /\ mod' = mod
    BY <1>5 DEF Fail, End, rtVars, mod
  <2>3. ~Inside(segment + 1)' \/ mod.elements[segment + 1].items' = <<>>
    BY <2>1, <2>2 DEF Inside
  <2>4. Shaped'
    BY <1>1, <2>2 DEF Shaped
  <2> QED BY <1>1, <2>2, <2>3, <2>4 DEF TablesInv, BeforeTables, AfterElements, UnderWay
<1>6. CASE /\ SigMatches("i32", seg.init) /\ seg.idx < Len(rtTables)
           /\ Fits(seg, rtTables[seg.idx + 1]) /\ (seg.items # <<>> => seg.init.val >= 0)
           /\ rtTables' = [rtTables EXCEPT ![seg.idx + 1] = Written(@, seg)]
           /\ segment' = segment + 1
           /\ UNCHANGED <<commandVars, rtGlobals, rtFuncs, rtMems, rtStack, rtEntryIdx, argView>>
  BY <1>1, <1>6, ElementWritten
<1>7. \/ \E error \in {"INVALID_GLOBAL_SIG", "TBL_ACCESS_OOB", "std::out_of_range"} : Fail(error)
      \/ /\ SigMatches("i32", seg.init) /\ seg.idx < Len(rtTables)
         /\ ~Fits(seg, rtTables[seg.idx + 1]) /\ Fail("TBL_ELEM_EXCEED_MAX")
      \/ /\ SigMatches("i32", seg.init) /\ seg.idx < Len(rtTables)
         /\ Fits(seg, rtTables[seg.idx + 1]) /\ (seg.items # <<>> => seg.init.val >= 0)
         /\ rtTables' = [rtTables EXCEPT ![seg.idx + 1] = Written(@, seg)]
         /\ segment' = segment + 1
         /\ UNCHANGED <<commandVars, rtGlobals, rtFuncs, rtMems, rtStack, rtEntryIdx, argView>>
  BY <1>3 DEF InitElement
<1> QED BY <1>4, <1>5, <1>6, <1>7

\* The other parts of the instantiation leave the tables alone.
LEMMA InstantiateTables ==
  ASSUME LaunchInv, TablesInv, Instantiate
  PROVE  TablesInv'
<1> DEFINE Error(e) == e \notin UnderWay \cup BeforeTables \cup {"run", "TBL_ELEM_EXCEED_MAX"}
<1>1. \A seg : Error(DataError(seg))
  BY DEF DataError, UnderWay, BeforeTables
<1>2. \A piece, type : Error(ConversionError(piece, type))
  BY DEF ConversionError, UnderWay, BeforeTables
<1>3. \A e : Error(e) /\ Fail(e) => TablesInv'
  BY FailStays
<1>4. phase \in UnderWay => file # <<>>
  BY DEF TablesInv
<1>5. \A e \in {"INVALID_GLOBAL_SIG", "std::out_of_range", "MEM_EXCEED_MAX", "SIGSEGV",
                "INSUFFICIENT_INPUT_ARGS"} : Error(e)
  BY DEF UnderWay, BeforeTables
<1> HIDE DEF Error
<1>6. \A next : /\ Go(next) /\ rtTables' = rtTables /\ segment' = segment
                /\ \/ phase \in BeforeTables /\ next \in BeforeTables /\ file # <<>>
                   \/ next = "exit"
                   \/ phase \in AfterElements /\ next \in AfterElements
                => TablesInv'
  BY GoStays
<1>7. UNCHANGED commandVars /\ rtTables' = rtTables /\ segment' = segment /\ phase = "arguments" => TablesInv'
  BY TablesStayFilled DEF commandVars, AfterElements
<1>8. CASE InitGlobals \/ InitFuncs \/ InitMems
  BY <1>8, <1>3, <1>4, <1>5, <1>6 DEF InitGlobals, InitFuncs, InitMems, UnderWay, BeforeTables
<1>9. CASE InitData
  BY <1>9, <1>1, <1>3, <1>4, <1>6 DEF InitData, UnderWay, BeforeTables, rtVars
<1>10. CASE ElementsDone
  <2>1. phase = "elements" /\ segment = Len(mod.elements) /\ Shaped /\ WrittenBy(segment) /\ file # <<>>
    BY <1>4, <1>10 DEF ElementsDone, TablesInv, UnderWay
  <2>2. /\ rtTables' = rtTables /\ segment' = segment /\ file' = file /\ mod' = mod /\ phase' = "entry"
        /\ segment' \in Nat
    BY <1>10 DEF ElementsDone, Go, rtVars, mod, TablesInv
  <2>3. Shaped'
    BY <2>1, <2>2 DEF Shaped
  <2>4. WrittenBy(Len(mod.elements))'
    <3>1. \A k : Inside(k)' <=> Inside(k)
      BY <2>2 DEF Inside
    <3>2. \A t, j : Over(Len(mod.elements), t, j)' = Over(segment, t, j)
      BY <2>1, <2>2 DEF Over, Covers
    <3>3. \A t, j : Entry(Len(mod.elements), t, j)' = Entry(segment, t, j)
      BY <2>2, <3>2 DEF Entry
    <3> QED BY <2>1, <2>2, <3>1, <3>3 DEF WrittenBy
  <2> QED BY <2>1, <2>2, <2>3, <2>4 DEF TablesInv, BeforeTables, AfterElements, UnderWay
<1>11. CASE NoEntry \/ FindEntry \/ ArgumentsDone \/ Execute
  BY <1>11, <1>3, <1>5, <1>6 DEF NoEntry, FindEntry, ArgumentsDone, Execute, AfterElements, rtVars
<1>12. CASE NoArgument
  BY <1>12, <1>3, <1>5 DEF NoArgument
<1>13. CASE NextArgument \/ LastArgument
  BY <1>13, <1>2, <1>3, <1>7 DEF NextArgument, LastArgument, Missing, PushArg
<1> QED
  BY <1>8, <1>9, <1>10, <1>11, <1>12, <1>13, TablesMade, ElementTables DEF Instantiate

\* What the element segments write is an invariant,
THEOREM TablesInvariant == LaunchSpec => []TablesInv
<1>1. LaunchInit => TablesInv
  BY DEF LaunchInit, CommandInit, TablesInv, BeforeTables, AfterElements, UnderWay
<1>2. LaunchInv /\ TablesInv /\ [LaunchNext]_launchVars => TablesInv'
  <2> SUFFICES ASSUME LaunchInv, TablesInv, [LaunchNext]_launchVars PROVE TablesInv'
    OBVIOUS
  <2>1. CASE UNCHANGED launchVars
    <3>1. phase' = phase /\ file' = file /\ rtTables' = rtTables /\ segment' = segment /\ mod' = mod
      BY <2>1 DEF launchVars, commandVars, rtVars, mod
    <3>2. \A k : Inside(k)' <=> Inside(k)
      BY <3>1 DEF Inside
    <3>3. /\ \A t, j : Over(Len(mod.elements), t, j)' = Over(Len(mod.elements), t, j)
          /\ \A t, j : Over(segment, t, j)' = Over(segment, t, j)
      BY <3>1 DEF Over, Covers
    <3>4. /\ \A t, j : Entry(Len(mod.elements), t, j)' = Entry(Len(mod.elements), t, j)
          /\ \A t, j : Entry(segment, t, j)' = Entry(segment, t, j)
      BY <3>1, <3>3 DEF Entry
    <3>5. /\ WrittenBy(segment) => WrittenBy(segment)'
          /\ WrittenBy(Len(mod.elements)) => WrittenBy(Len(mod.elements))'
      BY <3>1, <3>2, <3>4 DEF WrittenBy
    <3>6. Shaped => Shaped'
      BY <3>1 DEF Shaped
    <3>7. (~Inside(segment + 1))' <=> ~Inside(segment + 1)
      BY <3>1 DEF Inside
    <3> QED BY <3>1, <3>5, <3>6, <3>7 DEF TablesInv
  <2> QED BY <2>1, CommandTables, InstantiateTables DEF LaunchNext
<1> QED BY <1>1, <1>2, LaunchedInvariant, PTL DEF LaunchSpec

\* Once the elements are written, every segment lies inside its table, and an
\* entry is the function that the last segment over it names, or null; no
\* segment that lies inside is refused as too long.
THEOREM TablesFilledAlways == LaunchSpec => []TablesFilled
<1>1. LaunchInv /\ TablesInv => TablesFilled
  <2> SUFFICES ASSUME LaunchInv, TablesInv PROVE TablesFilled
    OBVIOUS
  <2>1. ASSUME phase \in {"entry", "arguments", "execute", "run"}
        PROVE  /\ \A k \in DOMAIN mod.elements : Inside(k)
               /\ \A t \in DOMAIN rtTables : \A j \in DOMAIN rtTables[t] :
                    LET over == {k \in DOMAIN mod.elements : Covers(k, t, j)}
                    IN  rtTables[t][j] = IF over = {} THEN Null
                                         ELSE mod.elements[Max(over)].items[j - mod.elements[Max(over)].init.val]
    <3>1. file # <<>> /\ WrittenBy(Len(mod.elements))
      BY <2>1 DEF TablesInv, AfterElements, UnderWay
    <3>2. DOMAIN mod.elements = 1 .. Len(mod.elements)
      BY <3>1, ModVectors DEF Vectors
    <3> QED BY <3>1, <3>2 DEF WrittenBy, Entry, Over
  <2> QED BY <2>1 DEF TablesFilled, TablesInv
<1> QED BY <1>1, LaunchedInvariant, TablesInvariant, PTL

-----------------------------------------------------------------------------
(* The types.                                                              *)

ArgumentsInv ==
  /\ at \in 1 .. Len(argv) + 1
  /\ rtEntryIdx = <<>> \/ \E idx : rtEntryIdx = <<idx>>
  /\ \E S : rtStack \in Seq(S)
  /\ \A i \in DOMAIN rtStack : rtStack[i].type \in ValueTypes

\* A value that is pushed has a type of which there are values.
LEMMA Pushed ==
  ASSUME ArgumentsInv, NEW piece, NEW view, PushArg(piece, view)
  PROVE  ArgumentsInv'
<1> DEFINE type == ArgTypes[Len(rtStack) + 1]
<1>1. CASE ConversionError(piece, type) # "none"
  BY <1>1 DEF PushArg, Fail, End, rtVars, ArgumentsInv
<1>2. CASE ConversionError(piece, type) = "none"
  <2>1. type \in ValueTypes
    BY <1>2 DEF ConversionError
  <2>2. /\ rtStack' = Append(rtStack, Typed(type, piece.n))
        /\ UNCHANGED <<commandVars, rtEntryIdx>>
    BY <1>2 DEF PushArg
  <2> HIDE DEF type
  <2>3. PICK S : rtStack \in Seq(S)
    BY DEF ArgumentsInv
  <2>4. rtStack' \in Seq(S \cup {Typed(type, piece.n)})
    BY <2>2, <2>3
  <2>5. \A i \in DOMAIN rtStack' : rtStack'[i] = Typed(type, piece.n) \/ (i \in DOMAIN rtStack /\ rtStack'[i] = rtStack[i])
    BY <2>2, <2>3
  <2>6. \A i \in DOMAIN rtStack' : rtStack'[i].type \in ValueTypes
    BY <2>1, <2>5 DEF Typed, ArgumentsInv
  <2>7. \E T : rtStack' \in Seq(T)
    BY <2>4
  <2> QED BY <2>2, <2>6, <2>7 DEF ArgumentsInv, commandVars
<1> QED BY <1>1, <1>2

LEMMA ArgumentsKept ==
  ASSUME ArgumentsInv, argv' = argv, at' = at, rtStack' = rtStack,
         rtEntryIdx' = rtEntryIdx \/ \E idx : rtEntryIdx' = <<idx>>
  PROVE  ArgumentsInv'
  BY DEF ArgumentsInv

LEMMA InstantiateArguments ==
  ASSUME ArgumentsInv, Instantiate
  PROVE  ArgumentsInv'
<1>1. CASE NextArgument \/ LastArgument
  BY <1>1, Pushed DEF NextArgument, LastArgument
<1>2. CASE FindEntry
  BY <1>2, ArgumentsKept DEF FindEntry, Fail, End, Go, rtVars
<1>3. \A e : Fail(e) => ArgumentsInv'
  BY ArgumentsKept DEF Fail, End, rtVars
<1>4. \A n : Go(n) /\ UNCHANGED <<rtStack, rtEntryIdx>> => ArgumentsInv'
  BY ArgumentsKept DEF Go
<1>5. CASE InitGlobals \/ InitFuncs \/ InitMems \/ InitData \/ InitTables
  BY <1>5, <1>3, <1>4 DEF InitGlobals, InitFuncs, InitMems, InitData, InitTables, rtVars
<1>6. CASE InitElement
  BY <1>6, <1>3, ArgumentsKept DEF InitElement, commandVars
<1>7. CASE ElementsDone \/ NoEntry \/ NoArgument \/ ArgumentsDone \/ Execute
  BY <1>7, <1>3, <1>4 DEF ElementsDone, NoEntry, NoArgument, ArgumentsDone, Execute, rtVars
<1> QED BY <1>1, <1>2, <1>5, <1>6, <1>7 DEF Instantiate

LEMMA CommandArguments ==
  ASSUME LaunchInv, ArgumentsInv, CommandNext, UNCHANGED rtVars
  PROVE  ArgumentsInv'
<1>1. Len(argv) \in Nat
  BY CommandLinesAssumption DEF LaunchInv
<1>2. rtStack' = rtStack /\ rtEntryIdx' = rtEntryIdx
  BY DEF rtVars
<1>3. \A e : End(e) => ArgumentsInv'
  BY <1>2, ArgumentsKept DEF End
<1>4. \A s, ps : at <= Len(argv) /\ Parsed(s, ps) => ArgumentsInv'
  BY <1>1, <1>2 DEF Parsed, ArgumentsInv
<1>5. CASE ParseEmpty \/ ParseExclusive
  BY <1>5, <1>3, Zenon DEF ParseEmpty, ParseExclusive
<1>6. CASE ParsePath \/ ParseInvoke \/ ParseJit \/ ParseUnknown
  BY <1>6, <1>4, Zenon DEF ParsePath, ParseInvoke, ParseJit, ParseUnknown, Parsing
<1>7. CASE ParseDone
  BY <1>7, <1>2, ArgumentsKept DEF ParseDone
<1>8. CASE Main
  BY <1>8, <1>2, <1>3, ArgumentsKept DEF Main
<1> QED BY <1>5, <1>6, <1>7, <1>8, Zenon DEF CommandNext

\* The state of the launch is of its type: a module is there while it is
\* instantiated, and every value on the stack is of one of the value types.
THEOREM LaunchTypesCorrect == LaunchSpec => []LaunchTypeOK
<1>1. LaunchInit => ArgumentsInv
  <2> SUFFICES ASSUME LaunchInit PROVE ArgumentsInv
    OBVIOUS
  <2>1. argv \in CommandLines /\ at = 1 /\ rtStack = <<>> /\ rtEntryIdx = <<>>
    BY DEF LaunchInit, CommandInit
  <2>2. Len(argv) \in Nat /\ rtStack \in Seq({})
    BY <2>1, CommandLinesAssumption
  <2>3. \A i \in DOMAIN rtStack : rtStack[i].type \in ValueTypes
    BY <2>1
  <2>4. \E S : rtStack \in Seq(S)
    BY <2>2
  <2> QED BY <2>1, <2>2, <2>3, <2>4 DEF ArgumentsInv
<1>2. LaunchInv /\ ArgumentsInv /\ [LaunchNext]_launchVars => ArgumentsInv'
  <2>1. LaunchInv /\ ArgumentsInv /\ UNCHANGED launchVars => ArgumentsInv'
    BY DEF launchVars, commandVars, rtVars, ArgumentsInv
  <2> QED BY <2>1, CommandArguments, InstantiateArguments DEF LaunchNext
<1>3. LaunchInv /\ ArgumentsInv /\ TablesInv => LaunchTypeOK
  <2> SUFFICES ASSUME LaunchInv, ArgumentsInv, TablesInv PROVE LaunchTypeOK
    OBVIOUS
  <2>1. Len(rtEntryIdx) <= 1
    <3>1. CASE rtEntryIdx = <<>>
      BY <3>1
    <3>2. CASE \E idx : rtEntryIdx = <<idx>>
      BY <3>2
    <3> QED BY <3>1, <3>2 DEF ArgumentsInv
  <2>2. \A i \in DOMAIN rtTables : DOMAIN rtTables[i] = 1 .. mod.tables[i].initial
    BY DEF TablesInv, Shaped
  <2> QED BY <2>1, <2>2 DEF LaunchTypeOK, ArgumentsInv, TablesInv
<1> QED BY <1>1, <1>2, <1>3, LaunchedInvariant, TablesInvariant, PTL DEF LaunchSpec
=============================================================================
