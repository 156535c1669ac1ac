----------------------------- MODULE CommandLine -----------------------------
(***************************************************************************)
(* The command line (Options::parse of lib/options.cc and the handlers     *)
(* that src/twvm.cc gives it) and the global key-value store it fills      *)
(* (lib/include/state.hh), up to the start of the load.                    *)
(*                                                                         *)
(* An element of argv is [opt, value]: opt is the part before `=`, "path"  *)
(* if it does not begin with a dash, "" if it is empty; value is the rest, *)
(* <<>> if there is none.  That of -i=f,1,x is the name f and the pieces   *)
(* 1 and x between the commas, <<>> if there is no comma.                  *)
(***************************************************************************)
EXTENDS Integers, SequencesExt

CONSTANTS CommandLines,  \* the argument vectors, without the program's name
          Files          \* the module in the file of each path

ASSUME CommandLinesAssumption ==
  \A line \in CommandLines : Len(line) \in Nat /\ DOMAIN line = 1 .. Len(line)

VARIABLES argv,
          at,        \* the argument that is looked at
          paths,     \* inputPaths
          store,     \* State::store
          phase,     \* what is under way, or how the process ended
          file,      \* the module loaded, once <<module>>
          jitEnabled

commandVars == <<argv, at, paths, store, phase, file, jitEnabled>>

\* State::createItem is an emplace: an item that is there stays.
CreateItem(key, v, s) == [k \in DOMAIN s \cup {key} |-> IF k \in DOMAIN s THEN s[k] ELSE v]

EntryName == "entryFuncName"
EntryArgs == "entryArgs"

\* The handler of -i: its name, and its arguments if it has any.
Invoked(v, s) ==
  LET named == CreateItem(EntryName, v.name, s)
  IN  IF v.pieces = <<>> THEN named ELSE CreateItem(EntryArgs, v.pieces, named)

-----------------------------------------------------------------------------
Parsing(opts) == phase = "parse" /\ at <= Len(argv) /\ argv[at].opt \in opts

Parsed(s, ps) ==
  /\ store' = s /\ paths' = ps /\ at' = at + 1
  /\ UNCHANGED <<argv, phase, file, jitEnabled>>

End(how) == phase' = how /\ UNCHANGED <<argv, at, paths, store, file, jitEnabled>>

\* cmd.at(0) of an empty argument.
ParseEmpty == Parsing({""}) /\ End("std::out_of_range")

ParsePath == Parsing({"path"}) /\ Parsed(store, Append(paths, argv[at].value[1]))

\* Without a value -i does nothing.
ParseInvoke ==
  /\ Parsing({"-i"})
  /\ Parsed(IF argv[at].value = <<>> THEN store ELSE Invoked(argv[at].value[1], store), paths)

ParseJit == Parsing({"--jit"}) /\ Parsed(CreateItem("jit_enabled", "true", store), paths)

\* Mutant: the program goes on after its version or its help.
ParseExclusiveOn == Parsing({"-v", "-h"}) /\ Parsed(store, paths)

\* An EXCLUSIVE option: the process exits behind its handler.
ParseExclusive == Parsing({"-v", "-h"}) /\ End("exit")

\* An option that nobody added is passed over.
ParseUnknown ==
  /\ phase = "parse" /\ at <= Len(argv)
  /\ argv[at].opt \notin {"", "path", "-i", "--jit", "-v", "-h"}
  /\ Parsed(store, paths)

\* pathHandler.
ParseDone ==
  /\ phase = "parse" /\ at > Len(argv)
  /\ store' = IF paths = <<>> THEN store ELSE CreateItem("path", paths[1], store)
  /\ phase' = "main"
  /\ UNCHANGED <<argv, at, paths, file, jitEnabled>>

Main ==
  /\ phase = "main"
  /\ IF "path" \in DOMAIN store
     THEN /\ file' = <<Files[store["path"]]>>
          /\ jitEnabled' = ("jit_enabled" \in DOMAIN store /\ store["jit_enabled"] = "true")
          /\ phase' = "globals"
          /\ UNCHANGED <<argv, at, paths, store>>
     ELSE End("INVALID_INPUT_PATH")

CommandInit ==
  /\ argv \in CommandLines
  /\ at = 1 /\ paths = <<>> /\ store = << >>
  /\ phase = "parse" /\ file = <<>> /\ jitEnabled = FALSE

CommandNext ==
  \/ ParseEmpty \/ ParsePath \/ ParseInvoke \/ ParseJit
  \/ ParseExclusive \/ ParseUnknown \/ ParseDone \/ Main

-----------------------------------------------------------------------------
(* What a command line asks for, read off argv as a whole.                 *)

Given(line, opts) == {k \in DOMAIN line : line[k].opt \in opts}
FirstOf(ks) == CHOOSE k \in ks : \A j \in ks : k <= j

\* The function that is invoked, and its arguments: those of the first -i.
AskedIn(line) ==
  LET invocations == {k \in Given(line, {"-i"}) : line[k].value # <<>>}
  IN  IF invocations = {} THEN [name |-> "main", pieces |-> <<>>]
      ELSE line[FirstOf(invocations)].value[1]

\* A module is instantiated only for a command line without an option that
\* ends the program: it is the first of the files named, and with the JIT
\* if and only if --jit stands anywhere.
LaunchedAsAsked ==
  file # <<>> =>
    /\ Given(argv, {"", "-v", "-h"}) = {}
    /\ file[1] = Files[argv[FirstOf(Given(argv, {"path"}))].value[1]]
    /\ jitEnabled = (Given(argv, {"--jit"}) # {})
=============================================================================
