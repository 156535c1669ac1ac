------------------------------- MODULE Launch -------------------------------
(***************************************************************************)
(* From the command line to the interpreter: the state that the launch     *)
(* hands over is an initial state of Interpreter.                          *)
(***************************************************************************)
EXTENDS Instantiator, WasmModule

\* The module Interpreter runs, in the form of WasmModule.
Program(m, funcs, globals, table, entry, args) ==
  [types |-> m.types, funcs |-> funcs, globals |-> globals, table |-> table,
   entry |-> entry, args |-> args]

\* The first function that a module exports under a name.
Named(m, name) == {k \in DOMAIN m.exports : m.exports[k].name = name /\ m.exports[k].kind = "func"}
EntryOf(m, name) == m.exports[FirstOf(Named(m, name))].idx
ParamsOf(m, idx) == m.types[m.indices[idx + 1] + 1].params

\* The first table, with the function of the last segment over each entry.
TableOf(m) ==
  IF m.tables = <<>> THEN <<>>
  ELSE [j \in 1 .. m.tables[1].initial |->
          LET over == {k \in DOMAIN m.elements :
                         m.elements[k].idx = 0 /\ j - m.elements[k].init.val \in DOMAIN m.elements[k].items}
          IN  IF over = {} THEN Null
              ELSE m.elements[Max(over)].items[j - m.elements[Max(over)].init.val]]

\* What asking for a function of a module means, if it can be run: the module
\* as it was loaded, and of the arguments as many as there are parameters.
Runnable(m, asked) ==
  /\ Named(m, asked.name) # {}
  /\ EntryOf(m, asked.name) < Len(m.defs)
  /\ Len(asked.pieces) >= Len(ParamsOf(m, EntryOf(m, asked.name)))

Request(m, asked) ==
  LET entry == EntryOf(m, asked.name)
      params == ParamsOf(m, entry)
  IN  Program(m,
              [i \in DOMAIN m.defs |-> [type |-> m.indices[i], locals |-> m.defs[i].locals,
                                       code |-> m.defs[i].code]],
              [i \in DOMAIN m.globals |->
                 [mutable |-> m.globals[i].mutable,
                  init |-> Typed(m.globals[i].type, m.globals[i].init.val)]],
              TableOf(m), entry,
              [i \in DOMAIN params |-> Typed(params[i], asked.pieces[i].n)])

\* The modules that Interpreter may be given.
Executable ==
  LET Types == Seq(STRING)
      Values == Seq([type : ValueTypes, val : Int])
      Instructions == Seq([op : STRING, n : Int, t : STRING, e : Seq(Int), last : Nat])
  IN  [types : Seq([params : Types, results : Types]),
       funcs : Seq([type : Nat, locals : Seq(ValueTypes), code : Instructions]),
       globals : Seq([mutable : BOOLEAN, init : [type : ValueTypes, val : Int]]),
       table : Seq(Int), entry : Nat, args : Values]

\* What was instantiated.
Instantiated ==
  Program(mod,
          [i \in DOMAIN rtFuncs |->
             LET t == rtFuncs[i].funcType
                 n == Len(t.params)
             IN  [type |-> IndexFirstSubSeq(<<t>>, mod.types) - 1,
                  locals |-> [k \in 1 .. Len(rtFuncs[i].localsDefault) - n |->
                                rtFuncs[i].localsDefault[n + k].type],
                  code |-> rtFuncs[i].codeEntry]],
          [i \in DOMAIN rtGlobals |-> [mutable |-> mod.globals[i].mutable, init |-> rtGlobals[i]]],
          IF rtTables = <<>> THEN <<>> ELSE rtTables[1],
          rtEntryIdx[1], rtStack)

Engine == INSTANCE Interpreter WITH
  Modules <- Executable, mod <- Instantiated,
  stack <- [i \in DOMAIN rtStack |-> [kind |-> "value", value |-> rtStack[i]]],
  labelMap <- <<>>, activMap <- <<>>, labelCount <- 0,
  pc <- At(0, 1), globals <- rtGlobals, contStore <- << >>,
  status <- "EXECUTING", outcome <- "running", result <- <<>>,
  ValType <- ValueTypes, Data <- {}, Addr <- {}, Arity <- {}, Locals <- {}, Capacity <- 1

\* The interpreter starts in one of its initial states, on a module as its proofs
\* assume it (Startable), which is the one that the command line asks for: its
\* functions, globals and table, the entry function of the name given, and one
\* argument of the right type for each parameter, those of the command line in
\* their order.
HandsOver ==
  phase = "run" =>
    /\ Runnable(mod, AskedIn(argv)) /\ Instantiated = Request(mod, AskedIn(argv))
    /\ Engine!Startable(Instantiated) /\ Engine!Init
=============================================================================
