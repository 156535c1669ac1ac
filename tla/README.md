# A TLA+ verification of TWVM

TWVM is a small WebAssembly virtual machine in C++: it loads a binary module, instantiates it, and interprets its entry
function (with `--jit`, functions called often are compiled through LLVM). These modules model it from the command line to
the result: the launch, the loader, the interpreter's control over a tracked frame stack, the JIT tier, the numeric
instructions and the linear memory. TLC checks them on small instances, and TLAPS proves the safety of the interpreter's
control, with and without the JIT tier, of the loader, the launch and the memory for every value of the constants, and that
the interpreter implements WebAssembly's structured control for every program within the part of the language it gets right. All
definitions are translated from the sources at this commit; `PROJECT.json` names the lines each one stands for, each run,
each theorem and each disagreement found.

    tlc -config MCInterpreter.cfg MCInterpreter        # any run: module and cfg as listed under "runs"
    tlapm InterpreterProofs.tla                        # the proofs: this, and
                                                       # NatRecursion, FrameStackProofs, RefinementProofs, JitProofs,
                                                       # LoaderProofs, LaunchProofs, LinearMemoryProofs

## 1. Inventory of the system

The program (`src/src/twvm.cc`) runs `Loader::load`, `Instantiator::instantiate` and `Executor::execute` in a row, on one
thread. Every error ends the process (`Exception::terminate`); a C++ exception does too, because nothing catches one.
So nothing persists, nothing interleaves, and there are no messages: what is hard in this code is *bookkeeping over long
sequences of steps*, caches of positions, arithmetic of mixed widths at boundaries, and input that is not validated.

| Component | State | Operations | Talks to | What is hard, what makes it correct | Here |
|---|---|---|---|---|---|
| Executor (`executor.hh`, `executor.cc`) | `Runtime::stack` (values, labels, activations in one vector), `frameBitmap` (positions of labels and activations), `labelAboveActivFrameCount`, `pc`, cache of continuations, engine status | push a frame, erase a range, return from a frame, find the tracked frame, crawl for a block's end, start, post-process | called by every handler | Cached positions must describe the stack after any sequence of branches, calls and returns; a callee must not reach its caller's frames; the crawl must find the block's own end | `FrameStack`, `Interpreter` |
| Interpreter (`interpreter.cc`) | that of Executor, globals | one handler per opcode, reached by computed goto | Executor, memories, tables, JIT | Branch depth against labels against function level; returns; operands' order; which handlers test the engine status; the program ends with the standard's result | `Interpreter`, `WasmControl` |
| Linear memory (`interpreter.cc`, `executor.hh`, `instantiator.cc`) | `RTMemHolder`: block, size in pages, maximum | allocate, data segment, load, store, `memory.size`, `memory.grow` | C `malloc`/`realloc` | Units (bytes or pages), signedness and wrap at limits; an accepted access is inside the block; a grow answers what it did | `LinearMemory` |
| Loader, Reader (`loader.cc`, `reader.cc`, `reader.hh`) | stream, last section id, `Module` | preamble, section loop, a handler for each section | Decoder, the file | Handlers ignore the announced size of their section: each must stop exactly at the next; order of sections; truncated files must not loop | `Loader` |
| Decoder (`decoder.hh`) | none | LEB128: decode signed and unsigned, encode | Loader, Executor | Shifts and sign extension at each width; the driver's call must decode to the index it encodes | `Leb128`, `Loader` |
| Instantiator (`instantiator.cc`) | builds `Runtime` | globals, functions, memories, data, tables, elements, entry, arguments | Loader's `Module`, State | Bounds of segments, overlapping segments, order of entry lookup, conversion of the arguments | `Instantiator`, `Launch` |
| JIT tier (`jit_compiler.cc`, `interpreter.cc`) | `executionCount`, `isJitCompiled`, machine code of each function | count, compile, call machine code | Interpreter, LLVM | The program must not notice: results, parameters, failed and repeated compilations, calls under way | `JitTier`, `JitTransparency` |
| Numeric instructions (`interpreter.cc`, `util.hh`) | none | ~120 pure operators | Executor | Least numbers, shifts by the width, NaN, signed zeros, bounds of truncations | `IntOps`, `FloatOps` |
| State, Options, main (`state.hh`, `options.cc`, `twvm.cc`) | key-value store, paths | get, create; parse; launch | all | Repeated options, options that end the process, what is asked is what runs | `CommandLine` |
| Exception, opcode tables | none | | all | terminate ends everything | an outcome in each module |

`PROJECT.json` lists under `hazards` what could go wrong in these parts, at its line, with the properties that would show it.

## 2. The modules

Positions are 1-based in the modules and 0-based in the C++ vectors. A C++ exception or `Exception::terminate` is a value
of `outcome` after which nothing happens. Texts of messages and logging are left out.

**FrameStack** models the methods of `Executor` that touch the stack, the two index vectors and the label counter, and the
steps that the opcode handlers compose of them, *for any bytecode*. TWVM does not validate code, so this module assumes
nothing of it: every operand count, branch depth, continuation and result type may come. `stack`, `labelMap`, `activMap`,
`labelCount` are `stack`, `frameBitmap[LABEL]`, `frameBitmap[ACTIVATION]`, `labelAboveActivFrameCount`. `Start`,
`Evaluate`, `AssignLocal`, `OpenLabel`, `Branch`, `Call` and `Return` are the ways a handler changes them. Its constants
bound the values; `Capacity` bounds the vectors. Its properties are invariants of the bookkeeping (`ActivTracked`,
`LabelTracked`, `EntryAtBottom`) and the isolation of callers (`FrameIsolation`).

**WasmModule** is the executable module (functions, types, globals, table, entry) with decoded instructions instead of
bytes, and the static structure of code: nesting, the end of a block, its elses. Only two facts about bytes survive the
decoding, where the engine looks at a byte: `ReadEndByte` in Interpreter, for which an instruction keeps the last byte of
its immediates (it may be any, since a LEB128 may be padded), and the LEB128 in Loader.

**Interpreter** extends FrameStack with programs. One action for each opcode: `DoBlock` is `doBlock`, `BranchTo` the part
of `doBr` shared by `br`, `br_if`, `br_table`, `else` and `end`, `ReturnWith` is `doReturn`, `Invoke` `doCall`, and so on.
Every failing test of a handler is a disjunct that ends the process with its error. `Crawl` is the scan for the
continuations of a block, a recursive function of the turns of its loop (`CrawlOver`, with the counts of open inner blocks
and inner elses), and `contStore` its cache. `Startable` is what instantiation guarantees of the module that is executed
(MCLaunch checks it of what is handed over), `Structured` what the binary format says of a body and nobody tests.
`Dispatch` makes explicit that only `end` and `return` test the engine status behind their handlers.
The integer instructions are those of IntOps, on i32 of `Width` and i64 of `LongWidth` bits.

**WasmControl** is the abstract specification: structured control as WebAssembly 1.0 defines it, with no continuations,
index vectors, counter, cache or status. Targets, carried values and ends are read off the nesting of the code. A step
without the operands the standard requires is `Undefined`: the engine may end in any way but must not go on.
**InterpreterRefinement** maps the interpreter's state to it, and `RefinesWasm` says that the interpreter implements it.
It also says of which modules: `Conforming` delimits the part of the language that the engine runs as the standard does, and
`ArithmeticAgrees` and `ConversionsAgree` say that its integers are the standard's at a width.

**IntOps** are the integer instructions on w bits, with the casts the code makes and what it leaves undefined;
**WasmInts** defines them once more, on the bits of their operands, as the standard does. **FloatOps** are the
floating-point instructions whose results are exact, on floats given by a sign and a magnitude in halves (with infinity,
NaN, two zeros, and a significand whose length is a parameter); **Leb128** is the decoder and the encoder of
`decoder.hh`, with groups of `Group` bits; **WasmNumerics** is the standard's side of both. **Numeric** applies each
of them to each input.

**JitTier** extends Interpreter with `--jit`. `TieredCall` is `doCall` with its counter (saturated at `Threshold`, 100
in the code, and any number that does not compile at the driver's own call), `Compile` is `compileFunction`, which LLVM
may fail at any call, `Emit` and `Native` are what
`translateToIR` makes of a body, and `ExecuteJIT` is `executeJITFunction`. **JitTransparency** runs one program twice, by
the interpreter alone and then under `--jit`, and states that the two end alike.

**CommandLine** is `Options::parse` with the options of `main`, the store, and `main` up to the load. **Instantiator**
continues with `Instantiator::instantiate`, one action for each of its parts, one for each element segment and each
argument, and with every error that ends it. **Launch** relates its end to the beginning of the interpreter: what was
instantiated is an initial state of Interpreter (`Engine!Init`), on the module that the command line asks for.

**LinearMemory** has the default memory with its data segments, loads, stores, `memory.size` and `memory.grow`, for every
operand size. The widths of the C++ types are parameters (`WordSize` values of an i32, `SizeSize` of a `size_t`), so that
wraps occur on small numbers. Of the contents the set `dirty` of bytes that may differ from zero is kept: enough to state
that grown pages are zero and that nothing is written outside the block. What is undefined in C++ (the `memset` of a
shrunk memory, the block after `realloc` to zero bytes) is the outcome "undefined".

**Loader** has the preamble, the section loop with the test of the sections' order, and for each handler where in the
stream it stops and how many entities it appends. Positions behind the last byte stand for a failed stream, for a loop that
reads end-of-file until memory is used up, and for two errors a handler raises. The contents of entities are not kept.

**TestModules** has the modules of `tests/modules` that use the instructions at hand, disassembled, with the results
`tests/gtest_all.cc` expects; **Divergences** has one valid module for each construct on which the engine departs from the
standard, with the standard's result and the engine's; **Programs** enumerates every well-nested body of a length over an
alphabet. The `MC*` modules instantiate the above. The proofs are in **FrameStackProofs**, **InterpreterProofs** (which
begins with the nesting and the crawl), **RefinementProofs**, **JitProofs**, **LoaderProofs**, **LaunchProofs** and
**LinearMemoryProofs**; **NatRecursion** has induction and recursion over the natural numbers for them.

## 3. The runs

| Run | Instance | States | What it shows |
|---|---|---|---|
| MCFrameStack | vectors of at most 5 frames, two value types, result types `<<>>` and `<<"i32">>` | 480,110 | The four invariants and `FrameIsolation` for any sequence of steps, thus for any bytecode. Five frames hold an entry, a callee, a label of each and a result. |
| MCInterpreter | every well-nested main body of up to 5 instructions of control, and up to 2 of all instructions with immediates inside and beyond their ranges, valid or not, with a callee that branches out of a block; 8 frames, 4-bit i32, 8-bit i64 | 75,102 | Bookkeeping with real control: no fetch beyond the body, no more labels than blocks, each activation returns behind its own call, the crawl and its cache agree with the nesting, callers are untouched. Bodies of 5 nest two blocks with a branch between, call inside and outside of blocks, and recurse. |
| MCInterpreterTests | 17 modules of the test suite, Fibonacci of 10 included, its integer tests, a loop that counts down, a padded `br 11`, and 6 modules of Divergences; 64 frames, 8-bit i32 | 2,627 | Each ends, and with the outcome and result the test expects; for a construct on which the engine departs from the standard, with the outcome the engine comes to. |
| MCRefinement | the test modules, the counting loop and the padded branch, every nested body of up to 5, straight code and calls of every other kind, every integer instruction but rem_s on both types, one of six behind it; 8-bit i32, 16-bit i64 | 148,427 | The interpreter implements WasmControl on the part of the language where it follows the standard. Its `ASSUME`s evaluate the hypotheses of the proof: `Conforming` of the modules (but for those tests that use rem_s or a table which is not the identity), the arithmetic at 4 bits, the conversions between 8 and 16. |
| MCJit | every valid straight body of a set of instructions up to a length, translatable or not, called by five main functions directly, through the table and by other functions; compiled from the second call on | 194,732 | Whichever calls run machine code, a program ends as without `--jit`; a function with a call under way is never compiled. |
| MCNumeric | integers of 4 bits with every operand, of 8 bits at the edges; conversions of 8 and 16 bits; floats of significands of 2 and 7 bits; encodings of up to 6 bytes of 3 bits | 53,472 | The engine's results are the standard's, trap for trap; a constant is decoded to what is encoded; the driver's call decodes to its index and no further. |
| MCLaunch | every command line of up to 4 of 10 arguments, every invocation of 4 functions with pieces that are numbers, none, or too large; modules with every two element segments, or with one fault | 113,122 | Only the function asked for is started, on the module as loaded, with one argument of the right type for each parameter; tables hold what the last segment says. |
| MCLinearMemory | pages of 8 bytes, at most 8 pages, i32 of 64 values, initial sizes 1 and 3, every limit | 275,746 | Sizes within limits, accepted accesses inside, faithful growth, over any sequence of operations. |
| MCLoader | every sound file of up to 3 sections of 11 forms in any order, a custom section last only; every pair of 16 forms of section, truncated and unknown ones among them; broken headers | 6,170 | Framing, order, completeness, header; loading consumes and comes to an end, whatever the file. |
| CallInsideBlock | a module of Divergences | | `RefinesWasm` is violated, see section 4. |
| AccessBeyondPageCount | as MCLinearMemory, with the operand in question | | `RefusedOutside` is violated. |
| JitFallback | a function without parameters, called twice | | `Transparent` is violated. |

A violated run is expected to be: each states what a document, comment or message of the repository says.

Bounds. Every handler of `FrameStack` looks at the running activation, the one below it and the labels above it; one more
frame of each kind adds no new case, and the proofs do without the bound. The scaled widths of `LinearMemory` keep the
relations that the code relies on (`PageSize * MaxPages` is the number of i32 values; a `size_t` holds every product);
the page size of 8 is the least at which the code's bounds test is sound (see the proofs). The sections of `MCLoader`
contain each form of entity, a length of two LEB128 bytes, a data segment that holds the byte `0x0b`, and sections are at
most 127 bytes long, so that their own size is one byte. In `MCJit` the second call is the first that may compile: any
threshold divides the calls into those before and those behind it, and every main function calls at least twice. A
group of 3 bits in an int of 8 has, like 7 in 32, a remainder. In `MCLaunch` four arguments hold a path, two
invocations and one more option in any order.

Deadlock is checked in all runs but those of LinearMemory, where a refused access ends the process, of Numeric, where
one instruction is the whole run, and of Launch, which ends with the process or with the interpreter's start. FrameStack
always has a step (an assignment of locals or a start). Interpreter and Loader let an ended process stutter by an
explicit action.

Fairness. Only MCInterpreterTests uses it: weak fairness of `Step`. The engine is one thread in a loop without waiting,
so that a step which can be taken is taken. Nothing else competes with it. That loading ends is shown without fairness, by
`LoadingAdvances` (each turn moves the position, which is bounded) and the absence of deadlock.

Left out of a passing run because the code breaks its property there (next section): in MCRefinement, what
`Conforming` excludes; in MCLinearMemory, `memory.grow(-1)` and memories of no pages; in
MCLoader, custom sections before others in files of three, the start section, initialisers with the byte `0x0b`, files
that end inside their version; in MCJit, compiled functions of other signatures in use; in MCNumeric and MCLaunch, the
inputs that section 4 names. Segments with negative offsets are left out altogether.

## 4. What disagrees with the documentation

Three disagreements have a run that TLC finds violated; `PROJECT.json` quotes the line each one contradicts.

| Run | The code |
|---|---|
| CallInsideBlock | A call sets the label counter to zero and the return does not restore it: the caller's open blocks are no longer counted, and the `end` of one leaves the function. |
| AccessBeyondPageCount | Loads and stores compare bytes with pages: most of a memory is refused. |
| JitFallback | Machine code of another signature than i32 -> i32 is not run, and nothing else is: the parameters are gone, and there is no result. |

More are modules of `Divergences`; MCInterpreterTests checks that the engine ends as said here (but for
BranchOutOfEntry), and the property is violated when `Modules` in `CallInsideBlock.cfg` is that set: `RefinesWasm` for
all but BranchOutOfEntry, which violates `StopIsFinal`.

| Set | The code |
|---|---|
| TwoParameters | A function of two parameters gets them in reverse order. |
| BranchOutOfEntry | A branch out of the entry function stops the engine, and the next instruction is run all the same. |
| BranchElevenBlocks | A branch whose last byte is `0x0b` is taken for an `end` and does not jump: `br 11`, and likewise the depths 1408 to 1535 and others whose LEB128 ends in that byte (`MCEndBytes`). |
| LoopWithResult | A branch to a loop with a result demands the result. |
| IfWithoutElse | An `if` without `else` is refused. |
| TableOfOne | `call_indirect` uses its operand as function index; the table's entries are not read. |

The rest shows when a constant of the run of that module gets another value (`StopIsFinal` and `GrowDefined` are not in
the cfgs and take the place of the property named there):

| Change | Violates | The code |
|---|---|---|
| `Delta <- NegativeDelta` | `GrowDefined` | `memory.grow` takes its operand as signed: -1 shrinks the memory and clears nearly 2^64 bytes. |
| `Files <- CustomBetween` | `OrderChecked` | Behind a custom section the order of sections starts again. |
| `IntInputs <- RemLeast` | `IntegersAsStandard` | The least number rem_s -1 is undefined in C++; on x86 it faults, where the standard has 0. |
| `FloatInputs <- NaNBehind` | `FloatsAsStandard` | `std::min` and `std::max` of a number and a NaN are the number, where the standard has NaN. |
| `FloatInputs <- UnlikeZeros` | `FloatsAsStandard` | They return the first of two zeros, whatever the signs. |
| `FloatInputs <- FirstAbove` | `FloatsAsStandard` | The greatest integer, converted to a short float, rounds up: the first number above the type is accepted. |
| `FloatInputs <- AboveUnsigned` | `FloatsAsStandard` | Truncation to an unsigned type has no upper bound. |
| `LebInputs <- LongConstants` | `ConstantsDecoded` | A negative i64 constant of 5 to 9 bytes (of 3 to 5 groups here) is extended by an int shifted beyond its width. |
| `CommandLines <- MixedInvocations` | `HandsOver` | Of `-i=f -i=g,3` the name of the first and the arguments of the second are joined. |
| `CommandLines <- LastOfSeveral` | `HandsOver` | Of `-i=g,1,2` the last argument is 1, the number at the front of the whole text. |
| `Segments <- FullSegment`, `Initial = {1}`, `Address = {}` | `RefusedOutside` | A data segment that ends with the memory's last byte is refused. |
| `Initial = {8}`, `Delta <- NegativeDelta` | `GrowFaithful` | For a memory of the largest size `memory.grow(-1)` is a grow by 0 and answers the size. |
| `Initial = {0}` | `AccessInside` | A memory of no pages accepts an access of four bytes at address 0. |
| `Files <- StartSection` | `Framed` | The start section's size is taken for the function index, and the index for a section id. |
| `Files <- GlobalOfEleven` | `Framed` | An initialiser ends at the first byte `0x0b`, also inside its constant. |
| `Files <- ShortVersion` | `HeaderChecked` | A file that ends inside its version is loaded. |

## 5. What is proved

TLAPS checks these for every value of the constants that satisfies the assumptions named in the modules, and so for
programs, files, command lines and memories of any size.

*FrameStackProofs*: the tracked stack, for any bytecode. `FrameSpecInv`: the conjunction `FrameInv` of `FrameTypeOK`,
`ActivTracked`, `EntryAtBottom` and `LabelTracked` is an inductive invariant of `FrameSpec`. From it follow
`FrameTypeCorrect`, `ActivationsTracked`, `EntryStaysAtBottom`, `LabelsTracked` and `ActivationsIsolated`
(`FrameIsolation`). The parts need each other: that a branch erases no activation needs its label above the running
activation, that is `LabelTracked`; that a call keeps `LabelTracked` needs the running activation to be where
`ActivTracked` says; and after a return the labels counted before the call are *not* counted again, which is why the
invariant speaks of the counted labels only. The lemmas say what the operators on the vectors (append, drop, erase a range)
do to positions, and one lemma for each action says that it keeps the invariant. Assumptions: arities are sequences of value
types, locals sequences of values.

*InterpreterProofs*: the engine, for any program. `EngineSound` is the inductive invariant, in two parts.
`EngineInv` is `FrameInv` without the sets of values: that a bitwise operator yields a number would need induction over
bits, and which numbers are on the stack does not matter to the tracking. From it follow `ProgramActivationsTracked`,
`ProgramLabelsTracked`, `ProgramEntryAtBottom` and `ProgramFramesIsolated`.
`ControlInv` ties the stack to the code:

- `Around`: at the next instruction the counted labels are no more than the blocks around it. That this survives a branch
  needs more than a number: `LabelsOK` says of each counted label that it continues in the running function at a
  position with at least as many blocks around it as labels below the label. A call sets the count to zero, so the
  count is at most the nesting and often less (CallInsideBlock); the invariant holds all the same.
- `ActivsOK`: the i-th activation continues behind a call in the function of the one below it, with the arity and the types
  of the locals of the function it runs. The function that an activation runs is only written in the frame *above* it
  (its continuation) or, for the topmost, in `pc`; so the invariant has to be stated along the whole vector.
- `ContsOK`: the cache holds what a crawl finds now. The lemmas on the crawl say what that is: from inside a
  block, the crawl ends at the block's own `end`, and what it found before are the block's own elses. The crawl
  counts relative to where it begins, the nesting (`Nesting`) from the beginning of the body; the invariant of its
  loop (`CrawlStructural`) relates the two, and needs that bodies are nested and their last `end` is their own.

From these follow `LabelsStayWithinNesting`, `ControlStaysLinked` and `ContinuationsStructural`; `ValuesSound` adds
status, outcome and globals to them for `TypesCorrect` (`TypeOK`).
Assumption `ModulesAssumption`: the modules are `Startable` (what `Instantiator` guarantees, and `HandsOver` checks) and
their bodies `Structured`. The latter is of valid binaries: nothing in TWVM tests it, and a crawl over a body without it
runs out of the code. Operands, types, branch depths and indices may be anything.

*RefinementProofs*: `InterpreterRefinesWasm`, that the interpreter implements WasmControl (`RefinesWasm`). Its abstract
steps find their targets in the code, the engine's in its labels, its cache and its counter. The inductive invariant is the
one of *InterpreterProofs* with two more parts:

- `NestInv`: while the engine runs, the labels of the running activation *are* the blocks around the next instruction,
  from the innermost outwards, each with the continuation and the arity of its block, and all of them are counted. Above,
  the counter was only bounded by the nesting: for arbitrary code it is not equal, because a call resets it
  and no return restores it. So `Conforming` has no call within a block, and the invariant says
  that every caller waits outside of all blocks (`CallersOutside`): that is what makes the count right again at a return.
  It also says that the engine stops in the entry function only, with its status still `EXECUTING` before.
- `RangeInv`: every integer on the stack, in a local or in a global is within its type, since the arithmetic agrees there only.

One lemma for each handler (`BlockRefines`, ..., `ReturnRefines`) says that its step is one of WasmControl, or one that
WasmControl leaves undefined, or want of memory. Those of branches rest on the lemmas that a position in code is inside one block of each
depth, that an `else` belongs to one `if`, and that the label the engine finds by index is the one
the standard finds by counting.

Its hypotheses, named in InterpreterRefinement: the modules are `Conforming`, where each exclusion is a divergence of section 4
with a module that shows it (a call within a block, an `if` without `else`, a branch to a loop
with a result, a branch whose last byte is `0x0b` (whatever its depth), one out of the entry, two parameters, a table that is not the identity) or
leaves the model's scope (rem_s, whose least operand is undefined in C++; several results, which WebAssembly 1.0 has not);
and instructions are as the decoder leaves them: a constant is within its type, an integer instruction has an integer
type. Nothing more of validation is assumed: operands, types, depths and indices may be wrong, and then the engine
must end. `ArithmeticAgrees` and `ConversionsAgree` are hypotheses on the widths, because both sides are recursive over bits;
MCRefinement evaluates them, and MCNumeric checks the same instructions on more widths.

*JitProofs*: the same under `--jit`. `TieredControlSound` and `TieredFramesIsolated` carry the above over to `TierSpec`,
however often compilation fails, and `TierTypesCorrect` and `TiersStayApart` (`TiersExclusive`) are proved of the two runs
of JitTransparency. The hard one is the last: a function is
compiled at a call of it, when other activations of it might be under way. None is, because only functions of straight code
are translated, which call nothing, so that their activation can only be the topmost (`TierInv`); and when the topmost one
runs straight code, its next instruction is not a call: none of what is translated is, and it has not reached the `end` or
`return` behind which untranslated code may stand. Assumption: the threshold is not 0 or 1 (100 in the code), for the
driver's call is the first call of all and compiles nothing.

*LoaderProofs*: any files of bytes. `LoadTypesCorrect` (`LoadTypeOK`), `LoadingAdvancesAlways` (`LoadingAdvances`) and
`HeaderCheckedAlways` (`HeaderChecked`). The handlers do not use the size of their section, so that each of their
loops has to be shown to end behind its beginning and inside of `Positions`, for every count a file may announce: an
induction for each loop, collected in the lemma `HandlerMoves`. The header is proved for files that do not end in their
version, which is the divergence `ShortVersion`.

*LaunchProofs*: command lines of any length, any files, and through the whole of the instantiation.
`LaunchedAsAskedAlways` (`LaunchedAsAsked`): what the process does is decided one argument at a time and in three
places (the store, the paths, the exit of an exclusive option), while the property speaks of the command line as a whole
and of a state many steps later. So `LaunchInv` says what is known of the first `at - 1` arguments during the parse, what
`main` finds in the store, and what holds once a module is loaded: that the first path stays the first although later
ones are appended, that `--jit` is stored if and only if it was passed, and that the items of `-i`, written to the
same store, never take the place of either. `TablesFilledAlways` (`TablesFilled`): the property speaks of the end, when
the last segment over an entry has won; `TablesInv` says what an entry holds after the first n segments, of which the
last one over it counts, and that these n were inside their tables. `LaunchTypesCorrect` (`LaunchTypeOK`) needs that each
argument's type is that of a parameter while the arguments are taken one by one (`ArgumentsInv`). Assumptions: a command
line is a finite sequence; tables, segments and their functions are vectors; an element offset is an i32, and the
end of a segment is below the number of values of a `size_t`.

*LinearMemoryProofs*. `MemTypeCorrect`, `SizeStaysWithinLimits`, `AcceptedAccessesInside` and `GrowFaithfulAlways`.
`AcceptedAccessesInside` says that,
unless a memory begins empty, every access the code's test accepts is inside the block, although the test compares bytes
with pages: it is so because a page has at least 8 bytes (`PageSizeAssumption`), because the memory has a page at least
(the strengthening `NonEmpty`, kept since a grow that would leave none is undefined), and because a size is at most
`MaxPages`. `GrowFaithfulAlways` says that a grow refuses or adds zeroed pages and answers the old size. It uses the
former: pages beyond the size are clean only if nothing was written outside the block. Its hypotheses leave out what
section 4 names, empty memories and the operand -1, and say that there are no more pages than a page has
bytes (65536 of both in the code): the operand is increased by the pages divided by the page size, which is 0 for all
but the largest memory, and there only that -1 becomes 0 is not refused. Other assumptions: a `size_t` holds `PageSize * WordSize`, an i32 more than twice the pages; offsets
and lengths of segments are not negative.

*Induction.* The library's induction theorems take a predicate as a parameter, which no backend instantiates;
`NatRecursion` proves instead, from the least element of a set of naturals, that a set with 0 and every successor is all
of them, and that a recursive function of the form the modules use satisfies its equations. The loops of
the crawl, the loader and the tables are proved with it.

*Only model-checked, and why*

| Property | Why |
|---|---|
| `EndsAsExpected` | Results of given programs, and liveness: out of the prover's reach. |
| `Transparent` | It compares the ends of two runs, of which the first is only remembered by its result. |
| `Framed`, `OrderChecked`, `Complete` | Of sound files only, which are built by flattening a sequence of sections: induction over that sequence. |
| `HandsOver` | It rests on what the parse makes of texts given by examples, and on `Startable` of each part of instantiation. |
| `RefusedOutside` | Violated (section 4). |
| `IntegersAsStandard`, `FloatsAsStandard`, `ConstantsDecoded`, `DriverCallsEntry` | Recursive definitions over bits and bytes, some `RECURSIVE`. |

## 6. What is left, and the plan

Next proofs: `Startable` of what Instantiator hands over, so that the first part of `ModulesAssumption` is a theorem of
the launch; `OrderChecked` from what `InOrder` says of neighbours.

Next models: the memory and floating-point instructions as instructions of Interpreter's programs, over LinearMemory and
FloatOps; and Loader in front of Instantiator, so that the modules of `MCLaunch` are those that `Loader` appends.

Not modelled, and why:

- LLVM, which is external: in `JitTier` it may fail at any call, and its machine code does what the instructions emitted
  say. The translation of operands of other types than the instruction's is undefined in LLVM and left out, as is the
  kind of error that such a program ends with.
- The rounding floating-point arithmetic (add, sub, mul, div, sqrt, conversions) and the reinterpretation of bits: TLA+
  has no floats to compare it with. The exact operations are in `FloatOps`.
- The failures of `Loader::load` within `MCLaunch`: `Loader` has them, and each ends the process.
- Data segments with negative offsets: with them the bounds test wraps, and bytes before the block are written.
- The double-checked creation of the State singleton: one thread runs, so nothing interleaves with it.
- The texts of errors, help and logs, the declarations of opcodes, host imports (the program has none it could call).
