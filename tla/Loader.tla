------------------------------- MODULE Loader -------------------------------
(***************************************************************************)
(* Loading a binary module (lib/loader.cc, lib/reader.cc,                  *)
(* lib/include/reader.hh).  One stream is read from front to back: the     *)
(* preamble, then section after section.  A section announces its size,    *)
(* but only a custom section is left by it: every other handler stops      *)
(* where its own reading ends, and the next section id is read there.      *)
(*                                                                         *)
(* What a handler stores is reduced to how many entities it appends; where *)
(* it stops, and so what the next one reads, is kept byte by byte.         *)
(***************************************************************************)
EXTENDS Integers, SequencesExt

\* A section as a file has it: its id, and its size before its body.
SectionBytes(s) == <<s.id, Len(s.body)>> \o s.body

CONSTANTS Files   \* the files at hand: at most 8 bytes of a header, sections with
                  \* the number of their entities, -1 when they are broken

ASSUME FilesAssumption ==
  \A f \in Files :
    /\ f.header \in Seq(0 .. 255) /\ Len(f.header) <= 8
    /\ f.bytes \in Seq(0 .. 255)
    /\ f.bytes = FlattenSeq([i \in DOMAIN f.sections |-> SectionBytes(f.sections[i])])

VARIABLES input,     \* the file that is loaded
          pos,       \* position of the stream
          lastId,    \* lastParsedSectionId, a size_t
          entities,  \* number of entities of the module, by section id
          start,     \* startFuncIdx, -1 if there is none
          outcome    \* "opened", "loading", "loaded" or an error

loadVars == <<input, pos, lastId, entities, start, outcome>>

bytes == input.bytes

-----------------------------------------------------------------------------
(* The stream.  Positions behind the last byte:                            *)

Eof == Len(bytes) + 1
Failed == Eof + 1     \* a read ran over the end: in.eof()
Stuck == Eof + 2      \* a loop reads end-of-file until the memory is used up
BadType == Eof + 3    \* INVALID_FUNC_TYPE
Throws == Eof + 4     \* a length below zero
Positions == 1 .. Throws

Least(S) == CHOOSE p \in S : \A q \in S : p <= q

\* walkByte: at the end it delivers 0xff.
Byte(p) == IF p \in 1 .. Len(bytes) THEN bytes[p] ELSE 255

\* walkByte, walkStringByBytes and retrieveBytes read n bytes.
Skip(p, n) == IF p > Eof THEN p ELSE IF p + n <= Eof THEN p + n ELSE Failed

\* skipBytes: seeking over the end is no failure yet.
Seek(p, n) == IF Skip(p, n) = Failed THEN Eof ELSE Skip(p, n)

\* Behind the first byte from p on that satisfies a loop's condition.
Behind(p, found) == IF p > Failed THEN p ELSE IF found = {} THEN Stuck ELSE Least(found) + 1

\* walkU32: its end and its value, that of its last n bytes after n steps.
U32End(p) == Behind(p, {q \in p .. Len(bytes) : bytes[q] < 128})
U32(p) ==
  LET end == U32End(p)
      digit == [n \in Nat |-> [v \in Nat |-> (Byte(end - n) % 128) + (128 * v)]]
      value[n \in Nat] == IF n = 0 THEN 0 ELSE digit[n][value[n - 1]]
  IN  IF end > Eof THEN 0 ELSE value[end - p]

\* getBytesTillDelim(End)
InitExpr(p) == Behind(p, {q \in p .. Len(bytes) : bytes[q] = 11})

-----------------------------------------------------------------------------
(* The end of one entity of each section.                                  *)

\* An announced number of entities, of which next[q] is the end of one from q
\* on; each takes a byte, so that behind the last byte further ones change nothing.
Vector(p, next) ==
  LET count == Least({U32(p), Len(bytes) + 2})
      turn == [i \in Nat |-> next]
      end[i \in Nat] == IF i = 0 THEN U32End(p) ELSE turn[i][end[i - 1]]
  IN  end[count]

U32s == [q \in Positions |-> U32End(q)]

String(p) == Skip(U32End(p), U32(p))
Limits(p) == LET q == U32End(Skip(p, 1)) IN IF Byte(p) = 1 THEN U32End(q) ELSE q

TypeEntity(p) ==
  IF p > Failed THEN p ELSE IF Byte(p) # 96 THEN BadType ELSE String(String(Skip(p, 1)))

\* walkExtMeta
ImportMeta(p, kind) ==
  CASE kind = 0 -> U32End(p)
    [] kind = 1 -> Limits(Skip(p, 1))
    [] kind = 2 -> Limits(p)
    [] kind = 3 -> Skip(p, 2)
    [] OTHER -> p

ImportEntity(p) == LET q == String(String(p)) IN ImportMeta(Skip(q, 1), Byte(q))
TableEntity(p) == Limits(Skip(p, 1))
GlobalEntity(p) == InitExpr(Skip(p, 2))
ExportEntity(p) == U32End(Skip(String(p), 1))
ElementEntity(p) == Vector(InitExpr(U32End(p)), U32s)
LocalsEntity(p) == Skip(U32End(p), 1)
Locals == [q \in Positions |-> LocalsEntity(q)]

\* Mutant: the locals are counted as part of the body once more.
CodeEntityWhole(p) == Skip(Vector(U32End(p), Locals), U32(p))

\* The body is what the locals leave of its size.
CodeEntity(p) ==
  LET first == U32End(p)
      body == Vector(first, Locals)
      left == U32(p) - (body - first)
  IN  IF body > Eof THEN body ELSE IF left < 0 THEN Throws ELSE Skip(body, left)

DataEntity(p) == String(InitExpr(U32End(p)))

-----------------------------------------------------------------------------
(* The handlers, from the position behind the section id.                  *)

StartId == 8

\* Where the handler of a section stops.
HandlerEnd(id, p) ==
  LET q == U32End(p) IN
  CASE id = 0 -> Seek(q, U32(p))
    [] id = 1 -> Vector(q, [r \in Positions |-> TypeEntity(r)])
    [] id = 2 -> Vector(q, [r \in Positions |-> ImportEntity(r)])
    [] id = 3 -> Vector(q, U32s)
    [] id = 4 -> Vector(q, [r \in Positions |-> TableEntity(r)])
    [] id = 5 -> Vector(q, [r \in Positions |-> Limits(r)])
    [] id = 6 -> Vector(q, [r \in Positions |-> GlobalEntity(r)])
    [] id = 7 -> Vector(q, [r \in Positions |-> ExportEntity(r)])
    [] id = StartId -> q
    [] id = 9 -> Vector(q, [r \in Positions |-> ElementEntity(r)])
    [] id = 10 -> Vector(q, [r \in Positions |-> CodeEntity(r)])
    [] id = 11 -> Vector(q, [r \in Positions |-> DataEntity(r)])

\* Mutant: reads the size of the section for the number of its entities.
AppendedSize(id, p) == IF id \in {0, StartId} THEN 0 ELSE U32(p)

\* How many entities it appends.
Appended(id, p) == IF id \in {0, StartId} THEN 0 ELSE U32(U32End(p))

-----------------------------------------------------------------------------
(* Loading.                                                                *)

\* retrieveBytes fills with zeros what the file does not have.
HeaderByte(i) == IF i <= Len(input.header) THEN input.header[i] ELSE 0
MagicOK == [i \in 1 .. 4 |-> HeaderByte(i)] = <<0, 97, 115, 109>>
VersionOK == [i \in 1 .. 4 |-> HeaderByte(i + 4)] = <<1, 0, 0, 0>>

LoadInit ==
  /\ input \in Files
  /\ pos = 1 /\ lastId = 0
  /\ entities = [id \in 1 .. 11 |-> 0] /\ start = -1
  /\ outcome = "opened"

Stop(error) == outcome' = error /\ UNCHANGED <<input, pos, lastId, entities, start>>

\* Mutant: the version is not looked at.
PreambleAnyVersion ==
  /\ outcome = "opened"
  /\ \/ ~MagicOK /\ Stop("INVALID_MAGIC_CODE")
     \/ MagicOK /\ Stop("loading")

Preamble ==
  /\ outcome = "opened"
  /\ \/ ~MagicOK /\ Stop("INVALID_MAGIC_CODE")
     \/ MagicOK /\ ~VersionOK /\ Stop("INVALID_VER_NUM")
     \/ MagicOK /\ VersionOK /\ Stop("loading")

\* The byte at p as an int8_t.
SectionId(p) == IF Byte(p) < 128 THEN Byte(p) ELSE Byte(p) - 256

\* Mutant: a section may follow one of the same id.
InOrderOrSame(id) == id <= 0 \/ id >= lastId

\* The Reader's test, with the last id stored as a size_t: after a negative id,
\* the end of the file's included, no positive one is in order any more.
InOrder(id) == id <= 0 \/ id > lastId
\* Mutant: the last id is stored as it is.
StoredSigned(id) == id

\* As a size_t, here of 16 bits.
Stored(id) == id % 65536

\* The Reader of a section refuses it, or reads a section id that has no handler.
ParseRefused ==
  /\ outcome = "loading"
  /\ \/ ~InOrder(SectionId(pos)) /\ Stop("INVALID_SECTION_ID")
     \/ InOrder(SectionId(pos)) /\ SectionId(pos) > 11 /\ Stop("std::out_of_range")

\* Mutant: the loop of load goes on behind the end of the file.
ParseNothingForEver ==
  /\ outcome = "loading" /\ SectionId(pos) < 0
  /\ lastId' = Stored(SectionId(pos))
  /\ pos' = Skip(pos, 1)
  /\ UNCHANGED <<input, entities, start, outcome>>

\* A negative id: nothing is parsed.  At the end of the file the loop ends.
ParseNothing ==
  /\ outcome = "loading" /\ SectionId(pos) < 0
  /\ lastId' = Stored(SectionId(pos))
  /\ pos' = Skip(pos, 1)
  /\ outcome' = IF pos' = Failed THEN "loaded" ELSE "loading"
  /\ UNCHANGED <<input, entities, start>>

\* The handler of a section runs.
ParseSection ==
  LET id == SectionId(pos)
      end == HandlerEnd(id, pos + 1)
  IN  /\ outcome = "loading" /\ id \in 0 .. 11 /\ InOrder(id)
      /\ lastId' = id /\ pos' = end
      /\ entities' = [i \in 1 .. 11 |-> entities[i] + IF i = id THEN Appended(id, pos + 1) ELSE 0]
      /\ start' = IF id = StartId THEN U32(pos + 1) ELSE start
      /\ outcome' = CASE end <= Eof -> "loading"
                      [] end = Failed -> "loaded"
                      [] end = Stuck -> "std::bad_alloc"
                      [] end = BadType -> "INVALID_FUNC_TYPE"
                      [] end = Throws -> "std::length_error"
      /\ UNCHANGED input

\* load has returned, or Exception::terminate or an exception has ended the program.
Ended == outcome \notin {"opened", "loading"} /\ UNCHANGED loadVars

LoadNext == Preamble \/ ParseRefused \/ ParseNothing \/ ParseSection \/ Ended

LoadSpec == LoadInit /\ [][LoadNext]_loadVars

-----------------------------------------------------------------------------
(* Properties.                                                             *)

LoadTypeOK ==
  /\ pos \in Positions /\ lastId \in Nat
  /\ entities \in [1 .. 11 -> Nat] /\ start \in Nat \cup {-1}
  /\ outcome \in {"opened", "loading", "loaded", "INVALID_MAGIC_CODE", "INVALID_VER_NUM",
                  "INVALID_SECTION_ID", "INVALID_FUNC_TYPE", "std::out_of_range",
                  "std::bad_alloc", "std::length_error"}

Sections == input.sections
Sound == \A i \in DOMAIN Sections : Sections[i].count >= 0
Offset(i) == 1 + Len(FlattenSeq([k \in 1 .. i - 1 |-> SectionBytes(Sections[k])]))

\* A handler that ignores the size of its section stops nevertheless where the
\* section ends: in a sound file each section id is read where a section begins.
Framed ==
  Sound /\ outcome = "loading" => \E i \in 1 .. Len(Sections) + 1 : pos = Offset(i)

\* The sections of a file other than the custom ones are in ascending order.
Ascending ==
  \A i, j \in DOMAIN Sections : i < j /\ Sections[j].id > 0 => Sections[i].id < Sections[j].id

\* A sound file is refused for the order of its sections exactly when they are
\* not in ascending order.
OrderChecked ==
  Sound =>
    /\ outcome = "loaded" => Ascending
    /\ outcome = "INVALID_SECTION_ID" => ~Ascending

\* A loaded module has the entities of every section of a sound file, no others,
\* and the start function the file names.
Complete ==
  Sound /\ outcome = "loaded" =>
    /\ \A id \in 1 .. 11 :
         entities[id] = FoldLeft(LAMBDA n, s : IF s.id = id THEN n + s.count ELSE n, 0, Sections)
    /\ \A i \in DOMAIN Sections : Sections[i].id = StartId => start = Sections[i].body[1]

\* A file is loaded only behind the eight bytes of magic code and version.
HeaderChecked == outcome = "loaded" => input.header = <<0, 97, 115, 109, 1, 0, 0, 0>>

\* Each turn of the loop of load consumes bytes, and the loop goes on only while
\* there is something to read: with a step in every state (no deadlock), loading
\* ends whatever the file holds.
Advances == outcome = "loading" /\ outcome' = "loading" => pos < pos' /\ pos' <= Eof
LoadingAdvances == [][Advances]_loadVars
=============================================================================
