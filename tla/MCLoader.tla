------------------------------ MODULE MCLoader ------------------------------
(* Loader on every sound file of up to three sections, in any order, on     *)
(* every pair of sections with broken ones, on broken headers, and on files *)
(* with one construct that is not read as written.                          *)
EXTENDS Loader

Header == <<0, 97, 115, 109, 1, 0, 0, 0>>
Section(id, count, body) == [id |-> id, count |-> count, body |-> <<count>> \o body]
Headed(header, sections) ==
  [header |-> header, sections |-> sections,
   bytes |-> FlattenSeq([i \in DOMAIN sections |-> SectionBytes(sections[i])])]
File(sections) == Headed(Header, sections)

\* Not what it announces: truncated, or of no known id.
Broken(id, body) == [id |-> id, count |-> -1, body |-> body]

\* One or two of each section, with entities of each form.
TypeSection == Section(1, 2, <<96, 0, 0, 96, 2, 127, 126, 1, 127>>)
CodeSection == Section(10, 2, <<2, 0, 11, 4, 1, 3, 127, 11>>)
Parts ==
  {[id |-> 0, count |-> 0, body |-> <<4, 110, 97, 109, 101, 1, 2>>],
   TypeSection,
   Broken(1, <<1, 95>>),
   Section(2, 4, <<1, 97, 1, 98, 0, 0, 1, 97, 0, 1, 112, 1, 2, 3, 0, 1, 98, 2, 0, 1,
                   1, 97, 1, 98, 3, 127, 1>>),
   Section(3, 2, <<0, 128, 1>>),
   Section(4, 1, <<112, 0, 10>>),
   Section(5, 2, <<0, 1, 1, 1, 2>>),
   Section(6, 1, <<127, 1, 65, 10, 11>>),
   Section(7, 1, <<1, 97, 0, 1>>),
   Section(9, 1, <<0, 65, 0, 11, 2, 1, 1>>),
   CodeSection,
   Broken(10, <<1, 1, 1, 2, 127>>),
   Section(11, 1, <<0, 65, 2, 11, 3, 11, 11, 0>>),
   Broken(11, <<1, 0, 65, 2>>),
   Broken(12, <<0>>),
   Broken(200, <<0>>)}

Right == {s \in Parts : s.count >= 0}

WellFormed(n) == UNION {[1 .. k -> Right] : k \in 0 .. n}

\* A custom section last only: behind one the order starts again.
CustomLast(n) ==
  {s \in WellFormed(n) : \A i \in 1 .. Len(s) - 1 : s[i].id > 0}

Headers == {<<>>, <<0, 97, 115, 108, 1, 0, 0, 0>>, <<0, 97, 115, 109, 2, 0, 0, 0>>, Header}

MCFiles == {File(s) : s \in CustomLast(3)}
  \cup {File(s) : s \in UNION {[1 .. k -> Parts] : k \in 0 .. 2}}
  \cup {Headed(h, <<>>) : h \in Headers}

\* Sound files that are not read as written.
CustomBetween == {File(s) : s \in WellFormed(3)}
StartSection == {File(<<TypeSection, [id |-> 8, count |-> 0, body |-> <<0>>], CodeSection>>)}
GlobalOfEleven == {File(<<Section(6, 1, <<127, 0, 65, 11, 11>>), CodeSection>>)}
ShortVersion == {Headed(SubSeq(Header, 1, 5), <<>>)}
=============================================================================
