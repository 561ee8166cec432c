------------------------------- MODULE IniFile -------------------------------
(***************************************************************************)
(* IniFile: ParseIniFileToMap, by which the table of the operations and    *)
(* the configurations of the platforms are read.                           *)
(*                                                                         *)
(* A line of an ini file is a section's header, with a name or without the *)
(* closing bracket, an entry, or one that is skipped: a comment, an empty  *)
(* one, one without a key or a value.                                      *)
(***************************************************************************)
EXTENDS Integers, Sequences, FiniteSetsExt

CONSTANTS
  NoName,            \* the empty name of a section
  MAX_FILE_LINE_NUM

ASSUME IniFileAssumption == MAX_FILE_LINE_NUM \in Nat

Header(name) == [kind |-> "header", name |-> name]
OpenHeader == [kind |-> "open"]
Entry(key, value) == [kind |-> "entry", key |-> key, value |-> value]
Skipped == [kind |-> "skipped"]

IsLine(line) == line.kind \in {"header", "open", "entry", "skipped"}
IsFile(file) ==
  /\ DOMAIN file = 1 .. Len(file) /\ Len(file) \in Nat
  /\ \A i \in DOMAIN file : IsLine(file[i])

Nothing == [x \in {} |-> x]

-----------------------------------------------------------------------------
(* A map's emplace keeps what the key has.                                  *)
Joined(map, more) ==
  [k \in DOMAIN map \cup DOMAIN more |-> IF k \in DOMAIN map THEN map[k] ELSE more[k]]

Emplaced(map, key, value) == Joined(map, [k \in {key} |-> value])

(* Entries wait for a section with a name: those above the first header go  *)
(* to the first section.                                                    *)
Flushed(ini) ==
  IF ini.name = NoName \/ ini.entries = Nothing THEN ini
  ELSE [ini EXCEPT !.sections = Emplaced(@, ini.name, ini.entries), !.entries = Nothing]

(* Mutant of ReadLine: a section goes on with the entries of the last one.  *)
ReadLineOn(ini, line) ==
  CASE line.kind = "header"  -> [Flushed(ini) EXCEPT !.name = line.name, !.entries = ini.entries]
    [] line.kind = "open"    -> Flushed(ini)
    [] line.kind = "entry"   -> [ini EXCEPT !.entries = Emplaced(@, line.key, line.value)]
    [] line.kind = "skipped" -> ini

ReadLine(ini, line) ==
  CASE line.kind = "header"  -> [Flushed(ini) EXCEPT !.name = line.name]
    [] line.kind = "open"    -> Flushed(ini)
    [] line.kind = "entry"   -> [ini EXCEPT !.entries = Emplaced(@, line.key, line.value)]
    [] line.kind = "skipped" -> ini

(* The line after the last one that is allowed is read as well.             *)
ParseIniFileToMap(file) ==
  LET none == [name |-> NoName, entries |-> Nothing, sections |-> Nothing]
      last == Min({Len(file), MAX_FILE_LINE_NUM + 1})
      after[i \in 0 .. last] == IF i = 0 THEN none ELSE ReadLine(after[i - 1], file[i])
  IN  Flushed(after[last]).sections

-----------------------------------------------------------------------------
(* The reference: what a file says, without regard to how it is read.  An   *)
(* entry belongs to the last header above it, and one without the closing   *)
(* bracket begins another section of the name above.  Of a name that has    *)
(* several sections the first one with entries counts, and in it the first  *)
(* entry of a key.                                                          *)
LastOf(file, kinds, i) == Max({0} \cup {h \in 1 .. i : file[h].kind \in kinds})
HeaderAbove(file, i) == LastOf(file, {"header", "open"}, i)
NameAt(file, i) ==
  LET h == LastOf(file, {"header"}, i) IN IF h = 0 THEN NoName ELSE file[h].name

SectionAt(file, h) ==
  {i \in DOMAIN file : file[i].kind = "entry" /\ HeaderAbove(file, i) = h}
SectionsOf(file, name) ==
  {h \in DOMAIN file : NameAt(file, h) = name /\ SectionAt(file, h) # {}}
FirstSection(file, name) == SectionAt(file, Min(SectionsOf(file, name)))

Says(file) ==
  [name \in {n \in {NameAt(file, h) : h \in DOMAIN file} : SectionsOf(file, n) # {}} |->
     [key \in {file[i].key : i \in FirstSection(file, name)} |->
        file[Min({i \in FirstSection(file, name) : file[i].key = key})].value]]

(* Every entry is below a name, and the file is not too long.               *)
Tidy(file) ==
  /\ \A h \in 0 .. Len(file) : NameAt(file, h) = NoName => SectionAt(file, h) = {}
  /\ Len(file) <= MAX_FILE_LINE_NUM
=============================================================================
