------------------------------- MODULE BinFile -------------------------------
(***************************************************************************)
(* BinFile: attributes and named binary objects in one file, a head of     *)
(* name=value lines and then the bytes of the objects.  A file is written  *)
(* by several calls of write(2), any of which may fall short, by a process *)
(* that may die between and during them, and is read into an object that   *)
(* may then be extended and written again.                                 *)
(***************************************************************************)
EXTENDS Integers, Sequences, SequencesExt

CONSTANTS
  AttrNames, ObjectNames, Values, \* texts
  InvalidNames,      \* names CheckNameValid refuses
  Lengths,           \* lengths of objects
  MAX_FILE_SIZE,     \* in units of which a line of the head has one
  Short,             \* may the write of the objects fall short?
  Reuse,             \* are files read into objects that are not new?
  MaxEntries         \* bound: attributes and objects of a BinFile

(***************************************************************************)
(* A text is the sequence of its pieces between `=`: "a" is <<"a">>, "a="  *)
(* is <<"a", "">>, the empty text <<"">>.                                  *)
(***************************************************************************)
Texts == Seq(STRING) \ {<<>>}
EMPTY == ""

ASSUME BinFileAssumption ==
  /\ AttrNames \cup ObjectNames \cup Values \subseteq Texts
  /\ MAX_FILE_SIZE \in Nat /\ MaxEntries \in Nat
  /\ Lengths \subseteq Nat /\ Short \in BOOLEAN /\ Reuse \in BOOLEAN

VARIABLES
  bin,     \* the object: attrs_, binaryNames_, binaries_, size of binariesBuffer_
  file,    \* lines of the head, bytes of the objects; or NoFile
  todo,    \* lines Write has still to write, or ParseBinFile to read
  pc,      \* "idle", or where Write or Read is
  meant,   \* history: the object at the last Write that opened the file
  written, \* history: has that Write returned OkStatus?
  last     \* what the last call did, if it matters

vars == <<bin, file, todo, pc, meant, written, last>>

NewBinFile == [attrs |-> <<>>, names |-> {}, binaries |-> <<>>, buffer |-> 0]
NoFile == [lines |-> <<>>, data |-> -1]

Line(kind, name, value, binary) ==
  [kind |-> kind, name |-> name, value |-> value, binary |-> binary]
SystemLine(kind, n) == Line(kind, <<kind>>, <<"1">>, [offset |-> n, length |-> 0])
AttrLine(a) == Line("attr", a.name, a.value, [offset |-> 0, length |-> 0])
ObjectLine(b) == Line("object", b.name, <<"0,1">>, [offset |-> b.offset, length |-> b.length])

Init ==
  /\ bin = NewBinFile /\ file = NoFile
  /\ todo = <<>> /\ pc = "idle" /\ meant = NewBinFile /\ written = FALSE /\ last = "none"

-----------------------------------------------------------------------------
(* A failed Read leaves what it has read; unless Reuse, the object is then  *)
(* dropped.                                                                 *)
Usable == pc = "idle" /\ (Reuse \/ last # "unread")
Entries == Len(bin.attrs) + Len(bin.binaries)

AddAttr(name, value) ==
  /\ Usable /\ Entries < MaxEntries
  /\ name \notin InvalidNames /\ \A i \in DOMAIN bin.attrs : bin.attrs[i].name # name
  /\ bin' = [bin EXCEPT !.attrs = Append(@, [name |-> name, value |-> value])]
  /\ last' = "none"
  /\ UNCHANGED <<file, todo, pc, meant, written>>

HasRoom(length) == length <= MAX_FILE_SIZE /\ bin.buffer + length <= MAX_FILE_SIZE

(* Mutant of AddedObject: the offset is taken once the buffer has grown.    *)
AddedObjectLate(name, length) ==
  [name |-> name, offset |-> bin.buffer + length, length |-> length]

AddedObject(name, length) == [name |-> name, offset |-> bin.buffer, length |-> length]

AddObject(name, length) ==
  /\ Usable /\ Entries < MaxEntries
  /\ name \notin InvalidNames /\ HasRoom(length) /\ name \notin bin.names
  /\ bin' = [bin EXCEPT !.names = @ \cup {name}, !.buffer = @ + length,
                        !.binaries = Append(@, AddedObject(name, length))]
  /\ last' = "none"
  /\ UNCHANGED <<file, todo, pc, meant, written>>

(* The application drops the object and takes a new one.                    *)
New ==
  /\ pc = "idle" /\ bin' = NewBinFile /\ last' = "none"
  /\ UNCHANGED <<file, todo, pc, meant, written>>

-----------------------------------------------------------------------------
(* The lines of an object's head, in the order of WriteImpl.                *)
HeadOf(b) ==
  <<SystemLine("version", 0), SystemLine("count", Len(b.binaries)), SystemLine("length", b.buffer)>>
    \o [i \in DOMAIN b.attrs |-> AttrLine(b.attrs[i])]
    \o [i \in DOMAIN b.binaries |-> ObjectLine(b.binaries[i])]
    \o <<SystemLine("end", 0)>>

(* Write opens the file with O_TRUNC.                                       *)
Write ==
  /\ Usable
  /\ file' = [lines |-> <<>>, data |-> 0]
  /\ todo' = HeadOf(bin) /\ pc' = "head" /\ meant' = bin /\ written' = FALSE /\ last' = "none"
  /\ UNCHANGED bin

WriteLine ==
  /\ pc = "head"
  /\ file' = [file EXCEPT !.lines = Append(@, todo[1])]
  /\ todo' = Tail(todo)
  /\ pc' = IF Len(todo) = 1 THEN "data" ELSE "head"
  /\ UNCHANGED <<bin, meant, written, last>>

(* A line is written in part or not at all: Write fails.  What there is of  *)
(* the line reads as no line of the head: without its end, $End is none.    *)
WriteLineFails ==
  /\ pc = "head"
  /\ todo' = <<>> /\ pc' = "idle"
  /\ UNCHANGED <<bin, file, meant, written, last>>

(* The bytes of the objects, all in one call.  A call that falls short is   *)
(* logged, and Write returns OkStatus all the same.                         *)
WriteBinaries ==
  /\ pc = "data"
  /\ \E n \in 0 .. bin.buffer : (Short \/ n = bin.buffer) /\ file' = [file EXCEPT !.data = n]
  /\ pc' = "idle" /\ written' = TRUE /\ last' = "write"
  /\ UNCHANGED <<bin, todo, meant>>

(* The process dies, in a Write perhaps, and is started again.              *)
Crash ==
  /\ bin' = NewBinFile
  /\ IF pc = "data" THEN \E n \in 0 .. bin.buffer : file' = [file EXCEPT !.data = n]
                    ELSE UNCHANGED file
  /\ todo' = <<>> /\ pc' = "idle" /\ last' = "none"
  /\ UNCHANGED <<meant, written>>

-----------------------------------------------------------------------------
(* StrSplit of a line: the pieces of its name and of its value, without an  *)
(* empty one at the end.                                                    *)
Fields(line) ==
  LET pieces == line.name \o line.value
  IN IF Last(pieces) = EMPTY THEN Front(pieces) ELSE pieces

(***************************************************************************)
(* The checks of ParseBinFile that end in `break` do not end its loop but  *)
(* that of MKI_CHECK: a line that is one too many, has not two fields, an  *)
(* empty one or a name that was there is logged and processed all the     *)
(* same.  A second field that is not there is read from behind the vector, *)
(* where anything is, if the process does not die of it (Crash).           *)
(***************************************************************************)
Value(line) == IF Len(Fields(line)) = 1 THEN "anything" ELSE Fields(line)[2]

(* What ParseBinFile takes a line for.  An object's name follows $Object.,  *)
(* as do the words Count and Length.                                        *)
Kind(line) ==
  CASE line.kind = "object" /\ line.name[1] = "Count"  -> "count"
    [] line.kind = "object" /\ line.name[1] = "Length" -> "length"
    [] OTHER -> line.kind

(* strtoull of the value: up to the comma of an object's line.              *)
Number(line) == IF Len(line.name) = 1 THEN line.binary.offset ELSE 0

(* ParseSystemAttr of an object's line: the name is taken before the bounds *)
(* are looked at, and an object that is refused is left out.                *)
ParseObject(b, name, binary) ==
  LET named  == [b EXCEPT !.names = @ \cup {name}]
      object == [name |-> name, offset |-> binary.offset, length |-> binary.length]
  IN IF Len(name) # 1 \/ name \in b.names THEN b
     ELSE IF binary.offset + binary.length > b.buffer THEN named
     ELSE [named EXCEPT !.binaries = Append(@, object)]

ParseAttr(b, name, value) ==
  [b EXCEPT !.attrs = Append(@, [name |-> name, value |-> value])]

ParseLine(b, line) ==
  CASE Kind(line) = "length" -> [b EXCEPT !.buffer = Number(line)]
    [] Kind(line) = "object" -> ParseObject(b, line.name, line.binary)
    [] Kind(line) = "attr"   -> ParseAttr(b, <<Fields(line)[1]>>, <<Value(line)>>)
    [] OTHER -> b

(* $End, or an empty name, whose at(0) throws.                              *)
Stops(line) == Kind(line) = "end" \/ (Kind(line) = "attr" /\ Fields(line)[1] = EMPTY)

(* Mutant of Enough: the bytes of the objects are not looked at.            *)
EnoughHead == todo # <<>> /\ Kind(todo[1]) = "end"

(* Mutant of Enough: the file has to have a byte too many.                  *)
EnoughAndMore == todo # <<>> /\ Kind(todo[1]) = "end" /\ bin.buffer < file.data

(* ParseBinFile is at $End and finds as many bytes after it as it needs.    *)
Enough == todo # <<>> /\ Kind(todo[1]) = "end" /\ bin.buffer <= file.data

(* Read: a file that is there, and not too large, into bin.                 *)
Read ==
  /\ Usable /\ (Reuse \/ bin = NewBinFile)
  /\ IF file = NoFile \/ Len(file.lines) + file.data > MAX_FILE_SIZE
     THEN last' = "unread" /\ UNCHANGED <<todo, pc>>
     ELSE todo' = file.lines /\ pc' = "parse" /\ last' = "none"
  /\ UNCHANGED <<bin, file, meant, written>>

ReadLine ==
  /\ pc = "parse" /\ todo # <<>> /\ ~Stops(todo[1])
  /\ bin' = ParseLine(bin, todo[1]) /\ todo' = Tail(todo)
  /\ UNCHANGED <<file, pc, meant, written, last>>

ReadEnd ==
  /\ pc = "parse" /\ (todo # <<>> => Stops(todo[1]))
  /\ last' = IF Enough THEN "read" ELSE "unread"
  /\ todo' = <<>> /\ pc' = "idle"
  /\ UNCHANGED <<bin, file, meant, written>>

Next ==
  \/ \E name \in AttrNames, value \in Values : AddAttr(name, value)
  \/ \E name \in ObjectNames, length \in Lengths : AddObject(name, length)
  \/ New \/ Write \/ WriteLine \/ WriteLineFails \/ WriteBinaries \/ Crash
  \/ Read \/ ReadLine \/ ReadEnd

Spec == Init /\ [][Next]_vars

-----------------------------------------------------------------------------
Content(b) == [attrs |-> b.attrs, binaries |-> b.binaries, buffer |-> b.buffer]

Whole == Content(bin) = Content(meant) /\ file.data = bin.buffer

(* What BinFile can keep: texts without `=`, no empty value, and objects    *)
(* that have not the names of other lines of the head.                      *)
Sayable(b) ==
  /\ \A i \in DOMAIN b.attrs : Len(b.attrs[i].name) = 1 /\ Len(b.attrs[i].value) = 1
                                 /\ b.attrs[i].value # <<EMPTY>>
  /\ \A n \in b.names : Len(n) = 1 /\ n \notin {<<"Count">>, <<"Length">>}

(* A Read that returns OkStatus has the attributes and objects of the last  *)
(* Write, all of them with all their bytes, whatever became of that Write:  *)
(* of a file that was written in part nothing is taken for a whole one.     *)
ReadsWhole == last = "read" /\ Sayable(meant) => Whole

(* A file whose Write returned OkStatus can be read, if its head leaves     *)
(* room for its objects and all its lines have names; also one with         *)
(* attributes and objects added to those that were read.                    *)
WrittenReads ==
  last = "unread" /\ written =>
    \/ Len(HeadOf(meant)) + meant.buffer > MAX_FILE_SIZE
    \/ \E i \in DOMAIN meant.attrs : meant.attrs[i].name[1] = EMPTY

(* The objects GetAllObjects hands out lie within the buffer, each before   *)
(* the next, whatever was added, read, or read in part.                     *)
ObjectsInBuffer ==
  /\ \A i \in DOMAIN bin.binaries : bin.binaries[i].offset + bin.binaries[i].length <= bin.buffer
  /\ \A i, j \in DOMAIN bin.binaries :
       i < j => bin.binaries[i].offset + bin.binaries[i].length <= bin.binaries[j].offset
=============================================================================
