---------------------------- MODULE BinFileProofs ----------------------------
(***************************************************************************)
(* What BinFile keeps through writes, deaths and reads, proved for any     *)
(* names, values, lengths and number of entries: of what a file has, as    *)
(* much of the head of the last Write as its calls came to; of what a Read *)
(* has read, as much of the object that was written as the lines so far    *)
(* say.                                                                    *)
(***************************************************************************)
EXTENDS BinFile, TLAPS

(* The pieces of texts, those of the program's own lines included.          *)
Words ==
  STRING \cup {"version", "count", "length", "end", "attr", "object", "anything", "1", "0,1"}
Pieces == Seq(Words) \ {<<>>}

Attrs == [name : Pieces, value : Pieces]
Names == {n \in Pieces : n[1] = "Length" => Len(n) = 1}
Places == [offset : Nat, length : Nat]
Objects == [name : Names, offset : Nat, length : Nat]
Lines == [kind : Words, name : Pieces, value : Pieces, binary : Places]
BinFiles == [attrs : Seq(Attrs), names : SUBSET Names, binaries : Seq(Objects), buffer : Nat]

(* No object has a name like "Length=1": its line would empty the buffer    *)
(* under the objects that were read before.                                 *)
PlainLengths == \A n \in ObjectNames : n[1] = "Length" => Len(n) = 1

(* Objects with names of their own, one behind the other.                   *)
EndOf(o) == o.offset + o.length

BinOK(b) ==
  /\ b \in BinFiles
  /\ \A i \in DOMAIN b.binaries : /\ b.binaries[i].name \in b.names
                                  /\ EndOf(b.binaries[i]) <= b.buffer
  /\ \A i, j \in DOMAIN b.binaries :
       /\ b.binaries[i].name = b.binaries[j].name => i = j
       /\ i < j => EndOf(b.binaries[i]) <= b.binaries[j].offset

(* The file has the first lines of what was to be written; all of them, and *)
(* all bytes, once Write has said so.                                       *)
FileInv ==
  /\ file \in [lines : Seq(Lines), data : Int]
  /\ Len(file.lines) <= Len(HeadOf(meant))
  /\ \A i \in 1 .. Len(file.lines) : file.lines[i] = HeadOf(meant)[i]
  /\ file.data <= meant.buffer
  /\ written \/ pc = "data" => Len(file.lines) = Len(HeadOf(meant))
  /\ written /\ ~Short => file.data = meant.buffer
  /\ pc \in {"head", "data"} => bin = meant /\ ~written

(* What Write has still to write are the other lines; what ParseBinFile has *)
(* still to read are the last lines of the file.                            *)
Done == IF pc = "head" THEN Len(file.lines) ELSE Len(file.lines) - Len(todo)

TodoInv ==
  /\ pc \in {"idle", "head", "data", "parse"}
  /\ pc # "idle" => last = "none"
  /\ pc \in {"head", "parse"} =>
       /\ todo \in Seq(Lines)
       /\ Done \in Nat /\ Done + Len(todo) <= Len(HeadOf(meant))
       /\ \A i \in 1 .. Len(todo) : todo[i] = HeadOf(meant)[Done + i]
  /\ pc = "head" => todo # <<>> /\ Len(file.lines) + Len(todo) = Len(HeadOf(meant))
  /\ pc = "parse" => Done < Len(HeadOf(meant))

NamesOf(objects) == {objects[i].name : i \in 1 .. Len(objects)}

(* How many attributes and objects of m the first n lines of its head say.  *)
AttrsSaid(m, n) == IF n - 3 <= Len(m.attrs) THEN n - 3 ELSE Len(m.attrs)
ObjectsSaid(m, n) == IF n - 3 <= Len(m.attrs) THEN 0 ELSE n - 3 - Len(m.attrs)

(* b has what the first n lines of m's head say, when lines can say m.      *)
Like(b, m, n) ==
  /\ b.buffer = m.buffer
  /\ Len(b.attrs) = AttrsSaid(m, n)
  /\ \A i \in 1 .. Len(b.attrs) : b.attrs[i] = m.attrs[i]
  /\ Len(b.binaries) = ObjectsSaid(m, n)
  /\ \A i \in 1 .. Len(b.binaries) : b.binaries[i] = m.binaries[i]
  /\ b.names = NamesOf(b.binaries)

(* The objects read from the first n lines lie before those of the others.  *)
Before(b, m, n) ==
  \A i \in 1 .. Len(m.binaries), j \in 1 .. Len(b.binaries) :
    3 + Len(m.attrs) + i > n => EndOf(b.binaries[j]) <= m.binaries[i].offset

ReadSoFar(b, m, n) ==
  /\ n < 3 => b = NewBinFile
  /\ b.buffer <= m.buffer
  /\ Before(b, m, n)
  /\ Sayable(m) /\ n >= 3 => Like(b, m, n)

ReadInv == pc = "parse" => ReadSoFar(bin, meant, Done)

BInv ==
  /\ BinOK(bin) /\ BinOK(meant)
  /\ FileInv /\ TodoInv /\ ReadInv
  /\ ReadsWhole /\ (~Short => WrittenReads)

-----------------------------------------------------------------------------
(* Four sequences, one behind the other.                                    *)
LEMMA FourConcatenated ==
  ASSUME NEW S, NEW p \in Seq(S), NEW q \in Seq(S), NEW r \in Seq(S), NEW s \in Seq(S),
         NEW c, c = p \o q \o r \o s
  PROVE  /\ c \in Seq(S) /\ Len(c) = Len(p) + Len(q) + Len(r) + Len(s)
         /\ \A i \in 1 .. Len(p) : c[i] = p[i]
         /\ \A i \in 1 .. Len(q) : c[Len(p) + i] = q[i]
         /\ \A i \in 1 .. Len(r) : c[Len(p) + Len(q) + i] = r[i]
         /\ \A i \in 1 .. Len(s) : c[Len(p) + Len(q) + Len(r) + i] = s[i]
  <1>1. c \in Seq(S)
    OBVIOUS
  <1>2. Len(c) = Len(p) + Len(q) + Len(r) + Len(s)
    OBVIOUS
  <1>3. ASSUME NEW i \in 1 .. Len(p)
        PROVE  c[i] = p[i]
    OBVIOUS
  <1>4. ASSUME NEW i \in 1 .. Len(q)
        PROVE  c[Len(p) + i] = q[i]
    OBVIOUS
  <1>5. ASSUME NEW i \in 1 .. Len(r)
        PROVE  c[Len(p) + Len(q) + i] = r[i]
    OBVIOUS
  <1>6. ASSUME NEW i \in 1 .. Len(s)
        PROVE  c[Len(p) + Len(q) + Len(r) + i] = s[i]
    OBVIOUS
  <1> QED
    BY <1>1, <1>2, <1>3, <1>4, <1>5, <1>6

(* The pieces of the lines' own texts.                                      *)
LEMMA OwnTexts ==
  /\ \A w \in Words : <<w>> \in Pieces /\ Len(<<w>>) = 1 /\ <<w>>[1] = w
  /\ "version" \in Words /\ "count" \in Words /\ "length" \in Words /\ "end" \in Words
  /\ "attr" \in Words /\ "object" \in Words /\ "anything" \in Words
  /\ "1" \in Words /\ "0,1" \in Words
  <1>1. /\ "version" \in Words /\ "count" \in Words /\ "length" \in Words /\ "end" \in Words
        /\ "attr" \in Words /\ "object" \in Words /\ "anything" \in Words
        /\ "1" \in Words /\ "0,1" \in Words
    BY DEF Words
  <1>2. \A w \in Words : <<w>> \in Pieces /\ Len(<<w>>) = 1 /\ <<w>>[1] = w
    BY DEF Pieces
  <1> QED
    BY <1>1, <1>2

(* The lines of a head, each in its place.                                  *)
LEMMA HeadFacts ==
  ASSUME NEW b \in BinFiles
  PROVE  LET a == Len(b.attrs)
             o == Len(b.binaries)
         IN /\ a \in Nat /\ o \in Nat
            /\ HeadOf(b) \in Seq(Lines) /\ Len(HeadOf(b)) = a + o + 4
            /\ HeadOf(b)[1] = SystemLine("version", 0)
            /\ HeadOf(b)[2] = SystemLine("count", o)
            /\ HeadOf(b)[3] = SystemLine("length", b.buffer)
            /\ \A i \in 1 .. a : HeadOf(b)[3 + i] = AttrLine(b.attrs[i])
            /\ \A i \in 1 .. o : HeadOf(b)[3 + a + i] = ObjectLine(b.binaries[i])
            /\ HeadOf(b)[a + o + 4] = SystemLine("end", 0)
  <1> DEFINE a == Len(b.attrs)
             o == Len(b.binaries)
             p == <<SystemLine("version", 0), SystemLine("count", Len(b.binaries)),
                    SystemLine("length", b.buffer)>>
             q == [i \in DOMAIN b.attrs |-> AttrLine(b.attrs[i])]
             r == [i \in DOMAIN b.binaries |-> ObjectLine(b.binaries[i])]
             s == <<SystemLine("end", 0)>>
  <1>1. /\ b.attrs \in Seq(Attrs) /\ b.binaries \in Seq(Objects) /\ b.buffer \in Nat
        /\ a \in Nat /\ o \in Nat /\ DOMAIN b.attrs = 1 .. a /\ DOMAIN b.binaries = 1 .. o
    BY DEF BinFiles
  <1>2. \A w \in Words, n \in Nat : SystemLine(w, n) \in Lines
    BY OwnTexts DEF SystemLine, Line, Lines, Places
  <1>3. \A x \in Attrs : AttrLine(x) \in Lines
    BY OwnTexts DEF AttrLine, Line, Lines, Places, Attrs
  <1>4. \A x \in Objects : ObjectLine(x) \in Lines
    BY OwnTexts DEF ObjectLine, Line, Lines, Places, Objects, Names
  <1>5. SystemLine("version", 0) \in Lines /\ SystemLine("count", o) \in Lines
          /\ SystemLine("length", b.buffer) \in Lines /\ SystemLine("end", 0) \in Lines
    BY <1>1, <1>2, OwnTexts
  <1>6. p \in Seq(Lines) /\ Len(p) = 3 /\ s \in Seq(Lines) /\ Len(s) = 1
    BY <1>5
  <1>7. q \in Seq(Lines) /\ Len(q) = a /\ \A i \in 1 .. a : q[i] = AttrLine(b.attrs[i])
    BY <1>1, <1>3
  <1>8. r \in Seq(Lines) /\ Len(r) = o /\ \A i \in 1 .. o : r[i] = ObjectLine(b.binaries[i])
    BY <1>1, <1>4
  <1>9. p[1] = SystemLine("version", 0) /\ p[2] = SystemLine("count", o)
          /\ p[3] = SystemLine("length", b.buffer) /\ s[1] = SystemLine("end", 0)
    OBVIOUS
  <1>10. HeadOf(b) = p \o q \o r \o s
    BY DEF HeadOf
  <1> HIDE DEF a, o, p, q, r, s
  <1>11. /\ HeadOf(b) \in Seq(Lines) /\ Len(HeadOf(b)) = a + o + 4
         /\ \A i \in 1 .. 3 : HeadOf(b)[i] = p[i]
         /\ \A i \in 1 .. a : HeadOf(b)[3 + i] = q[i]
         /\ \A i \in 1 .. o : HeadOf(b)[3 + a + i] = r[i]
         /\ HeadOf(b)[a + o + 4] = s[1]
    <2>1. /\ HeadOf(b) \in Seq(Lines)
          /\ Len(HeadOf(b)) = Len(p) + Len(q) + Len(r) + Len(s)
          /\ \A i \in 1 .. Len(p) : HeadOf(b)[i] = p[i]
          /\ \A i \in 1 .. Len(q) : HeadOf(b)[Len(p) + i] = q[i]
          /\ \A i \in 1 .. Len(r) : HeadOf(b)[Len(p) + Len(q) + i] = r[i]
          /\ \A i \in 1 .. Len(s) : HeadOf(b)[Len(p) + Len(q) + Len(r) + i] = s[i]
      <3>1. p \in Seq(Lines) /\ q \in Seq(Lines) /\ r \in Seq(Lines) /\ s \in Seq(Lines)
        BY <1>6, <1>7, <1>8
      <3> QED
        BY <1>10, <3>1, FourConcatenated, SMTT(20)
    <2>2. 1 \in 1 .. Len(s) /\ Len(p) + Len(q) + Len(r) + 1 = a + o + 4
      BY <1>1, <1>6, <1>7, <1>8
    <2> QED
      BY <1>1, <1>6, <1>7, <1>8, <2>1, <2>2
  <1>12. 1 \in 1 .. 3 /\ 2 \in 1 .. 3 /\ 3 \in 1 .. 3
    OBVIOUS
  <1>13. /\ HeadOf(b)[1] = SystemLine("version", 0) /\ HeadOf(b)[2] = SystemLine("count", o)
         /\ HeadOf(b)[3] = SystemLine("length", b.buffer)
         /\ HeadOf(b)[a + o + 4] = SystemLine("end", 0)
    BY <1>9, <1>11, <1>12
  <1> QED
    BY <1>1, <1>7, <1>8, <1>11, <1>13 DEF a, o

(* A head is not empty.                                                     *)
LEMMA HeadLength ==
  ASSUME NEW b \in BinFiles
  PROVE  HeadOf(b) \in Seq(Lines) /\ HeadOf(b) # <<>> /\ Len(HeadOf(b)) \in Nat \ {0}
  <1> DEFINE a == Len(b.attrs)
             o == Len(b.binaries)
  <1>1. a \in Nat /\ o \in Nat /\ HeadOf(b) \in Seq(Lines) /\ Len(HeadOf(b)) = a + o + 4
    BY HeadFacts
  <1> HIDE DEF a, o
  <1>2. Len(HeadOf(b)) \in Nat \ {0}
    BY <1>1
  <1> QED
    BY <1>1, <1>2

(* A sequence without its last element.                                     *)
LEMMA FrontFacts ==
  ASSUME NEW S, NEW s \in Seq(S), s # <<>>
  PROVE  /\ Front(s) \in Seq(S) /\ Len(Front(s)) = Len(s) - 1
         /\ \A i \in 1 .. Len(s) - 1 : Front(s)[i] = s[i]
         /\ Len(s) \in Nat \ {0} /\ Last(s) = s[Len(s)]
  <1>1. Len(s) \in Nat /\ s \in [1 .. Len(s) -> S] /\ Len(s) # 0
    OBVIOUS
  <1>2. Front(s) = [i \in 1 .. Len(s) - 1 |-> s[i]]
    BY DEF Front
  <1>3. Front(s) \in Seq(S) /\ Len(Front(s)) = Len(s) - 1
    BY <1>1, <1>2
  <1> QED
    BY <1>1, <1>2, <1>3 DEF Last

(* Two texts, one behind the other.                                         *)
LEMMA JoinFacts ==
  ASSUME NEW S, NEW x \in Seq(S), NEW y \in Seq(S), x # <<>>, y # <<>>, NEW p, p = x \o y
  PROVE  /\ Len(x) \in Nat \ {0} /\ Len(y) \in Nat \ {0}
         /\ p \in Seq(S) /\ p # <<>> /\ Len(p) = Len(x) + Len(y)
         /\ p[1] = x[1] /\ p[Len(x) + 1] = y[1] /\ p[Len(p)] = y[Len(y)]
  <1>1. Len(x) \in Nat \ {0} /\ Len(y) \in Nat \ {0}
    OBVIOUS
  <1>2. p \in Seq(S)
    OBVIOUS
  <1>3. Len(p) = Len(x) + Len(y)
    OBVIOUS
  <1>4. p # <<>>
    BY <1>1, <1>2, <1>3
  <1>5. p[1] = x[1]
    BY <1>1
  <1>6. p[Len(x) + 1] = y[1]
    BY <1>1
  <1>7. p[Len(x) + Len(y)] = y[Len(y)]
    BY <1>1
  <1> QED
    BY <1>1, <1>2, <1>3, <1>4, <1>5, <1>6, <1>7

(* The second element of a sequence, if there is one.                       *)
LEMMA SecondOf ==
  ASSUME NEW S, NEW q \in Seq(S), Len(q) >= 1, Len(q) # 1
  PROVE  q[2] \in S
  <1>1. Len(q) \in Nat /\ q \in [1 .. Len(q) -> S]
    OBVIOUS
  <1>2. 2 \in 1 .. Len(q)
    BY <1>1
  <1> QED
    BY <1>1, <1>2

(* What StrSplit makes of the pieces of a line.                             *)
LEMMA SplitFacts ==
  ASSUME NEW S, NEW p \in Seq(S), Len(p) >= 2,
         NEW f, f = IF Last(p) = EMPTY THEN Front(p) ELSE p
  PROVE  /\ f \in Seq(S) /\ Len(f) >= 1 /\ f[1] = p[1]
         /\ Len(f) # 1 => f[2] \in S
         /\ Len(p) = 2 /\ p[2] # EMPTY => Len(f) = 2 /\ f[2] = p[2]
  <1>1. Len(p) >= 2 /\ p # <<>>
    OBVIOUS
  <1>2. /\ Front(p) \in Seq(S) /\ Len(Front(p)) = Len(p) - 1
        /\ \A i \in 1 .. Len(p) - 1 : Front(p)[i] = p[i]
        /\ Last(p) = p[Len(p)]
    BY <1>1, FrontFacts
  <1>3. CASE Last(p) = EMPTY
    <2>1. f = Front(p) /\ 1 \in 1 .. Len(p) - 1
      BY <1>1, <1>3
    <2>2. f \in Seq(S) /\ Len(f) >= 1 /\ f[1] = p[1]
      BY <1>1, <1>2, <2>1
    <2>3. Len(p) = 2 => p[2] = EMPTY
      BY <1>2, <1>3
    <2>4. Len(f) # 1 => f[2] \in S
      BY <2>2, SecondOf
    <2> QED
      BY <2>2, <2>3, <2>4
  <1>4. CASE Last(p) # EMPTY
    BY <1>1, <1>4
  <1> QED
    BY <1>3, <1>4

(* ... of which the first is the name's first, and the second of two the    *)
(* value.                                                                   *)
LEMMA PairFacts ==
  ASSUME NEW line, line.name \in Pieces, line.value \in Pieces
  PROVE  /\ Fields(line)[1] = line.name[1] /\ line.name[1] \in Words /\ Value(line) \in Words
         /\ Len(line.name) = 1 /\ Len(line.value) = 1 /\ line.value # <<EMPTY>> =>
              line.name = <<Fields(line)[1]>> /\ line.value = <<Value(line)>>
  <1> DEFINE x == line.name
             y == line.value
             f == Fields(line)
             v == Value(line)
  <1>1. f = IF Last(x \o y) = EMPTY THEN Front(x \o y) ELSE x \o y
    BY DEF Fields
  <1>2. v = IF Len(f) = 1 THEN "anything" ELSE f[2]
    BY DEF Value
  <1>3. x \in Pieces /\ y \in Pieces
    OBVIOUS
  <1> HIDE DEF x, y, f, v
  <1>4. x \in Seq(Words) /\ y \in Seq(Words) /\ x # <<>> /\ y # <<>>
    BY <1>3 DEF Pieces
  <1>5. PICK p : p = x \o y
    OBVIOUS
  <1>6. /\ Len(x) \in Nat \ {0} /\ Len(y) \in Nat \ {0}
        /\ p \in Seq(Words) /\ p # <<>> /\ Len(p) = Len(x) + Len(y)
        /\ p[1] = x[1] /\ p[Len(x) + 1] = y[1]
    BY <1>4, <1>5, JoinFacts
  <1>7. f = IF Last(p) = EMPTY THEN Front(p) ELSE p
    BY <1>1, <1>5
  <1>8. /\ f \in Seq(Words) /\ Len(f) >= 1 /\ f[1] = p[1]
        /\ Len(f) # 1 => f[2] \in Words
        /\ Len(p) = 2 /\ p[2] # EMPTY => Len(f) = 2 /\ f[2] = p[2]
    <2>1. p \in Seq(Words) /\ Len(p) >= 2
      BY <1>6
    <2> QED
      BY <1>7, <2>1, SplitFacts
  <1>9. x[1] \in Words
    BY <1>4
  <1>10. v \in Words
    <2>1. Len(f) # 1 => f[2] \in Words
      BY <1>8
    <2> QED
      BY <1>2, <2>1, OwnTexts
  <1>11. ASSUME Len(x) = 1, Len(y) = 1, y # <<EMPTY>>
        PROVE  x = <<f[1]>> /\ y = <<v>>
    <2>1. x = <<x[1]>> /\ y = <<y[1]>>
      <3>1. \A q \in Seq(Words) : Len(q) = 1 => q = <<q[1]>>
        OBVIOUS
      <3> QED
        BY <1>4, <1>11, <3>1
    <2>2. p[2] = y[1] /\ y[1] # EMPTY
      BY <1>6, <1>11, <2>1
    <2>3. Len(f) = 2 /\ f[2] = y[1] /\ f[1] = x[1]
      BY <1>6, <1>8, <1>11, <2>2
    <2> QED
      BY <1>2, <2>1, <2>3
  <1> QED
    BY <1>6, <1>8, <1>9, <1>10, <1>11 DEF x, y, f, v

(* The first piece of a line that is the name of an attribute, and for      *)
(* texts that lines can say also its value.                                 *)
LEMMA AttrFields ==
  ASSUME NEW a \in Attrs
  PROVE  /\ Kind(AttrLine(a)) = "attr"
         /\ Fields(AttrLine(a))[1] = a.name[1] /\ a.name[1] \in Words
         /\ Value(AttrLine(a)) \in Words
         /\ Len(a.name) = 1 /\ Len(a.value) = 1 /\ a.value # <<EMPTY>> =>
              a = [name |-> <<Fields(AttrLine(a))[1]>>, value |-> <<Value(AttrLine(a))>>]
  <1>1. a = [name |-> a.name, value |-> a.value] /\ a.name \in Pieces /\ a.value \in Pieces
    BY DEF Attrs
  <1>2. AttrLine(a).kind = "attr" /\ AttrLine(a).name = a.name /\ AttrLine(a).value = a.value
    BY DEF AttrLine, Line
  <1>3. Kind(AttrLine(a)) = "attr"
    BY <1>2 DEF Kind
  <1>4. /\ Fields(AttrLine(a))[1] = a.name[1] /\ a.name[1] \in Words
        /\ Value(AttrLine(a)) \in Words
        /\ Len(a.name) = 1 /\ Len(a.value) = 1 /\ a.value # <<EMPTY>> =>
             a.name = <<Fields(AttrLine(a))[1]>> /\ a.value = <<Value(AttrLine(a))>>
    BY <1>1, <1>2, PairFacts
  <1> QED
    BY <1>1, <1>3, <1>4

(* What is done with an object's line.                                      *)
LEMMA ObjectKinds ==
  ASSUME NEW o \in Objects
  PROVE  /\ ObjectLine(o).name = o.name
         /\ ObjectLine(o).binary = [offset |-> o.offset, length |-> o.length]
         /\ Kind(ObjectLine(o)) \in {"count", "length", "object"}
         /\ Kind(ObjectLine(o)) = "length" => Number(ObjectLine(o)) = o.offset
         /\ Len(o.name) = 1 /\ o.name \notin {<<"Count">>, <<"Length">>} =>
              Kind(ObjectLine(o)) = "object"
  <1>1. /\ ObjectLine(o).name = o.name /\ ObjectLine(o).kind = "object"
        /\ ObjectLine(o).binary = [offset |-> o.offset, length |-> o.length]
    BY DEF ObjectLine, Line
  <1>2. /\ Kind(ObjectLine(o)) = "count" <=> o.name[1] = "Count"
        /\ Kind(ObjectLine(o)) = "length" <=> o.name[1] = "Length"
        /\ Kind(ObjectLine(o)) \in {"count", "length", "object"}
    BY <1>1 DEF Kind
  <1>3. o.name[1] = "Length" => Number(ObjectLine(o)) = o.offset
    BY <1>1 DEF Number, Objects, Names
  <1>4. o.name \in Seq(Words)
    BY DEF Objects, Names, Pieces
  <1>5. Len(o.name) = 1 => o.name = <<o.name[1]>>
    BY <1>4
  <1> QED
    BY <1>1, <1>2, <1>3, <1>5

(* The places of a head's lines.                                            *)
LEMMA HeadPlaces ==
  ASSUME NEW a \in Nat, NEW o \in Nat, NEW n \in 1 .. a + o + 4
  PROVE  \/ n = 1 \/ n = 2 \/ n = 3 \/ n = a + o + 4
         \/ \E i \in 1 .. a : n = 3 + i
         \/ \E i \in 1 .. o : n = 3 + a + i
  <1>1. CASE n > 3 /\ n <= 3 + a
    <2>1. n - 3 \in 1 .. a /\ n = 3 + (n - 3)
      BY <1>1
    <2> QED
      BY <2>1
  <1>2. CASE n > 3 + a /\ n < a + o + 4
    <2>1. n - 3 - a \in 1 .. o /\ n = 3 + a + (n - 3 - a)
      BY <1>2
    <2> QED
      BY <2>1
  <1> QED
    BY <1>1, <1>2

(* What each line of a head is, and where the head ends.                    *)
LEMMA HeadKinds ==
  ASSUME NEW b \in BinFiles, NEW n \in 1 .. Len(HeadOf(b)), NEW line, line = HeadOf(b)[n]
  PROVE  \/ n \in {1, 2} /\ Kind(line) \in {"version", "count"}
         \/ n = 3 /\ Kind(line) = "length" /\ Number(line) = b.buffer
         \/ \E i \in 1 .. Len(b.attrs) : n = 3 + i /\ line = AttrLine(b.attrs[i])
         \/ \E i \in 1 .. Len(b.binaries) :
              n = 3 + Len(b.attrs) + i /\ line = ObjectLine(b.binaries[i])
         \/ n = Len(HeadOf(b)) /\ Kind(line) = "end"
  <1> DEFINE a == Len(b.attrs)
             o == Len(b.binaries)
  <1>1. /\ a \in Nat /\ o \in Nat /\ Len(HeadOf(b)) = a + o + 4
        /\ HeadOf(b)[1] = SystemLine("version", 0) /\ HeadOf(b)[2] = SystemLine("count", o)
        /\ HeadOf(b)[3] = SystemLine("length", b.buffer)
        /\ HeadOf(b)[a + o + 4] = SystemLine("end", 0)
        /\ \A i \in 1 .. a : HeadOf(b)[3 + i] = AttrLine(b.attrs[i])
        /\ \A i \in 1 .. o : HeadOf(b)[3 + a + i] = ObjectLine(b.binaries[i])
    BY HeadFacts
  <1>2. \A w, m : w # "object" => Kind(SystemLine(w, m)) = w
    BY DEF Kind, SystemLine, Line
  <1>3. Number(SystemLine("length", b.buffer)) = b.buffer
    BY DEF Number, SystemLine, Line
  <1> HIDE DEF a, o
  <1>4. \/ n = 1 \/ n = 2 \/ n = 3 \/ n = a + o + 4
        \/ \E i \in 1 .. a : n = 3 + i
        \/ \E i \in 1 .. o : n = 3 + a + i
    BY <1>1, HeadPlaces
  <1>5. n = 1 \/ n = 2 => Kind(line) \in {"version", "count"}
    BY <1>1, <1>2
  <1>6. n = 3 => Kind(line) = "length" /\ Number(line) = b.buffer
    BY <1>1, <1>2, <1>3
  <1>7. n = a + o + 4 => n = Len(HeadOf(b)) /\ Kind(line) = "end"
    BY <1>1, <1>2
  <1>8. \A i \in 1 .. a : n = 3 + i => line = AttrLine(b.attrs[i])
    BY <1>1
  <1>9. \A i \in 1 .. o : n = 3 + a + i => line = ObjectLine(b.binaries[i])
    BY <1>1
  <1> QED
    BY <1>4, <1>5, <1>6, <1>7, <1>8, <1>9, Zenon DEF a, o

(* No other line ends a head.                                               *)
LEMMA HeadEnds ==
  ASSUME NEW b \in BinFiles, NEW n \in 1 .. Len(HeadOf(b)), Kind(HeadOf(b)[n]) = "end"
  PROVE  n = Len(HeadOf(b))
  <1>1. /\ \A i \in 1 .. Len(b.attrs) : Kind(AttrLine(b.attrs[i])) # "end"
        /\ \A i \in 1 .. Len(b.binaries) : Kind(ObjectLine(b.binaries[i])) # "end"
    <2>1. /\ \A i \in 1 .. Len(b.attrs) : b.attrs[i] \in Attrs
          /\ \A i \in 1 .. Len(b.binaries) : b.binaries[i] \in Objects
      BY DEF BinFiles
    <2> QED
      BY <2>1, AttrFields, ObjectKinds
  <1> QED
    BY <1>1, HeadKinds

-----------------------------------------------------------------------------
WithObject(b, o) == [b EXCEPT !.names = @ \cup {o.name}, !.binaries = Append(@, o)]

(* What an object of the class may become.                                  *)
LEMMA NewOK == BinOK(NewBinFile) /\ NewBinFile.buffer = 0 /\ Len(NewBinFile.binaries) = 0
  BY DEF NewBinFile, BinOK, BinFiles

(* ... with an attribute more,                                              *)
LEMMA AttrOK ==
  ASSUME NEW b, BinOK(b), NEW a \in Attrs, NEW c, c = [b EXCEPT !.attrs = Append(@, a)]
  PROVE  /\ BinOK(c) /\ c.attrs = Append(b.attrs, a) /\ c.names = b.names
         /\ c.binaries = b.binaries /\ c.buffer = b.buffer
  <1>1. b \in BinFiles
    BY DEF BinOK
  <1>2. /\ c \in BinFiles /\ c.attrs = Append(b.attrs, a) /\ c.names = b.names
        /\ c.binaries = b.binaries /\ c.buffer = b.buffer
    <2>1. PICK q : q = Append(b.attrs, a)
      OBVIOUS
    <2>2. q \in Seq(Attrs)
      BY <1>1, <2>1 DEF BinFiles
    <2>3. c = [b EXCEPT !.attrs = q]
      BY <2>1
    <2>4. /\ c \in BinFiles /\ c.attrs = q /\ c.names = b.names
          /\ c.binaries = b.binaries /\ c.buffer = b.buffer
      BY <1>1, <2>2, <2>3 DEF BinFiles
    <2> QED
      BY <2>1, <2>4
  <1> QED
    BY <1>2 DEF BinOK

(* ... with a buffer that still has room for its objects,                   *)
LEMMA BufferOK ==
  ASSUME NEW b, BinOK(b), NEW m \in Nat, \A j \in DOMAIN b.binaries : EndOf(b.binaries[j]) <= m,
         NEW c, c = [b EXCEPT !.buffer = m]
  PROVE  /\ BinOK(c) /\ c.attrs = b.attrs /\ c.names = b.names
         /\ c.binaries = b.binaries /\ c.buffer = m
  <1>1. b \in BinFiles
    BY DEF BinOK
  <1>2. /\ c \in BinFiles /\ c.attrs = b.attrs /\ c.names = b.names
        /\ c.binaries = b.binaries /\ c.buffer = m
    BY <1>1 DEF BinFiles
  <1> QED
    BY <1>2 DEF BinOK

(* ... with a name whose object is left out,                                *)
LEMMA NameOK ==
  ASSUME NEW b, BinOK(b), NEW n \in Names, NEW c, c = [b EXCEPT !.names = @ \cup {n}]
  PROVE  /\ BinOK(c) /\ c.attrs = b.attrs /\ c.names = b.names \cup {n}
         /\ c.binaries = b.binaries /\ c.buffer = b.buffer
  <1>1. b \in BinFiles
    BY DEF BinOK
  <1>2. /\ c \in BinFiles /\ c.attrs = b.attrs /\ c.names = b.names \cup {n}
        /\ c.binaries = b.binaries /\ c.buffer = b.buffer
    BY <1>1 DEF BinFiles
  <1> QED
    BY <1>2 DEF BinOK

(* ... and with an object that lies behind the others.                      *)
LEMMA ObjectOK ==
  ASSUME NEW b, BinOK(b), NEW o \in Objects, o.name \notin b.names, EndOf(o) <= b.buffer,
         \A j \in DOMAIN b.binaries : EndOf(b.binaries[j]) <= o.offset,
         NEW c, c = WithObject(b, o)
  PROVE  /\ BinOK(c) /\ c.attrs = b.attrs /\ c.names = b.names \cup {o.name}
         /\ c.buffer = b.buffer
         /\ Len(c.binaries) = Len(b.binaries) + 1 /\ c.binaries[Len(b.binaries) + 1] = o
         /\ \A j \in 1 .. Len(b.binaries) : c.binaries[j] = b.binaries[j]
  <1>1. b \in BinFiles /\ b.binaries \in Seq(Objects) /\ o.name \in Names
    BY DEF BinOK, BinFiles, Objects
  <1>2. /\ c \in BinFiles /\ c.attrs = b.attrs /\ c.names = b.names \cup {o.name}
        /\ c.binaries = Append(b.binaries, o) /\ c.buffer = b.buffer
    <2>1. PICK q : q = Append(b.binaries, o)
      OBVIOUS
    <2>2. q \in Seq(Objects)
      BY <1>1, <2>1
    <2>3. c = [b EXCEPT !.names = @ \cup {o.name}, !.binaries = q]
      BY <2>1 DEF WithObject
    <2>4. c = [attrs |-> b.attrs, names |-> b.names \cup {o.name}, binaries |-> q,
               buffer |-> b.buffer]
      BY <1>1, <2>3 DEF BinFiles
    <2>5. /\ b.attrs \in Seq(Attrs) /\ b.buffer \in Nat
          /\ b.names \cup {o.name} \in SUBSET Names
      BY <1>1 DEF BinFiles
    <2>6. c \in BinFiles
      BY <2>2, <2>4, <2>5 DEF BinFiles
    <2> QED
      BY <2>1, <2>4, <2>6
  <1> DEFINE s == b.binaries
             t == c.binaries
             l == Len(s)
  <1>3. /\ l \in Nat /\ DOMAIN s = 1 .. l /\ DOMAIN t = 1 .. l + 1 /\ Len(t) = l + 1
        /\ t[l + 1] = o /\ \A i \in 1 .. l : t[i] = s[i]
    BY <1>1, <1>2
  <1>4. /\ \A i \in DOMAIN s : s[i].name \in b.names /\ EndOf(s[i]) <= b.buffer
        /\ \A i, j \in DOMAIN s : /\ s[i].name = s[j].name => i = j
                                  /\ i < j => EndOf(s[i]) <= s[j].offset
    BY DEF BinOK
  <1> HIDE DEF s, t, l
  <1>5. \A i \in 1 .. l + 1 : i \in 1 .. l \/ i = l + 1
    BY <1>3
  <1>6. \A i \in DOMAIN t : t[i].name \in c.names /\ EndOf(t[i]) <= c.buffer
    BY <1>2, <1>3, <1>4, <1>5
  <1>7. ASSUME NEW i \in DOMAIN t, NEW j \in DOMAIN t
        PROVE  t[i].name = t[j].name => i = j
    BY <1>3, <1>4, <1>5
  <1>8. ASSUME NEW i \in DOMAIN t, NEW j \in DOMAIN t, i < j
        PROVE  EndOf(t[i]) <= t[j].offset
    <2>1. i \in 1 .. l
      BY <1>3, <1>8
    <2>2. CASE j = l + 1
      BY <1>3, <2>1, <2>2 DEF s
    <2>3. CASE j \in 1 .. l
      BY <1>3, <1>4, <1>8, <2>1, <2>3
    <2> QED
      BY <1>3, <1>5, <2>2, <2>3
  <1> QED
    <2>1. BinOK(c)
      BY <1>2, <1>6, <1>7, <1>8 DEF BinOK, t
    <2> QED
      BY <1>2, <1>3, <2>1 DEF s, t, l

-----------------------------------------------------------------------------
(* The line that says how many bytes the objects have, the third.           *)
LEMMA LengthRead ==
  ASSUME NEW m, BinOK(m), NEW c, c = [NewBinFile EXCEPT !.buffer = m.buffer]
  PROVE  BinOK(c) /\ ReadSoFar(c, m, 3)
  <1>1. m \in BinFiles
    BY DEF BinOK
  <1>2. m.buffer \in Nat /\ Len(m.attrs) \in Nat /\ m.attrs \in Seq(Attrs)
    BY <1>1 DEF BinFiles
  <1>3. c = [attrs |-> <<>>, names |-> {}, binaries |-> <<>>, buffer |-> m.buffer]
    BY DEF NewBinFile
  <1>4. BinOK(c)
    <2>1. \A j \in DOMAIN NewBinFile.binaries : EndOf(NewBinFile.binaries[j]) <= m.buffer
      BY DEF NewBinFile
    <2> QED
      BY <1>2, <2>1, NewOK, BufferOK
  <1>5. Before(c, m, 3)
    BY <1>3 DEF Before
  <1>6. Like(c, m, 3)
    BY <1>2, <1>3 DEF Like, NamesOf, AttrsSaid, ObjectsSaid
  <1> QED
    BY <1>2, <1>3, <1>4, <1>5, <1>6 DEF ReadSoFar

(* A line that leaves the objects as they were, when it need not say what   *)
(* was meant.                                                               *)
LEMMA NothingRead ==
  ASSUME NEW b, NEW c, NEW m, BinOK(b), BinOK(m), NEW n \in Nat, n >= 2, Before(b, m, n),
         c.binaries = b.binaries, c.buffer <= m.buffer, Sayable(m) => Like(c, m, n + 1)
  PROVE  ReadSoFar(c, m, n + 1)
  <1>1. Len(m.attrs) \in Nat
    BY DEF BinOK, BinFiles
  <1>2. Before(c, m, n + 1)
    <2> SUFFICES ASSUME NEW i \in 1 .. Len(m.binaries), NEW j \in 1 .. Len(b.binaries),
                        3 + Len(m.attrs) + i > n + 1
                 PROVE  EndOf(b.binaries[j]) <= m.binaries[i].offset
      BY DEF Before
    <2>1. i \in Nat
      BY DEF BinOK, BinFiles
    <2>2. 3 + Len(m.attrs) + i > n
      BY <1>1, <2>1
    <2> QED
      BY <2>2 DEF Before
  <1>3. ~(n + 1 < 3)
    OBVIOUS
  <1> QED
    BY <1>2, <1>3 DEF ReadSoFar

(* The line of the i-th attribute.                                          *)
LEMMA AttrRead ==
  ASSUME NEW b, BinOK(b), NEW m, BinOK(m), NEW i \in 1 .. Len(m.attrs), NEW x \in Attrs,
         Sayable(m) => x = m.attrs[i], ReadSoFar(b, m, 2 + i),
         NEW c, c = [b EXCEPT !.attrs = Append(@, x)]
  PROVE  BinOK(c) /\ ReadSoFar(c, m, 3 + i)
  <1>1. /\ BinOK(c) /\ c.attrs = Append(b.attrs, x) /\ c.names = b.names
        /\ c.binaries = b.binaries /\ c.buffer = b.buffer
    BY AttrOK
  <1>2. /\ Len(m.attrs) \in Nat /\ i \in Nat /\ 1 <= i /\ i <= Len(m.attrs)
        /\ b.attrs \in Seq(Attrs)
    BY DEF BinOK, BinFiles
  <1>3. c.buffer <= m.buffer /\ Before(b, m, 2 + i)
    BY <1>1 DEF ReadSoFar
  <1>4. ASSUME Sayable(m)
        PROVE  Like(c, m, 3 + i)
    <2>1. Like(b, m, 2 + i)
      BY <1>2, <1>4 DEF ReadSoFar
    <2>2. /\ b.buffer = m.buffer /\ Len(b.attrs) = i - 1
          /\ \A j \in 1 .. i - 1 : b.attrs[j] = m.attrs[j]
          /\ Len(b.binaries) = 0
          /\ b.names = NamesOf(b.binaries)
      <3>1. 2 + i - 3 = i - 1 /\ i - 1 <= Len(m.attrs)
        BY <1>2
      <3> QED
        BY <2>1, <3>1 DEF Like, AttrsSaid, ObjectsSaid
    <2>3. Len(c.attrs) = i /\ \A j \in 1 .. i : c.attrs[j] = m.attrs[j]
      <3>1. Len(c.attrs) = i /\ c.attrs[i] = x /\ \A j \in 1 .. i - 1 : c.attrs[j] = b.attrs[j]
        BY <1>1, <1>2, <2>2
      <3>2. \A j \in 1 .. i : j \in 1 .. i - 1 \/ j = i
        BY <1>2
      <3> QED
        BY <1>4, <2>2, <3>1, <3>2
    <2>4. Len(c.attrs) = AttrsSaid(m, 3 + i) /\ Len(c.binaries) = ObjectsSaid(m, 3 + i)
      BY <1>1, <1>2, <2>2, <2>3 DEF AttrsSaid, ObjectsSaid
    <2>5. \A j \in 1 .. Len(c.binaries) : c.binaries[j] = m.binaries[j]
      BY <1>1, <2>2
    <2>6. \A j \in 1 .. Len(c.attrs) : c.attrs[j] = m.attrs[j]
      BY <2>3
    <2>7. c.buffer = m.buffer /\ c.names = NamesOf(c.binaries)
      BY <1>1, <2>2
    <2> QED
      BY <2>4, <2>5, <2>6, <2>7 DEF Like
  <1>5. PICK n \in Nat : n = 2 + i /\ n + 1 = 3 + i /\ n >= 2
    BY <1>2
  <1>6. Before(b, m, n) /\ (Sayable(m) => Like(c, m, n + 1))
    BY <1>3, <1>4, <1>5
  <1>7. ReadSoFar(c, m, n + 1)
    BY <1>1, <1>3, <1>5, <1>6, NothingRead
  <1> QED
    BY <1>1, <1>5, <1>7

(* The names of objects to which one is added.                              *)
LEMMA NamesOfMore ==
  ASSUME NEW q, NEW o, NEW r, Len(q) \in Nat, Len(r) = Len(q) + 1, r[Len(q) + 1] = o,
         \A i \in 1 .. Len(q) : r[i] = q[i]
  PROVE  NamesOf(r) = NamesOf(q) \cup {o.name}
  <1>1. /\ Len(q) \in Nat /\ Len(r) = Len(q) + 1 /\ r[Len(q) + 1] = o
        /\ \A i \in 1 .. Len(q) : r[i] = q[i]
    OBVIOUS
  <1>2. \A i \in 1 .. Len(q) + 1 : i \in 1 .. Len(q) \/ i = Len(q) + 1
    BY <1>1
  <1>3. \A x : x \in NamesOf(r) <=> \E i \in 1 .. Len(r) : x = r[i].name
    BY DEF NamesOf
  <1>4. \A x : x \in NamesOf(q) <=> \E i \in 1 .. Len(q) : x = q[i].name
    BY DEF NamesOf
  <1>5. ASSUME NEW x \in NamesOf(r)
        PROVE  x \in NamesOf(q) \cup {o.name}
    BY <1>1, <1>2, <1>3, <1>4
  <1>6. ASSUME NEW x \in NamesOf(q) \cup {o.name}
        PROVE  x \in NamesOf(r)
    <2>1. CASE x = o.name
      <3>1. Len(q) + 1 \in 1 .. Len(r) /\ x = r[Len(q) + 1].name
        BY <1>1, <2>1
      <3> QED
        BY <1>3, <3>1
    <2>2. CASE x \in NamesOf(q)
      <3>1. PICK i \in 1 .. Len(q) : x = q[i].name
        BY <1>4, <2>2
      <3>2. i \in 1 .. Len(r) /\ x = r[i].name
        BY <1>1, <3>1
      <3> QED
        BY <1>3, <3>2
    <2> QED
      BY <1>6, <2>1, <2>2
  <1> QED
    BY <1>5, <1>6

(* The object whose line is next: it lies behind all that were read, and    *)
(* what lines can say of it is read as it is.                               *)
LEMMA ObjectAhead ==
  ASSUME NEW b, BinOK(b), NEW m, BinOK(m), NEW i \in 1 .. Len(m.binaries),
         NEW o, o = m.binaries[i], NEW n \in Nat, n = 2 + Len(m.attrs) + i, ReadSoFar(b, m, n)
  PROVE  /\ o \in Objects /\ EndOf(o) <= m.buffer /\ o.offset <= EndOf(o)
         /\ n >= 3 /\ Before(b, m, n) /\ b.buffer <= m.buffer
         /\ \A j \in DOMAIN b.binaries : EndOf(b.binaries[j]) <= o.offset
         /\ Sayable(m) =>
              /\ Like(b, m, n) /\ Len(b.attrs) = Len(m.attrs) /\ Len(b.binaries) = i - 1
              /\ Len(o.name) = 1 /\ o.name \notin {<<"Count">>, <<"Length">>}
              /\ o.name \notin b.names /\ EndOf(o) <= b.buffer
  <1>1. /\ m.binaries \in Seq(Objects) /\ b.binaries \in Seq(Objects)
        /\ DOMAIN m.binaries = 1 .. Len(m.binaries) /\ DOMAIN b.binaries = 1 .. Len(b.binaries)
        /\ Len(m.attrs) \in Nat /\ Len(m.binaries) \in Nat /\ i \in Nat /\ i >= 1
    BY DEF BinOK, BinFiles
  <1>2. o \in Objects /\ o.name \in m.names /\ EndOf(o) <= m.buffer
    <2>1. \A k \in 1 .. Len(m.binaries) :
            /\ m.binaries[k] \in Objects
            /\ m.binaries[k].name \in m.names /\ EndOf(m.binaries[k]) <= m.buffer
      BY <1>1 DEF BinOK
    <2> QED
      BY <2>1
  <1>3. o.offset <= EndOf(o)
    BY <1>2 DEF EndOf, Objects
  <1>4. n >= 3 /\ 3 + Len(m.attrs) + i > n /\ ~(n < 3)
    BY <1>1
  <1>5. Before(b, m, n) /\ b.buffer <= m.buffer
    BY DEF ReadSoFar
  <1>6. \A j \in DOMAIN b.binaries : EndOf(b.binaries[j]) <= o.offset
    BY <1>1, <1>4, <1>5 DEF Before
  <1>7. ASSUME Sayable(m)
        PROVE  /\ Like(b, m, n) /\ Len(b.attrs) = Len(m.attrs) /\ Len(b.binaries) = i - 1
               /\ Len(o.name) = 1 /\ o.name \notin {<<"Count">>, <<"Length">>}
               /\ o.name \notin b.names /\ EndOf(o) <= b.buffer
    <2>1. Like(b, m, n)
      BY <1>4, <1>7 DEF ReadSoFar
    <2>2. /\ b.buffer = m.buffer /\ b.names = NamesOf(b.binaries)
          /\ Len(b.attrs) = AttrsSaid(m, n) /\ Len(b.binaries) = ObjectsSaid(m, n)
          /\ \A j \in 1 .. Len(b.binaries) : b.binaries[j] = m.binaries[j]
      BY <2>1 DEF Like
    <2>3. Len(b.attrs) = Len(m.attrs) /\ Len(b.binaries) = i - 1
      BY <1>1, <2>2 DEF AttrsSaid, ObjectsSaid
    <2>4. Len(o.name) = 1 /\ o.name \notin {<<"Count">>, <<"Length">>}
      BY <1>2, <1>7 DEF Sayable
    <2>5. o.name \notin b.names
      <3> SUFFICES ASSUME NEW j \in 1 .. Len(b.binaries), o.name = b.binaries[j].name
                   PROVE  FALSE
        BY <2>2 DEF NamesOf
      <3>1. j \in 1 .. i - 1
        BY <2>3
      <3>2. j \in 1 .. Len(m.binaries) /\ j # i
        BY <1>1, <3>1
      <3>3. m.binaries[j].name = o.name
        BY <2>2
      <3> QED
        BY <1>1, <3>2, <3>3 DEF BinOK
    <2> QED
      BY <1>2, <2>1, <2>2, <2>3, <2>4, <2>5
  <1> QED
    BY <1>2, <1>3, <1>4, <1>5, <1>6, <1>7

(* The line of the i-th object, when the object is taken.                   *)
LEMMA ObjectTaken ==
  ASSUME NEW b, BinOK(b), NEW m, BinOK(m), NEW i \in 1 .. Len(m.binaries),
         NEW o, o = m.binaries[i], NEW n \in Nat, n = 2 + Len(m.attrs) + i, ReadSoFar(b, m, n),
         o.name \notin b.names, EndOf(o) <= b.buffer, NEW c, c = WithObject(b, o)
  PROVE  BinOK(c) /\ ReadSoFar(c, m, n + 1)
  <1>1. /\ o \in Objects /\ n >= 3 /\ Before(b, m, n) /\ b.buffer <= m.buffer
        /\ \A j \in DOMAIN b.binaries : EndOf(b.binaries[j]) <= o.offset
        /\ Sayable(m) =>
             Like(b, m, n) /\ Len(b.attrs) = Len(m.attrs) /\ Len(b.binaries) = i - 1
    BY ObjectAhead
  <1>2. /\ BinOK(c) /\ c.attrs = b.attrs /\ c.names = b.names \cup {o.name}
        /\ c.buffer = b.buffer
        /\ Len(c.binaries) = Len(b.binaries) + 1 /\ c.binaries[Len(b.binaries) + 1] = o
        /\ \A j \in 1 .. Len(b.binaries) : c.binaries[j] = b.binaries[j]
    BY <1>1, ObjectOK
  <1>3. /\ b.binaries \in Seq(Objects) /\ DOMAIN m.binaries = 1 .. Len(m.binaries)
        /\ Len(m.attrs) \in Nat /\ Len(m.binaries) \in Nat /\ i \in Nat /\ i >= 1
        /\ Len(b.binaries) \in Nat
    BY DEF BinOK, BinFiles
  <1>4. /\ Len(b.binaries) \in Nat /\ Len(c.binaries) = Len(b.binaries) + 1
        /\ c.binaries[Len(b.binaries) + 1] = o
        /\ \A j \in 1 .. Len(b.binaries) : c.binaries[j] = b.binaries[j]
        /\ \A j \in 1 .. Len(c.binaries) :
             j \in 1 .. Len(b.binaries) \/ j = Len(b.binaries) + 1
    BY <1>2, <1>3
  <1>5. Before(c, m, n + 1)
    <2> SUFFICES ASSUME NEW k \in 1 .. Len(m.binaries), NEW j \in 1 .. Len(c.binaries),
                        3 + Len(m.attrs) + k > n + 1
                 PROVE  EndOf(c.binaries[j]) <= m.binaries[k].offset
      BY DEF Before
    <2>1. k > i /\ 3 + Len(m.attrs) + k > n
      BY <1>3
    <2>2. CASE j \in 1 .. Len(b.binaries)
      BY <1>1, <1>4, <2>1, <2>2 DEF Before
    <2>3. CASE j = Len(b.binaries) + 1
      BY <1>3, <1>4, <2>1, <2>3 DEF BinOK
    <2> QED
      BY <1>4, <2>2, <2>3
  <1>6. ASSUME Sayable(m)
        PROVE  Like(c, m, n + 1)
    <2>1. /\ b.buffer = m.buffer /\ b.names = NamesOf(b.binaries)
          /\ \A j \in 1 .. Len(b.attrs) : b.attrs[j] = m.attrs[j]
          /\ \A j \in 1 .. Len(b.binaries) : b.binaries[j] = m.binaries[j]
      BY <1>1, <1>6 DEF Like
    <2>2. Len(c.attrs) = AttrsSaid(m, n + 1) /\ Len(c.binaries) = ObjectsSaid(m, n + 1)
      <3>1. Len(c.attrs) = Len(m.attrs) /\ Len(c.binaries) = i
        BY <1>1, <1>2, <1>3, <1>4, <1>6
      <3>2. n + 1 - 3 = Len(m.attrs) + i /\ ~(n + 1 - 3 <= Len(m.attrs))
        BY <1>3
      <3> QED
        BY <1>3, <3>1, <3>2 DEF AttrsSaid, ObjectsSaid
    <2>3. \A j \in 1 .. Len(c.attrs) : c.attrs[j] = m.attrs[j]
      BY <1>2, <2>1
    <2>4. \A j \in 1 .. Len(c.binaries) : c.binaries[j] = m.binaries[j]
      <3> SUFFICES ASSUME NEW j \in 1 .. Len(c.binaries)
                   PROVE  c.binaries[j] = m.binaries[j]
        OBVIOUS
      <3>1. CASE j \in 1 .. Len(b.binaries)
        BY <1>4, <2>1, <3>1
      <3>2. CASE j = Len(b.binaries) + 1
        <4>1. j = i
          BY <1>1, <1>3, <1>6, <3>2
        <4> QED
          BY <1>4, <3>2, <4>1
      <3> QED
        BY <1>4, <3>1, <3>2
    <2>5. c.names = NamesOf(c.binaries)
      <3>1. NamesOf(c.binaries) = NamesOf(b.binaries) \cup {o.name}
        <4>1. PICK q, r : q = b.binaries /\ r = c.binaries
          OBVIOUS
        <4>2. /\ Len(q) \in Nat /\ Len(r) = Len(q) + 1 /\ r[Len(q) + 1] = o
              /\ \A j \in 1 .. Len(q) : r[j] = q[j]
          BY <1>3, <1>4, <4>1
        <4>3. NamesOf(r) = NamesOf(q) \cup {o.name}
          BY <4>2, NamesOfMore
        <4> QED
          BY <4>1, <4>3
      <3> QED
        BY <1>2, <2>1, <3>1
    <2>6. c.buffer = m.buffer
      BY <1>2, <2>1
    <2> QED
      BY <2>2, <2>3, <2>4, <2>5, <2>6 DEF Like
  <1>7. ~(n + 1 < 3) /\ c.buffer <= m.buffer
    BY <1>1, <1>2
  <1> QED
    BY <1>2, <1>5, <1>6, <1>7 DEF ReadSoFar

(* The line of the i-th object, whatever is made of it.                     *)
LEMMA ObjectRead ==
  ASSUME NEW b, BinOK(b), NEW m, BinOK(m), NEW i \in 1 .. Len(m.binaries),
         NEW o, o = m.binaries[i], NEW n \in Nat, n = 2 + Len(m.attrs) + i, ReadSoFar(b, m, n),
         NEW c, c = ParseLine(b, ObjectLine(o))
  PROVE  BinOK(c) /\ ReadSoFar(c, m, n + 1)
  <1>1. /\ o \in Objects /\ EndOf(o) <= m.buffer /\ o.offset <= EndOf(o)
        /\ n >= 3 /\ n >= 2 /\ Before(b, m, n) /\ b.buffer <= m.buffer
        /\ \A j \in DOMAIN b.binaries : EndOf(b.binaries[j]) <= o.offset
        /\ Sayable(m) => /\ Len(o.name) = 1 /\ o.name \notin {<<"Count">>, <<"Length">>}
                         /\ o.name \notin b.names /\ EndOf(o) <= b.buffer
    BY ObjectAhead
  <1>2. /\ o.name \in Names /\ o.offset \in Nat /\ o.length \in Nat
        /\ o = [name |-> o.name, offset |-> o.offset, length |-> o.length]
    BY <1>1 DEF Objects
  <1>3. m.buffer \in Nat /\ b.buffer \in Nat
    BY DEF BinOK, BinFiles
  <1>4. /\ ObjectLine(o).name = o.name
        /\ ObjectLine(o).binary = [offset |-> o.offset, length |-> o.length]
        /\ Kind(ObjectLine(o)) \in {"count", "length", "object"}
        /\ Kind(ObjectLine(o)) = "length" => Number(ObjectLine(o)) = o.offset
        /\ Sayable(m) => Kind(ObjectLine(o)) = "object"
    BY <1>1, ObjectKinds
  <1>5. CASE Kind(ObjectLine(o)) = "count"
    <2>1. c = b /\ ~Sayable(m)
      BY <1>4, <1>5 DEF ParseLine
    <2> QED
      BY <1>1, <2>1, NothingRead
  <1>6. CASE Kind(ObjectLine(o)) = "length"
    <2>1. c = [b EXCEPT !.buffer = o.offset] /\ ~Sayable(m)
      BY <1>4, <1>6 DEF ParseLine
    <2>2. BinOK(c) /\ c.binaries = b.binaries /\ c.buffer = o.offset
      BY <1>1, <1>2, <2>1, BufferOK
    <2>3. c.buffer <= m.buffer
      BY <1>1, <1>2, <1>3, <2>2 DEF EndOf
    <2> QED
      BY <1>1, <2>1, <2>2, <2>3, NothingRead
  <1>7. CASE Kind(ObjectLine(o)) = "object"
    <2>1. c = ParseObject(b, o.name, [offset |-> o.offset, length |-> o.length])
      BY <1>4, <1>7 DEF ParseLine
    <2>2. CASE Len(o.name) # 1 \/ o.name \in b.names
      <3>1. c = b
        BY <2>1, <2>2 DEF ParseObject
      <3>2. ~Sayable(m)
        BY <1>1, <2>2
      <3> QED
        BY <1>1, <3>1, <3>2, NothingRead
    <2>3. CASE Len(o.name) = 1 /\ o.name \notin b.names /\ o.offset + o.length > b.buffer
      <3>1. c = [b EXCEPT !.names = @ \cup {o.name}]
        BY <2>1, <2>3 DEF ParseObject
      <3>2. ~Sayable(m)
        BY <1>1, <1>2, <1>3, <2>3 DEF EndOf
      <3>3. BinOK(c) /\ c.binaries = b.binaries /\ c.buffer = b.buffer
        BY <1>2, <3>1, NameOK
      <3> QED
        BY <1>1, <3>2, <3>3, NothingRead
    <2>4. CASE Len(o.name) = 1 /\ o.name \notin b.names /\ ~(o.offset + o.length > b.buffer)
      <3>1. c = WithObject(b, o)
        BY <1>2, <2>1, <2>4 DEF ParseObject, WithObject
      <3>2. EndOf(o) <= b.buffer
        BY <1>2, <1>3, <2>4 DEF EndOf
      <3> QED
        BY <2>4, <3>1, <3>2, ObjectTaken
    <2> QED
      BY <2>2, <2>3, <2>4
  <1> QED
    BY <1>4, <1>5, <1>6, <1>7

(* The lines before the third say nothing.                                  *)
LEMMA NothingSaid ==
  ASSUME NEW m, BinOK(m), NEW n \in {0, 1, 2}
  PROVE  ReadSoFar(NewBinFile, m, n)
  <1>1. NewBinFile.buffer <= m.buffer
    BY NewOK DEF BinOK, BinFiles
  <1>2. Before(NewBinFile, m, n)
    BY NewOK DEF Before
  <1> QED
    BY <1>1, <1>2 DEF ReadSoFar

(* Any line of a head of which n were read.                                 *)
LEMMA LineRead ==
  ASSUME NEW b, BinOK(b), NEW m, BinOK(m), NEW n \in Nat, ReadSoFar(b, m, n),
         NEW l \in 1 .. Len(HeadOf(m)), l = n + 1, NEW line, line = HeadOf(m)[l], ~Stops(line),
         NEW c, c = ParseLine(b, line)
  PROVE  BinOK(c) /\ ReadSoFar(c, m, n + 1) /\ n + 1 < Len(HeadOf(m))
  <1> DEFINE a == Len(m.attrs)
             o == Len(m.binaries)
  <1>1. /\ m \in BinFiles /\ m.attrs \in Seq(Attrs) /\ m.binaries \in Seq(Objects)
    BY DEF BinOK, BinFiles
  <1>2. a \in Nat /\ o \in Nat /\ Len(HeadOf(m)) = a + o + 4
    BY <1>1, HeadFacts
  <1>3. l = n + 1 /\ line = HeadOf(m)[l]
    OBVIOUS
  <1>4. \/ l \in {1, 2} /\ Kind(line) \in {"version", "count"}
        \/ l = 3 /\ Kind(line) = "length" /\ Number(line) = m.buffer
        \/ \E i \in 1 .. a : l = 3 + i /\ line = AttrLine(m.attrs[i])
        \/ \E i \in 1 .. o : l = 3 + a + i /\ line = ObjectLine(m.binaries[i])
        \/ l = Len(HeadOf(m)) /\ Kind(line) = "end"
    BY <1>1, <1>3, HeadKinds
  <1> HIDE DEF a, o
  <1>5. CASE l \in {1, 2} /\ Kind(line) \in {"version", "count"}
    <2>1. c = b
      BY <1>5 DEF ParseLine
    <2>2. b = NewBinFile
      BY <1>3, <1>5 DEF ReadSoFar
    <2>3. n + 1 \in {0, 1, 2} /\ n + 1 < Len(HeadOf(m))
      BY <1>2, <1>3, <1>5
    <2> QED
      BY <2>1, <2>2, <2>3, NewOK, NothingSaid
  <1>6. CASE l = 3 /\ Kind(line) = "length" /\ Number(line) = m.buffer
    <2>1. n < 3 /\ n + 1 = 3 /\ n + 1 < Len(HeadOf(m))
      BY <1>2, <1>3, <1>6
    <2>2. b = NewBinFile
      BY <2>1 DEF ReadSoFar
    <2>3. c = [NewBinFile EXCEPT !.buffer = m.buffer]
      BY <1>6, <2>2 DEF ParseLine
    <2> QED
      BY <2>1, <2>3, LengthRead
  <1>7. ASSUME NEW i \in 1 .. a, l = 3 + i, line = AttrLine(m.attrs[i])
        PROVE  BinOK(c) /\ ReadSoFar(c, m, n + 1) /\ n + 1 < Len(HeadOf(m))
    <2>1. PICK y : y = m.attrs[i]
      OBVIOUS
    <2>2. y \in Attrs
      BY <1>1, <2>1 DEF a
    <2>3. PICK x : x = [name |-> <<Fields(line)[1]>>, value |-> <<Value(line)>>]
      OBVIOUS
    <2>4. /\ Kind(line) = "attr" /\ Fields(line)[1] \in Words /\ Value(line) \in Words
          /\ Len(y.name) = 1 /\ Len(y.value) = 1 /\ y.value # <<EMPTY>> => y = x
      BY <1>7, <2>1, <2>2, <2>3, AttrFields
    <2>5. x \in Attrs
      BY <2>3, <2>4, OwnTexts DEF Attrs
    <2>6. Sayable(m) => x = m.attrs[i]
      <3> SUFFICES ASSUME Sayable(m)
                   PROVE  x = y
        BY <2>1
      <3>1. Len(y.name) = 1 /\ Len(y.value) = 1 /\ y.value # <<EMPTY>>
        BY <1>1, <2>1 DEF Sayable, a
      <3> QED
        BY <2>4, <3>1
    <2>7. c = [b EXCEPT !.attrs = Append(@, x)]
      BY <2>3, <2>4 DEF ParseLine, ParseAttr
    <2>8. n = 2 + i /\ n + 1 = 3 + i /\ n + 1 < Len(HeadOf(m))
      BY <1>2, <1>3, <1>7
    <2>9. ReadSoFar(b, m, 2 + i) /\ i \in 1 .. Len(m.attrs)
      BY <2>8 DEF a
    <2>10. BinOK(c) /\ ReadSoFar(c, m, 3 + i)
      BY <2>5, <2>6, <2>7, <2>9, AttrRead
    <2> QED
      BY <2>8, <2>10
  <1>8. ASSUME NEW i \in 1 .. o, l = 3 + a + i, line = ObjectLine(m.binaries[i])
        PROVE  BinOK(c) /\ ReadSoFar(c, m, n + 1) /\ n + 1 < Len(HeadOf(m))
    <2>1. n = 2 + a + i /\ n + 1 < Len(HeadOf(m))
      BY <1>2, <1>3, <1>8
    <2>2. PICK x : x = m.binaries[i] /\ c = ParseLine(b, ObjectLine(x))
      BY <1>8
    <2>3. i \in 1 .. Len(m.binaries) /\ n = 2 + Len(m.attrs) + i
      BY <2>1 DEF a, o
    <2> QED
      BY <2>1, <2>2, <2>3, ObjectRead
  <1>9. CASE l = Len(HeadOf(m)) /\ Kind(line) = "end"
    BY <1>9 DEF Stops
  <1> QED
    BY <1>4, <1>5, <1>6, <1>7, <1>8, <1>9

-----------------------------------------------------------------------------
(* What is left of the lines of h when d of them are done, and one more is. *)
LEMMA RestFacts ==
  ASSUME NEW S, NEW h, NEW d \in Nat, NEW t \in Seq(S), t # <<>>, NEW u, u = Tail(t),
         \A i \in 1 .. Len(t) : t[i] = h[d + i]
  PROVE  /\ Len(t) \in Nat \ {0} /\ t[1] \in S /\ t[1] = h[d + 1]
         /\ u \in Seq(S) /\ Len(u) = Len(t) - 1
         /\ \A i \in 1 .. Len(u) : u[i] = h[d + 1 + i]
  <1>1. Len(t) \in Nat \ {0} /\ t \in [1 .. Len(t) -> S]
    OBVIOUS
  <1>2. u \in Seq(S) /\ Len(u) = Len(t) - 1 /\ \A i \in 1 .. Len(u) : u[i] = t[i + 1]
    BY <1>1
  <1>3. 1 \in 1 .. Len(t)
    BY <1>1
  <1>4. ASSUME NEW i \in 1 .. Len(u)
        PROVE  u[i] = h[d + 1 + i]
    <2>1. i + 1 \in 1 .. Len(t) /\ d + (i + 1) = d + 1 + i
      BY <1>1, <1>2
    <2> QED
      BY <1>2, <2>1
  <1> QED
    BY <1>1, <1>2, <1>3, <1>4

(* The first lines of h, and one more.                                      *)
LEMMA MoreFacts ==
  ASSUME NEW S, NEW h, NEW f \in Seq(S), \A i \in 1 .. Len(f) : f[i] = h[i],
         NEW x \in S, x = h[Len(f) + 1], NEW g, g = Append(f, x)
  PROVE  /\ Len(f) \in Nat /\ g \in Seq(S) /\ Len(g) = Len(f) + 1
         /\ \A i \in 1 .. Len(g) : g[i] = h[i]
  <1>1. Len(f) \in Nat /\ g \in Seq(S) /\ Len(g) = Len(f) + 1
    OBVIOUS
  <1>2. ASSUME NEW i \in 1 .. Len(g)
        PROVE  g[i] = h[i]
    <2>1. i \in 1 .. Len(f) \/ i = Len(f) + 1
      BY <1>1
    <2> QED
      BY <2>1
  <1> QED
    BY <1>1, <1>2

(* Sequences of more.                                                       *)
LEMMA SeqGrows ==
  ASSUME NEW S, NEW T, S \subseteq T, NEW q \in Seq(S)
  PROVE  q \in Seq(T)
  <1>1. Len(q) \in Nat /\ DOMAIN q = 1 .. Len(q) /\ q \in [1 .. Len(q) -> S]
    OBVIOUS
  <1>2. q \in [1 .. Len(q) -> T]
    BY <1>1
  <1> QED
    BY <1>1, <1>2

(* The pieces of what the application may give.                             *)
LEMMA GivenTexts ==
  /\ AttrNames \subseteq Pieces /\ Values \subseteq Pieces /\ ObjectNames \subseteq Pieces
  /\ PlainLengths => ObjectNames \subseteq Names
  <1>1. Texts \subseteq Pieces
    <2>1. STRING \subseteq Words
      BY DEF Words
    <2>2. Seq(STRING) \subseteq Seq(Words)
      BY <2>1, SeqGrows
    <2> QED
      BY <2>2 DEF Texts, Pieces
  <1> QED
    BY <1>1, BinFileAssumption DEF Names, PlainLengths

(* A new process and a new machine.                                         *)
LEMMA InitOK == Init => BInv
  <1> SUFFICES ASSUME Init
               PROVE  BInv
    OBVIOUS
  <1>1. /\ bin = NewBinFile /\ meant = NewBinFile /\ file = [lines |-> <<>>, data |-> -1]
        /\ todo = <<>> /\ pc = "idle" /\ written = FALSE /\ last = "none"
    BY DEF Init, NoFile
  <1>2. BinOK(bin) /\ BinOK(meant) /\ meant.buffer = 0
    BY <1>1, NewOK
  <1>3. Len(HeadOf(meant)) \in Nat
    BY <1>2, HeadFacts DEF BinOK
  <1>4. FileInv
    BY <1>1, <1>2, <1>3 DEF FileInv, NoFile
  <1>5. TodoInv /\ ReadInv
    BY <1>1 DEF TodoInv, ReadInv
  <1>6. ReadsWhole /\ WrittenReads
    BY <1>1 DEF ReadsWhole, WrittenReads
  <1> QED
    BY <1>2, <1>4, <1>5, <1>6 DEF BInv

(* A call that only changes the object.                                     *)
LEMMA ObjectStep ==
  ASSUME BInv, pc = "idle", BinOK(bin'), last' = "none",
         UNCHANGED <<file, todo, pc, meant, written>>
  PROVE  BInv'
  <1>1. BinOK(meant)' /\ BinOK(bin)'
    BY DEF BInv, BinOK
  <1>2. FileInv'
    BY DEF BInv, FileInv
  <1>3. TodoInv' /\ ReadInv'
    BY DEF BInv, TodoInv, ReadInv
  <1>4. ReadsWhole' /\ WrittenReads'
    BY DEF ReadsWhole, WrittenReads
  <1> QED
    BY <1>1, <1>2, <1>3, <1>4 DEF BInv

(* An attribute that is added is one that lines can have.                   *)
LEMMA AddAttrStep ==
  ASSUME BInv, NEW name \in AttrNames, NEW value \in Values, AddAttr(name, value)
  PROVE  BInv'
  <1>1. PICK a : a = [name |-> name, value |-> value]
    OBVIOUS
  <1>2. a \in Attrs
    BY <1>1, GivenTexts DEF Attrs
  <1>3. bin' = [bin EXCEPT !.attrs = Append(@, a)]
    BY <1>1 DEF AddAttr
  <1>4. BinOK(bin)
    BY DEF BInv
  <1>5. BinOK(bin')
    BY <1>2, <1>3, <1>4, AttrOK
  <1> QED
    BY <1>5, ObjectStep DEF AddAttr, Usable

(* An object that is added lies where the buffer ended.                     *)
LEMMA AddObjectStep ==
  ASSUME BInv, PlainLengths, NEW name \in ObjectNames, NEW length \in Lengths,
         AddObject(name, length)
  PROVE  BInv'
  <1>1. /\ BinOK(bin) /\ bin \in BinFiles /\ bin.buffer \in Nat /\ length \in Nat
        /\ name \in Names /\ name \notin bin.names
    BY GivenTexts, BinFileAssumption DEF BInv, BinOK, BinFiles, AddObject
  <1>2. PICK o : o = AddedObject(name, length)
    OBVIOUS
  <1>3. /\ o \in Objects /\ o.name = name /\ o.offset = bin.buffer
        /\ EndOf(o) = bin.buffer + length
    BY <1>1, <1>2 DEF AddedObject, Objects, EndOf
  <1>4. PICK m \in Nat : m = bin.buffer + length /\ bin.buffer <= m
    BY <1>1
  <1>5. PICK b : b = [bin EXCEPT !.buffer = m]
    OBVIOUS
  <1>6. \A j \in DOMAIN bin.binaries : EndOf(bin.binaries[j]) <= bin.buffer
    BY <1>1 DEF BinOK
  <1>7. \A j \in DOMAIN bin.binaries : EndOf(bin.binaries[j]) \in Nat
    <2>1. \A j \in DOMAIN bin.binaries : bin.binaries[j] \in Objects
      BY <1>1 DEF BinFiles
    <2>2. \A x \in Objects : EndOf(x) \in Nat
      BY DEF Objects, EndOf
    <2> QED
      BY <2>1, <2>2
  <1>8. \A j \in DOMAIN bin.binaries : EndOf(bin.binaries[j]) <= m
    BY <1>1, <1>4, <1>6, <1>7
  <1>9. /\ BinOK(b) /\ b.attrs = bin.attrs /\ b.names = bin.names
        /\ b.binaries = bin.binaries /\ b.buffer = m
    BY <1>1, <1>5, <1>8, BufferOK
  <1>10. bin' = WithObject(b, o)
    <2>1. bin' = [bin EXCEPT !.names = @ \cup {o.name}, !.buffer = m, !.binaries = Append(@, o)]
      BY <1>2, <1>3, <1>4 DEF AddObject
    <2>2. bin = [attrs |-> bin.attrs, names |-> bin.names, binaries |-> bin.binaries,
                 buffer |-> bin.buffer]
      BY <1>1 DEF BinFiles
    <2> QED
      BY <1>5, <2>1, <2>2 DEF WithObject
  <1>11. BinOK(bin')
    <2>1. o.name \notin b.names /\ EndOf(o) <= b.buffer
      BY <1>1, <1>3, <1>4, <1>9
    <2>2. \A j \in DOMAIN b.binaries : EndOf(b.binaries[j]) <= o.offset
      BY <1>3, <1>6, <1>9
    <2> QED
      BY <1>3, <1>9, <1>10, <2>1, <2>2, ObjectOK
  <1> QED
    BY <1>11, ObjectStep DEF AddObject, Usable

(* A new object of the class has nothing.                                   *)
LEMMA NewStep ==
  ASSUME BInv, New
  PROVE  BInv'
  <1>1. BinOK(bin')
    BY NewOK DEF New
  <1> QED
    BY <1>1, ObjectStep DEF New

(* Write begins with an empty file and has all lines still to write.        *)
LEMMA WriteStep ==
  ASSUME BInv, Write
  PROVE  BInv'
  <1>1. /\ file' = [lines |-> <<>>, data |-> 0] /\ todo' = HeadOf(bin) /\ pc' = "head"
        /\ meant' = bin /\ written' = FALSE /\ last' = "none" /\ bin' = bin
    BY DEF Write
  <1>2. BinOK(bin) /\ bin \in BinFiles /\ bin.buffer \in Nat
    BY DEF BInv, BinOK, BinFiles
  <1>3. BinOK(bin)' /\ BinOK(meant)'
    BY <1>1, <1>2 DEF BinOK
  <1>4. HeadOf(bin) \in Seq(Lines) /\ HeadOf(bin) # <<>> /\ Len(HeadOf(bin)) \in Nat \ {0}
    BY <1>2, HeadLength
  <1>5. FileInv'
    BY <1>1, <1>2, <1>4 DEF FileInv
  <1>6. TodoInv'
    <2>1. Done' = 0
      BY <1>1 DEF Done
    <2>2. \A i \in 1 .. Len(HeadOf(bin)) : HeadOf(bin)[i] = HeadOf(bin)[0 + i]
      OBVIOUS
    <2> QED
      BY <1>1, <1>4, <2>1, <2>2 DEF TodoInv
  <1>7. ReadInv' /\ ReadsWhole' /\ WrittenReads'
    BY <1>1 DEF ReadInv, ReadsWhole, WrittenReads
  <1> QED
    BY <1>3, <1>5, <1>6, <1>7 DEF BInv

(* One line more of the head is in the file.                                *)
LEMMA WriteLineStep ==
  ASSUME BInv, WriteLine
  PROVE  BInv'
  <1> DEFINE f == file.lines
             h == HeadOf(meant)
  <1>1. /\ pc = "head" /\ todo' = Tail(todo) /\ last' = "none" /\ meant' = meant /\ bin' = bin
        /\ written' = FALSE /\ bin = meant
        /\ pc' = IF Len(todo) = 1 THEN "data" ELSE "head"
    BY DEF WriteLine, BInv, FileInv, TodoInv
  <1>2. /\ f \in Seq(Lines) /\ file.data \in Int /\ file.data <= meant.buffer
        /\ \A i \in 1 .. Len(f) : f[i] = h[i]
    BY DEF BInv, FileInv
  <1>3. /\ todo \in Seq(Lines) /\ todo # <<>> /\ Len(f) \in Nat
        /\ Len(f) + Len(todo) = Len(h) /\ \A i \in 1 .. Len(todo) : todo[i] = h[Len(f) + i]
    BY <1>1 DEF BInv, TodoInv, Done
  <1>4. file' = [lines |-> Append(f, todo[1]), data |-> file.data]
    BY DEF WriteLine, BInv, FileInv
  <1> HIDE DEF f, h
  <1>5. PICK t : t = todo'
    OBVIOUS
  <1>6. /\ Len(todo) \in Nat \ {0} /\ todo[1] \in Lines /\ todo[1] = h[Len(f) + 1]
        /\ t \in Seq(Lines) /\ Len(t) = Len(todo) - 1
        /\ \A i \in 1 .. Len(t) : t[i] = h[Len(f) + 1 + i]
    BY <1>1, <1>3, <1>5, RestFacts
  <1>7. PICK g : g = Append(f, todo[1])
    OBVIOUS
  <1>8. g \in Seq(Lines) /\ Len(g) = Len(f) + 1 /\ \A i \in 1 .. Len(g) : g[i] = h[i]
    BY <1>2, <1>6, <1>7, MoreFacts
  <1>9. file' = [lines |-> g, data |-> file.data] /\ file'.lines = g /\ file'.data = file.data
    BY <1>4, <1>7
  <1>10. (todo \in Seq(Lines) /\ Len(todo) # 1 => t # <<>>) /\ Len(g) <= Len(h)
    BY <1>3, <1>6, <1>8
  <1>11. BinOK(bin)' /\ BinOK(meant)'
    BY <1>1 DEF BInv, BinOK
  <1>12. FileInv'
    <2>1. Len(todo) = 1 => Len(g) = Len(h)
      BY <1>3, <1>8
    <2>2. HeadOf(meant)' = h
      BY <1>1 DEF h
    <2>3. file' \in [lines : Seq(Lines), data : Int]
      BY <1>2, <1>8, <1>9
    <2> QED
      BY <1>1, <1>2, <1>8, <1>9, <1>10, <2>1, <2>2, <2>3 DEF FileInv
  <1>13. TodoInv'
    <2>1. pc' = "head" => Done' = Len(f) + 1
      BY <1>8, <1>9 DEF Done
    <2>2. HeadOf(meant)' = h
      BY <1>1 DEF h
    <2>3. pc' = "head" => t # <<>>
      BY <1>1, <1>3, <1>10
    <2>4. Len(f) + 1 \in Nat /\ Len(f) + 1 + Len(t) = Len(h) /\ Len(f) + 1 + Len(t) <= Len(h)
      <3>1. \A d, l \in Nat : d + 1 + (l - 1) = d + l /\ d + 1 \in Nat
        OBVIOUS
      <3>2. Len(f) \in Nat /\ Len(todo) \in Nat /\ Len(t) = Len(todo) - 1
              /\ Len(f) + Len(todo) = Len(h)
        BY <1>3, <1>6
      <3>3. Len(f) + 1 + Len(t) = Len(h) /\ Len(f) + 1 \in Nat
        BY <3>1, <3>2
      <3>4. Len(h) \in Nat
        BY <3>2
      <3> QED
        BY <3>3, <3>4
    <2> QED
      BY <1>1, <1>5, <1>6, <1>8, <1>9, <2>1, <2>2, <2>3, <2>4 DEF TodoInv
  <1>14. ReadInv' /\ ReadsWhole' /\ WrittenReads'
    BY <1>1 DEF WriteLine, ReadInv, ReadsWhole, WrittenReads
  <1> QED
    BY <1>11, <1>12, <1>13, <1>14 DEF BInv

(* The others will never be.                                                *)
LEMMA WriteLineFailsStep ==
  ASSUME BInv, WriteLineFails
  PROVE  BInv'
  <1>1. /\ pc = "head" /\ todo' = <<>> /\ pc' = "idle" /\ last = "none"
        /\ bin' = bin /\ file' = file /\ meant' = meant /\ written' = written /\ last' = last
    BY DEF WriteLineFails, BInv, TodoInv
  <1>2. BinOK(bin)' /\ BinOK(meant)'
    BY <1>1 DEF BInv, BinOK
  <1>3. FileInv'
    BY <1>1 DEF BInv, FileInv
  <1>4. TodoInv' /\ ReadInv' /\ ReadsWhole' /\ WrittenReads'
    BY <1>1 DEF TodoInv, ReadInv, ReadsWhole, WrittenReads
  <1> QED
    BY <1>2, <1>3, <1>4 DEF BInv

(* The bytes of the objects follow a whole head, and are not too many.      *)
LEMMA WriteBinariesStep ==
  ASSUME BInv, WriteBinaries
  PROVE  BInv'
  <1>1. PICK n \in 0 .. bin.buffer :
          (Short \/ n = bin.buffer) /\ file' = [file EXCEPT !.data = n]
    BY DEF WriteBinaries
  <1>2. /\ pc = "data" /\ pc' = "idle" /\ written' = TRUE /\ last' = "write"
        /\ bin' = bin /\ todo' = todo /\ meant' = meant /\ bin = meant
    BY DEF WriteBinaries, BInv, FileInv
  <1>3. /\ bin \in BinFiles /\ bin.buffer \in Nat /\ n \in Int /\ n <= meant.buffer
        /\ (~Short => n = meant.buffer)
    BY <1>1, <1>2 DEF BInv, BinOK, BinFiles
  <1>4. file' = [lines |-> file.lines, data |-> n]
    BY <1>1 DEF BInv, FileInv
  <1>5. BinOK(bin)' /\ BinOK(meant)'
    BY <1>2 DEF BInv, BinOK
  <1>6. FileInv'
    BY <1>2, <1>3, <1>4 DEF BInv, FileInv
  <1>7. TodoInv' /\ ReadInv' /\ ReadsWhole' /\ WrittenReads'
    BY <1>2 DEF TodoInv, ReadInv, ReadsWhole, WrittenReads
  <1> QED
    BY <1>5, <1>6, <1>7 DEF BInv

(* Whatever the process dies at, the file has the beginning of a file.      *)
LEMMA CrashStep ==
  ASSUME BInv, Crash
  PROVE  BInv'
  <1>1. /\ bin' = NewBinFile /\ todo' = <<>> /\ pc' = "idle" /\ last' = "none"
        /\ meant' = meant /\ written' = written
    BY DEF Crash
  <1>2. BinOK(bin)' /\ BinOK(meant)'
    BY <1>1, NewOK DEF BInv, BinOK
  <1>3. FileInv'
    <2>1. CASE pc = "data"
      <3>1. PICK n \in 0 .. bin.buffer : file' = [file EXCEPT !.data = n]
        BY <2>1 DEF Crash
      <3>2. bin = meant /\ ~written /\ bin.buffer \in Nat
        BY <2>1 DEF BInv, FileInv, BinOK, BinFiles
      <3>3. n \in Int /\ n <= meant.buffer
        BY <3>2
      <3>4. file' = [lines |-> file.lines, data |-> n]
        BY <3>1 DEF BInv, FileInv
      <3> QED
        BY <1>1, <3>2, <3>3, <3>4 DEF BInv, FileInv
    <2>2. CASE pc # "data"
      <3>1. file' = file
        BY <2>2 DEF Crash
      <3> QED
        BY <1>1, <3>1 DEF BInv, FileInv
    <2> QED
      BY <2>1, <2>2
  <1>4. TodoInv' /\ ReadInv' /\ ReadsWhole' /\ WrittenReads'
    BY <1>1 DEF TodoInv, ReadInv, ReadsWhole, WrittenReads
  <1> QED
    BY <1>2, <1>3, <1>4 DEF BInv

(* Read refuses only what cannot be a whole file, or is too large.          *)
LEMMA ReadStep ==
  ASSUME BInv, ~Reuse, Read
  PROVE  BInv'
  <1>1. /\ pc = "idle" /\ bin = NewBinFile /\ bin' = bin /\ file' = file /\ meant' = meant
        /\ written' = written
    BY DEF Read, Usable
  <1>2. BinOK(bin)' /\ BinOK(meant)' /\ BinOK(meant)
    BY <1>1 DEF BInv, BinOK
  <1> DEFINE f == file.lines
             h == HeadOf(meant)
  <1>3. /\ f \in Seq(Lines) /\ file.data \in Int /\ Len(f) <= Len(h)
        /\ \A i \in 1 .. Len(f) : f[i] = h[i]
        /\ written => Len(f) = Len(h)
        /\ written /\ ~Short => file.data = meant.buffer
    BY DEF BInv, FileInv
  <1>4. Len(f) \in Nat /\ Len(h) \in Nat \ {0} /\ meant.buffer \in Nat
    BY <1>2, <1>3, HeadLength DEF BinOK, BinFiles
  <1>5. CASE file = NoFile \/ Len(file.lines) + file.data > MAX_FILE_SIZE
    <2>1. last' = "unread" /\ todo' = todo /\ pc' = pc
      BY <1>5 DEF Read
    <2>2. FileInv'
      BY <1>1, <2>1 DEF BInv, FileInv
    <2>3. TodoInv' /\ ReadInv' /\ ReadsWhole'
      BY <1>1, <2>1 DEF TodoInv, ReadInv, ReadsWhole
    <2>4. ASSUME ~Short, written
          PROVE  Len(HeadOf(meant)) + meant.buffer > MAX_FILE_SIZE
      <3>1. file # NoFile
        BY <1>3, <1>4, <2>4 DEF NoFile
      <3> QED
        BY <1>3, <1>5, <2>4, <3>1
    <2>5. ~Short => WrittenReads'
      BY <1>1, <2>4 DEF WrittenReads
    <2> QED
      BY <1>2, <2>2, <2>3, <2>5 DEF BInv
  <1>6. CASE ~(file = NoFile \/ Len(file.lines) + file.data > MAX_FILE_SIZE)
    <2>1. todo' = f /\ pc' = "parse" /\ last' = "none"
      BY <1>6 DEF Read
    <2>2. FileInv'
      BY <1>1, <2>1 DEF BInv, FileInv
    <2>3. Done' = 0
      <3>1. Done' = Len(f) - Len(f)
        BY <1>1, <2>1 DEF Done
      <3> HIDE DEF f
      <3> QED
        BY <1>4, <3>1
    <2>4. HeadOf(meant)' = h
      BY <1>1
    <2> HIDE DEF f, h
    <2>5. TodoInv'
      <3>1. \A i \in 1 .. Len(f) : f[i] = h[0 + i]
        BY <1>3, <1>4
      <3>2. 0 + Len(f) <= Len(h) /\ 0 < Len(h)
        BY <1>3, <1>4
      <3> QED
        BY <1>3, <2>1, <2>3, <2>4, <3>1, <3>2 DEF TodoInv
    <2>6. ReadInv'
      <3>1. ReadSoFar(NewBinFile, meant, 0)
        BY <1>2, NothingSaid
      <3> QED
        BY <1>1, <2>3, <3>1 DEF ReadInv
    <2>7. ReadsWhole' /\ WrittenReads'
      BY <2>1 DEF ReadsWhole, WrittenReads
    <2> QED
      BY <1>2, <2>2, <2>5, <2>6, <2>7 DEF BInv
  <1> QED
    BY <1>5, <1>6

(* What a Read is at: a line of what was to be written, if it has one left. *)
LEMMA AtLine ==
  ASSUME BInv, pc = "parse", todo # <<>>
  PROVE  /\ Done \in Nat /\ Done + 1 \in 1 .. Len(HeadOf(meant))
         /\ todo[1] = HeadOf(meant)[Done + 1]
         /\ Tail(todo) \in Seq(Lines) /\ Len(Tail(todo)) = Len(todo) - 1
         /\ Len(todo) \in Nat \ {0} /\ Done + Len(todo) <= Len(HeadOf(meant))
         /\ \A i \in 1 .. Len(Tail(todo)) : Tail(todo)[i] = HeadOf(meant)[Done + 1 + i]
  <1> DEFINE d == Done
             h == HeadOf(meant)
  <1>1. /\ todo \in Seq(Lines) /\ d \in Nat /\ d + Len(todo) <= Len(h)
        /\ \A i \in 1 .. Len(todo) : todo[i] = h[d + i]
    BY DEF BInv, TodoInv
  <1>2. Len(h) \in Nat
    BY HeadLength DEF BInv, BinOK
  <1> HIDE DEF d, h
  <1>3. PICK t : t = Tail(todo)
    OBVIOUS
  <1>4. /\ Len(todo) \in Nat \ {0} /\ todo[1] = h[d + 1] /\ t \in Seq(Lines)
        /\ Len(t) = Len(todo) - 1 /\ \A i \in 1 .. Len(t) : t[i] = h[d + 1 + i]
    BY <1>1, <1>3, RestFacts
  <1>5. d + 1 \in 1 .. Len(h)
    BY <1>1, <1>2, <1>4
  <1> QED
    BY <1>1, <1>3, <1>4, <1>5 DEF d, h

(* What is read of a line is what all lines so far say.                     *)
LEMMA ReadLineStep ==
  ASSUME BInv, ReadLine
  PROVE  BInv'
  <1>1. /\ pc = "parse" /\ pc' = "parse" /\ todo # <<>> /\ ~Stops(todo[1]) /\ todo' = Tail(todo)
        /\ bin' = ParseLine(bin, todo[1]) /\ file' = file /\ meant' = meant
        /\ written' = written /\ last' = "none"
    BY DEF ReadLine, BInv, TodoInv
  <1> DEFINE d == Done
             h == HeadOf(meant)
  <1>2. /\ d \in Nat /\ d + 1 \in 1 .. Len(h) /\ todo[1] = h[d + 1]
        /\ Tail(todo) \in Seq(Lines) /\ Len(Tail(todo)) = Len(todo) - 1
        /\ Len(todo) \in Nat \ {0} /\ d + Len(todo) <= Len(h)
        /\ \A i \in 1 .. Len(Tail(todo)) : Tail(todo)[i] = h[d + 1 + i]
    BY <1>1, AtLine
  <1>3. BinOK(bin) /\ BinOK(meant) /\ ReadSoFar(bin, meant, d)
    BY <1>1 DEF BInv, ReadInv
  <1>4. HeadOf(meant)' = h
    BY <1>1
  <1>5. d = Len(file.lines) - Len(todo) /\ Len(file.lines) \in Nat
    BY <1>1 DEF Done, BInv, FileInv
  <1>6. Done' = Len(file.lines) - Len(Tail(todo))
    BY <1>1 DEF Done
  <1>7. PICK l \in 1 .. Len(HeadOf(meant)), line \in {todo[1]} :
          l = d + 1 /\ line = HeadOf(meant)[l] /\ line = todo[1]
    BY <1>2
  <1>8. BinOK(bin') /\ ReadSoFar(bin', meant, d + 1) /\ d + 1 < Len(h)
    <2>1. ~Stops(line) /\ bin' = ParseLine(bin, line)
      BY <1>1, <1>7
    <2>2. d \in Nat
      BY <1>2
    <2> HIDE DEF d
    <2> QED
      BY <1>3, <1>7, <2>1, <2>2, LineRead
  <1> HIDE DEF d, h
  <1>9. Done' = d + 1
    <2>1. PICK n \in Nat : n = Len(file.lines)
      BY <1>5
    <2> QED
      BY <1>2, <1>5, <1>6, <2>1
  <1>10. BinOK(bin)' /\ BinOK(meant)'
    BY <1>1, <1>3, <1>8 DEF BinOK
  <1>11. FileInv'
    BY <1>1 DEF BInv, FileInv
  <1>12. TodoInv'
    <2>1. d + 1 \in Nat /\ d + 1 + Len(Tail(todo)) <= Len(h)
      BY <1>2
    <2> QED
      BY <1>1, <1>2, <1>4, <1>8, <1>9, <2>1 DEF TodoInv
  <1>13. ReadInv'
    BY <1>1, <1>8, <1>9 DEF ReadInv
  <1>14. ReadsWhole' /\ WrittenReads'
    BY <1>1 DEF ReadsWhole, WrittenReads
  <1> QED
    BY <1>10, <1>11, <1>12, <1>13, <1>14 DEF BInv

(* Sequences with the same elements.                                        *)
LEMMA SameSequence ==
  ASSUME NEW S, NEW q \in Seq(S), NEW r \in Seq(S), Len(q) = Len(r),
         \A i \in 1 .. Len(q) : q[i] = r[i]
  PROVE  q = r
  OBVIOUS

(* Who has what all lines say, up to $End, has it all.                      *)
LEMMA LikeAll ==
  ASSUME NEW b, BinOK(b), NEW m, BinOK(m), NEW n \in Nat, n + 1 = Len(HeadOf(m)), Like(b, m, n)
  PROVE  Content(b) = Content(m)
  <1> DEFINE a == Len(m.attrs)
             o == Len(m.binaries)
  <1>1. /\ m.attrs \in Seq(Attrs) /\ m.binaries \in Seq(Objects)
        /\ b.attrs \in Seq(Attrs) /\ b.binaries \in Seq(Objects) /\ m \in BinFiles
    BY DEF BinOK, BinFiles
  <1>2. a \in Nat /\ o \in Nat /\ Len(HeadOf(m)) = a + o + 4
    BY <1>1, HeadFacts
  <1>3. /\ b.buffer = m.buffer
        /\ Len(b.attrs) = (IF n - 3 <= a THEN n - 3 ELSE a)
        /\ Len(b.binaries) = (IF n - 3 <= a THEN 0 ELSE n - 3 - a)
        /\ \A i \in 1 .. Len(b.attrs) : b.attrs[i] = m.attrs[i]
        /\ \A i \in 1 .. Len(b.binaries) : b.binaries[i] = m.binaries[i]
    BY DEF Like, AttrsSaid, ObjectsSaid
  <1> HIDE DEF a, o
  <1>4. n - 3 = a + o
    BY <1>2
  <1>5. Len(b.attrs) = a /\ Len(b.binaries) = o
    BY <1>2, <1>3, <1>4
  <1>6. b.attrs = m.attrs
    <2>1. Len(b.attrs) = Len(m.attrs) /\ b.attrs \in Seq(Attrs) /\ m.attrs \in Seq(Attrs)
      BY <1>1, <1>5 DEF a
    <2> QED
      BY <1>3, <2>1, SameSequence
  <1>7. b.binaries = m.binaries
    <2>1. /\ Len(b.binaries) = Len(m.binaries)
          /\ b.binaries \in Seq(Objects) /\ m.binaries \in Seq(Objects)
      BY <1>1, <1>5 DEF o
    <2> QED
      BY <1>3, <2>1, SameSequence
  <1> QED
    BY <1>3, <1>6, <1>7 DEF Content

(* The end of a Read, at $End or before it.                                 *)
LEMMA ReadEndStep ==
  ASSUME BInv, ReadEnd
  PROVE  BInv'
  <1>1. /\ pc = "parse" /\ (todo # <<>> => Stops(todo[1]))
        /\ last' = IF Enough THEN "read" ELSE "unread"
        /\ todo' = <<>> /\ pc' = "idle" /\ bin' = bin /\ file' = file /\ meant' = meant
        /\ written' = written
    BY DEF ReadEnd
  <1> DEFINE d == Done
             h == HeadOf(meant)
  <1>2. todo # <<>> => d \in Nat /\ d + 1 \in 1 .. Len(h) /\ todo[1] = h[d + 1]
    BY <1>1, AtLine
  <1>3. BinOK(bin) /\ BinOK(meant) /\ ReadSoFar(bin, meant, d)
    BY <1>1 DEF BInv, ReadInv
  <1>4. /\ meant \in BinFiles /\ bin.buffer \in Nat /\ meant.buffer \in Nat /\ file.data \in Int
        /\ Len(file.lines) \in Nat /\ Len(h) \in Nat /\ file.data <= meant.buffer
        /\ d < Len(h) /\ bin.buffer <= meant.buffer
    BY <1>1, <1>3, HeadLength
       DEF BInv, BinOK, BinFiles, FileInv, TodoInv, ReadInv, ReadSoFar
  <1>5. BinOK(bin)' /\ BinOK(meant)'
    BY <1>1, <1>3 DEF BinOK
  <1>6. FileInv'
    BY <1>1 DEF BInv, FileInv
  <1>7. TodoInv' /\ ReadInv'
    BY <1>1 DEF TodoInv, ReadInv
  <1>8. ASSUME Enough, Sayable(meant)
        PROVE  Content(bin) = Content(meant) /\ file.data = bin.buffer
    <2>1. todo # <<>> /\ Kind(todo[1]) = "end" /\ bin.buffer <= file.data
      BY <1>8 DEF Enough
    <2>2. PICK l \in 1 .. Len(HeadOf(meant)) : l = d + 1 /\ todo[1] = HeadOf(meant)[l]
      BY <1>2, <2>1
    <2>3. l = Len(HeadOf(meant))
      BY <1>4, <2>1, <2>2, HeadEnds
    <2>4. d \in Nat /\ d + 1 = Len(HeadOf(meant)) /\ d >= 3
      <3> DEFINE a == Len(meant.attrs)
                 o == Len(meant.binaries)
      <3>1. a \in Nat /\ o \in Nat /\ Len(HeadOf(meant)) = a + o + 4
        BY <1>4, HeadFacts
      <3>2. d \in Nat
        BY <1>2, <2>1
      <3> HIDE DEF a, o, d
      <3> QED
        BY <2>2, <2>3, <3>1, <3>2
    <2> HIDE DEF d
    <2>5. Like(bin, meant, d)
      BY <1>3, <1>8, <2>4 DEF ReadSoFar
    <2>6. Content(bin) = Content(meant)
      BY <1>3, <2>4, <2>5, LikeAll
    <2>7. bin.buffer = meant.buffer
      BY <2>5 DEF Like
    <2> QED
      BY <1>4, <2>1, <2>6, <2>7
  <1>9. ReadsWhole'
    BY <1>1, <1>8 DEF ReadsWhole, Whole, Content, Sayable
  <1>10. ASSUME ~Short, written, ~Enough
         PROVE  \E i \in DOMAIN meant.attrs : meant.attrs[i].name[1] = EMPTY
    <2>1. Len(file.lines) = Len(h) /\ file.data = meant.buffer
      BY <1>10 DEF BInv, FileInv
    <2>2. todo # <<>>
      <3>1. ASSUME todo = <<>>
            PROVE  d = Len(file.lines)
        BY <1>1, <1>4, <3>1 DEF Done
      <3> HIDE DEF d, h
      <3> QED
        BY <1>4, <2>1, <3>1
    <2>3. Kind(todo[1]) # "end"
      BY <1>4, <1>10, <2>1, <2>2 DEF Enough
    <2>4. Kind(todo[1]) = "attr" /\ Fields(todo[1])[1] = EMPTY
      BY <1>1, <2>2, <2>3 DEF Stops
    <2>5. PICK l \in 1 .. Len(HeadOf(meant)), line \in {todo[1]} : line = todo[1] /\ line = HeadOf(meant)[l]
      BY <1>2, <2>2
    <2>6. PICK i \in 1 .. Len(meant.attrs) : line = AttrLine(meant.attrs[i])
      <3>1. \/ Kind(line) \in {"version", "count"}
            \/ Kind(line) = "length"
            \/ \E i \in 1 .. Len(meant.attrs) : line = AttrLine(meant.attrs[i])
            \/ \E i \in 1 .. Len(meant.binaries) : line = ObjectLine(meant.binaries[i])
            \/ Kind(line) = "end"
        BY <1>4, <2>5, HeadKinds
      <3>2. \A i \in 1 .. Len(meant.binaries) : Kind(ObjectLine(meant.binaries[i])) # "attr"
        <4>1. \A i \in 1 .. Len(meant.binaries) : meant.binaries[i] \in Objects
          BY <1>4 DEF BinFiles
        <4> QED
          BY <4>1, ObjectKinds
      <3> QED
        BY <2>4, <2>5, <3>1, <3>2
    <2>7. meant.attrs[i] \in Attrs /\ i \in DOMAIN meant.attrs
      BY <1>4 DEF BinFiles
    <2> QED
      BY <2>4, <2>5, <2>6, <2>7, AttrFields
  <1>11. ~Short => WrittenReads'
    BY <1>1, <1>10 DEF WrittenReads
  <1> QED
    BY <1>5, <1>6, <1>7, <1>9, <1>11 DEF BInv

-----------------------------------------------------------------------------
(* No call, no death and no short write breaks the invariant, as long as a  *)
(* file is read into an object that is new.                                 *)
THEOREM FilesHold ==
  ASSUME ~Reuse, PlainLengths
  PROVE  Spec => []BInv
  <1>1. ASSUME BInv, [Next]_vars
        PROVE  BInv'
    <2>1. ASSUME NEW name \in AttrNames, NEW value \in Values, AddAttr(name, value)
          PROVE  BInv'
      BY <1>1, <2>1, AddAttrStep
    <2>2. ASSUME NEW name \in ObjectNames, NEW length \in Lengths, AddObject(name, length)
          PROVE  BInv'
      BY <1>1, <2>2, AddObjectStep
    <2>3. CASE New
      BY <1>1, <2>3, NewStep
    <2>4. CASE Write
      BY <1>1, <2>4, WriteStep
    <2>5. CASE WriteLine
      BY <1>1, <2>5, WriteLineStep
    <2>6. CASE WriteLineFails
      BY <1>1, <2>6, WriteLineFailsStep
    <2>7. CASE WriteBinaries
      BY <1>1, <2>7, WriteBinariesStep
    <2>8. CASE Crash
      BY <1>1, <2>8, CrashStep
    <2>9. CASE Read
      BY <1>1, <2>9, ReadStep
    <2>10. CASE ReadLine
      BY <1>1, <2>10, ReadLineStep
    <2>11. CASE ReadEnd
      BY <1>1, <2>11, ReadEndStep
    <2>12. CASE UNCHANGED vars
      <3>1. /\ bin' = bin /\ file' = file /\ todo' = todo /\ pc' = pc /\ meant' = meant
            /\ written' = written /\ last' = last
        BY <2>12 DEF vars
      <3>2. BinOK(bin)' /\ BinOK(meant)'
        BY <1>1, <3>1 DEF BInv, BinOK
      <3>3. FileInv' /\ ReadsWhole' /\ (~Short => WrittenReads')
        BY <1>1, <3>1 DEF BInv, FileInv, ReadsWhole, WrittenReads, Whole, Content, Sayable
      <3>4. Done' = Done
        BY <3>1 DEF Done
      <3>5. TodoInv'
        BY <1>1, <3>1, <3>4 DEF BInv, TodoInv
      <3>6. ReadInv'
        BY <1>1, <3>1, <3>4 DEF BInv, ReadInv
      <3> QED
        BY <3>2, <3>3, <3>5, <3>6 DEF BInv
    <2> QED
      BY <1>1, <2>1, <2>2, <2>3, <2>4, <2>5, <2>6, <2>7, <2>8, <2>9, <2>10, <2>11, <2>12
         DEF Next
  <1> QED
    BY <1>1, InitOK, PTL DEF Spec

(* A Read that returns OkStatus has all that was written, also where the    *)
(* writer died or its last call fell short.                                 *)
THEOREM WholeOrNothing ==
  ASSUME ~Reuse, PlainLengths
  PROVE  Spec => []ReadsWhole
  <1>1. BInv => ReadsWhole
    BY DEF BInv
  <1> QED
    BY <1>1, FilesHold, PTL

(* A file that Write says is written can be read.                           *)
THEOREM WrittenCanBeRead ==
  ASSUME ~Reuse, PlainLengths, ~Short
  PROVE  Spec => []WrittenReads
  <1>1. BInv => WrittenReads
    BY DEF BInv
  <1> QED
    BY <1>1, FilesHold, PTL

(* The objects lie in the buffer, one behind the other, at every moment of  *)
(* a Read too.                                                              *)
THEOREM ObjectsLieApart ==
  ASSUME ~Reuse, PlainLengths
  PROVE  Spec => []ObjectsInBuffer
  <1>1. BInv => ObjectsInBuffer
    BY DEF BInv, BinOK, EndOf, ObjectsInBuffer
  <1> QED
    BY <1>1, FilesHold, PTL
=============================================================================
