---------------------------- MODULE IniFileProofs ----------------------------
(***************************************************************************)
(* Proofs about IniFile: what ParseIniFileToMap makes of a file, line by   *)
(* line, is what the file says, for every file whose entries are below     *)
(* names.                                                                  *)
(***************************************************************************)
EXTENDS IniFile, WellFoundedInduction, TLAPS

(* Counting up to n reaches every number.                                   *)
LEMMA CountedUp ==
  ASSUME NEW n \in Nat, NEW S, 0 \in S, \A i \in 0 .. n - 1 : i \in S => i + 1 \in S
  PROVE  0 .. n \subseteq S
  <1> DEFINE Missed == {i \in 0 .. n : i \notin S}
  <1>1. Missed \subseteq Nat /\ \A i \in 0 .. n : i \notin S <=> i \in Missed
    OBVIOUS
  <1> HIDE DEF Missed
  <1>2. ASSUME Missed # {}
        PROVE  FALSE
    <2>1. PICK i \in Missed : \A j \in Missed : ~(<<j, i>> \in OpToRel(<, Nat))
      BY <1>1, <1>2, NatLessThanWellFounded, WFMin
    <2>2. i \in 1 .. n /\ i \notin S
      BY <1>1 DEF Missed
    <2>3. i - 1 \in Nat /\ i \in Nat /\ i - 1 < i /\ i - 1 \in 0 .. n
      BY <2>2
    <2>4. i - 1 \notin Missed
      BY <2>1, <2>3 DEF OpToRel
    <2>5. i - 1 \in S
      BY <1>1, <2>3, <2>4
    <2> QED
      BY <2>2, <2>5
  <1> QED
    BY <1>1, <1>2

(* The largest of some numbers that are bounded.                            *)
LEMMA MaxExists ==
  ASSUME NEW m \in Nat, NEW S, S \subseteq 0 .. m, S # {}
  PROVE  Max(S) \in S /\ \A x \in S : x <= Max(S)
  <1> DEFINE Rest == {i \in 0 .. m : m - i \in S}
  <1>1. \A i \in Rest : i \in 0 .. m /\ i \in Nat /\ m - i \in S
    OBVIOUS
  <1>2. \A x \in S : x \in 0 .. m /\ x \in Int /\ m - x \in Nat /\ m - (m - x) = x
    OBVIOUS
  <1>3. \A x \in S : m - x \in Rest
    BY <1>2
  <1> HIDE DEF Rest
  <1>4. PICK i \in Rest : \A j \in Rest : ~(<<j, i>> \in OpToRel(<, Nat))
    <2>1. Rest # {} /\ Rest \subseteq Nat
      BY <1>1, <1>3
    <2> QED
      BY <2>1, NatLessThanWellFounded, WFMin
  <1>5. i \in Nat /\ i \in 0 .. m /\ m - i \in S
    BY <1>1, <1>4
  <1>6. \A x \in S : m - i >= x
    <2>1. SUFFICES ASSUME NEW x \in S
                   PROVE  m - i >= x
      OBVIOUS
    <2>2. m - x \in Rest /\ m - x \in Nat /\ x \in Int
      BY <1>2, <1>3
    <2>3. ~(m - x < i)
      BY <1>4, <1>5, <2>2 DEF OpToRel
    <2> QED
      BY <1>5, <2>2, <2>3
  <1>7. Max(S) \in S /\ \A y \in S : Max(S) >= y
    BY <1>5, <1>6, Zenon DEF Max
  <1> QED
    BY <1>2, <1>7

(* The least of some numbers.                                               *)
LEMMA MinExists ==
  ASSUME NEW S \in SUBSET Nat, S # {}
  PROVE  Min(S) \in S /\ \A x \in S : Min(S) <= x
  <1>1. PICK m \in S : \A x \in S : ~(<<x, m>> \in OpToRel(<, Nat))
    BY NatLessThanWellFounded, WFMin
  <1>2. \A x \in S : m <= x
    <2> SUFFICES ASSUME NEW x \in S
                 PROVE  m <= x
      OBVIOUS
    <2>1. x \in Nat /\ m \in Nat
      OBVIOUS
    <2>2. ~(x < m)
      BY <1>1, <2>1 DEF OpToRel
    <2> QED
      BY <2>1, <2>2
  <1> QED
    BY <1>1, <1>2, Zenon DEF Min

(* What a map has into which values are emplaced one after the other: under *)
(* each key the first one.                                                  *)
Firsts(K, V, J) == [k \in {K[j] : j \in J} |-> V[Min({j \in J : K[j] = k})]]

LEMMA FirstsGrow ==
  ASSUME NEW K, NEW V, NEW J \in SUBSET Nat, NEW i \in Nat, \A j \in J : j < i
  PROVE  Emplaced(Firsts(K, V, J), K[i], V[i]) = Firsts(K, V, J \cup {i})
  <1> DEFINE old == {K[j] : j \in J}
             key(k) == {j \in J : K[j] = k}
             wide(k) == {j \in J \cup {i} : K[j] = k}
  <1>1. ASSUME NEW k \in old
        PROVE  Min(wide(k)) = Min(key(k))
    <2>1. key(k) \in SUBSET Nat /\ key(k) # {} /\ wide(k) \in SUBSET Nat /\ wide(k) # {}
      OBVIOUS
    <2>2. Min(key(k)) \in key(k) /\ \A x \in key(k) : Min(key(k)) <= x
      BY <2>1, MinExists, Zenon
    <2>3. Min(wide(k)) \in wide(k) /\ \A x \in wide(k) : Min(wide(k)) <= x
      BY <2>1, MinExists, Zenon
    <2> DEFINE m == Min(key(k))
               w == Min(wide(k))
    <2>4. m \in Nat /\ m < i /\ w \in Nat /\ m \in wide(k) /\ (w \in key(k) \/ w = i)
      BY <2>2, <2>3
    <2>5. w <= m /\ (w \in key(k) => m <= w)
      BY <2>2, <2>3, <2>4
    <2> HIDE DEF m, w
    <2>6. w = m
      BY <2>4, <2>5
    <2> QED
      BY <2>6 DEF m, w
  <1>2. K[i] \notin old => Min(wide(K[i])) = i
    <2>1. SUFFICES ASSUME K[i] \notin old
                   PROVE  Min(wide(K[i])) = i
      OBVIOUS
    <2>2. wide(K[i]) = {i}
      BY <2>1
    <2>3. {i} \in SUBSET Nat /\ {i} # {}
      OBVIOUS
    <2>4. Min({i}) \in {i}
      BY <2>3, MinExists, Zenon
    <2> QED
      BY <2>2, <2>4
  <1>3. {K[j] : j \in J \cup {i}} = old \cup {K[i]}
    OBVIOUS
  <1>4. Firsts(K, V, J \cup {i}) = [k \in old \cup {K[i]} |-> V[Min(wide(k))]]
    BY <1>3 DEF Firsts
  <1>5. Firsts(K, V, J) = [k \in old |-> V[Min(key(k))]]
    BY DEF Firsts
  <1> DEFINE map == Firsts(K, V, J)
  <1>6. DOMAIN map = old /\ \A k \in old : map[k] = V[Min(key(k))]
    BY <1>5
  <1>7. Emplaced(map, K[i], V[i]) = [k \in old \cup {K[i]} |-> IF k \in old THEN map[k] ELSE V[i]]
    <2> DEFINE more == [k \in {K[i]} |-> V[i]]
    <2>1. DOMAIN more = {K[i]} /\ more[K[i]] = V[i]
      OBVIOUS
    <2>2. Emplaced(map, K[i], V[i]) = [k \in DOMAIN map \cup DOMAIN more |->
                                         IF k \in DOMAIN map THEN map[k] ELSE more[k]]
      BY Zenon DEF Emplaced, Joined
    <2> HIDE DEF map, more
    <2>3. Emplaced(map, K[i], V[i]) = [k \in old \cup {K[i]} |-> IF k \in old THEN map[k] ELSE more[k]]
      BY <1>6, <2>1, <2>2
    <2> QED
      BY <2>1, <2>3
  <1> HIDE DEF map
  <1>8. \A k \in old \cup {K[i]} :
          (IF k \in old THEN map[k] ELSE V[i]) = V[Min(wide(k))]
    BY <1>1, <1>2, <1>6
  <1> QED
    BY <1>4, <1>7, <1>8 DEF map

LEMMA FirstsAgree ==
  ASSUME NEW K, NEW V, NEW W, NEW J \in SUBSET Nat, \A j \in J : V[j] = W[j]
  PROVE  Firsts(K, V, J) = Firsts(K, W, J)
  <1>1. ASSUME NEW k \in {K[j] : j \in J}
        PROVE  Min({j \in J : K[j] = k}) \in J
    <2>1. {j \in J : K[j] = k} \in SUBSET Nat /\ {j \in J : K[j] = k} # {}
      OBVIOUS
    <2>2. Min({j \in J : K[j] = k}) \in {j \in J : K[j] = k}
      BY <2>1, MinExists, Zenon
    <2> QED
      BY <2>2
  <1> QED
    BY <1>1 DEF Firsts

LEMMA FirstsNone ==
  ASSUME NEW K, NEW V, NEW J
  PROVE  Firsts(K, V, J) = Nothing <=> J = {}
  <1>1. DOMAIN Firsts(K, V, J) = {K[j] : j \in J}
    BY DEF Firsts
  <1>2. DOMAIN Nothing = {}
    BY DEF Nothing
  <1>3. CASE J = {}
    BY <1>3 DEF Firsts, Nothing
  <1>4. CASE J # {}
    BY <1>1, <1>2, <1>4
  <1> QED
    BY <1>3, <1>4

(* The last line of some kinds up to a line: the header above it.           *)
LEMMA LineFacts ==
  ASSUME NEW file, IsFile(file)
  PROVE  /\ DOMAIN file = 1 .. Len(file) /\ Len(file) \in Nat
         /\ \A i \in 1 .. Len(file) : IsLine(file[i])
  BY DEF IsFile

LEMMA LastOne ==
  ASSUME NEW file, NEW kinds, NEW i \in Nat
  PROVE  /\ LastOf(file, kinds, i) \in 0 .. i
         /\ LastOf(file, kinds, i) # 0 => file[LastOf(file, kinds, i)].kind \in kinds
         /\ \A h \in 1 .. i : file[h].kind \in kinds => h <= LastOf(file, kinds, i)
  <1> DEFINE S == {0} \cup {h \in 1 .. i : file[h].kind \in kinds}
  <1>1. S \subseteq 0 .. i /\ S # {}
    OBVIOUS
  <1>2. LastOf(file, kinds, i) = Max(S)
    BY DEF LastOf
  <1>3. Max(S) \in S /\ \A x \in S : x <= Max(S)
    BY <1>1, MaxExists, Zenon
  <1> QED
    BY <1>2, <1>3

LEMMA NextOne ==
  ASSUME NEW file, NEW kinds, NEW i \in Nat
  PROVE  LastOf(file, kinds, i + 1) =
           IF file[i + 1].kind \in kinds THEN i + 1 ELSE LastOf(file, kinds, i)
  <1> DEFINE a == LastOf(file, kinds, i)
             b == LastOf(file, kinds, i + 1)
  <1>1. /\ a \in 0 .. i /\ (a # 0 => file[a].kind \in kinds)
        /\ \A h \in 1 .. i : file[h].kind \in kinds => h <= a
    BY LastOne
  <1>2. /\ b \in 0 .. i + 1 /\ (b # 0 => file[b].kind \in kinds)
        /\ \A h \in 1 .. i + 1 : file[h].kind \in kinds => h <= b
    BY LastOne
  <1> HIDE DEF a, b
  <1>3. CASE file[i + 1].kind \in kinds
    BY <1>2, <1>3 DEF b
  <1>4. CASE file[i + 1].kind \notin kinds
    <2>1. b # i + 1
      BY <1>2, <1>4
    <2>2. b \in 0 .. i /\ (b # 0 => b <= a) /\ (a # 0 => a <= b)
      BY <1>1, <1>2, <2>1
    <2>3. a = b
      BY <1>1, <2>2
    <2> QED
      BY <1>4, <2>3 DEF a, b
  <1> QED
    BY <1>3, <1>4

Heads == {"header", "open"}

LEMMA LastHeader ==
  ASSUME NEW file, NEW i \in Nat
  PROVE  /\ HeaderAbove(file, i) \in 0 .. i
         /\ HeaderAbove(file, i) # 0 => file[HeaderAbove(file, i)].kind \in Heads
         /\ \A h \in 1 .. i : file[h].kind \in Heads => h <= HeaderAbove(file, i)
  <1>1. HeaderAbove(file, i) = LastOf(file, Heads, i)
    BY Zenon DEF HeaderAbove, Heads
  <1>2. /\ LastOf(file, Heads, i) \in 0 .. i
        /\ LastOf(file, Heads, i) # 0 => file[LastOf(file, Heads, i)].kind \in Heads
        /\ \A h \in 1 .. i : file[h].kind \in Heads => h <= LastOf(file, Heads, i)
    BY LastOne
  <1> QED
    BY <1>1, <1>2, Zenon

LEMMA NextHeader ==
  ASSUME NEW file, NEW i \in Nat
  PROVE  HeaderAbove(file, i + 1) = IF file[i + 1].kind \in Heads THEN i + 1 ELSE HeaderAbove(file, i)
  <1>1. \A j : HeaderAbove(file, j) = LastOf(file, Heads, j)
    BY Zenon DEF HeaderAbove, Heads
  <1>2. LastOf(file, Heads, i + 1) = IF file[i + 1].kind \in Heads THEN i + 1 ELSE LastOf(file, Heads, i)
    BY NextOne
  <1> QED
    BY <1>1, <1>2, Zenon

(* The name that counts at a line.                                          *)
LEMMA NextName ==
  ASSUME NEW file, NEW i \in Nat
  PROVE  /\ NameAt(file, 0) = NoName
         /\ NameAt(file, i + 1) =
              IF file[i + 1].kind = "header" THEN file[i + 1].name ELSE NameAt(file, i)
  <1>1. LastOf(file, {"header"}, 0) = 0
    BY LastOne
  <1>2. NameAt(file, 0) = NoName
    BY <1>1 DEF NameAt
  <1>3. LastOf(file, {"header"}, i + 1) =
          IF file[i + 1].kind = "header" THEN i + 1 ELSE LastOf(file, {"header"}, i)
    BY NextOne
  <1>4. CASE file[i + 1].kind = "header"
    BY <1>2, <1>3, <1>4 DEF NameAt
  <1>5. CASE file[i + 1].kind # "header"
    <2>1. LastOf(file, {"header"}, i + 1) = LastOf(file, {"header"}, i)
      BY <1>3, <1>5
    <2> QED
      BY <1>2, <1>5, <2>1, Zenon DEF NameAt
  <1> QED
    BY <1>4, <1>5

LEMMA NameAbove ==
  ASSUME NEW file, NEW i \in Nat
  PROVE  NameAt(file, HeaderAbove(file, i)) = NameAt(file, i)
  <1> DEFINE h == HeaderAbove(file, i)
             a == LastOf(file, {"header"}, i)
             b == LastOf(file, {"header"}, h)
  <1>1. /\ h \in 0 .. i /\ h \in Nat
        /\ \A j \in 1 .. i : file[j].kind \in Heads => j <= h
    BY LastHeader
  <1>2. /\ a \in 0 .. i /\ (a # 0 => file[a].kind = "header")
        /\ \A j \in 1 .. i : file[j].kind = "header" => j <= a
    BY LastOne
  <1>3. /\ b \in 0 .. h /\ (b # 0 => file[b].kind = "header")
        /\ \A j \in 1 .. h : file[j].kind = "header" => j <= b
    <2> HIDE DEF h
    <2> QED
      BY <1>1, LastOne
  <1> HIDE DEF a, b, h
  <1>4. a # 0 => a <= h /\ a <= b
    BY <1>1, <1>2, <1>3 DEF Heads
  <1>5. b # 0 => b <= a
    BY <1>1, <1>2, <1>3
  <1>6. a = b
    BY <1>1, <1>2, <1>3, <1>4, <1>5
  <1> QED
    BY <1>6, Zenon DEF NameAt, a, b, h

(* What has been read after so many lines: the entries under the last       *)
(* header, and of the sections before it those that have entries.           *)
Keys(file) == [i \in DOMAIN file |-> file[i].key]
Values(file) == [i \in DOMAIN file |-> file[i].value]
Names(file) == [i \in DOMAIN file |-> NameAt(file, i)]

LinesUnder(file, h, i) == {j \in 1 .. i : file[j].kind = "entry" /\ HeaderAbove(file, j) = h}
EntriesUnder(file, h, i) == Firsts(Keys(file), Values(file), LinesUnder(file, h, i))
EntriesAt(file, i) == [h \in DOMAIN file |-> EntriesUnder(file, h, i)]
Sections(file, i) == {h \in 1 .. i : file[h].kind \in Heads /\ LinesUnder(file, h, i) # {}}
SectionsRead(file, i, J) == Firsts(Names(file), EntriesAt(file, i), J)

ReadTo(file, i, ini) ==
  ini = [name |-> NameAt(file, i),
         entries |-> EntriesUnder(file, HeaderAbove(file, i), i),
         sections |-> SectionsRead(file, i, Sections(file, i) \ {HeaderAbove(file, i)})]

LEMMA NextLines ==
  ASSUME NEW file, NEW i \in Nat, NEW h
  PROVE  LinesUnder(file, h, i + 1) =
           IF file[i + 1].kind = "entry" /\ HeaderAbove(file, i + 1) = h
           THEN LinesUnder(file, h, i) \cup {i + 1} ELSE LinesUnder(file, h, i)
  <1>1. 1 .. i + 1 = (1 .. i) \cup {i + 1}
    OBVIOUS
  <1> QED
    BY <1>1, Zenon DEF LinesUnder

(* Lines without an entry leave everything under the headers as it is.      *)
LEMMA NoEntry ==
  ASSUME NEW file, NEW i \in Nat, file[i + 1].kind # "entry"
  PROVE  /\ \A h : LinesUnder(file, h, i + 1) = LinesUnder(file, h, i)
         /\ \A h : EntriesUnder(file, h, i + 1) = EntriesUnder(file, h, i)
         /\ EntriesAt(file, i + 1) = EntriesAt(file, i)
  <1>1. \A h : LinesUnder(file, h, i + 1) = LinesUnder(file, h, i)
    BY NextLines, Zenon
  <1>2. \A h : EntriesUnder(file, h, i + 1) = EntriesUnder(file, h, i)
    BY <1>1, Zenon DEF EntriesUnder
  <1> QED
    BY <1>1, <1>2, Zenon DEF EntriesAt

(* Nothing is under a header that is still to come.                         *)
LEMMA NothingYet ==
  ASSUME NEW file, NEW i \in Nat, NEW h \in Nat, i < h
  PROVE  LinesUnder(file, h, i) = {}
  <1>1. \A j \in 1 .. i : HeaderAbove(file, j) # h
    <2> SUFFICES ASSUME NEW j \in 1 .. i
                 PROVE  HeaderAbove(file, j) # h
      OBVIOUS
    <2>1. j \in Nat /\ HeaderAbove(file, j) \in 0 .. j
      BY LastHeader
    <2> QED
      BY <2>1
  <1> QED
    BY <1>1 DEF LinesUnder

LEMMA NextSections ==
  ASSUME NEW file, NEW i \in Nat, file[i + 1].kind # "entry"
  PROVE  Sections(file, i + 1) = Sections(file, i)
  <1>1. 1 .. i + 1 = (1 .. i) \cup {i + 1}
    OBVIOUS
  <1>2. LinesUnder(file, i + 1, i) = {}
    BY NothingYet
  <1>3. \A h : LinesUnder(file, h, i + 1) = LinesUnder(file, h, i)
    BY NoEntry, Zenon
  <1>4. \A h : h \in Sections(file, i + 1) <=> h \in Sections(file, i)
    <2> SUFFICES ASSUME NEW h
                 PROVE  h \in Sections(file, i + 1) <=> h \in Sections(file, i)
      OBVIOUS
    <2>1. h \in 1 .. i + 1 <=> h \in 1 .. i \/ h = i + 1
      BY <1>1, Zenon
    <2>2. h = i + 1 => LinesUnder(file, h, i) = {}
      BY <1>2, Zenon
    <2> QED
      BY <1>3, <2>1, <2>2, Zenon DEF Sections
  <1> QED
    BY <1>4, Zenon

(* In a tidy file a header that has entries has a name.                     *)
LEMMA TidyFacts ==
  ASSUME NEW file, IsFile(file), Tidy(file), NEW i \in 0 .. Len(file)
  PROVE  /\ HeaderAbove(file, i) \in 0 .. i
         /\ HeaderAbove(file, i) # 0 => /\ HeaderAbove(file, i) \in DOMAIN file
                                       /\ file[HeaderAbove(file, i)].kind \in Heads
         /\ LinesUnder(file, HeaderAbove(file, i), i) # {} =>
              HeaderAbove(file, i) # 0 /\ NameAt(file, i) # NoName
  <1> DEFINE h == HeaderAbove(file, i)
  <1>1. DOMAIN file = 1 .. Len(file) /\ Len(file) \in Nat /\ i \in Nat
    BY LineFacts
  <1>2. h \in 0 .. i /\ (h # 0 => file[h].kind \in Heads)
    BY <1>1, LastHeader
  <1>3. h \in 0 .. Len(file) /\ (h # 0 => h \in DOMAIN file)
    BY <1>1, <1>2
  <1>4. NameAt(file, h) = NameAt(file, i) /\ NameAt(file, 0) = NoName
    BY <1>1, NameAbove, NextName
  <1> HIDE DEF h
  <1>5. LinesUnder(file, h, i) \subseteq SectionAt(file, h)
    <2>1. 1 .. i \subseteq DOMAIN file
      BY <1>1
    <2> QED
      BY <2>1 DEF SectionAt, LinesUnder
  <1>6. NameAt(file, h) = NoName => SectionAt(file, h) = {}
    BY <1>3 DEF Tidy
  <1>7. LinesUnder(file, h, i) # {} => h # 0 /\ NameAt(file, i) # NoName
    BY <1>4, <1>5, <1>6
  <1> QED
    BY <1>2, <1>3, <1>7 DEF h

(* With the last section flushed, all are there that have entries.          *)
LEMMA FlushedTo ==
  ASSUME NEW file, IsFile(file), Tidy(file), NEW i \in 0 .. Len(file), NEW ini, ReadTo(file, i, ini)
  PROVE  Flushed(ini) = [name |-> ini.name, entries |-> Nothing,
                         sections |-> SectionsRead(file, i, Sections(file, i))]
  <1> DEFINE h == HeaderAbove(file, i)
             J == Sections(file, i)
             K == Names(file)
             V == EntriesAt(file, i)
             e == EntriesUnder(file, h, i)
  <1>1. DOMAIN file = 1 .. Len(file) /\ Len(file) \in Nat /\ i \in Nat
    BY LineFacts
  <1>2. /\ h \in 0 .. i /\ (h # 0 => h \in DOMAIN file /\ file[h].kind \in Heads)
        /\ LinesUnder(file, h, i) # {} => h # 0 /\ NameAt(file, i) # NoName
    BY TidyFacts
  <1>3. /\ ini = [name |-> NameAt(file, i), entries |-> e, sections |-> Firsts(K, V, J \ {h})]
        /\ ini.name = NameAt(file, i) /\ ini.entries = e /\ ini.sections = Firsts(K, V, J \ {h})
    BY DEF ReadTo, SectionsRead
  <1>4. e = Nothing <=> LinesUnder(file, h, i) = {}
    BY FirstsNone DEF EntriesUnder
  <1>5. h \in J <=> h # 0 /\ LinesUnder(file, h, i) # {}
    BY <1>1, <1>2 DEF Sections
  <1>6. J \in SUBSET Nat /\ \A j \in J \ {h} : j < h
    <2>1. J \subseteq 1 .. i /\ \A j \in J : file[j].kind \in Heads
      BY DEF Sections
    <2>2. h \in 0 .. i /\ \A j \in 1 .. i : file[j].kind \in Heads => j <= h
      BY <1>1, LastHeader
    <2> HIDE DEF h, J
    <2> QED
      BY <1>1, <2>1, <2>2
  <1>7. h # 0 => K[h] = NameAt(file, i) /\ V[h] = e
    <2>1. NameAt(file, h) = NameAt(file, i)
      BY <1>1, NameAbove
    <2> QED
      BY <1>2, <2>1 DEF Names, EntriesAt
  <1>8. SectionsRead(file, i, J) = Firsts(K, V, J)
    BY DEF SectionsRead
  <1>9. h \in 0 .. i
    BY <1>1, LastHeader
  <1> HIDE DEF h, J, K, V, e
  <1>10. ini = [name |-> ini.name, entries |-> ini.entries, sections |-> ini.sections]
    BY <1>3, Zenon
  <1>11. CASE e = Nothing
    <2>1. h \notin J
      BY <1>2, <1>4, <1>5, <1>11
    <2>2. J \ {h} = J
      BY <2>1
    <2>3. Flushed(ini) = ini
      BY <1>3, <1>11 DEF Flushed
    <2> QED
      BY <1>3, <1>8, <1>11, <1>10, <2>2, <2>3, Zenon DEF J
  <1>12. CASE e # Nothing
    <2>1. h # 0 /\ h \in J /\ h \in Nat
      BY <1>1, <1>2, <1>4, <1>5, <1>9, <1>12
    <2>2. ini.name = K[h] /\ ini.name # NoName /\ e = V[h]
      BY <1>2, <1>3, <1>4, <1>7, <1>12, <2>1
    <2>3. Emplaced(Firsts(K, V, J \ {h}), K[h], V[h]) = Firsts(K, V, (J \ {h}) \cup {h})
      <3>1. J \ {h} \in SUBSET Nat
        BY <1>6
      <3> QED
        BY <1>6, <2>1, <3>1, FirstsGrow
    <2>4. (J \ {h}) \cup {h} = J
      BY <2>1
    <2>5. ~(ini.name = NoName \/ ini.entries = Nothing)
      BY <1>3, <1>12, <2>2
    <2>6. Flushed(ini) = [ini EXCEPT !.sections = Emplaced(ini.sections, ini.name, ini.entries),
                                     !.entries = Nothing]
      BY <2>5, Zenon DEF Flushed
    <2>7. Emplaced(ini.sections, ini.name, ini.entries) = Firsts(K, V, J)
      BY <1>3, <2>2, <2>3, <2>4, Zenon
    <2>8. Flushed(ini) = [name |-> ini.name, entries |-> Nothing, sections |-> Firsts(K, V, J)]
      BY <1>10, <2>6, <2>7
    <2> QED
      BY <1>8, <2>8, Zenon DEF J
  <1> QED
    BY <1>11, <1>12

(* One line more.                                                           *)
LEMMA EntryRead ==
  ASSUME NEW file, IsFile(file), Tidy(file), NEW i \in 0 .. Len(file) - 1, NEW ini,
         ReadTo(file, i, ini), file[i + 1].kind = "entry"
  PROVE  ReadTo(file, i + 1, ReadLine(ini, file[i + 1]))
  <1> DEFINE h == HeaderAbove(file, i)
             L == LinesUnder(file, h, i)
             J == Sections(file, i) \ {h}
             K == Keys(file)
             V == Values(file)
             line == file[i + 1]
             e == Emplaced(ini.entries, line.key, line.value)
  <1>1. /\ DOMAIN file = 1 .. Len(file) /\ Len(file) \in Nat /\ i \in Nat
        /\ i + 1 \in 1 .. Len(file) /\ i + 1 \in 0 .. Len(file) /\ i + 1 \in Nat /\ i < i + 1
    BY LineFacts
  <1>2. HeaderAbove(file, i + 1) = h /\ NameAt(file, i + 1) = NameAt(file, i)
    <2>1. file[i + 1].kind \notin Heads /\ file[i + 1].kind # "header"
      BY DEF Heads
    <2> QED
      BY <1>1, <2>1, NextHeader, NextName
  <1>3. LinesUnder(file, h, i + 1) = L \cup {i + 1}
    BY <1>1, <1>2, NextLines
  <1>4. ASSUME NEW g, g # h
        PROVE  LinesUnder(file, g, i + 1) = LinesUnder(file, g, i)
    BY <1>1, <1>2, <1>4, NextLines
  <1>5. ini = [name |-> NameAt(file, i), entries |-> Firsts(K, V, L),
               sections |-> SectionsRead(file, i, J)]
    BY DEF ReadTo, EntriesUnder
  <1>6. EntriesUnder(file, h, i + 1) = e
    <2>1. L \in SUBSET Nat /\ \A j \in L : j < i + 1
      BY <1>1 DEF LinesUnder
    <2>2. K[i + 1] = line.key /\ V[i + 1] = line.value
      BY <1>1 DEF Keys, Values
    <2>3. EntriesUnder(file, h, i + 1) = Firsts(K, V, L \cup {i + 1})
      BY <1>3 DEF EntriesUnder
    <2>4. ini.entries = Firsts(K, V, L)
      BY <1>5, Zenon
    <2> HIDE DEF K, V, L, h, line
    <2>5. Emplaced(Firsts(K, V, L), K[i + 1], V[i + 1]) = Firsts(K, V, L \cup {i + 1})
      BY <1>1, <2>1, FirstsGrow
    <2> QED
      BY <2>2, <2>3, <2>4, <2>5, Zenon
  <1>7. Sections(file, i + 1) \ {h} = J
    <2>1. 1 .. i + 1 = (1 .. i) \cup {i + 1}
      BY <1>1
    <2>2. file[i + 1].kind \notin Heads
      BY DEF Heads
    <2> QED
      BY <1>4, <2>1, <2>2, Zenon DEF Sections
  <1>8. SectionsRead(file, i + 1, J) = SectionsRead(file, i, J)
    <2> DEFINE C == EntriesAt(file, i + 1)
               D == EntriesAt(file, i)
    <2>1. ASSUME NEW j \in J
          PROVE  C[j] = D[j] /\ j \in Nat
      <3>1. j # h /\ j \in 1 .. i
        BY DEF Sections
      <3>2. LinesUnder(file, j, i + 1) = LinesUnder(file, j, i)
        BY <1>4, <3>1, Zenon
      <3>3. j \in DOMAIN file
        BY <1>1, <3>1
      <3> QED
        BY <3>1, <3>2, <3>3 DEF EntriesAt, EntriesUnder
    <2> HIDE DEF C, D, J
    <2>2. J \in SUBSET Nat
      BY <2>1
    <2>3. Firsts(Names(file), C, J) = Firsts(Names(file), D, J)
      BY <2>1, <2>2, FirstsAgree
    <2> QED
      BY <2>3 DEF SectionsRead, C, D
  <1>9. ReadLine(ini, line) = [ini EXCEPT !.entries = Emplaced(@, line.key, line.value)]
    <2>1. line.kind = "entry" /\ line.kind # "header" /\ line.kind # "open" /\ line.kind # "skipped"
      OBVIOUS
    <2> HIDE DEF line
    <2> QED
      BY <2>1 DEF ReadLine
  <1> HIDE DEF h, J, L, K, V, line
  <1>10. ini = [name |-> ini.name, entries |-> ini.entries, sections |-> ini.sections]
         /\ ini.name = NameAt(file, i) /\ ini.sections = SectionsRead(file, i, J)
    BY <1>5, Zenon
  <1>11. ReadLine(ini, line) = [ini EXCEPT !.entries = e]
    BY <1>9, Zenon
  <1> HIDE DEF e
  <1>12. ReadLine(ini, line) = [name |-> ini.name, entries |-> e, sections |-> ini.sections]
    BY <1>10, <1>11
  <1>13. ReadLine(ini, line) = [name |-> NameAt(file, i), entries |-> e,
                                sections |-> SectionsRead(file, i + 1, J)]
    BY <1>8, <1>10, <1>12, Zenon
  <1> QED
    BY <1>2, <1>6, <1>7, <1>13, Zenon DEF ReadTo, line

LEMMA LineRead ==
  ASSUME NEW file, IsFile(file), Tidy(file), NEW i \in 0 .. Len(file) - 1, NEW ini,
         ReadTo(file, i, ini)
  PROVE  ReadTo(file, i + 1, ReadLine(ini, file[i + 1]))
  <1> DEFINE h == HeaderAbove(file, i)
             J == Sections(file, i)
             line == file[i + 1]
  <1>1. /\ DOMAIN file = 1 .. Len(file) /\ Len(file) \in Nat /\ i \in Nat
        /\ i + 1 \in 1 .. Len(file) /\ i + 1 \in Nat /\ i < i + 1 /\ i \in 0 .. Len(file)
    BY LineFacts
  <1>2. CASE line.kind = "entry"
    BY <1>2, EntryRead
  <1>3. CASE line.kind = "skipped"
    <2>1. line.kind # "entry" /\ line.kind # "header" /\ line.kind # "open" /\ line.kind \notin Heads
      BY <1>3 DEF Heads
    <2>2. HeaderAbove(file, i + 1) = h /\ NameAt(file, i + 1) = NameAt(file, i)
      BY <1>1, <2>1, NextHeader, NextName
    <2>3. Sections(file, i + 1) = J
      BY <1>1, <2>1, NextSections
    <2>4. /\ EntriesUnder(file, h, i + 1) = EntriesUnder(file, h, i)
          /\ EntriesAt(file, i + 1) = EntriesAt(file, i)
      BY <1>1, <2>1, NoEntry
    <2>5. SectionsRead(file, i + 1, J \ {h}) = SectionsRead(file, i, J \ {h})
      BY <2>4, Zenon DEF SectionsRead
    <2> HIDE DEF line, h, J
    <2>6. ReadLine(ini, line) = ini
      BY <1>3, <2>1 DEF ReadLine
    <2> QED
      BY <2>2, <2>3, <2>4, <2>5, <2>6, Zenon DEF ReadTo, h, J, line
  <1>4. CASE line.kind \in Heads
    <2>1. line.kind # "entry" /\ line.kind # "skipped" /\ line.kind \in {"header", "open"}
      BY <1>4 DEF Heads
    <2>2. HeaderAbove(file, i + 1) = i + 1
      BY <1>1, <1>4, NextHeader
    <2>3. Sections(file, i + 1) = J
      BY <1>1, <2>1, NextSections
    <2>4. /\ \A g : LinesUnder(file, g, i + 1) = LinesUnder(file, g, i)
          /\ EntriesAt(file, i + 1) = EntriesAt(file, i)
      BY <1>1, <2>1, NoEntry
    <2>5. LinesUnder(file, i + 1, i) = {}
      BY <1>1, NothingYet
    <2>6. EntriesUnder(file, i + 1, i + 1) = Nothing
      BY <2>4, <2>5, FirstsNone DEF EntriesUnder
    <2>7. J \ {i + 1} = J
      BY <1>1 DEF Sections
    <2>8. SectionsRead(file, i + 1, J) = SectionsRead(file, i, J)
      BY <2>4, Zenon DEF SectionsRead
    <2>9. Flushed(ini) = [name |-> ini.name, entries |-> Nothing, sections |-> SectionsRead(file, i, J)]
      BY <1>1, FlushedTo
    <2>10. NameAt(file, i + 1) = IF line.kind = "header" THEN line.name ELSE ini.name
      <3>1. ini.name = NameAt(file, i)
        BY DEF ReadTo
      <3> QED
        BY <1>1, <3>1, NextName
    <2> HIDE DEF line, h, J
    <2>11. ReadLine(ini, line) = IF line.kind = "header" THEN [Flushed(ini) EXCEPT !.name = line.name]
                                 ELSE Flushed(ini)
      BY <2>1 DEF ReadLine
    <2>12. ReadLine(ini, line) = [name |-> NameAt(file, i + 1), entries |-> Nothing,
                                  sections |-> SectionsRead(file, i, J)]
      BY <2>9, <2>10, <2>11
    <2> QED
      BY <2>2, <2>3, <2>6, <2>7, <2>8, <2>12, Zenon DEF ReadTo, line
  <1>5. line.kind \in {"entry", "skipped"} \/ line.kind \in Heads
    BY <1>1, LineFacts DEF IsLine, Heads
  <1> QED
    BY <1>2, <1>3, <1>4, <1>5

(* The sections of a file: of those with one name the first that has        *)
(* entries, and of its entries with one key the first.                      *)
LEMMA FileRead ==
  ASSUME NEW file, IsFile(file), Tidy(file)
  PROVE  ParseIniFileToMap(file) = SectionsRead(file, Len(file), Sections(file, Len(file)))
  <1> DEFINE none == [name |-> NoName, entries |-> Nothing, sections |-> Nothing]
             last == Min({Len(file), MAX_FILE_LINE_NUM + 1})
             n == Len(file)
             Fixed(g) == g = [i \in 0 .. last |-> IF i = 0 THEN none ELSE ReadLine(g[i - 1], file[i])]
             after == CHOOSE g : Fixed(g)
  <1>1. n \in Nat /\ n <= MAX_FILE_LINE_NUM /\ MAX_FILE_LINE_NUM \in Nat /\ n \in 0 .. n
    BY LineFacts, IniFileAssumption DEF Tidy
  <1>2. last = n
    <2> DEFINE S == {n, MAX_FILE_LINE_NUM + 1}
    <2>1. S \in SUBSET Nat /\ S # {}
      BY <1>1
    <2>2. Min(S) \in S /\ \A x \in S : Min(S) <= x
      BY <2>1, MinExists, Zenon
    <2> QED
      BY <1>1, <2>2
  <1>3. ParseIniFileToMap(file) = Flushed(after[last]).sections
    BY DEF ParseIniFileToMap
  <1> HIDE DEF last, n
  <1>4. ReadTo(file, 0, none)
    <2>1. HeaderAbove(file, 0) = 0
      BY LastHeader
    <2>2. Sections(file, 0) \ {0} = {}
      BY DEF Sections
    <2>3. LinesUnder(file, 0, 0) = {}
      BY DEF LinesUnder
    <2>4. EntriesUnder(file, 0, 0) = Nothing /\ SectionsRead(file, 0, {}) = Nothing
      BY <2>3, FirstsNone DEF EntriesUnder, SectionsRead
    <2>5. NameAt(file, 0) = NoName
      BY NextName
    <2> QED
      BY <2>1, <2>2, <2>4, <2>5, Zenon DEF ReadTo
  <1>5. ASSUME NEW i \in 0 .. n - 1, NEW ini, ReadTo(file, i, ini)
        PROVE  ReadTo(file, i + 1, ReadLine(ini, file[i + 1]))
    BY <1>5, LineRead DEF n
  <1> HIDE DEF none
  <1> DEFINE g == [i \in 0 .. n |-> CHOOSE ini : ReadTo(file, i, ini)]
  <1>6. \A i \in 0 .. n : ReadTo(file, i, g[i])
    BY DEF ReadTo
  <1>7. \A i \in 0 .. n : \A ini : ReadTo(file, i, ini) => g[i] = ini
    BY <1>6, Zenon DEF ReadTo
  <1>8. g = [i \in 0 .. n |-> g[i]]
    OBVIOUS
  <1> HIDE DEF g
  <1>9. \A i \in 0 .. n : g[i] = IF i = 0 THEN none ELSE ReadLine(g[i - 1], file[i])
    <2> SUFFICES ASSUME NEW i \in 0 .. n
                 PROVE  g[i] = IF i = 0 THEN none ELSE ReadLine(g[i - 1], file[i])
      OBVIOUS
    <2>1. CASE i = 0
      BY <1>4, <1>7, <2>1
    <2>2. CASE i # 0
      <3>1. i - 1 \in 0 .. n - 1 /\ i - 1 \in 0 .. n /\ (i - 1) + 1 = i
        BY <1>1, <2>2 DEF n
      <3>2. ReadTo(file, (i - 1) + 1, ReadLine(g[i - 1], file[(i - 1) + 1]))
        BY <1>5, <1>6, <3>1, Zenon
      <3>3. ReadTo(file, i, ReadLine(g[i - 1], file[i]))
        BY <3>1, <3>2
      <3> QED
        BY <1>7, <2>2, <3>3
    <2> QED
      BY <2>1, <2>2
  <1>10. Fixed(g)
    BY <1>2, <1>8, <1>9
  <1>11. Fixed(after)
    BY <1>10
  <1> HIDE DEF after
  <1>12. after[0] = none /\ \A i \in 0 .. n - 1 : after[i + 1] = ReadLine(after[i], file[i + 1])
    <2>1. 0 \in 0 .. n
      BY <1>1 DEF n
    <2>2. after[0] = none
      BY <1>2, <1>11, <2>1, Zenon
    <2>3. ASSUME NEW i \in 0 .. n - 1
          PROVE  after[i + 1] = ReadLine(after[i], file[i + 1])
      <3>1. i + 1 \in 0 .. n /\ i + 1 # 0 /\ (i + 1) - 1 = i
        BY <1>1 DEF n
      <3>2. after[i + 1] = IF i + 1 = 0 THEN none ELSE ReadLine(after[(i + 1) - 1], file[i + 1])
        BY <1>2, <1>11, <3>1, Zenon
      <3> QED
        BY <3>1, <3>2
    <2> QED
      BY <2>2, <2>3
  <1> DEFINE Done == {i \in 0 .. n : ReadTo(file, i, after[i])}
  <1>13. 0 \in Done /\ \A i \in 0 .. n - 1 : i \in Done => i + 1 \in Done
    <2>1. 0 \in Done
      BY <1>1, <1>4, <1>12 DEF n
    <2>2. ASSUME NEW i \in 0 .. n - 1, i \in Done
          PROVE  i + 1 \in Done
      <3>1. i + 1 \in 0 .. n
        BY <1>1 DEF n
      <3>2. ReadTo(file, i + 1, after[i + 1])
        BY <1>5, <1>12, <2>2, Zenon
      <3> QED
        BY <3>1, <3>2
    <2> QED
      BY <2>1, <2>2
  <1>14. ReadTo(file, n, after[n])
    <2> HIDE DEF Done
    <2>1. n \in Nat
      BY <1>1 DEF n
    <2>2. 0 .. n \subseteq Done
      BY <1>13, <2>1, CountedUp
    <2>3. n \in Done
      BY <2>1, <2>2
    <2> QED
      BY <2>3 DEF Done
  <1>15. n \in 0 .. Len(file)
    BY <1>1 DEF n
  <1>16. Flushed(after[n]).sections = SectionsRead(file, n, Sections(file, n))
    BY <1>14, <1>15, FlushedTo
  <1> QED
    BY <1>2, <1>3, <1>16 DEF n

(* What is read of some lines with entries.                                 *)
EntriesOf(file, S) == Firsts(Keys(file), Values(file), S)
EntriesSaid(file, S) ==
  [key \in {file[i].key : i \in S} |-> file[Min({i \in S : file[i].key = key})].value]

LEMMA EntriesHave ==
  ASSUME NEW file, IsFile(file), NEW S \in SUBSET DOMAIN file
  PROVE  EntriesOf(file, S) = EntriesSaid(file, S)
  <1> DEFINE K == Keys(file)
             V == Values(file)
             at(k) == {i \in S : file[i].key = k}
  <1>1. S \in SUBSET Nat
    BY LineFacts
  <1>2. \A i \in S : K[i] = file[i].key /\ V[i] = file[i].value
    BY DEF Keys, Values
  <1>3. {K[i] : i \in S} = {file[i].key : i \in S}
    BY <1>2
  <1>4. \A k : {i \in S : K[i] = k} = at(k)
    BY <1>2
  <1>5. \A k \in {file[i].key : i \in S} : Min(at(k)) \in S
    <2> SUFFICES ASSUME NEW k \in {file[i].key : i \in S}
                 PROVE  Min(at(k)) \in S
      OBVIOUS
    <2>1. at(k) \in SUBSET Nat /\ at(k) # {}
      BY <1>1
    <2>2. Min(at(k)) \in at(k)
      BY <2>1, MinExists, Zenon
    <2> QED
      BY <2>2
  <1> HIDE DEF K, V
  <1>6. EntriesOf(file, S) = [k \in {file[i].key : i \in S} |-> V[Min(at(k))]]
    BY <1>3, <1>4 DEF EntriesOf, Firsts, K, V
  <1> QED
    BY <1>2, <1>5, <1>6 DEF EntriesSaid

(* What is read of a file has the names that have sections, each with the   *)
(* entries of its first section.                                            *)
LEMMA NamedSections ==
  ASSUME NEW file, IsFile(file), NEW k
  PROVE  {h \in Sections(file, Len(file)) : Names(file)[h] = k} = SectionsOf(file, k)
  <1>1. DOMAIN file = 1 .. Len(file) /\ Len(file) \in Nat
    BY LineFacts
  <1>2. \A g : SectionAt(file, g) = LinesUnder(file, g, Len(file))
    BY <1>1 DEF SectionAt, LinesUnder
  <1>3. ASSUME NEW h \in DOMAIN file, SectionAt(file, h) # {}
        PROVE  file[h].kind \in Heads
    <2>1. PICK i \in DOMAIN file : HeaderAbove(file, i) = h
      BY <1>3 DEF SectionAt
    <2>2. h # 0 /\ i \in Nat
      BY <1>1
    <2> QED
      BY <2>1, <2>2, LastHeader
  <1>4. \A h \in DOMAIN file : Names(file)[h] = NameAt(file, h)
    BY DEF Names
  <1>5. ASSUME NEW h
        PROVE  h \in Sections(file, Len(file)) <=> h \in DOMAIN file /\ SectionAt(file, h) # {}
    BY <1>1, <1>2, <1>3, Zenon DEF Sections
  <1> QED
    BY <1>4, <1>5 DEF SectionsOf

LEMMA SectionFirst ==
  ASSUME NEW file, IsFile(file), NEW name, SectionsOf(file, name) # {}
  PROVE  /\ Min(SectionsOf(file, name)) \in SectionsOf(file, name)
         /\ FirstSection(file, name) \in SUBSET DOMAIN file
         /\ FirstSection(file, name) # {}
  <1>1. SectionsOf(file, name) \in SUBSET Nat
    BY LineFacts DEF SectionsOf
  <1>2. Min(SectionsOf(file, name)) \in SectionsOf(file, name)
    BY <1>1, MinExists
  <1>3. FirstSection(file, name) # {}
    BY <1>2 DEF SectionsOf, FirstSection
  <1>4. FirstSection(file, name) \in SUBSET DOMAIN file
    BY DEF FirstSection, SectionAt
  <1> QED
    BY <1>2, <1>3, <1>4

LEMMA ReadHas ==
  ASSUME NEW file, IsFile(file), Tidy(file)
  PROVE  ParseIniFileToMap(file)
           = [name \in {n \in {NameAt(file, h) : h \in DOMAIN file} : SectionsOf(file, n) # {}} |->
                EntriesOf(file, FirstSection(file, name))]
  <1> DEFINE n == Len(file)
             J == Sections(file, n)
             names == {k \in {NameAt(file, h) : h \in DOMAIN file} : SectionsOf(file, k) # {}}
             entries(h) == EntriesAt(file, n)[h]
  <1>1. ParseIniFileToMap(file) = Firsts(Names(file), EntriesAt(file, n), J)
    BY FileRead DEF SectionsRead
  <1>2. DOMAIN file = 1 .. n /\ n \in Nat
    BY LineFacts
  <1>3. \A k : {h \in J : Names(file)[h] = k} = SectionsOf(file, k)
    BY NamedSections
  <1>4. \A h \in J : h \in DOMAIN file /\ Names(file)[h] = NameAt(file, h)
    BY <1>2 DEF Sections, Names
  <1>5. {Names(file)[h] : h \in J} = names
    <2> HIDE DEF J
    <2>1. ASSUME NEW k
          PROVE  k \in {Names(file)[h] : h \in J} <=> k \in names
      <3>1. k \in {Names(file)[h] : h \in J} <=> SectionsOf(file, k) # {}
        BY <1>3
      <3>2. SectionsOf(file, k) # {} => k \in {NameAt(file, h) : h \in DOMAIN file}
        BY DEF SectionsOf
      <3> QED
        BY <3>1, <3>2
    <2> QED
      BY <2>1, Zenon
  <1>6. ASSUME NEW k \in names
        PROVE  entries(Min(SectionsOf(file, k))) = EntriesOf(file, FirstSection(file, k))
    <2>1. Min(SectionsOf(file, k)) \in DOMAIN file
      BY SectionFirst DEF SectionsOf
    <2>2. entries(Min(SectionsOf(file, k))) = EntriesUnder(file, Min(SectionsOf(file, k)), n)
      BY <2>1, Zenon DEF EntriesAt
    <2>3. LinesUnder(file, Min(SectionsOf(file, k)), n) = FirstSection(file, k)
      BY <1>2 DEF LinesUnder, FirstSection, SectionAt
    <2> QED
      BY <2>2, <2>3, Zenon DEF EntriesUnder, EntriesOf
  <1>7. Firsts(Names(file), EntriesAt(file, n), J)
          = [k \in {Names(file)[h] : h \in J} |-> entries(Min({h \in J : Names(file)[h] = k}))]
    BY Zenon DEF Firsts
  <1> HIDE DEF n, J, names, entries
  <1>8. Firsts(Names(file), EntriesAt(file, n), J) = [k \in names |-> entries(Min(SectionsOf(file, k)))]
    BY <1>3, <1>5, <1>7
  <1>9. ParseIniFileToMap(file) = [k \in names |-> EntriesOf(file, FirstSection(file, k))]
    BY <1>1, <1>6, <1>8
  <1> QED
    BY <1>9 DEF names

(* Whatever is in a file whose entries are all below names, what            *)
(* ParseIniFileToMap finds in it is what it says: the names, of each the    *)
(* entries of its first section that has some, and of two entries of a key  *)
(* the first, although the lines come one by one and a section is only      *)
(* known to end at the next.                                                *)
THEOREM FileIsAsItSays ==
  ASSUME NEW file, IsFile(file), Tidy(file)
  PROVE  ParseIniFileToMap(file) = Says(file)
  <1> DEFINE names == {n \in {NameAt(file, h) : h \in DOMAIN file} : SectionsOf(file, n) # {}}
             said(name) == EntriesSaid(file, FirstSection(file, name))
  <1>1. ParseIniFileToMap(file) = [name \in names |-> EntriesOf(file, FirstSection(file, name))]
    BY ReadHas
  <1>2. \A name \in names : EntriesOf(file, FirstSection(file, name)) = said(name)
    BY SectionFirst, EntriesHave
  <1> HIDE DEF names, said
  <1>3. ParseIniFileToMap(file) = [name \in names |-> said(name)]
    BY <1>1, <1>2
  <1> QED
    BY <1>3, Zenon DEF Says, EntriesSaid, names, said
=============================================================================
