--------------------------- MODULE OperationIrProofs ---------------------------
(***************************************************************************)
(* Proofs about SVector, for every capacity and every set of elements: it  *)
(* implements a bounded list, whatever its array holds behind size_, and   *)
(* each of its calls and comparisons is that of the list.  Then about what *)
(* extends it: the products of TensorDesc, for every width of the integers.*)
(***************************************************************************)
EXTENDS OperationIr, IniFileProofs, SequenceTheorems, WellFoundedInduction, TLAPS

(* The records are what they are built of.                                  *)
LEMMA VectorFields ==
  ASSUME NEW v \in Vectors
  PROVE  v.storage \in Storage /\ v.size \in 0 .. MAX_SIZE /\ v.size \in Nat
  BY SVectorAssumption DEF Vectors

(* Every call leaves a vector.                                              *)
LEMMA ListedType ==
  ASSUME NEW n \in 0 .. MAX_SIZE, NEW written \in Storage, NEW rest \in Storage
  PROVE  Listed(n, written, rest) \in Vectors
  <1>1. [i \in Slots |-> IF i < n THEN written[i] ELSE rest[i]] \in Storage
    BY DEF Storage
  <1> QED
    BY <1>1 DEF Listed, Vectors

(* The constructor of no elements.                                          *)
LEMMA NewVectorType == NewVector \in Vectors
  <1>1. [i \in Slots |-> Default] \in Storage
    BY SVectorAssumption DEF Storage
  <1> QED
    BY <1>1, SVectorAssumption DEF NewVector, Vectors

(* insert, within the capacity.                                             *)
LEMMA InsertedType ==
  ASSUME NEW v \in Vectors, NEW p \in Nat, NEW e \in Elems,
         v.size # MAX_SIZE, p <= v.size
  PROVE  Inserted(v, p, e) \in Vectors
  <1> DEFINE s == [i \in Slots |-> IF i < p \/ i > v.size THEN v.storage[i]
                                   ELSE IF i = p THEN e ELSE v.storage[i - 1]]
  <1>1. s \in Storage
    <2> SUFFICES ASSUME NEW i \in Slots
                 PROVE  s[i] \in Elems
      BY DEF Storage
    <2>1. v.storage[i] \in Elems
      BY VectorFields DEF Storage
    <2>2. ASSUME ~(i < p), i # p
          PROVE  v.storage[i - 1] \in Elems
      <3>1. i - 1 \in Slots
        BY <2>2, SVectorAssumption DEF Slots
      <3> QED
        BY <3>1, VectorFields DEF Storage
    <2> QED
      BY <2>1, <2>2
  <1>2. v.size + 1 \in 0 .. MAX_SIZE
    BY VectorFields, SVectorAssumption
  <1> QED
    BY <1>1, <1>2 DEF Inserted, Vectors

(* erase, of slots in order that the vector has.                            *)
LEMMA ErasedType ==
  ASSUME NEW v \in Vectors, NEW a \in Nat, NEW b \in Nat, a <= b, b <= v.size
  PROVE  Erased(v, a, b) \in Vectors
  <1> DEFINE s == [i \in Slots |-> IF a <= i /\ i < v.size - (b - a)
                                   THEN v.storage[i + (b - a)] ELSE v.storage[i]]
  <1>1. s \in Storage
    <2> SUFFICES ASSUME NEW i \in Slots
                 PROVE  s[i] \in Elems
      BY DEF Storage
    <2>1. v.storage[i] \in Elems
      BY VectorFields DEF Storage
    <2>2. ASSUME i < v.size - (b - a)
          PROVE  v.storage[i + (b - a)] \in Elems
      <3>1. i + (b - a) \in Slots
        BY <2>2, VectorFields, SVectorAssumption DEF Slots
      <3> QED
        BY <3>1, VectorFields DEF Storage
    <2> QED
      BY <2>1, <2>2
  <1>2. v.size - (b - a) \in 0 .. MAX_SIZE
    BY VectorFields, SVectorAssumption
  <1> QED
    BY <1>1, <1>2 DEF Erased, Vectors

(* A write through an index, and a change of the size.                      *)
LEMMA WrittenType ==
  ASSUME NEW v \in Vectors, NEW i \in Slots, NEW e \in Elems
  PROVE  Written(v, i, e) \in Vectors
  <1>1. [v.storage EXCEPT ![i] = e] \in Storage
    BY VectorFields DEF Storage
  <1> QED
    BY <1>1, VectorFields DEF Written, Vectors

(* The array is as it was.                                                  *)
LEMMA ResizedType ==
  ASSUME NEW v \in Vectors, NEW n \in 0 .. MAX_SIZE
  PROVE  Resized(v, n) \in Vectors
  BY VectorFields DEF Resized, Vectors

-----------------------------------------------------------------------------
(* What the calls do to the elements.                                       *)
LEMMA ListOfElems ==
  ASSUME NEW v \in Vectors
  PROVE  ListOf(v) \in [1 .. v.size -> Elems]
  <1> SUFFICES ASSUME NEW i \in 1 .. v.size
               PROVE  v.storage[i - 1] \in Elems
    BY DEF ListOf
  <1>1. i - 1 \in Slots
    BY VectorFields, SVectorAssumption DEF Slots
  <1> QED
    BY <1>1, VectorFields DEF Storage

(* insert is the insertion into the list, ...                               *)
LEMMA InsertedList ==
  ASSUME NEW v \in Vectors, NEW p \in Nat, NEW e \in Elems,
         v.size # MAX_SIZE, p <= v.size
  PROVE  ListOf(Inserted(v, p, e))
           = [i \in 1 .. v.size + 1 |-> IF i < p + 1 THEN ListOf(v)[i]
                                        ELSE IF i = p + 1 THEN e ELSE ListOf(v)[i - 1]]
  <1> DEFINE w == Inserted(v, p, e)
  <1>1. w.size = v.size + 1
    BY DEF Inserted
  <1>2. ASSUME NEW i \in 1 .. v.size + 1
        PROVE  w.storage[i - 1] = IF i < p + 1 THEN ListOf(v)[i]
                                  ELSE IF i = p + 1 THEN e ELSE ListOf(v)[i - 1]
    <2>1. i - 1 \in Slots /\ v.size \in Nat
      BY VectorFields, SVectorAssumption DEF Slots
    <2>2. w.storage[i - 1] = IF i - 1 < p \/ i - 1 > v.size THEN v.storage[i - 1]
                             ELSE IF i - 1 = p THEN e ELSE v.storage[(i - 1) - 1]
      BY <2>1 DEF Inserted
    <2>3. CASE i < p + 1
      BY <2>1, <2>2, <2>3 DEF ListOf
    <2>4. CASE i = p + 1
      BY <2>1, <2>2, <2>4
    <2>5. CASE i > p + 1
      <3>1. i - 1 \in 1 .. v.size
        BY <2>1, <2>5
      <3> QED
        BY <2>1, <2>2, <2>5, <3>1 DEF ListOf
    <2> QED
      BY <2>3, <2>4, <2>5
  <1>3. ListOf(w) = [i \in 1 .. w.size |-> w.storage[i - 1]]
    BY DEF ListOf
  <1> HIDE DEF w
  <1>4. ListOf(w) = [i \in 1 .. v.size + 1 |-> IF i < p + 1 THEN ListOf(v)[i]
                       ELSE IF i = p + 1 THEN e ELSE ListOf(v)[i - 1]]
    BY <1>1, <1>2, <1>3
  <1> QED
    BY <1>4 DEF w

(* ... erase the removal of the elements from it, ...                       *)
LEMMA ErasedList ==
  ASSUME NEW v \in Vectors, NEW a \in Nat, NEW b \in Nat, a <= b, b <= v.size
  PROVE  ListOf(Erased(v, a, b))
           = [i \in 1 .. v.size - (b - a) |-> IF i <= a THEN ListOf(v)[i]
                                              ELSE ListOf(v)[i + (b - a)]]
  <1> DEFINE w == Erased(v, a, b)
  <1>1. w.size = v.size - (b - a)
    BY DEF Erased
  <1>2. ASSUME NEW i \in 1 .. v.size - (b - a)
        PROVE  w.storage[i - 1] = IF i <= a THEN ListOf(v)[i] ELSE ListOf(v)[i + (b - a)]
    <2>1. i - 1 \in Slots /\ v.size \in Nat
      BY VectorFields, SVectorAssumption DEF Slots
    <2>2. w.storage[i - 1] = IF a <= i - 1 /\ i - 1 < v.size - (b - a)
                             THEN v.storage[(i - 1) + (b - a)] ELSE v.storage[i - 1]
      BY <2>1 DEF Erased
    <2>3. CASE i <= a
      BY <2>1, <2>2, <2>3 DEF ListOf
    <2>4. CASE i > a
      <3>1. i + (b - a) \in 1 .. v.size
        BY <2>1, <2>4
      <3>2. (i + (b - a)) - 1 = (i - 1) + (b - a)
        OBVIOUS
      <3> QED
        BY <2>1, <2>2, <2>4, <3>1, <3>2 DEF ListOf
    <2> QED
      BY <2>3, <2>4
  <1>3. ListOf(w) = [i \in 1 .. w.size |-> w.storage[i - 1]]
    BY DEF ListOf
  <1> HIDE DEF w
  <1>4. ListOf(w) = [i \in 1 .. v.size - (b - a) |-> IF i <= a THEN ListOf(v)[i]
                                                     ELSE ListOf(v)[i + (b - a)]]
    BY <1>1, <1>2, <1>3
  <1> QED
    BY <1>4 DEF w

(* ... and a resize keeps what the list has room for.                       *)
LEMMA ResizedList ==
  ASSUME NEW v \in Vectors, NEW n \in 0 .. MAX_SIZE
  PROVE  /\ ListOf(Resized(v, n)) \in [1 .. n -> Elems]
         /\ \A i \in 1 .. n : i <= v.size => ListOf(Resized(v, n))[i] = ListOf(v)[i]
  <1>1. Resized(v, n).size = n /\ Resized(v, n).storage = v.storage
    BY DEF Resized
  <1>2. ListOf(Resized(v, n)) \in [1 .. n -> Elems]
    BY <1>1, ListOfElems, ResizedType
  <1>3. ASSUME NEW i \in 1 .. n, i <= v.size
        PROVE  ListOf(Resized(v, n))[i] = ListOf(v)[i]
    <2>1. i \in 1 .. v.size
      BY <1>3, VectorFields
    <2> QED
      BY <1>1, <2>1 DEF ListOf
  <1> QED
    BY <1>2, <1>3

(* A write changes the element written and no other.                       *)
LEMMA WrittenList ==
  ASSUME NEW v \in Vectors, NEW p \in Nat, NEW e \in Elems, p < v.size
  PROVE  ListOf(Written(v, p, e)) = [ListOf(v) EXCEPT ![p + 1] = e]
  <1>1. Written(v, p, e).size = v.size /\ p \in Slots
    BY VectorFields, SVectorAssumption DEF Written, Slots
  <1>2. ASSUME NEW i \in 1 .. v.size
        PROVE  Written(v, p, e).storage[i - 1] = [ListOf(v) EXCEPT ![p + 1] = e][i]
    <2>1. i - 1 \in Slots
      BY VectorFields, SVectorAssumption DEF Slots
    <2>2. Written(v, p, e).storage[i - 1] = IF i - 1 = p THEN e ELSE v.storage[i - 1]
      BY <2>1, VectorFields DEF Written, Storage
    <2> QED
      BY <2>2 DEF ListOf
  <1> QED
    BY <1>1, <1>2 DEF ListOf

-----------------------------------------------------------------------------
(* The elements are a sequence, and so is what the calls make of them, ...  *)
LEMMA ListSeq ==
  ASSUME NEW v \in Vectors
  PROVE  /\ ListOf(v) \in Seq(Elems)
         /\ Len(ListOf(v)) = v.size
         /\ \A i \in 1 .. v.size : ListOf(v)[i] \in Elems /\ ListOf(v)[i] = v.storage[i - 1]
  <1> DEFINE n == v.size
             l == ListOf(v)
  <1>1. n \in Nat /\ l \in [1 .. n -> Elems]
    BY VectorFields, ListOfElems
  <1>2. \A i \in 1 .. n : l[i] = v.storage[i - 1]
    BY DEF ListOf
  <1> HIDE DEF n, l
  <1>3. l \in Seq(Elems) /\ Len(l) = n
    BY <1>1
  <1> QED
    BY <1>1, <1>2, <1>3 DEF n, l

(* ... also in the words of the sequences' InsertAt, ...                    *)
LEMMA InsertedAt ==
  ASSUME NEW v \in Vectors, NEW p \in Nat, NEW e \in Elems,
         v.size # MAX_SIZE, p <= v.size
  PROVE  ListOf(Inserted(v, p, e)) = InsertAt(ListOf(v), p + 1, e)
  <1> DEFINE l == ListOf(v)
             m == ListOf(Inserted(v, p, e))
             before == SubSeq(l, 1, p)
             behind == SubSeq(l, p + 1, v.size)
  <1>1. v.size \in Nat
    BY VectorFields
  <1>2. l \in Seq(Elems) /\ Len(l) = v.size /\ \A i \in 1 .. v.size : l[i] \in Elems
    BY ListSeq
  <1>3. m \in Seq(Elems) /\ Len(m) = v.size + 1
    BY InsertedType, ListSeq DEF Inserted
  <1>4. m = [i \in 1 .. v.size + 1 |-> IF i < p + 1 THEN l[i]
                                     ELSE IF i = p + 1 THEN e ELSE l[i - 1]]
    BY InsertedList
  <1>5. InsertAt(l, p + 1, e) = (before \o <<e>>) \o behind
    BY <1>1, <1>2 DEF InsertAt
  <1> HIDE DEF l, m
  <1>6. /\ before \in Seq(Elems) /\ Len(before) = p
        /\ \A i \in 1 .. p : before[i] = l[i]
    <2>1. \A i \in 1 .. p : l[i] \in Elems
      BY <1>1, <1>2
    <2>2. /\ before \in Seq(Elems) /\ Len(before) = IF 1 <= p THEN p - 1 + 1 ELSE 0
          /\ \A i \in 1 .. p - 1 + 1 : before[i] = l[1 + i - 1]
      BY <2>1, SubSeqProperties
    <2> QED
      BY <2>2
  <1>7. /\ behind \in Seq(Elems) /\ Len(behind) = v.size - p
        /\ \A i \in 1 .. v.size - p : behind[i] = l[p + i]
    <2>1. \A i \in p + 1 .. v.size : l[i] \in Elems
      BY <1>1, <1>2
    <2>2. p + 1 \in Int /\ v.size \in Int
      BY <1>1
    <2>3. /\ behind \in Seq(Elems)
          /\ Len(behind) = IF p + 1 <= v.size THEN v.size - (p + 1) + 1 ELSE 0
          /\ \A i \in 1 .. v.size - (p + 1) + 1 : behind[i] = l[p + 1 + i - 1]
      BY <2>1, <2>2, SubSeqProperties
    <2> QED
      BY <1>1, <2>3
  <1> HIDE DEF before, behind
  <1>8. /\ <<e>> \in Seq(Elems) /\ Len(<<e>>) = 1 /\ <<e>>[1] = e
    OBVIOUS
  <1>9. /\ before \o <<e>> \in Seq(Elems) /\ Len(before \o <<e>>) = p + 1
        /\ \A i \in 1 .. p + 1 : (before \o <<e>>)[i] = IF i <= p THEN l[i] ELSE e
    <2>1. /\ before \o <<e>> \in Seq(Elems) /\ Len(before \o <<e>>) = Len(before) + Len(<<e>>)
          /\ \A i \in 1 .. Len(before) + Len(<<e>>) :
               (before \o <<e>>)[i] = IF i <= Len(before) THEN before[i]
                                      ELSE <<e>>[i - Len(before)]
      BY <1>6, <1>8, ConcatProperties, Zenon
    <2> QED
      BY <1>6, <1>8, <2>1
  <1> DEFINE first == before \o <<e>>
             all == first \o behind
  <1> HIDE DEF first
  <1>10. first \in Seq(Elems) /\ Len(first) = p + 1
         /\ \A i \in 1 .. p + 1 : first[i] = IF i <= p THEN l[i] ELSE e
    BY <1>9 DEF first
  <1>11. /\ all \in Seq(Elems) /\ Len(all) = Len(first) + Len(behind)
         /\ \A i \in 1 .. Len(first) + Len(behind) :
              all[i] = IF i <= Len(first) THEN first[i] ELSE behind[i - Len(first)]
    BY <1>7, <1>10, ConcatProperties, Zenon
  <1> HIDE DEF all
  <1>12. Len(m) = Len(all) /\ \A i \in 1 .. Len(m) : m[i] = all[i]
    <2>1. Len(all) = v.size + 1
      <3>1. Len(all) = Len(first) + Len(behind)
        BY <1>11
      <3>2. Len(first) = p + 1 /\ Len(behind) = v.size - p
        BY <1>7, <1>10
      <3> QED
        BY <1>1, <3>1, <3>2
    <2>2. ASSUME NEW i \in 1 .. v.size + 1
          PROVE  m[i] = all[i]
      <3>1. CASE i <= p + 1
        <4>1. i \in 1 .. p + 1 /\ i <= Len(first) /\ i \in 1 .. Len(first) + Len(behind)
          BY <1>1, <1>7, <1>10, <3>1
        <4>2. all[i] = IF i <= p THEN l[i] ELSE e
          BY <1>10, <1>11, <4>1
        <4>3. m[i] = IF i < p + 1 THEN l[i] ELSE IF i = p + 1 THEN e ELSE l[i - 1]
          BY <1>4
        <4> QED
          BY <3>1, <4>1, <4>2, <4>3
      <3>2. CASE i > p + 1
        <4>1. i - (p + 1) \in 1 .. v.size - p
          BY <1>1, <3>2
        <4>2. all[i] = behind[i - (p + 1)]
          <5>1. i \in 1 .. Len(first) + Len(behind) /\ ~(i <= Len(first)) /\ Len(first) = p + 1
            BY <1>1, <1>7, <1>10, <3>2
          <5> QED
            BY <1>11, <5>1
        <4>3. p + (i - (p + 1)) = i - 1
          OBVIOUS
        <4>4. behind[i - (p + 1)] = l[i - 1]
          BY <1>7, <4>1, <4>3
        <4> QED
          BY <1>4, <3>2, <4>2, <4>4
      <3> QED
        BY <3>1, <3>2
    <2> QED
      BY <1>3, <2>1, <2>2
  <1>13. m = all
    BY <1>3, <1>11, <1>12, SeqEqual, Zenon
  <1> QED
    BY <1>5, <1>13 DEF l, m, all, first

(* ... and of their SubSeq.                                                 *)
LEMMA ErasedFrom ==
  ASSUME NEW v \in Vectors, NEW a \in Nat, NEW b \in Nat, a <= b, b <= v.size
  PROVE  ListOf(Erased(v, a, b))
           = SubSeq(ListOf(v), 1, a) \o SubSeq(ListOf(v), b + 1, v.size)
  <1> DEFINE l == ListOf(v)
             m == ListOf(Erased(v, a, b))
             before == SubSeq(l, 1, a)
             behind == SubSeq(l, b + 1, v.size)
             all == before \o behind
  <1>1. v.size \in Nat
    BY VectorFields
  <1>2. \A i \in 1 .. v.size : l[i] \in Elems
    BY ListSeq
  <1>3. m \in Seq(Elems) /\ Len(m) = v.size - (b - a)
    BY ErasedType, ListSeq DEF Erased
  <1>4. m = [i \in 1 .. v.size - (b - a) |-> IF i <= a THEN l[i] ELSE l[i + (b - a)]]
    BY ErasedList
  <1> HIDE DEF l, m
  <1>5. /\ before \in Seq(Elems) /\ Len(before) = a
        /\ \A i \in 1 .. a : before[i] = l[i]
    <2>1. \A i \in 1 .. a : l[i] \in Elems
      BY <1>1, <1>2
    <2>2. /\ before \in Seq(Elems) /\ Len(before) = IF 1 <= a THEN a - 1 + 1 ELSE 0
          /\ \A i \in 1 .. a - 1 + 1 : before[i] = l[1 + i - 1]
      BY <2>1, SubSeqProperties
    <2> QED
      BY <2>2
  <1>6. /\ behind \in Seq(Elems) /\ Len(behind) = v.size - b
        /\ \A i \in 1 .. v.size - b : behind[i] = l[b + i]
    <2>1. \A i \in b + 1 .. v.size : l[i] \in Elems
      BY <1>1, <1>2
    <2>2. b + 1 \in Int /\ v.size \in Int
      BY <1>1
    <2>3. /\ behind \in Seq(Elems)
          /\ Len(behind) = IF b + 1 <= v.size THEN v.size - (b + 1) + 1 ELSE 0
          /\ \A i \in 1 .. v.size - (b + 1) + 1 : behind[i] = l[b + 1 + i - 1]
      BY <2>1, <2>2, SubSeqProperties
    <2> QED
      BY <1>1, <2>3
  <1> HIDE DEF before, behind
  <1>7. /\ all \in Seq(Elems) /\ Len(all) = Len(before) + Len(behind)
        /\ \A i \in 1 .. Len(before) + Len(behind) :
             all[i] = IF i <= Len(before) THEN before[i] ELSE behind[i - Len(before)]
    BY <1>5, <1>6, ConcatProperties, Zenon
  <1> HIDE DEF all
  <1>8. Len(m) = Len(all) /\ \A i \in 1 .. Len(m) : m[i] = all[i]
    <2>1. Len(all) = v.size - (b - a)
      BY <1>1, <1>5, <1>6, <1>7
    <2>2. ASSUME NEW i \in 1 .. v.size - (b - a)
          PROVE  m[i] = all[i]
      <3>1. CASE i <= a
        <4>1. i \in 1 .. a /\ i <= Len(before) /\ i \in 1 .. Len(before) + Len(behind)
          BY <1>1, <1>5, <1>6, <3>1
        <4>2. all[i] = l[i]
          BY <1>5, <1>7, <4>1
        <4> QED
          BY <1>4, <3>1, <4>2
      <3>2. CASE i > a
        <4>1. i - a \in 1 .. v.size - b
          BY <1>1, <3>2
        <4>2. all[i] = behind[i - a]
          <5>1. i \in 1 .. Len(before) + Len(behind) /\ ~(i <= Len(before)) /\ Len(before) = a
            BY <1>1, <1>5, <1>6, <3>2
          <5> QED
            BY <1>7, <5>1
        <4>3. b + (i - a) = i + (b - a)
          OBVIOUS
        <4>4. behind[i - a] = l[i + (b - a)]
          BY <1>6, <4>1, <4>3
        <4> QED
          BY <1>4, <3>2, <4>2, <4>4
      <3> QED
        BY <3>1, <3>2
    <2> QED
      BY <1>3, <2>1, <2>2
  <1>9. m = all
    BY <1>3, <1>7, <1>8, SeqEqual, Zenon
  <1> QED
    BY <1>9 DEF l, m, all, before, behind

(* An insert of an element of the vector that lies no further back than the *)
(* place finds it where it was, or one further.                             *)
LEMMA ReadIsTheElement ==
  ASSUME NEW v \in Vectors, NEW p \in Nat, NEW j \in Nat, j <= p, j < v.size
  PROVE  ReadAfterMove(v, p, j) = ListOf(v)[j + 1] /\ ListOf(v)[j + 1] \in Elems
  <1>1. j + 1 \in 1 .. v.size /\ (j + 1) - 1 = j
    BY VectorFields
  <1> QED
    BY <1>1, ListSeq DEF ReadAfterMove

-----------------------------------------------------------------------------
(* Two vectors are equal when their lists are.                              *)
LEMMA EqualAsLists ==
  ASSUME NEW v \in Vectors, NEW w \in Vectors
  PROVE  Equal(v, w) <=> ListOf(v) = ListOf(w)
  <1>1. v.size \in Nat /\ w.size \in Nat
    BY VectorFields
  <1>2. /\ ListOf(v) \in Seq(Elems) /\ Len(ListOf(v)) = v.size
        /\ \A i \in 1 .. v.size : ListOf(v)[i] = v.storage[i - 1]
    BY ListSeq
  <1>3. /\ ListOf(w) \in Seq(Elems) /\ Len(ListOf(w)) = w.size
        /\ \A i \in 1 .. w.size : ListOf(w)[i] = w.storage[i - 1]
    BY ListSeq
  <1>4. ASSUME Equal(v, w)
        PROVE  ListOf(v) = ListOf(w)
    <2>1. v.size = w.size /\ \A i \in 0 .. v.size - 1 : v.storage[i] = w.storage[i]
      BY <1>4 DEF Equal
    <2>2. ASSUME NEW i \in 1 .. v.size
          PROVE  ListOf(v)[i] = ListOf(w)[i]
      <3>1. i - 1 \in 0 .. v.size - 1
        BY <1>1
      <3> QED
        BY <1>2, <1>3, <2>1, <3>1
    <2> QED
      BY <1>2, <1>3, <2>1, <2>2, SeqEqual
  <1>5. ASSUME ListOf(v) = ListOf(w)
        PROVE  Equal(v, w)
    <2>1. v.size = w.size
      BY <1>2, <1>3, <1>5
    <2>2. ASSUME NEW i \in 0 .. v.size - 1
          PROVE  v.storage[i] = w.storage[i]
      <3>1. i + 1 \in 1 .. v.size /\ (i + 1) - 1 = i
        BY <1>1
      <3> QED
        BY <1>2, <1>3, <1>5, <2>1, <3>1
    <2> QED
      BY <2>1, <2>2 DEF Equal
  <1> QED
    BY <1>4, <1>5

(* Two vectors of one size that are not equal first differ somewhere.       *)
LEMMA FirstDifference ==
  ASSUME NEW v \in Vectors, NEW w \in Vectors, v.size = w.size, ~Equal(v, w)
  PROVE  \E i \in 0 .. v.size - 1 :
           /\ v.storage[i] # w.storage[i]
           /\ \A j \in 0 .. i - 1 : v.storage[j] = w.storage[j]
  <1> DEFINE D == {i \in 0 .. v.size - 1 : v.storage[i] # w.storage[i]}
  <1>1. v.size \in Nat
    BY VectorFields
  <1>2. D \subseteq Nat /\ D # {}
    BY <1>1 DEF Equal
  <1> HIDE DEF D
  <1>3. PICK i \in D : \A j \in D : ~(<<j, i>> \in OpToRel(<, Nat))
    BY <1>2, NatLessThanWellFounded, WFMin
  <1>4. i \in 0 .. v.size - 1 /\ v.storage[i] # w.storage[i]
    BY <1>3 DEF D
  <1>5. ASSUME NEW j \in 0 .. i - 1
        PROVE  v.storage[j] = w.storage[j]
    <2>1. j \in Nat /\ i \in Nat /\ j < i /\ j \in 0 .. v.size - 1
      BY <1>1, <1>4
    <2>2. j \notin D
      BY <1>3, <2>1 DEF OpToRel
    <2> QED
      BY <2>1, <2>2 DEF D
  <1> QED
    BY <1>4, <1>5

(* What lies before size_ is an element.                                    *)
LEMMA ElementsHeld ==
  ASSUME NEW v \in Vectors
  PROVE  \A i \in 0 .. v.size - 1 : v.storage[i] \in Elems
  <1> SUFFICES ASSUME NEW i \in 0 .. v.size - 1
               PROVE  v.storage[i] \in Elems
    OBVIOUS
  <1>1. i \in Slots
    BY VectorFields, SVectorAssumption DEF Slots
  <1> QED
    BY <1>1, VectorFields DEF Storage

(* The comparison of elements is total, so of two vectors that are not      *)
(* equal one is less.                                                       *)
LEMMA EqualOrLess ==
  ASSUME Elems \subseteq Int, NEW v \in Vectors, NEW w \in Vectors
  PROVE  Equal(v, w) <=> ~Less(v, w) /\ ~Less(w, v)
  <1>1. v.size \in Nat /\ w.size \in Nat
    BY VectorFields
  <1>2. \A i \in 0 .. v.size - 1 : v.storage[i] \in Int
    BY ElementsHeld
  <1>3. \A i \in 0 .. w.size - 1 : w.storage[i] \in Int
    BY ElementsHeld
  <1>4. ASSUME Equal(v, w)
        PROVE  ~Less(v, w) /\ ~Less(w, v)
    <2>1. v.size = w.size /\ \A i \in 0 .. v.size - 1 : v.storage[i] = w.storage[i]
      BY <1>4 DEF Equal
    <2> QED
      BY <1>1, <1>2, <1>3, <2>1 DEF Less
  <1>5. ASSUME ~Equal(v, w)
        PROVE  Less(v, w) \/ Less(w, v)
    <2>1. CASE v.size # w.size
      BY <1>1, <2>1 DEF Less
    <2>2. CASE v.size = w.size
      <3>1. PICK i \in 0 .. v.size - 1 :
              /\ v.storage[i] # w.storage[i]
              /\ \A j \in 0 .. i - 1 : v.storage[j] = w.storage[j]
        BY <1>5, <2>2, FirstDifference
      <3>2. v.storage[i] < w.storage[i] \/ w.storage[i] < v.storage[i]
        BY <1>2, <1>3, <2>2, <3>1
      <3>3. ASSUME v.storage[i] < w.storage[i]
            PROVE  Less(v, w)
        BY <2>2, <3>1, <3>3 DEF Less
      <3>4. ASSUME w.storage[i] < v.storage[i]
            PROVE  Less(w, v)
        BY <2>2, <3>1, <3>4 DEF Less
      <3> QED
        BY <3>2, <3>3, <3>4
    <2> QED
      BY <2>1, <2>2
  <1> QED
    BY <1>4, <1>5

-----------------------------------------------------------------------------
(* push_back is an insertion behind the last element.                       *)
LEMMA PushedIsInserted ==
  ASSUME NEW v \in Vectors, NEW e \in Elems, v.size # MAX_SIZE
  PROVE  Resized(Written(v, v.size, e), v.size + 1) = Inserted(v, v.size, e)
  <1>1. v.size \in Slots
    BY VectorFields, SVectorAssumption DEF Slots
  <1>2. [v.storage EXCEPT ![v.size] = e]
          = [i \in Slots |-> IF i < v.size \/ i > v.size THEN v.storage[i]
                             ELSE IF i = v.size THEN e ELSE v.storage[i - 1]]
    <2>1. v.storage = [i \in Slots |-> v.storage[i]]
      BY VectorFields DEF Storage
    <2>2. v.size \in Int /\ \A i \in Slots : i \in Int
      BY VectorFields, SVectorAssumption DEF Slots
    <2>3. \A i \in Slots : i = v.size <=> ~(i < v.size \/ i > v.size)
      BY <2>2
    <2> HIDE DEF Slots
    <2> QED
      BY <1>1, <2>1, <2>3
  <1> QED
    BY <1>2 DEF Resized, Written, Inserted

(* Every step of the vector keeps it one and is a step of the list.         *)
LEMMA StepImplements ==
  ASSUME TypeOK, NextVector
  PROVE  TypeOK' /\ AsList!Next
  <1>1. vec \in Vectors /\ vec.size \in 0 .. MAX_SIZE /\ vec.size \in Nat
    BY VectorFields DEF TypeOK
  <1>2. ASSUME NEW p \in Nat, NEW e \in Elems, vec.size # MAX_SIZE, p <= vec.size,
               vec' = Inserted(vec, p, e)
        PROVE  TypeOK' /\ AsList!Next
    <2>1. vec' \in Vectors
      BY <1>1, <1>2, InsertedType
    <2>2. ListOf(vec') = [i \in 1 .. vec.size + 1 |-> IF i < p + 1 THEN ListOf(vec)[i]
                                    ELSE IF i = p + 1 THEN e ELSE ListOf(vec)[i - 1]]
      BY <1>1, <1>2, InsertedList
    <2>3. vec'.size = vec.size + 1 /\ vec.size < MAX_SIZE
      BY <1>1, <1>2, SVectorAssumption DEF Inserted
    <2>4. AsList!Insert(p + 1, e)
      BY <2>2, <2>3 DEF AsList!Insert, ListOf
    <2> QED
      BY <1>1, <1>2, <2>1, <2>4 DEF TypeOK, AsList!Next
  <1>3. ASSUME NEW n \in 0 .. MAX_SIZE, vec' = Resized(vec, n)
        PROVE  TypeOK' /\ AsList!Next
    <2>1. vec' \in Vectors /\ vec'.size = n
      BY <1>1, <1>3, ResizedType DEF Resized
    <2>2. AsList!Resize(n)
      BY <1>1, <1>3, <2>1, ResizedList DEF AsList!Resize, AsList!ListsOf
    <2> QED
      BY <2>1, <2>2 DEF TypeOK, AsList!Next
  <1>4. ASSUME NEW e \in Elems, PushBack(e)
        PROVE  TypeOK' /\ AsList!Next
    <2>1. vec' = Inserted(vec, vec.size, e) /\ vec.size # MAX_SIZE
      BY <1>1, <1>4, PushedIsInserted DEF PushBack
    <2> QED
      BY <1>1, <1>2, <2>1
  <1>5. ASSUME NEW e \in Elems, NEW i \in Slots, Insert(i, e)
        PROVE  TypeOK' /\ AsList!Next
    BY <1>2, <1>5, SVectorAssumption DEF Insert, Slots
  <1>6. ASSUME NEW e \in Elems, NEW i \in Slots, At(i, e)
        PROVE  TypeOK' /\ AsList!Next
    <2>1. vec' \in Vectors /\ vec'.size = vec.size /\ i \in Nat /\ i < vec.size
      BY <1>1, <1>6, WrittenType, SVectorAssumption DEF At, Written, Slots
    <2>2. ListOf(vec') = [ListOf(vec) EXCEPT ![i + 1] = e]
      BY <1>1, <1>6, <2>1, WrittenList DEF At
    <2>3. AsList!Write(i + 1, e)
      BY <2>1, <2>2 DEF AsList!Write
    <2> QED
      BY <1>1, <2>1, <2>3 DEF TypeOK, AsList!Next
  <1>7. ASSUME NEW a \in 0 .. MAX_SIZE, NEW b \in 0 .. MAX_SIZE, Erase(a, b)
        PROVE  TypeOK' /\ AsList!Next
    <2>1. a \in Nat /\ b \in Nat /\ a <= b /\ b <= vec.size /\ vec' = Erased(vec, a, b)
      BY <1>7, SVectorAssumption DEF Erase
    <2>2. vec' \in Vectors /\ vec'.size = vec.size - (b - a)
      BY <1>1, <2>1, ErasedType DEF Erased
    <2>3. AsList!Remove(a, b)
      BY <1>1, <2>1, <2>2, ErasedList DEF AsList!Remove
    <2>4. a \in 0 .. vec.size /\ b \in 0 .. vec.size
      BY <1>1, <2>1
    <2> QED
      BY <2>1, <2>2, <2>3, <2>4 DEF TypeOK, AsList!Next
  <1>8. ASSUME Clear
        PROVE  TypeOK' /\ AsList!Next
    BY <1>3, <1>8, SVectorAssumption DEF Clear
  <1>9. ASSUME NEW n \in 0 .. MAX_SIZE, Resize(n)
        PROVE  TypeOK' /\ AsList!Next
    BY <1>3, <1>9 DEF Resize
  <1> QED
    BY <1>4, <1>5, <1>6, <1>7, <1>8, <1>9 DEF NextVector

(* What the constructors make is a vector, and some list.                   *)
LEMMA InitImplements ==
  ASSUME Init
  PROVE  TypeOK /\ AsList!Init
  <1>1. vec \in Vectors
    BY ListedType, NewVectorType DEF Init
  <1> QED
    BY <1>1, VectorFields, ListOfElems DEF TypeOK, AsList!Init, AsList!ListsOf

-----------------------------------------------------------------------------
(* The vector is always one: size_ is within the array, which is full of    *)
(* values.                                                                  *)
THEOREM TypeCorrect == SVectorSpec => []TypeOK
  <1>1. Init => TypeOK
    BY InitImplements
  <1>2. TypeOK /\ [NextVector]_vec => TypeOK'
    BY StepImplements DEF TypeOK
  <1> QED
    BY <1>1, <1>2, PTL DEF SVectorSpec

(* The vector is a bounded list of its elements: the calls of SVector, with *)
(* whatever the array holds behind size_, implement BoundedList.            *)
THEOREM VectorIsList == SVectorSpec => ImplementsList
  <1>1. Init => TypeOK /\ AsList!Init
    BY InitImplements
  <1>2. TypeOK /\ [NextVector]_vec => TypeOK' /\ [AsList!Next]_AsList!vars
    <2> SUFFICES ASSUME TypeOK, [NextVector]_vec
                 PROVE  TypeOK' /\ [AsList!Next]_AsList!vars
      OBVIOUS
    <2>1. CASE NextVector
      BY <2>1, StepImplements
    <2>2. CASE UNCHANGED vec
      BY <2>2 DEF TypeOK, AsList!vars, ListOf
    <2> QED
      BY <2>1, <2>2
  <1> QED
    BY <1>1, <1>2, PTL DEF SVectorSpec, ImplementsList, AsList!Spec

(* What the calls do to any vector is what lists do.                        *)
LEMMA ListedCalls ==
  ASSUME Elems \subseteq Int, TypeOK
  PROVE  CallsAsListed
  <1> DEFINE l == ListOf(vec)
  <1>1. vec \in Vectors /\ vec.size \in 0 .. MAX_SIZE /\ vec.size \in Nat
    BY VectorFields DEF TypeOK
  <1>2. ASSUME vec.size < MAX_SIZE, NEW p \in 0 .. vec.size, NEW e \in Elems
        PROVE  ListOf(Inserted(vec, p, e)) = InsertAt(l, p + 1, e)
    <2>1. p \in Nat /\ p <= vec.size /\ vec.size # MAX_SIZE
      BY <1>1, <1>2, SVectorAssumption
    <2> QED
      BY <1>1, <2>1, InsertedAt
  <1>3. ASSUME vec.size < MAX_SIZE, NEW p \in 0 .. vec.size, NEW j \in 0 .. p, j < vec.size
        PROVE  ListOf(Inserted(vec, p, ReadAfterMove(vec, p, j))) = InsertAt(l, p + 1, l[j + 1])
    <2>1. p \in Nat /\ j \in Nat /\ j <= p
      BY <1>1
    <2>2. ReadAfterMove(vec, p, j) = l[j + 1] /\ l[j + 1] \in Elems
      BY <1>1, <1>3, <2>1, ReadIsTheElement
    <2> QED
      BY <1>2, <1>3, <2>2
  <1>4. ASSUME NEW a \in 0 .. vec.size, NEW b \in 0 .. vec.size, a <= b
        PROVE  ListOf(Erased(vec, a, b)) = SubSeq(l, 1, a) \o SubSeq(l, b + 1, vec.size)
    <2>1. a \in Nat /\ b \in Nat /\ b <= vec.size
      BY <1>1
    <2> QED
      BY <1>1, <1>4, <2>1, ErasedFrom
  <1>5. ASSUME NEW w \in AllLists
        PROVE  /\ Equal(vec, w) <=> l = ListOf(w)
               /\ Equal(vec, w) <=> ~Less(vec, w) /\ ~Less(w, vec)
               /\ Less(vec, w) => vec.size <= w.size
    <2>1. NewVector.storage \in Storage
      BY NewVectorType, VectorFields
    <2>2. w \in Vectors /\ w.size \in Nat
      BY <1>5, <2>1, ListedType, VectorFields DEF AllLists
    <2>3. Equal(vec, w) <=> l = ListOf(w)
      BY <1>1, <2>2, EqualAsLists
    <2>4. Equal(vec, w) <=> ~Less(vec, w) /\ ~Less(w, vec)
      BY <1>1, <2>2, EqualOrLess
    <2>5. Less(vec, w) => vec.size <= w.size
      BY <1>1, <2>2 DEF Less
    <2> QED
      BY <2>3, <2>4, <2>5
  <1> HIDE DEF l
  <1>6. \A p \in 0 .. vec.size : vec.size < MAX_SIZE =>
          /\ \A e \in Elems : ListOf(Inserted(vec, p, e)) = InsertAt(l, p + 1, e)
          /\ \A j \in 0 .. p : j < vec.size =>
               ListOf(Inserted(vec, p, ReadAfterMove(vec, p, j))) = InsertAt(l, p + 1, l[j + 1])
    BY <1>2, <1>3, Zenon
  <1>7. \A a, b \in 0 .. vec.size : a <= b =>
          ListOf(Erased(vec, a, b)) = SubSeq(l, 1, a) \o SubSeq(l, b + 1, vec.size)
    BY <1>4, Zenon
  <1> QED
    BY <1>5, <1>6, <1>7, Zenon DEF CallsAsListed, l

(* Whatever was called before, each call does to the vector what the like   *)
(* operation does to a list, and the comparisons compare the lists: what    *)
(* the array holds behind size_ never counts.  An insert of an element of   *)
(* the vector itself is covered if it lies no further back than the place   *)
(* it goes to, and not otherwise.  The elements are numbers so that <       *)
(* orders them.                                                             *)
THEOREM CallsAreListed ==
  ASSUME Elems \subseteq Int
  PROVE  SVectorSpec => []CallsAsListed
  <1>1. TypeOK => CallsAsListed
    BY ListedCalls
  <1> QED
    BY <1>1, TypeCorrect, PTL

-----------------------------------------------------------------------------
(* A function is determined step by step.                                   *)
StepsWithin(S, n) == [1 .. n -> [S -> S]]

Stepwise(f, S, n, base, step) ==
  /\ f \in [0 .. n -> S]
  /\ f[0] = base /\ \A i \in 1 .. n : f[i] = step[i][f[i - 1]]

LEMMA StepByStep ==
  ASSUME NEW S, NEW n \in Nat, NEW base \in S, NEW step \in StepsWithin(S, n)
  PROVE  \E f : Stepwise(f, S, n, base, step)
  <1> DEFINE Stepped(m, f) == f[0] = base /\ \A i \in 1 .. m : f[i] = step[i][f[i - 1]]
             Reached == {m \in 0 .. n : \E f \in [0 .. m -> S] : Stepped(m, f)}
  <1> step \in [1 .. n -> [S -> S]]
    BY DEF StepsWithin
  <1>1. \E f \in [0 .. 0 -> S] : Stepped(0, f)
    <2> DEFINE f == [i \in 0 .. 0 |-> base]
    <2>1. f \in [0 .. 0 -> S] /\ f[0] = base
      OBVIOUS
    <2> HIDE DEF f
    <2> QED
      BY <2>1
  <1>2. ASSUME NEW m \in 0 .. n - 1, \E f \in [0 .. m -> S] : Stepped(m, f)
        PROVE  \E f \in [0 .. m + 1 -> S] : Stepped(m + 1, f)
    <2>1. PICK f \in [0 .. m -> S] : Stepped(m, f)
      BY <1>2
    <2> DEFINE last == step[m + 1][f[m]]
               g == [i \in 0 .. m + 1 |-> IF i <= m THEN f[i] ELSE last]
    <2>2. f[m] \in S /\ m + 1 \in 1 .. n
      BY <2>1
    <2>3. last \in S
      BY <2>2
    <2>4. g[m + 1] = last /\ \A i \in 0 .. m : g[i] = f[i]
      BY <2>2
    <2>5. g \in [0 .. m + 1 -> S]
      BY <2>1, <2>3
    <2> HIDE DEF g
    <2>6. g[0] = base
      BY <2>1, <2>4
    <2>7. ASSUME NEW i \in 1 .. m + 1
          PROVE  g[i] = step[i][g[i - 1]]
      <3>1. CASE i = m + 1
        BY <2>4, <3>1
      <3>2. CASE i # m + 1
        <4>1. i \in 1 .. m /\ i \in 0 .. m /\ i - 1 \in 0 .. m
          BY <3>2
        <4> QED
          BY <2>1, <2>4, <4>1
      <3> QED
        BY <3>1, <3>2
    <2> QED
      BY <2>5, <2>6, <2>7
  <1>3. \A m \in 0 .. n : m \in Reached <=> \E f \in [0 .. m -> S] : Stepped(m, f)
    OBVIOUS
  <1> HIDE DEF Reached, Stepped
  <1>4. 0 \in Reached /\ \A m \in 0 .. n - 1 : m \in Reached => m + 1 \in Reached
    <2>1. 0 \in 0 .. n
      OBVIOUS
    <2>2. ASSUME NEW m \in 0 .. n - 1, m \in Reached
          PROVE  m + 1 \in Reached
      <3>1. m \in 0 .. n /\ m + 1 \in 0 .. n
        OBVIOUS
      <3>2. \E f \in [0 .. m -> S] : Stepped(m, f)
        BY <1>3, <2>2, <3>1, Zenon
      <3>3. \E f \in [0 .. m + 1 -> S] : Stepped(m + 1, f)
        BY <1>2, <3>2, Zenon
      <3> QED
        BY <1>3, <3>1, <3>3, Zenon
    <2> QED
      BY <1>1, <1>3, <2>1, <2>2, Zenon
  <1>5. n \in Reached
    <2>1. 0 .. n \subseteq Reached
      BY <1>4, CountedUp, Zenon
    <2> QED
      BY <2>1
  <1> QED
    BY <1>3, <1>5 DEF Stepped, Stepwise

(* The factors of a product of dimensions are integers.                     *)
LEMMA Dimensions ==
  ASSUME NEW v \in Vectors
  PROVE  v.size \in Nat /\ \A i \in 1 .. v.size : v.storage[i - 1] \in Int
  <1>1. ASSUME NEW i \in 1 .. v.size
        PROVE  v.storage[i - 1] \in Int
    <2>1. i - 1 \in Slots
      BY VectorFields, SVectorAssumption DEF Slots
    <2> QED
      BY <2>1, VectorFields, TensorDescAssumption DEF Storage
  <1> QED
    BY <1>1, VectorFields

(* The product, factor by factor.                                           *)
LEMMA ProductSteps ==
  ASSUME NEW v \in Vectors
  PROVE  \E product \in [0 .. v.size -> Int] :
           /\ product[0] = 1
           /\ \A i \in 1 .. v.size : product[i] = product[i - 1] * v.storage[i - 1]
           /\ ProductOf(v) = product[v.size]
  <1> DEFINE n == v.size
             d == [i \in 1 .. n |-> v.storage[i - 1]]
             step == [i \in 1 .. n |-> [x \in Int |-> x * d[i]]]
             Fixed(g) == g = [i \in 0 .. n |-> IF i = 0 THEN 1 ELSE g[i - 1] * v.storage[i - 1]]
             product == CHOOSE g : Fixed(g)
  <1>1. n \in Nat /\ d \in [1 .. n -> Int] /\ \A i \in 1 .. n : d[i] = v.storage[i - 1]
    BY Dimensions
  <1> HIDE DEF n, d
  <1>2. step \in [1 .. n -> [Int -> Int]] /\ \A i \in 1 .. n, x \in Int : step[i][x] = x * d[i]
    BY <1>1
  <1> HIDE DEF step
  <1>3. PICK f \in [0 .. n -> Int] : f[0] = 1 /\ \A i \in 1 .. n : f[i] = step[i][f[i - 1]]
    <2>1. 1 \in Int /\ step \in StepsWithin(Int, n)
      BY <1>1, <1>2 DEF StepsWithin
    <2>2. PICK f : Stepwise(f, Int, n, 1, step)
      BY <1>1, <2>1, StepByStep, Zenon
    <2> QED
      BY <2>2 DEF Stepwise
  <1>4. \A i \in 1 .. n : f[i] = f[i - 1] * v.storage[i - 1]
    <2> SUFFICES ASSUME NEW i \in 1 .. n
                 PROVE  f[i] = f[i - 1] * v.storage[i - 1]
      OBVIOUS
    <2>1. i - 1 \in 0 .. n
      BY <1>1
    <2>2. f[i - 1] \in Int
      BY <2>1
    <2>3. f[i] = step[i][f[i - 1]]
      BY <1>3, Zenon
    <2>4. step[i][f[i - 1]] = f[i - 1] * d[i]
      BY <1>2, <2>2, Zenon
    <2>5. d[i] = v.storage[i - 1]
      BY <1>1, Zenon
    <2> QED
      BY <2>3, <2>4, <2>5, Zenon
  <1>5. Fixed(f)
    <2>1. \A i \in 0 .. n : i # 0 => i \in 1 .. n
      BY <1>1
    <2> QED
      BY <1>3, <1>4, <2>1
  <1>6. Fixed(product)
    BY <1>5
  <1>7. ProductOf(v) = product[n]
    BY DEF ProductOf, n
  <1> HIDE DEF product
  <1>8. /\ product[0] = 1
        /\ \A i \in 1 .. n : product[i] = product[i - 1] * v.storage[i - 1]
    BY <1>1, <1>6
  <1> DEFINE Typed == {i \in 0 .. n : product[i] \in Int}
  <1>9. 0 .. n \subseteq Typed
    <2>1. 0 \in Typed
      BY <1>1, <1>8
    <2>2. ASSUME NEW i \in 0 .. n - 1, i \in Typed
          PROVE  i + 1 \in Typed
      <3>1. i + 1 \in 1 .. n /\ i + 1 \in 0 .. n /\ (i + 1) - 1 = i
        BY <1>1
      <3>2. product[i + 1] = product[i] * v.storage[(i + 1) - 1] /\ product[i] \in Int
        BY <1>8, <2>2, <3>1
      <3>3. v.storage[(i + 1) - 1] \in Int
        BY <1>1, <3>1
      <3> QED
        BY <3>1, <3>2, <3>3
    <2> HIDE DEF Typed
    <2> QED
      BY <1>1, <2>1, <2>2, CountedUp
  <1>10. product \in [0 .. n -> Int]
    BY <1>6, <1>9
  <1> HIDE DEF Fixed
  <1> QED
    BY <1>7, <1>8, <1>10 DEF n

(* What CalNumel makes of the count so far and the next dimension.          *)
NextCount(before, d) ==
  IF before = 0 \/ d <= 0 \/ d > INT32_MAX \/ INT64_MAX \div before < d THEN 0 ELSE before * d

(* A division that leaves room for the factor keeps the product in bounds.  *)
LEMMA DividedFits ==
  ASSUME NEW m \in Nat, NEW a \in Nat \ {0}, NEW b \in Nat, b <= m \div a
  PROVE  a * b <= m
  <1>1. m \div a \in Nat /\ a * (m \div a) <= m
    OBVIOUS
  <1>2. a * b <= a * (m \div a)
    BY <1>1
  <1> QED
    BY <1>1, <1>2

LEMMA CountStays ==
  ASSUME NEW before \in 0 .. INT64_MAX, NEW d \in Int
  PROVE  /\ NextCount(before, d) \in 0 .. INT64_MAX
         /\ NextCount(before, d) # 0 =>
              before # 0 /\ d > 0 /\ NextCount(before, d) = before * d
  <1>1. INT64_MAX \in Nat
    BY TensorDescAssumption
  <1>2. CASE before = 0 \/ d <= 0 \/ d > INT32_MAX \/ INT64_MAX \div before < d
    BY <1>1, <1>2 DEF NextCount
  <1>3. CASE ~(before = 0 \/ d <= 0 \/ d > INT32_MAX \/ INT64_MAX \div before < d)
    <2>1. NextCount(before, d) = before * d
      BY <1>3 DEF NextCount
    <2>2. before \in Nat \ {0} /\ d \in Nat \ {0} /\ INT64_MAX \div before \in Int
      BY <1>1, <1>3
    <2>3. d <= INT64_MAX \div before
      BY <1>3, <2>2
    <2>4. before * d <= INT64_MAX
      BY <1>1, <2>2, <2>3, DividedFits
    <2>5. before * d \in Nat
      BY <2>2
    <2> QED
      BY <1>1, <2>1, <2>2, <2>4, <2>5
  <1> QED
    BY <1>2, <1>3

(* The count, dimension by dimension.                                       *)
LEMMA CountSteps ==
  ASSUME NEW v \in Vectors
  PROVE  \E count \in [0 .. v.size -> 0 .. INT64_MAX] :
           /\ count[0] = 1
           /\ \A i \in 1 .. v.size : count[i] = NextCount(count[i - 1], v.storage[i - 1])
           /\ CalNumel(v) = count[v.size]
  <1> DEFINE n == v.size
             d == [i \in 1 .. n |-> v.storage[i - 1]]
             C == 0 .. INT64_MAX
             step == [i \in 1 .. n |-> [x \in C |-> NextCount(x, d[i])]]
             Fixed(g) == g = [i \in 0 .. n |->
               IF i = 0 THEN 1 ELSE
                 LET before == g[i - 1]
                     dim == v.storage[i - 1]
                 IN  IF before = 0 \/ dim <= 0 \/ dim > INT32_MAX \/ INT64_MAX \div before < dim
                     THEN 0 ELSE before * dim]
             count == CHOOSE g : Fixed(g)
  <1>1. n \in Nat /\ \A i \in 1 .. n : d[i] \in Int /\ d[i] = v.storage[i - 1]
    BY Dimensions
  <1>2. CalNumel(v) = count[n]
    BY DEF CalNumel
  <1> HIDE DEF n, d
  <1>3. 1 \in C
    BY TensorDescAssumption
  <1>4. \A i \in 1 .. n, x \in C : step[i][x] = NextCount(x, d[i]) /\ NextCount(x, d[i]) \in C
    BY <1>1, CountStays
  <1>5. step \in StepsWithin(C, n)
    BY <1>1, <1>4 DEF StepsWithin
  <1> HIDE DEF C, step
  <1>6. PICK f : Stepwise(f, C, n, 1, step)
    BY <1>1, <1>3, <1>5, StepByStep, Zenon
  <1>7. \A i \in 1 .. n : f[i] = NextCount(f[i - 1], v.storage[i - 1])
    <2> SUFFICES ASSUME NEW i \in 1 .. n
                 PROVE  f[i] = NextCount(f[i - 1], v.storage[i - 1])
      OBVIOUS
    <2>1. i - 1 \in 0 .. n
      BY <1>1
    <2>2. f[i - 1] \in C /\ f[i] = step[i][f[i - 1]]
      BY <1>6, <2>1 DEF Stepwise
    <2> QED
      BY <1>1, <1>4, <2>2
  <1>8. Fixed(f)
    <2>1. \A i \in 0 .. n : i # 0 => i \in 1 .. n
      BY <1>1
    <2>2. f \in [0 .. n -> C] /\ f[0] = 1
      BY <1>6 DEF Stepwise
    <2> QED
      BY <1>7, <2>1, <2>2 DEF NextCount
  <1>9. Fixed(count)
    BY <1>8
  <1> HIDE DEF count
  <1>10. /\ count[0] = 1
         /\ \A i \in 1 .. n : count[i] = NextCount(count[i - 1], v.storage[i - 1])
    BY <1>1, <1>9 DEF NextCount
  <1> DEFINE Typed == {i \in 0 .. n : count[i] \in C}
  <1>11. 0 .. n \subseteq Typed
    <2>1. 0 \in Typed
      BY <1>1, <1>3, <1>10
    <2>2. ASSUME NEW i \in 0 .. n - 1, i \in Typed
          PROVE  i + 1 \in Typed
      <3>1. i + 1 \in 1 .. n /\ i + 1 \in 0 .. n /\ (i + 1) - 1 = i
        BY <1>1
      <3>2. count[i + 1] = NextCount(count[i], v.storage[(i + 1) - 1]) /\ count[i] \in C
        BY <1>10, <2>2, <3>1
      <3>3. v.storage[(i + 1) - 1] = d[i + 1]
        BY <1>1, <3>1
      <3> QED
        BY <1>4, <3>1, <3>2, <3>3
    <2> HIDE DEF Typed
    <2> QED
      BY <1>1, <2>1, <2>2, CountedUp
  <1>12. count \in [0 .. n -> C]
    BY <1>9, <1>11
  <1> HIDE DEF Fixed
  <1> QED
    BY <1>2, <1>10, <1>12 DEF n, C

(* A count that is not 0 is the product, of dimensions that are positive.   *)
LEMMA CountIsProduct ==
  ASSUME NEW v \in Vectors
  PROVE  /\ CalNumel(v) \in 0 .. INT64_MAX
         /\ CalNumel(v) # 0 =>
              ProductOf(v) = CalNumel(v) /\ \A i \in 1 .. v.size : v.storage[i - 1] > 0
  <1> DEFINE n == v.size
  <1>1. n \in Nat /\ \A i \in 1 .. n : v.storage[i - 1] \in Int
    BY Dimensions
  <1>2. PICK product \in [0 .. n -> Int] :
          /\ product[0] = 1
          /\ \A i \in 1 .. n : product[i] = product[i - 1] * v.storage[i - 1]
          /\ ProductOf(v) = product[n]
    BY ProductSteps
  <1>3. PICK count \in [0 .. n -> 0 .. INT64_MAX] :
          /\ count[0] = 1
          /\ \A i \in 1 .. n : count[i] = NextCount(count[i - 1], v.storage[i - 1])
          /\ CalNumel(v) = count[n]
    BY CountSteps
  <1> DEFINE Agrees(i) ==
               count[i] # 0 => product[i] = count[i] /\ \A j \in 1 .. i : v.storage[j - 1] > 0
             Agreed == {i \in 0 .. n : Agrees(i)}
  <1> HIDE DEF n
  <1>4. \A i \in 0 .. n - 1 :
          i + 1 \in 1 .. n /\ i + 1 \in 0 .. n /\ (i + 1) - 1 = i /\ i \in 0 .. n
    BY <1>1
  <1>5. 0 .. n \subseteq Agreed
    <2>1. 0 \in Agreed
      BY <1>1, <1>2, <1>3
    <2>2. ASSUME NEW i \in 0 .. n - 1, i \in Agreed
          PROVE  i + 1 \in Agreed
      <3> DEFINE d == v.storage[(i + 1) - 1]
      <3>1. i + 1 \in 1 .. n /\ i + 1 \in 0 .. n /\ (i + 1) - 1 = i /\ i \in 0 .. n
        BY <1>4
      <3>2. d \in Int /\ count[i] \in 0 .. INT64_MAX
        BY <1>1, <3>1
      <3>3. product[i + 1] = product[i] * d /\ count[i + 1] = NextCount(count[i], d)
        BY <1>2, <1>3, <3>1
      <3>4. ASSUME count[i + 1] # 0
            PROVE  /\ product[i + 1] = count[i + 1]
                   /\ \A j \in 1 .. i + 1 : v.storage[j - 1] > 0
        <4>1. count[i] # 0 /\ d > 0 /\ count[i + 1] = count[i] * d
          BY <3>2, <3>3, <3>4, CountStays
        <4>2. product[i] = count[i] /\ \A j \in 1 .. i : v.storage[j - 1] > 0
          BY <2>2, <4>1
        <4>3. \A j \in 1 .. i + 1 : j \in 1 .. i \/ j = i + 1
          BY <3>1
        <4> QED
          BY <3>3, <4>1, <4>2, <4>3
      <3> QED
        BY <3>1, <3>4
    <2> HIDE DEF Agreed
    <2> QED
      BY <1>1, <2>1, <2>2, CountedUp
  <1>6. n \in Agreed /\ n \in 0 .. n
    BY <1>1, <1>5
  <1> QED
    BY <1>2, <1>3, <1>6 DEF n

(* The check of one tensor, without the sequence it is in.                  *)
LEMMA OneTensor ==
  ASSUME NEW t
  PROVE  CheckInTensors(<<t>>) <=> CheckEmptyTensor(t) \/ CheckInTensor(t.dims, t.elementSize)
  BY DEF CheckInTensors

LEMMA AcceptedTensorFits ==
  ASSUME NEW v \in Vectors, NEW size \in Nat, CheckInTensor(v, size)
  PROVE  /\ \A i \in 1 .. v.size : v.storage[i - 1] > 0
         /\ ProductOf(v) * size \in 1 .. MAX_SHAPE_SIZE
  <1> DEFINE N == CalNumel(v)
             W == UINT64_MAX
  <1>1. W \in Nat /\ MAX_SHAPE_SIZE \in Nat
    BY TensorDescAssumption DEF UINT64_MAX
  <1>2. /\ N # 0 /\ size # 0
        /\ N <= W \div size
        /\ (size * N) % (W + 1) <= MAX_SHAPE_SIZE
    BY VectorFields DEF CheckInTensor, Numel
  <1>3. N \in Nat
    BY CountIsProduct, TensorDescAssumption
  <1>4. ProductOf(v) = N /\ \A i \in 1 .. v.size : v.storage[i - 1] > 0
    BY <1>2, CountIsProduct
  <1> HIDE DEF N, W
  <1>5. size \in Nat \ {0} /\ size * N <= W
    BY <1>1, <1>2, <1>3, DividedFits
  <1>6. size * N \in Nat /\ size * N > 0
    BY <1>2, <1>3, <1>5
  <1>7. (size * N) % (W + 1) = size * N
    BY <1>1, <1>5, <1>6
  <1>8. N * size = size * N
    BY <1>3, <1>5
  <1> QED
    BY <1>1, <1>2, <1>4, <1>6, <1>7, <1>8

(* The vector of the table's specification is one that calls of SVector     *)
(* have made.                                                               *)
LEMMA TableVectors == Spec => SVectorSpec
  <1>1. InitIr => Init
    BY DEF InitIr
  <1>2. [Next]_<<vec, data, meant>> => [NextVector]_vec
    BY DEF Next, Load, ExtendIn, ExtendOut
  <1> QED
    BY <1>1, <1>2, PTL DEF Spec, SVectorSpec

(* Whatever the dimensions and the width of the integers, of the tensors    *)
(* that CheckInTensors lets through one with data has positive dimensions   *)
(* and a true size within the bound: neither the product of CalNumel nor    *)
(* that of the bytes, which the machine takes modulo 2^64, has wrapped.     *)
THEOREM AcceptedTensorsFit == Spec => []AcceptedFits
  <1>1. TypeOK => AcceptedFits
    <2> SUFFICES ASSUME TypeOK, NEW t \in Tensors(vec), CheckInTensors(<<t>>), t.hasData
                 PROVE  /\ \A i \in 1 .. vec.size : ListOf(vec)[i] > 0
                        /\ BytesOf(t) \in 1 .. MAX_SHAPE_SIZE
      BY DEF AcceptedFits
    <2>1. t.dims = vec /\ t.elementSize \in Nat /\ vec \in Vectors
      BY TensorDescAssumption DEF Tensors, TypeOK
    <2>2. CheckInTensor(vec, t.elementSize)
      BY <2>1, OneTensor DEF CheckEmptyTensor
    <2>3. /\ \A i \in 1 .. vec.size : vec.storage[i - 1] > 0
          /\ ProductOf(vec) * t.elementSize \in 1 .. MAX_SHAPE_SIZE
      BY <2>1, <2>2, AcceptedTensorFits
    <2> QED
      BY <2>1, <2>3 DEF BytesOf, ListOf
  <1> QED
    BY <1>1, TypeCorrect, TableVectors, PTL

(* A View keeps the product of the dimensions, and with it what the check   *)
(* says of the tensor.                                                      *)
LEMMA ViewedTensor ==
  ASSUME NEW v \in Vectors, NEW d \in Vectors, d.size > 0
  PROVE  \/ View(v, d) = v
         \/ /\ View(v, d) = d /\ Numel(v) # 0 /\ Numel(d) = Numel(v)
            /\ ProductOf(d) = ProductOf(v)
  <1>1. CASE CalNumel(d) # 0 /\ CalNumel(d) = Numel(v)
    <2>1. View(v, d) = d /\ Numel(v) # 0
      BY <1>1 DEF View
    <2>2. Numel(d) = CalNumel(d) /\ Numel(v) = CalNumel(v)
      BY <2>1, VectorFields DEF Numel
    <2>3. ProductOf(d) = CalNumel(d) /\ ProductOf(v) = CalNumel(v)
      BY <1>1, <2>2, CountIsProduct
    <2> QED
      BY <1>1, <2>1, <2>2, <2>3
  <1>2. CASE ~(CalNumel(d) # 0 /\ CalNumel(d) = Numel(v))
    BY <1>2, Zenon DEF View
  <1> QED
    BY <1>1, <1>2

(* Viewed under other dimensions, one at least, a tensor has the elements   *)
(* it had and is accepted as it was, for any dimensions before and any      *)
(* width of the integers.                                                   *)
THEOREM ViewsKeepElements == Spec => []ViewKeepsElements
  <1>1. TypeOK => ViewKeepsElements
    <2> SUFFICES ASSUME TypeOK,
                        NEW new \in {View(vec, newDims) : newDims \in {d \in AllLists : d.size > 0}}
                 PROVE  /\ ProductOf(new) = ProductOf(vec)
                        /\ new.size <= MAX_DIM =>
                             \A t \in Tensors(vec) :
                               CheckInTensors(<<t>>) =>
                                 CheckInTensors(<<[t EXCEPT !.dims = new]>>)
      BY Zenon DEF ViewKeepsElements
    <2>1. PICK d \in AllLists : d.size > 0 /\ new = View(vec, d)
      OBVIOUS
    <2>2. vec \in Vectors /\ d \in Vectors
      <3>1. NewVector.storage \in Storage
        BY NewVectorType, VectorFields
      <3> QED
        BY <3>1, ListedType DEF AllLists, TypeOK
    <2>3. \/ new = vec
          \/ /\ new = d /\ Numel(vec) # 0 /\ Numel(d) = Numel(vec)
             /\ ProductOf(d) = ProductOf(vec)
      BY <2>1, <2>2, ViewedTensor
    <2>4. ASSUME new.size <= MAX_DIM, NEW t \in Tensors(vec), CheckInTensors(<<t>>)
          PROVE  CheckInTensors(<<[t EXCEPT !.dims = new]>>)
      <3> DEFINE u == [t EXCEPT !.dims = new]
      <3>1. /\ t.dims = vec
            /\ u.dims = new /\ u.elementSize = t.elementSize /\ u.hasData = t.hasData
        BY DEF Tensors
      <3> HIDE DEF u
      <3>2. /\ CheckInTensors(<<t>>) <=> CheckEmptyTensor(t) \/ CheckInTensor(t.dims, t.elementSize)
            /\ CheckInTensors(<<u>>) <=> CheckEmptyTensor(u) \/ CheckInTensor(u.dims, u.elementSize)
        BY OneTensor, Zenon
      <3>3. ASSUME new = vec
            PROVE  CheckInTensors(<<u>>)
        BY <2>4, <3>1, <3>2, <3>3 DEF CheckEmptyTensor
      <3>4. ASSUME new = d, Numel(vec) # 0, Numel(d) = Numel(vec)
            PROVE  CheckInTensors(<<u>>)
        <4>1. CheckInTensor(vec, t.elementSize)
          BY <2>4, <3>1, <3>2, <3>4 DEF CheckEmptyTensor
        <4>2. d.size \in 1 .. MAX_DIM
          BY <2>1, <2>2, <2>4, <3>4, VectorFields, TensorDescAssumption
        <4>3. CheckInTensor(d, t.elementSize)
          BY <3>4, <4>1, <4>2 DEF CheckInTensor
        <4> QED
          BY <3>1, <3>2, <3>4, <4>3
      <3>5. CheckInTensors(<<u>>)
        BY <2>3, <3>3, <3>4
      <3> QED
        BY <3>5 DEF u
    <2>5. ProductOf(new) = ProductOf(vec)
      BY <2>3
    <2> QED
      BY <2>4, <2>5
  <1> QED
    BY <1>1, TypeCorrect, TableVectors, PTL

-----------------------------------------------------------------------------
(* Lengths, and where the places of each tensor start.                      *)
Lengths == {v \in Vectors : \A i \in 0 .. v.size - 1 : v.storage[i] >= 0}

LEMMA LengthsOf ==
  ASSUME NEW v \in Lengths
  PROVE  /\ v.size \in 0 .. MAX_SIZE /\ v.size \in Nat
         /\ \A i \in 0 .. v.size - 1 :
              /\ v.storage[i] \in Nat /\ Places(v.storage[i]) \in Nat \ {0}
              /\ v.storage[i] # 0 => Places(v.storage[i]) = v.storage[i]
              /\ v.storage[i] = 0 => Places(v.storage[i]) = 1
  <1>1. v \in Vectors /\ v.size \in 0 .. MAX_SIZE /\ v.size \in Nat
    BY VectorFields DEF Lengths
  <1>2. ASSUME NEW i \in 0 .. v.size - 1
        PROVE  v.storage[i] \in Nat
    <2>1. i + 1 \in 1 .. v.size /\ (i + 1) - 1 = i
      BY <1>1
    <2>2. v.storage[i] \in Int
      BY <1>1, <2>1, Dimensions
    <2> QED
      BY <2>2 DEF Lengths
  <1> QED
    BY <1>1, <1>2 DEF Places

LEMMA StartsUp ==
  ASSUME NEW v \in Lengths
  PROVE  /\ StartOf(v) \in [0 .. v.size -> Nat]
         /\ StartOf(v)[0] = 0
         /\ \A i \in 0 .. v.size - 1 : StartOf(v)[i + 1] = StartOf(v)[i] + Places(v.storage[i])
  <1> DEFINE n == v.size
             len == [i \in 0 .. n - 1 |-> Places(v.storage[i])]
             step == [i \in 1 .. n |-> [x \in Nat |-> x + len[i - 1]]]
             Fixed(g) == g = [i \in 0 .. n |->
               IF i = 0 THEN 0 ELSE g[i - 1] + Places(v.storage[i - 1])]
             start == CHOOSE g : Fixed(g)
  <1>1. n \in Nat /\ \A i \in 0 .. n - 1 : len[i] \in Nat /\ len[i] = Places(v.storage[i])
    BY LengthsOf
  <1>2. StartOf(v) = start
    BY DEF StartOf
  <1> HIDE DEF n, len
  <1>3. \A i \in 1 .. n : i - 1 \in 0 .. n - 1 /\ i - 1 \in 0 .. n /\ (i - 1) + 1 = i
    BY <1>1
  <1>4. \A i \in 1 .. n, x \in Nat : step[i][x] = x + len[i - 1] /\ x + len[i - 1] \in Nat
    BY <1>1, <1>3
  <1>5. step \in StepsWithin(Nat, n)
    BY <1>4 DEF StepsWithin
  <1> HIDE DEF step
  <1>6. PICK f : Stepwise(f, Nat, n, 0, step)
    <2>1. 0 \in Nat
      OBVIOUS
    <2> QED
      BY <1>1, <1>5, <2>1, StepByStep, Zenon
  <1>7. \A i \in 1 .. n : f[i] = f[i - 1] + Places(v.storage[i - 1])
    <2> SUFFICES ASSUME NEW i \in 1 .. n
                 PROVE  f[i] = f[i - 1] + Places(v.storage[i - 1])
      OBVIOUS
    <2>1. f[i - 1] \in Nat /\ f[i] = step[i][f[i - 1]]
      BY <1>3, <1>6 DEF Stepwise
    <2>2. len[i - 1] = Places(v.storage[i - 1])
      BY <1>1, <1>3
    <2> QED
      BY <1>4, <2>1, <2>2
  <1>8. Fixed(f)
    <2>1. \A i \in 0 .. n : i # 0 => i \in 1 .. n
      BY <1>1
    <2>2. f \in [0 .. n -> Nat] /\ f[0] = 0
      BY <1>6 DEF Stepwise
    <2> QED
      BY <1>7, <2>1, <2>2
  <1>9. Fixed(start)
    BY <1>8
  <1> HIDE DEF start
  <1>10. \A i \in 0 .. n - 1 : i + 1 \in 0 .. n /\ i \in 0 .. n /\ i + 1 # 0 /\ (i + 1) - 1 = i
    BY <1>1
  <1>11. /\ start[0] = 0
         /\ \A i \in 0 .. n - 1 : start[i + 1] = start[i] + Places(v.storage[i])
    BY <1>1, <1>9, <1>10
  <1> DEFINE Typed == {i \in 0 .. n : start[i] \in Nat}
  <1>12. 0 .. n \subseteq Typed
    <2>1. 0 \in Typed
      BY <1>1, <1>11
    <2>2. ASSUME NEW i \in 0 .. n - 1, i \in Typed
          PROVE  i + 1 \in Typed
      <3>1. start[i + 1] = start[i] + len[i] /\ start[i] \in Nat /\ len[i] \in Nat
        BY <1>1, <1>11, <2>2
      <3> QED
        BY <1>10, <3>1
    <2> HIDE DEF Typed
    <2> QED
      BY <1>1, <2>1, <2>2, CountedUp
  <1>13. start \in [0 .. n -> Nat]
    BY <1>9, <1>12
  <1> HIDE DEF Fixed
  <1> QED
    BY <1>2, <1>11, <1>13 DEF n

(* Later tensors start later, and no tensor before its own number.          *)
LEMMA StartsOrdered ==
  ASSUME NEW v \in Lengths, NEW i \in 0 .. v.size
  PROVE  /\ \A m \in i .. v.size : StartOf(v)[i] <= StartOf(v)[m]
         /\ i <= StartOf(v)[i]
  <1> DEFINE n == v.size
             T == StartOf(v)
  <1>1. n \in Nat /\ T \in [0 .. n -> Nat] /\ T[0] = 0
    BY LengthsOf, StartsUp
  <1>2. ASSUME NEW j \in 0 .. n - 1
        PROVE  /\ T[j] \in Nat /\ T[j + 1] \in Nat /\ T[j] + 1 <= T[j + 1]
               /\ j + 1 \in 0 .. n /\ j \in 0 .. n
    <2>1. Places(v.storage[j]) \in Nat \ {0} /\ T[j + 1] = T[j] + Places(v.storage[j])
      BY LengthsOf, StartsUp
    <2>2. j \in 0 .. n /\ j + 1 \in 0 .. n
      BY <1>1
    <2>3. T[j] \in Nat /\ T[j + 1] \in Nat
      BY <1>1, <2>2
    <2> QED
      BY <2>1, <2>2, <2>3
  <1> HIDE DEF n, T
  <1> DEFINE Above == {j \in 0 .. n : j >= i => T[i] <= T[j]}
             Far == {j \in 0 .. n : j <= T[j]}
  <1>3. i \in 0 .. n /\ T[i] \in Nat
    BY <1>1 DEF n
  <1>4. 0 \in Above /\ 0 \in Far
    BY <1>1, <1>3
  <1>5. ASSUME NEW j \in 0 .. n - 1, j \in Above
        PROVE  j + 1 \in Above
    <2>1. CASE j >= i
      BY <1>2, <1>3, <1>5, <2>1
    <2>2. CASE j < i /\ j + 1 # i
      BY <1>2, <1>3, <2>2
    <2>3. CASE j + 1 = i
      BY <1>2, <1>3, <2>3
    <2> QED
      BY <1>3, <2>1, <2>2, <2>3
  <1>6. ASSUME NEW j \in 0 .. n - 1, j \in Far
        PROVE  j + 1 \in Far
    BY <1>2, <1>6
  <1>7. \A m \in i .. n : m \in 0 .. n /\ m >= i
    BY <1>1, <1>3
  <1> HIDE DEF Above, Far
  <1>8. 0 .. n \subseteq Above /\ 0 .. n \subseteq Far
    BY <1>1, <1>4, <1>5, <1>6, CountedUp
  <1> QED
    BY <1>3, <1>7, <1>8 DEF Above, Far, n, T

(* Every place is one of some tensor.                                       *)
LEMMA PlacesCovered ==
  ASSUME NEW v \in Lengths, NEW j \in 0 .. StartOf(v)[v.size] - 1
  PROVE  \E m \in 0 .. v.size - 1 : j \in StartOf(v)[m] .. StartOf(v)[m + 1] - 1
  <1> DEFINE n == v.size
             T == StartOf(v)
             Covered == {i \in 0 .. n : j < T[i] => \E m \in 0 .. n - 1 : j \in T[m] .. T[m + 1] - 1}
  <1>1. n \in Nat /\ T \in [0 .. n -> Nat] /\ T[0] = 0
    BY LengthsOf, StartsUp
  <1> HIDE DEF n, T
  <1>2. j \in Nat /\ j < T[n]
    BY <1>1 DEF n, T
  <1>3. 0 \in Covered
    BY <1>1, <1>2
  <1>4. ASSUME NEW i \in 0 .. n - 1, i \in Covered
        PROVE  i + 1 \in Covered
    <2>1. i \in 0 .. n /\ i + 1 \in 0 .. n
      BY <1>1
    <2>2. T[i] \in Nat /\ T[i + 1] \in Nat
      BY <1>1, <2>1
    <2>3. CASE j < T[i]
      BY <1>4, <2>1, <2>3
    <2>4. CASE j >= T[i] /\ j < T[i + 1]
      <3>1. j \in T[i] .. T[i + 1] - 1
        BY <1>2, <2>2, <2>4
      <3> QED
        BY <2>1, <3>1
    <2>5. CASE j >= T[i + 1]
      BY <1>2, <2>1, <2>2, <2>5
    <2> QED
      BY <1>2, <2>2, <2>3, <2>4, <2>5
  <1> HIDE DEF Covered
  <1>5. 0 .. n \subseteq Covered
    BY <1>1, <1>3, <1>4, CountedUp
  <1>6. n \in Covered
    BY <1>1, <1>5
  <1> QED
    BY <1>2, <1>6 DEF Covered, n, T

-----------------------------------------------------------------------------
(* A list of tensors, of which each is one of X.                            *)
IrLists(X) == [storage : [Slots -> X], size : 0 .. MAX_SIZE]

(* Lengths that suit the tensors and that a caller may give.                *)
Suited(irs, lens) == lens \in Lengths /\ Suits(lens, irs) /\ TotalLen(lens) <= MAX_SIZE

(* The tensors before one that is none are none, and start at their number. *)
LEMMA PlainFirst ==
  ASSUME NEW irs, NEW lens, Suited(irs, lens), NEW i \in 0 .. lens.size - 1,
         lens.storage[i] = 0
  PROVE  StartOf(lens)[i] = i /\ StartOf(lens)[i + 1] = i + 1
  <1> DEFINE n == lens.size
             T == StartOf(lens)
             Plain == {j \in 0 .. n : j <= i => T[j] = j}
  <1>1. n \in Nat /\ T[0] = 0 /\ i \in 0 .. n - 1
    BY LengthsOf, StartsUp DEF Suited
  <1>2. \A j \in 0 .. n - 1 : j <= i => lens.storage[j] = 0
    BY <1>1 DEF Suited, Suits
  <1>3. \A j \in 0 .. n - 1 : lens.storage[j] = 0 => T[j + 1] = T[j] + 1
    BY LengthsOf, StartsUp DEF Suited
  <1> HIDE DEF n, T
  <1>4. 0 \in Plain
    BY <1>1
  <1>5. ASSUME NEW j \in 0 .. n - 1, j \in Plain
        PROVE  j + 1 \in Plain
    BY <1>1, <1>2, <1>3, <1>5
  <1> HIDE DEF Plain
  <1>6. 0 .. n \subseteq Plain
    BY <1>1, <1>4, <1>5, CountedUp
  <1>7. T[i] = i
    BY <1>1, <1>6 DEF Plain
  <1>8. lens.storage[i] = 0 /\ T[i + 1] = T[i] + 1
    BY <1>1, <1>3 DEF n
  <1> QED
    BY <1>1, <1>7, <1>8 DEF T

(* One tensor's turn.                                                       *)
Spreading(X) == [irs : IrLists(X), startId : Int]

TurnOf(s, after, i, len) ==
  /\ s.irs.size = after.irs.size
  /\ s.startId = after.startId - len
  /\ \A j \in Slots : s.irs.storage[j] = IF j \in after.startId - len .. after.startId - 1
                                         THEN after.irs.storage[i] ELSE after.irs.storage[j]

LEMMA SpreadParts ==
  ASSUME NEW X, NEW after \in Spreading(X), NEW i \in Slots, NEW len \in Nat
  PROVE  Spread(after, i, len) \in Spreading(X) /\ TurnOf(Spread(after, i, len), after, i, len)
  <1> DEFINE start == after.startId - len
             place(j) == IF j \in start .. after.startId - 1 THEN i ELSE j
             st == [j \in Slots |-> after.irs.storage[place(j)]]
  <1>1. /\ after.startId \in Int /\ after.irs \in IrLists(X)
        /\ after.irs.storage \in [Slots -> X] /\ after.irs.size \in 0 .. MAX_SIZE
    BY DEF Spreading, IrLists
  <1>2. start \in Int
    BY <1>1
  <1>3. st \in [Slots -> X]
    BY <1>1
  <1>4. Spread(after, i, len)
          = [startId |-> start, irs |-> [storage |-> st, size |-> after.irs.size]]
    BY DEF Spread
  <1>5. \A j \in Slots : st[j] = IF j \in start .. after.startId - 1
                                 THEN after.irs.storage[i] ELSE after.irs.storage[j]
    OBVIOUS
  <1> HIDE DEF st, start
  <1>6. [storage |-> st, size |-> after.irs.size] \in IrLists(X)
    BY <1>1, <1>3 DEF IrLists
  <1>7. Spread(after, i, len) \in Spreading(X)
    BY <1>2, <1>4, <1>6 DEF Spreading
  <1> QED
    BY <1>4, <1>5, <1>7 DEF start, TurnOf

(* The loop, from the last tensor on.                                       *)
LEMMA SpreadSteps ==
  ASSUME NEW X, NEW irs \in IrLists(X), NEW lens, Suited(irs, lens)
  PROVE  \E spread :
           /\ spread[irs.size] = [irs |-> Resized(irs, TotalLen(lens)), startId |-> TotalLen(lens)]
           /\ \A i \in 0 .. irs.size - 1 :
                spread[i] = Spread(spread[i + 1], i, lens.storage[i])
           /\ \A i \in 0 .. irs.size : spread[i] \in Spreading(X)
           /\ Extended(irs, lens) = spread[0].irs
  <1> DEFINE n == irs.size
             total == TotalLen(lens)
             first == [irs |-> Resized(irs, total), startId |-> total]
             S == Spreading(X)
             step == [i \in 1 .. n |-> [a \in S |-> Spread(a, n - i, lens.storage[n - i])]]
             Fixed(g) == g = [i \in 0 .. n |-> IF i = n THEN first
                                               ELSE Spread(g[i + 1], i, lens.storage[i])]
             spread == CHOOSE g : Fixed(g)
  <1>1. n \in 0 .. MAX_SIZE /\ n \in Nat /\ lens.size = n /\ MAX_SIZE \in Nat
    BY SVectorAssumption DEF IrLists, Suited, Suits
  <1>2. total \in 0 .. MAX_SIZE
    <2>1. lens.size \in 0 .. lens.size
      BY <1>1
    <2> QED
      BY <1>1, <2>1, StartsUp DEF Suited, TotalLen
  <1>3. first \in S
    <2>1. Resized(irs, total) \in IrLists(X) /\ total \in Int
      BY <1>1, <1>2 DEF Resized, IrLists
    <2> QED
      BY <2>1 DEF Spreading
  <1>4. Extended(irs, lens) = spread[0].irs
    <2>1. ~(lens.size < irs.size)
      BY <1>1
    <2> QED
      BY <2>1 DEF Extended
  <1>5. ASSUME NEW i \in 0 .. n - 1, NEW a \in S
        PROVE  Spread(a, i, lens.storage[i]) \in S
    <2>1. i \in Slots
      BY <1>1 DEF Slots
    <2>2. lens.storage[i] \in Nat
      BY <1>1, LengthsOf DEF Suited
    <2> QED
      BY <2>1, <2>2, SpreadParts
  <1> HIDE DEF n, S, first
  <1>6. \A i \in 1 .. n : n - i \in 0 .. n - 1 /\ i - 1 \in 0 .. n /\ n - (n - i) = i
    BY <1>1
  <1>7. step \in StepsWithin(S, n)
    BY <1>5, <1>6 DEF StepsWithin
  <1>8. \A i \in 1 .. n, a \in S : step[i][a] = Spread(a, n - i, lens.storage[n - i])
    OBVIOUS
  <1> HIDE DEF step
  <1>9. PICK f : Stepwise(f, S, n, first, step)
    BY <1>1, <1>3, <1>7, StepByStep, Zenon
  <1>10. \A i \in 1 .. n : f[i] = Spread(f[i - 1], n - i, lens.storage[n - i])
    BY <1>6, <1>8, <1>9 DEF Stepwise
  <1> DEFINE back == [i \in 0 .. n |-> f[n - i]]
  <1>11. \A i \in 0 .. n - 1 : /\ n - i \in 1 .. n /\ n - (n - i) = i
                               /\ (n - i) - 1 = n - (i + 1) /\ i + 1 \in 0 .. n
    BY <1>1
  <1>12. back[n] = first /\ n \in 0 .. n
    BY <1>1, <1>9 DEF Stepwise
  <1>13. ASSUME NEW i \in 0 .. n - 1
         PROVE  back[i] = Spread(back[i + 1], i, lens.storage[i])
    <2>1. f[n - i] = Spread(f[(n - i) - 1], n - (n - i), lens.storage[n - (n - i)])
      BY <1>10, <1>11
    <2>2. back[i] = f[n - i] /\ back[i + 1] = f[n - (i + 1)]
      BY <1>1, <1>11
    <2>3. f[n - i] = Spread(f[n - (i + 1)], i, lens.storage[i])
      BY <1>11, <2>1
    <2> QED
      BY <2>2, <2>3
  <1>14. Fixed(back)
    <2>1. back = [i \in 0 .. n |-> back[i]]
      OBVIOUS
    <2>2. \A i \in 0 .. n : i = n \/ i \in 0 .. n - 1
      BY <1>1
    <2> HIDE DEF back
    <2>3. \A i \in 0 .. n : back[i] = IF i = n THEN first
                                      ELSE Spread(back[i + 1], i, lens.storage[i])
      BY <1>12, <1>13, <2>2
    <2> QED
      BY <2>1, <2>3
  <1>15. Fixed(spread)
    BY <1>14
  <1> HIDE DEF spread
  <1>16. /\ spread[n] = first
         /\ \A i \in 0 .. n - 1 : spread[i] = Spread(spread[i + 1], i, lens.storage[i])
    <2>1. \A i \in 0 .. n - 1 : i \in 0 .. n /\ i # n
      BY <1>1
    <2> QED
      BY <1>12, <1>15, <2>1
  <1> HIDE DEF Fixed
  <1> DEFINE Typed == {i \in 0 .. n : spread[n - i] \in S}
  <1>17. 0 \in Typed
    BY <1>1, <1>3, <1>16
  <1>18. ASSUME NEW i \in 0 .. n - 1, i \in Typed
         PROVE  i + 1 \in Typed
    <2>1. /\ n - (i + 1) \in 0 .. n - 1 /\ (n - (i + 1)) + 1 = n - i /\ i + 1 \in 0 .. n
      BY <1>1
    <2>2. spread[n - i] \in S
      BY <1>18
    <2>3. spread[n - (i + 1)] = Spread(spread[n - i], n - (i + 1), lens.storage[n - (i + 1)])
      BY <1>16, <2>1
    <2>4. spread[n - (i + 1)] \in S
      BY <1>5, <2>1, <2>2, <2>3
    <2> QED
      BY <2>1, <2>4
  <1>19. \A i \in 0 .. n : n - i \in 0 .. n /\ n - (n - i) = i
    BY <1>1
  <1> HIDE DEF Typed
  <1>20. 0 .. n \subseteq Typed
    BY <1>1, <1>17, <1>18, CountedUp
  <1>21. \A i \in 0 .. n : spread[i] \in S
    BY <1>19, <1>20 DEF Typed
  <1> QED
    BY <1>4, <1>16, <1>21 DEF n, first, S

(* After it each tensor is in all the places of its list, although they     *)
(* were copied within one array: those still to be copied are in front of   *)
(* all that has been written.                                               *)
LEMMA ExtendedSpreads ==
  ASSUME NEW X, NEW irs \in IrLists(X), NEW lens, Suited(irs, lens)
  PROVE  /\ Extended(irs, lens) \in IrLists(X)
         /\ Extended(irs, lens).size = TotalLen(lens)
         /\ \A m \in 0 .. irs.size - 1 :
              \A j \in StartOf(lens)[m] .. StartOf(lens)[m + 1] - 1 :
                Extended(irs, lens).storage[j] = irs.storage[m]
  <1> DEFINE n == irs.size
             T == StartOf(lens)
             old == irs.storage
  <1>1. n \in 0 .. MAX_SIZE /\ n \in Nat /\ lens.size = n /\ MAX_SIZE \in Nat
    BY SVectorAssumption DEF IrLists, Suited, Suits
  <1>2. /\ T \in [0 .. n -> Nat] /\ T[0] = 0 /\ TotalLen(lens) = T[n] /\ T[n] <= MAX_SIZE
        /\ \A i \in 0 .. n - 1 : T[i + 1] = T[i] + Places(lens.storage[i])
    BY <1>1, StartsUp DEF Suited, TotalLen
  <1>3. PICK spread :
          /\ spread[n] = [irs |-> Resized(irs, TotalLen(lens)), startId |-> TotalLen(lens)]
          /\ \A i \in 0 .. n - 1 : spread[i] = Spread(spread[i + 1], i, lens.storage[i])
          /\ \A i \in 0 .. n : spread[i] \in Spreading(X)
          /\ Extended(irs, lens) = spread[0].irs
    BY SpreadSteps
  <1>4. /\ \A i \in 0 .. n : i <= T[i] /\ \A m \in i .. n : T[i] <= T[m]
        /\ \A i \in 0 .. n - 1 : lens.storage[i] = 0 => T[i] = i /\ T[i + 1] = i + 1
        /\ \A i \in 0 .. n - 1 : lens.storage[i] \in Nat
        /\ \A i \in 0 .. n - 1 : lens.storage[i] # 0 => T[i + 1] = T[i] + lens.storage[i]
    <2>1. \A i \in 0 .. n : i <= T[i] /\ \A m \in i .. n : T[i] <= T[m]
      BY <1>1, StartsOrdered DEF Suited
    <2>2. \A i \in 0 .. n - 1 : lens.storage[i] = 0 => T[i] = i /\ T[i + 1] = i + 1
      BY <1>1, PlainFirst
    <2>3. \A i \in 0 .. n - 1 : lens.storage[i] \in Nat
      BY <1>1, LengthsOf DEF Suited
    <2>4. \A i \in 0 .. n - 1 : lens.storage[i] # 0 => T[i + 1] = T[i] + lens.storage[i]
      BY <1>1, <1>2, LengthsOf DEF Suited
    <2> QED
      BY <2>1, <2>2, <2>3, <2>4
  <1>5. \A i, j \in 0 .. n - 1 : i < j /\ lens.storage[j] = 0 => lens.storage[i] = 0
    BY <1>1 DEF Suited, Suits
  <1> HIDE DEF n, T
  <1> DEFINE Here(i) == spread[i].irs.storage
             Sized(i) == spread[i].irs.size = T[n]
             Met(i) == i = n \/ lens.storage[i] # 0 => spread[i].startId = T[i]
             Kept(i) == \A j \in 0 .. i - 1 : Here(i)[j] = old[j]
             Done(i) == \A m \in i .. n - 1 : \A j \in T[m] .. T[m + 1] - 1 : Here(i)[j] = old[m]
             Right(i) == Sized(i) /\ Met(i) /\ Kept(i) /\ Done(i)
             Shown == {i \in 0 .. n : Right(n - i)}
  <1>6. Right(n)
    <2>1. spread[n].irs.storage = old /\ spread[n].irs.size = T[n] /\ spread[n].startId = T[n]
      BY <1>2, <1>3 DEF Resized
    <2>2. \A m \in n .. n - 1 : FALSE
      BY <1>1
    <2> HIDE DEF old
    <2> QED
      BY <2>1, <2>2
  <1>7. ASSUME NEW i \in 0 .. n - 1, Right(i + 1)
        PROVE  Right(i)
    <2> DEFINE len == lens.storage[i]
               end == spread[i + 1].startId
    <2>1. /\ i \in Slots /\ i \in 0 .. n /\ i + 1 \in 0 .. n /\ len \in Nat
          /\ T[i] \in Nat /\ T[i + 1] \in Nat /\ i <= T[i]
      <3>1. i \in Slots /\ i \in 0 .. n /\ i + 1 \in 0 .. n
        BY <1>1 DEF Slots
      <3> QED
        BY <1>2, <1>4, <3>1
    <2>2. /\ spread[i].irs.size = spread[i + 1].irs.size
          /\ spread[i].startId = end - len
          /\ \A j \in Slots : Here(i)[j] = IF j \in end - len .. end - 1
                                           THEN Here(i + 1)[i] ELSE Here(i + 1)[j]
      <3> DEFINE after == spread[i + 1]
      <3>1. spread[i] = Spread(after, i, len) /\ after \in Spreading(X)
        BY <1>3, <2>1
      <3> HIDE DEF after, len
      <3>2. TurnOf(spread[i], after, i, len)
        BY <2>1, <3>1, SpreadParts, Zenon
      <3> QED
        BY <3>2 DEF after, TurnOf
    <2>3. end \in Int
      BY <1>3, <2>1 DEF Spreading
    <2>4. \A j \in 0 .. n - 1 : j \in Slots
      BY <1>1 DEF Slots
    <2>5. Sized(i)
      BY <1>7, <2>2
    <2> HIDE DEF len, end, Here, Sized
    <2>6. CASE len = 0
      <3>1. \A j \in Slots : Here(i)[j] = Here(i + 1)[j]
        BY <2>2, <2>3, <2>6
      <3>2. Met(i)
        BY <2>1, <2>6 DEF len
      <3>3. ASSUME NEW j \in 0 .. i - 1
            PROVE  Here(i)[j] = old[j]
        <4>1. j \in 0 .. n - 1 /\ j \in 0 .. (i + 1) - 1
          BY <1>1, <2>1
        <4>2. j \in Slots
          BY <2>4, <4>1
        <4> QED
          BY <1>7, <3>1, <4>1, <4>2
      <3>4. ASSUME NEW m \in i .. n - 1, NEW j \in T[m] .. T[m + 1] - 1
            PROVE  Here(i)[j] = old[m]
        <4>1. m \in 0 .. n - 1 /\ m + 1 \in 0 .. n /\ m \in 0 .. n
          BY <1>1, <2>1
        <4>2. T[m] \in Nat /\ T[m + 1] \in Nat /\ T[m + 1] <= T[n] /\ T[n] \in Nat
          BY <1>1, <1>2, <1>4, <4>1
        <4>3. j \in Slots
          BY <1>1, <1>2, <4>2 DEF Slots
        <4>4. CASE m = i
          <5>1. j = i
            BY <1>4, <2>1, <2>6, <4>4 DEF len
          <5>2. Here(i + 1)[i] = old[i]
            BY <1>7, <2>1
          <5> QED
            BY <3>1, <4>3, <4>4, <5>1, <5>2
        <4>5. CASE m # i
          <5>1. m \in i + 1 .. n - 1
            BY <4>1, <4>5, <2>1
          <5> QED
            BY <1>7, <3>1, <4>3, <5>1
        <4> QED
          BY <4>4, <4>5
      <3> QED
        BY <2>5, <3>2, <3>3, <3>4
    <2>7. CASE len # 0
      <3>1. T[i + 1] = T[i] + len
        BY <1>4, <2>7 DEF len
      <3>2. i + 1 = n \/ lens.storage[i + 1] # 0
        BY <1>1, <1>5, <2>1, <2>7 DEF len
      <3>3. end = T[i + 1] /\ end - len = T[i]
        BY <1>7, <2>1, <3>1, <3>2 DEF end
      <3>4. Met(i)
        BY <2>2, <3>3
      <3>5. Here(i + 1)[i] = old[i]
        BY <1>7, <2>1
      <3>6. ASSUME NEW j \in 0 .. i - 1
            PROVE  Here(i)[j] = old[j]
        <4>1. j \in 0 .. n - 1 /\ j < T[i] /\ j \in 0 .. (i + 1) - 1
          BY <1>1, <2>1
        <4>3. j \in Slots
          BY <2>4, <4>1
        <4>2. Here(i)[j] = Here(i + 1)[j]
          BY <2>1, <2>2, <3>3, <4>1, <4>3
        <4> QED
          BY <1>7, <4>1, <4>2
      <3>7. ASSUME NEW m \in i .. n - 1, NEW j \in T[m] .. T[m + 1] - 1
            PROVE  Here(i)[j] = old[m]
        <4>1. m \in 0 .. n - 1 /\ m + 1 \in 0 .. n /\ m \in 0 .. n
          BY <1>1, <2>1
        <4>2. T[m] \in Nat /\ T[m + 1] \in Nat /\ T[m + 1] <= T[n] /\ T[n] \in Nat
          BY <1>1, <1>2, <1>4, <4>1
        <4>3. j \in Slots
          BY <1>1, <1>2, <4>2 DEF Slots
        <4>4. CASE m = i
          BY <2>2, <3>3, <3>5, <4>3, <4>4
        <4>5. CASE m # i
          <5>1. m \in i + 1 .. n - 1
            BY <2>1, <4>1, <4>5
          <5>2. T[i + 1] <= T[m]
            BY <1>4, <2>1, <5>1, <4>1
          <5>3. Here(i)[j] = Here(i + 1)[j]
            BY <2>1, <2>2, <3>3, <4>2, <4>3, <5>2
          <5> QED
            BY <1>7, <5>1, <5>3
        <4> QED
          BY <4>4, <4>5
      <3> QED
        BY <2>5, <3>4, <3>6, <3>7
    <2> QED
      BY <2>6, <2>7
  <1> HIDE DEF Right
  <1>8. 0 \in Shown
    BY <1>1, <1>6
  <1>9. ASSUME NEW i \in 0 .. n - 1, i \in Shown
        PROVE  i + 1 \in Shown
    <2>1. n - (i + 1) \in 0 .. n - 1 /\ (n - (i + 1)) + 1 = n - i /\ i + 1 \in 0 .. n
      BY <1>1
    <2>2. Right(n - i)
      BY <1>9
    <2> QED
      BY <1>7, <2>1, <2>2
  <1> HIDE DEF Shown
  <1>10. 0 .. n \subseteq Shown
    BY <1>1, <1>8, <1>9, CountedUp
  <1>11. Right(0)
    <2>1. n \in Shown /\ n - n = 0
      BY <1>1, <1>10
    <2> QED
      BY <2>1 DEF Shown
  <1>12. spread[0] \in Spreading(X) /\ spread[0].irs \in IrLists(X)
    BY <1>1, <1>3 DEF Spreading
  <1> QED
    BY <1>2, <1>3, <1>11, <1>12 DEF Right, T, n

(* A sequence and, behind it, one element some times over.                  *)
LEMMA JoinedBlock ==
  ASSUME NEW X, NEW p \in Nat, NEW q \in Nat, NEW a \in [1 .. p -> X], NEW x \in X
  PROVE  a \o [j \in 1 .. q |-> x] = [j \in 1 .. p + q |-> IF j <= p THEN a[j] ELSE x]
  <1> DEFINE b == [j \in 1 .. q |-> x]
             all == [j \in 1 .. p + q |-> IF j <= p THEN a[j] ELSE x]
             joined == a \o b
  <1>1. a \in Seq(X) /\ Len(a) = p /\ b \in Seq(X) /\ Len(b) = q
    OBVIOUS
  <1>2. \A j \in 1 .. q : b[j] = x
    OBVIOUS
  <1>3. \A j \in 1 .. p + q : all[j] = IF j <= p THEN a[j] ELSE x
    OBVIOUS
  <1>4. \A j \in 1 .. p + q : all[j] \in X
    <2>1. \A j \in 1 .. p + q : j <= p => j \in 1 .. p
      OBVIOUS
    <2> QED
      BY <1>3, <2>1
  <1>5. all \in Seq(X) /\ Len(all) = p + q
    <2>1. all \in [1 .. p + q -> X] /\ p + q \in Nat
      BY <1>4
    <2> HIDE DEF all
    <2> QED
      BY <2>1
  <1> HIDE DEF b, all
  <1>6. /\ joined \in Seq(X) /\ Len(joined) = p + q
        /\ \A j \in 1 .. p + q : joined[j] = IF j <= p THEN a[j] ELSE b[j - p]
    BY <1>1, ConcatProperties
  <1> HIDE DEF joined
  <1>7. \A j \in 1 .. p + q : joined[j] = all[j]
    <2> SUFFICES ASSUME NEW j \in 1 .. p + q
                 PROVE  joined[j] = all[j]
      OBVIOUS
    <2>1. ~(j <= p) => j - p \in 1 .. q
      OBVIOUS
    <2> QED
      BY <1>2, <1>3, <1>6, <2>1
  <1>8. joined = all
    BY <1>5, <1>6, <1>7, SeqEqual
  <1> QED
    BY <1>8 DEF joined, all, b

(* What the loop within the one array leaves is what the lengths mean: each *)
(* tensor as often as its list is long, in the order of the tensors.        *)
THEOREM ListsAreWidened ==
  ASSUME NEW X, NEW irs \in IrLists(X), NEW lens, Suited(irs, lens)
  PROVE  ListOf(Extended(irs, lens)) = Widened(ListOf(irs), lens)
  <1> DEFINE n == irs.size
             T == StartOf(lens)
             old == irs.storage
             wide == Extended(irs, lens).storage
             block == [i \in 1 .. n |-> [j \in 1 .. Max({1, lens.storage[i - 1]}) |-> ListOf(irs)[i]]]
             F == [i \in 1 .. n |-> [j \in 1 .. T[i] |-> wide[j - 1]]]
             Fixed(g) == g = [i \in 1 .. Len(block) |-> IF i = 1 THEN block[i] ELSE g[i - 1] \o block[i]]
             flatten == CHOOSE g : Fixed(g)
  <1>1. n \in 0 .. MAX_SIZE /\ n \in Nat /\ lens.size = n /\ MAX_SIZE \in Nat
    BY SVectorAssumption DEF IrLists, Suited, Suits
  <1>2. /\ T \in [0 .. n -> Nat] /\ T[0] = 0 /\ TotalLen(lens) = T[n] /\ T[n] <= MAX_SIZE
        /\ \A i \in 0 .. n - 1 : T[i + 1] = T[i] + Places(lens.storage[i])
    BY <1>1, StartsUp DEF Suited, TotalLen
  <1>3. /\ Extended(irs, lens).size = T[n]
        /\ \A j \in Slots : wide[j] \in X
        /\ \A i \in 0 .. n - 1 : \A j \in T[i] .. T[i + 1] - 1 : wide[j] = old[i]
    <2>1. /\ Extended(irs, lens) \in IrLists(X) /\ Extended(irs, lens).size = TotalLen(lens)
          /\ \A i \in 0 .. n - 1 : \A j \in T[i] .. T[i + 1] - 1 : wide[j] = old[i]
      BY ExtendedSpreads
    <2>2. wide \in [Slots -> X]
      BY <2>1 DEF IrLists
    <2> QED
      BY <1>2, <2>1, <2>2
  <1>4. ASSUME NEW i \in 1 .. n
        PROVE  /\ i - 1 \in 0 .. n - 1 /\ i - 1 \in 0 .. n /\ i \in 0 .. n /\ (i - 1) + 1 = i
               /\ T[i - 1] \in Nat /\ T[i] \in Nat /\ T[i] <= T[n] /\ Places(lens.storage[i - 1]) \in Nat
               /\ T[i] = T[i - 1] + Places(lens.storage[i - 1])
               /\ old[i - 1] \in X
    <2>1. i - 1 \in 0 .. n - 1 /\ i - 1 \in 0 .. n /\ i \in 0 .. n /\ (i - 1) + 1 = i
          /\ i - 1 \in Slots /\ n \in i .. n
      BY <1>1 DEF Slots
    <2>2. T[i] <= T[n]
      BY <1>1, <2>1, StartsOrdered DEF Suited
    <2>3. old[i - 1] \in X
      BY <2>1 DEF IrLists
    <2>4. Places(lens.storage[i - 1]) \in Nat
      BY <1>1, <2>1, LengthsOf DEF Suited
    <2>5. T[(i - 1) + 1] = T[i - 1] + Places(lens.storage[i - 1])
      BY <1>2, <2>1
    <2> QED
      BY <1>2, <2>1, <2>2, <2>3, <2>4, <2>5
  <1>5. ASSUME NEW i \in 1 .. n
        PROVE  block[i] = [j \in 1 .. Places(lens.storage[i - 1]) |-> old[i - 1]]
    <2>1. lens.storage[i - 1] \in Nat
      BY <1>1, <1>4, LengthsOf DEF Suited
    <2>2. Max({1, lens.storage[i - 1]}) = Places(lens.storage[i - 1])
      <3> DEFINE S == {1, lens.storage[i - 1]}
                 len == lens.storage[i - 1]
                 both == IF len > 1 THEN len ELSE 1
      <3>1. S \subseteq 0 .. len + 1 /\ S # {} /\ len + 1 \in Nat
        BY <2>1
      <3>2. Max(S) \in S /\ \A x \in S : x <= Max(S)
        BY <3>1, MaxExists, Zenon
      <3> QED
        BY <2>1, <3>2 DEF Places
    <2>3. ListOf(irs)[i] = old[i - 1]
      BY DEF ListOf
    <2> QED
      BY <2>2, <2>3
  <1>6. Widened(ListOf(irs), lens) = FlattenSeq(block)
    <2>1. DOMAIN ListOf(irs) = 1 .. n
      BY DEF ListOf
    <2> QED
      BY <2>1 DEF Widened
  <1> HIDE DEF wide, old, T
  <1>7. \A i \in 1 .. n : F[i] = [j \in 1 .. T[i] |-> wide[j - 1]]
    OBVIOUS
  <1>8. DOMAIN block = 1 .. n /\ DOMAIN F = 1 .. n
    OBVIOUS
  <1>9. Len(block) = n
    <2> HIDE DEF block
    <2> QED
      BY <1>1, <1>8
  <1>10. ListOf(Extended(irs, lens)) = [j \in 1 .. T[n] |-> wide[j - 1]]
    BY <1>3 DEF ListOf, wide
  <1> HIDE DEF block, F
  <1>11. F = [i \in 1 .. n |-> F[i]]
    BY DEF F
  <1>12. ASSUME NEW i \in 1 .. n
         PROVE  F[i] = IF i = 1 THEN block[i] ELSE F[i - 1] \o block[i]
    <2> DEFINE p == T[i - 1]
               q == Places(lens.storage[i - 1])
               x == old[i - 1]
               a == [j \in 1 .. p |-> wide[j - 1]]
    <2>1. p \in Nat /\ q \in Nat /\ T[i] = p + q /\ p + q <= MAX_SIZE /\ x \in X
      BY <1>1, <1>2, <1>4
    <2>2. block[i] = [j \in 1 .. q |-> x]
      BY <1>5
    <2>3. F[i] = [j \in 1 .. p + q |-> wide[j - 1]]
      BY <1>7, <2>1
    <2>4. ASSUME NEW j \in 1 .. p + q
          PROVE  /\ j <= p => wide[j - 1] \in X
                 /\ ~(j <= p) => wide[j - 1] = x
      <3>1. j - 1 \in Slots
        BY <1>1, <2>1 DEF Slots
      <3>2. ~(j <= p) => j - 1 \in T[i - 1] .. T[(i - 1) + 1] - 1
        BY <1>4, <2>1
      <3> QED
        BY <1>3, <1>4, <3>1, <3>2 DEF wide, old
    <2>5. CASE i = 1
      <3>1. p = 0
        BY <1>2, <2>5
      <3>2. \A j \in 1 .. p + q : ~(j <= p)
        BY <2>1, <3>1
      <3>3. F[i] = [j \in 1 .. q |-> x]
        BY <2>1, <2>3, <2>4, <3>1, <3>2
      <3> QED
        BY <2>2, <2>5, <3>3
    <2>6. CASE i # 1
      <3>1. i - 1 \in 1 .. n
        BY <1>1, <2>6
      <3>2. F[i - 1] = a
        BY <1>7, <3>1
      <3>3. \A j \in 1 .. p : j \in 1 .. p + q /\ j <= p
        BY <2>1
      <3>4. a \in [1 .. p -> X]
        BY <2>4, <3>3
      <3> HIDE DEF a, p, q, x
      <3>5. a \o [j \in 1 .. q |-> x] = [j \in 1 .. p + q |-> IF j <= p THEN a[j] ELSE x]
        BY <2>1, <3>4, JoinedBlock
      <3>6. \A j \in 1 .. p + q : j <= p => j \in 1 .. p
        OBVIOUS
      <3>7. \A j \in 1 .. p + q : wide[j - 1] = IF j <= p THEN a[j] ELSE x
        BY <2>4, <3>6 DEF a
      <3>8. F[i] = [j \in 1 .. p + q |-> IF j <= p THEN a[j] ELSE x]
        BY <2>3, <3>7
      <3> QED
        BY <2>2, <2>6, <3>2, <3>5, <3>8, Zenon
    <2> QED
      BY <2>5, <2>6
  <1>13. Fixed(F)
    BY <1>9, <1>11, <1>12
  <1>14. Fixed(flatten)
    BY <1>13
  <1> DEFINE Same == {i \in 0 .. n : i # 0 => flatten[i] = F[i]}
  <1>15. 0 \in Same /\ \A i \in 0 .. n - 1 : i \in Same => i + 1 \in Same
    <2>1. 0 \in Same
      BY <1>1
    <2>2. ASSUME NEW i \in 0 .. n - 1, i \in Same
          PROVE  i + 1 \in Same
      <3>1. i + 1 \in 1 .. n /\ i + 1 \in 0 .. n /\ (i + 1) - 1 = i /\ (i + 1 = 1 <=> i = 0)
        BY <1>1
      <3>2. flatten[i + 1] = IF i + 1 = 1 THEN block[i + 1] ELSE flatten[(i + 1) - 1] \o block[i + 1]
        BY <1>9, <1>14, <3>1
      <3>3. F[i + 1] = IF i + 1 = 1 THEN block[i + 1] ELSE F[(i + 1) - 1] \o block[i + 1]
        BY <1>12, <3>1
      <3>4. i # 0 => flatten[i] = F[i]
        BY <2>2
      <3>5. flatten[i + 1] = F[i + 1]
        BY <3>1, <3>2, <3>3, <3>4
      <3> QED
        BY <3>1, <3>5
    <2> QED
      BY <2>1, <2>2
  <1>16. n # 0 => flatten[n] = F[n]
    <2> HIDE DEF Same
    <2>1. 0 .. n \subseteq Same
      BY <1>1, <1>15, CountedUp, Zenon
    <2>2. n \in 0 .. n
      BY <1>1
    <2>3. n \in Same
      BY <2>1, <2>2, Zenon
    <2> QED
      BY <2>3, Zenon DEF Same
  <1>17. CASE n = 0
    <2>1. FlattenSeq(block) = block
      BY <1>9, <1>17 DEF FlattenSeq
    <2>2. block = << >>
      BY <1>8, <1>17 DEF block
    <2>3. [j \in 1 .. T[n] |-> wide[j - 1]] = << >>
      BY <1>2, <1>17
    <2> QED
      BY <1>6, <1>10, <2>1, <2>2, <2>3
  <1>18. CASE n # 0
    <2>1. n \in 1 .. n
      BY <1>1, <1>18
    <2>2. FlattenSeq(block) = flatten[n]
      BY <1>9, <1>18 DEF FlattenSeq
    <2> QED
      BY <1>6, <1>7, <1>10, <1>16, <1>18, <2>1, <2>2
  <1> QED
    BY <1>17, <1>18

-----------------------------------------------------------------------------
(* An operation of the table.  What it supports it supports in full.        *)
OperationOK(op) ==
  /\ op = [ins |-> op.ins, outs |-> op.outs, supportSize |-> op.supportSize, isValid |-> op.isValid]
  /\ \E X : op.ins \in IrLists(X)
  /\ \E X : op.outs \in IrLists(X)
  /\ op.isValid => AllHave(op.ins, op.supportSize) /\ AllHave(op.outs, op.supportSize)

TableOK == \A k \in DOMAIN data : OperationOK(data[k])

(* The tensors of a side of a section that parses.                          *)
LEMMA IrsOfType ==
  ASSUME NEW entries, NEW side, Parses(entries)
  PROVE  \E X : IrsOf(entries, side) \in IrLists(X)
  <1> DEFINE seen == {key \in DOMAIN entries : key[1] = side /\ key[3] # "name"}
             sizes == {0} \cup {key[2] + 1 : key \in seen}
             irs == IrsOf(entries, side)
  <1>1. MAX_TENSOR_INDEX \in 1 .. MAX_SIZE /\ MAX_SIZE \in Nat /\ MAX_TENSOR_INDEX \in Nat
    BY OperationIrAssumption, SVectorAssumption
  <1>2. \A key \in seen : key[2] \in 0 .. MAX_TENSOR_INDEX - 1
    BY DEF Parses, Accepts
  <1>3. sizes \subseteq 0 .. MAX_TENSOR_INDEX /\ sizes # {}
    BY <1>1, <1>2
  <1>4. irs.size = Max(sizes)
    BY DEF IrsOf
  <1> HIDE DEF sizes
  <1>5. irs.size \in 0 .. MAX_SIZE
    <2>1. Max(sizes) \in sizes
      BY <1>1, <1>3, MaxExists, Zenon
    <2>2. Max(sizes) \in 0 .. MAX_TENSOR_INDEX
      BY <1>3, <2>1, Zenon
    <2>3. Max(sizes) \in 0 .. MAX_SIZE
      BY <1>1, <2>2
    <2> QED
      BY <1>4, <2>3, Zenon
  <1>6. irs = [storage |-> irs.storage, size |-> irs.size] /\ irs.storage = [i \in Slots |-> irs.storage[i]]
    BY DEF IrsOf
  <1> HIDE DEF irs
  <1>7. irs.storage \in [Slots -> {irs.storage[i] : i \in Slots}]
    BY <1>6
  <1>8. irs \in IrLists({irs.storage[i] : i \in Slots})
    BY <1>5, <1>6, <1>7 DEF IrLists
  <1> QED
    BY <1>8 DEF irs

LEMMA ParsedOK ==
  ASSUME NEW entries, Parses(entries)
  PROVE  OperationOK(Parse(entries))
  <1> DEFINE ins == IrsOf(entries, "input")
             outs == IrsOf(entries, "output")
             n == IF ins.size > 0 THEN Len(ins.storage[0].dtypes)
                  ELSE IF outs.size > 0 THEN Len(outs.storage[0].dtypes) ELSE 0
             valid == n # 0 /\ AllHave(ins, n) /\ AllHave(outs, n)
  <1>1. Parse(entries) = [ins |-> ins, outs |-> outs, supportSize |-> n, isValid |-> valid]
    BY DEF Parse, InitIsValid
  <1>2. (\E X : ins \in IrLists(X)) /\ (\E X : outs \in IrLists(X))
    BY IrsOfType
  <1>3. valid => AllHave(ins, n) /\ AllHave(outs, n)
    OBVIOUS
  <1> HIDE DEF ins, outs, n, valid
  <1> QED
    BY <1>1, <1>2, <1>3 DEF OperationOK

(* Spread, the tensors have what they had.                                  *)
LEMMA ExtendedHas ==
  ASSUME NEW X, NEW irs \in IrLists(X), NEW lens, Suited(irs, lens), NEW n, AllHave(irs, n)
  PROVE  AllHave(Extended(irs, lens), n)
  <1>1. SUFFICES ASSUME NEW j \in 0 .. TotalLen(lens) - 1
                 PROVE  IrHas(Extended(irs, lens).storage[j], n)
    BY ExtendedSpreads DEF AllHave
  <1>2. lens.size = irs.size
    BY DEF Suited, Suits
  <1>3. PICK m \in 0 .. irs.size - 1 : j \in StartOf(lens)[m] .. StartOf(lens)[m + 1] - 1
    BY <1>2, PlacesCovered DEF TotalLen, Suited
  <1>4. Extended(irs, lens).storage[j] = irs.storage[m]
    BY <1>3, ExtendedSpreads
  <1> QED
    BY <1>3, <1>4 DEF AllHave

(* What a caller gives whose lengths suit the tensors.                      *)
LEMMA SuitedLens ==
  ASSUME NEW irs, vec \in Vectors, Suits(vec, irs), CanExtend(irs, vec)
  PROVE  Suited(irs, vec)
  BY DEF Suited, CanExtend, Lengths

LEMMA SpreadOK ==
  ASSUME NEW irs, \E X : irs \in IrLists(X), vec \in Vectors, Suits(vec, irs), CanExtend(irs, vec)
  PROVE  /\ \E X : Extended(irs, vec) \in IrLists(X)
         /\ \A n : AllHave(irs, n) => AllHave(Extended(irs, vec), n)
  <1>1. Suited(irs, vec)
    BY SuitedLens
  <1>2. PICK X : irs \in IrLists(X)
    OBVIOUS
  <1> QED
    BY <1>1, <1>2, ExtendedSpreads, ExtendedHas, Zenon

LEMMA LoadKeepsTable ==
  ASSUME TableOK, NEW file \in Files, Load(file)
  PROVE  TableOK'
  <1> DEFINE sections == ParseIniFileToMap(file)
             refused == {k \in DOMAIN sections : k \in InvalidOpKeys \/ ~Parses(sections[k])}
             loaded == {k \in DOMAIN sections \ refused : \A r \in refused : k < r}
             read == [k \in loaded |-> Parse(sections[k])]
  <1>1. data' = Joined(data, read)
    BY DEF Load
  <1>2. \A k \in loaded : Parses(sections[k]) /\ read[k] = Parse(sections[k])
    OBVIOUS
  <1>3. DOMAIN read = loaded
    OBVIOUS
  <1> HIDE DEF sections, loaded, read
  <1>4. \A k \in loaded : OperationOK(read[k])
    BY <1>2, ParsedOK, Zenon
  <1>5. /\ DOMAIN data' = DOMAIN data \cup loaded
        /\ \A k \in DOMAIN data' : data'[k] = IF k \in DOMAIN data THEN data[k] ELSE read[k]
    <2>1. data' = [k \in DOMAIN data \cup DOMAIN read |->
                     IF k \in DOMAIN data THEN data[k] ELSE read[k]]
      BY <1>1, Zenon DEF Joined
    <2> QED
      BY <1>3, <2>1
  <1>6. \A k \in DOMAIN data' : OperationOK(data'[k])
    BY <1>4, <1>5, Zenon DEF TableOK
  <1> QED
    BY <1>6 DEF TableOK, OperationOK

LEMMA ExtendInKeepsTable ==
  ASSUME TypeOK, TableOK, ~AnyLens, NEW k \in DOMAIN data, ExtendIn(k)
  PROVE  TableOK'
  <1> DEFINE op == data[k]
             wide == Extended(op.ins, vec)
             new == [op EXCEPT !.ins = wide]
  <1>1. vec \in Vectors /\ Suits(vec, op.ins) /\ CanExtend(op.ins, vec) /\ OperationOK(op)
    BY DEF ExtendIn, TypeOK, TableOK
  <1>2. data' = [data EXCEPT ![k] = new]
    BY DEF ExtendIn
  <1>3. (\E X : wide \in IrLists(X)) /\ \A n : AllHave(op.ins, n) => AllHave(wide, n)
    BY <1>1, SpreadOK, Zenon DEF OperationOK
  <1>4. new = [ins |-> wide, outs |-> op.outs, supportSize |-> op.supportSize, isValid |-> op.isValid]
    BY <1>1 DEF OperationOK
  <1>5. /\ DOMAIN data' = DOMAIN data
        /\ \A i \in DOMAIN data : data'[i] = IF i = k THEN new ELSE data[i]
    BY <1>2
  <1> HIDE DEF wide, new
  <1>6. /\ new.ins = wide /\ new.outs = op.outs
        /\ new.supportSize = op.supportSize /\ new.isValid = op.isValid
    BY <1>4
  <1>7. OperationOK(new)
    BY <1>1, <1>3, <1>4, <1>6, Zenon DEF OperationOK
  <1>8. \A i \in DOMAIN data' : OperationOK(data'[i])
    BY <1>5, <1>7, Zenon DEF TableOK
  <1> QED
    BY <1>8 DEF TableOK, OperationOK

LEMMA ExtendOutKeepsTable ==
  ASSUME TypeOK, TableOK, ~AnyLens, NEW k \in DOMAIN data, ExtendOut(k)
  PROVE  TableOK'
  <1> DEFINE op == data[k]
             wide == Extended(op.outs, vec)
             new == [op EXCEPT !.outs = wide]
  <1>1. vec \in Vectors /\ Suits(vec, op.outs) /\ CanExtend(op.outs, vec) /\ OperationOK(op)
    BY DEF ExtendOut, TypeOK, TableOK
  <1>2. data' = [data EXCEPT ![k] = new]
    BY DEF ExtendOut
  <1>3. (\E X : wide \in IrLists(X)) /\ \A n : AllHave(op.outs, n) => AllHave(wide, n)
    BY <1>1, SpreadOK, Zenon DEF OperationOK
  <1>4. new = [ins |-> op.ins, outs |-> wide, supportSize |-> op.supportSize, isValid |-> op.isValid]
    BY <1>1 DEF OperationOK
  <1>5. /\ DOMAIN data' = DOMAIN data
        /\ \A i \in DOMAIN data : data'[i] = IF i = k THEN new ELSE data[i]
    BY <1>2
  <1> HIDE DEF wide, new
  <1>6. /\ new.ins = op.ins /\ new.outs = wide
        /\ new.supportSize = op.supportSize /\ new.isValid = op.isValid
    BY <1>4
  <1>7. OperationOK(new)
    BY <1>1, <1>3, <1>4, <1>6, Zenon DEF OperationOK
  <1>8. \A i \in DOMAIN data' : OperationOK(data'[i])
    BY <1>5, <1>7, Zenon DEF TableOK
  <1> QED
    BY <1>8 DEF TableOK, OperationOK

(* The inductive invariant of the table: what it supports, it supports for  *)
(* all its tensors.                                                         *)
LEMMA TableHolds ==
  ASSUME ~AnyLens
  PROVE  Spec => []TableOK
  <1>1. InitIr => TableOK
    BY DEF InitIr, Nothing, TableOK
  <1>2. TypeOK /\ TableOK /\ [Next]_<<vec, data, meant>> => TableOK'
    <2> SUFFICES ASSUME TypeOK, TableOK, [Next]_<<vec, data, meant>>
                 PROVE  TableOK'
      OBVIOUS
    <2>1. CASE UNCHANGED data
      BY <2>1 DEF TableOK, OperationOK
    <2>2. ASSUME NEW file \in Files, Load(file)
          PROVE  TableOK'
      BY <2>2, LoadKeepsTable
    <2>3. ASSUME NEW k \in DOMAIN data, ExtendIn(k) \/ ExtendOut(k)
          PROVE  TableOK'
      BY <2>3, ExtendInKeepsTable, ExtendOutKeepsTable
    <2> QED
      BY <2>1, <2>2, <2>3 DEF Next, irVars
  <1>3. Spec => []TypeOK
    BY TableVectors, TypeCorrect, PTL
  <1> QED
    BY <1>1, <1>2, <1>3, PTL DEF Spec

(* Of every valid operation GetCombString reads, of each tensor, no more    *)
(* types and formats than it has, however the lists have been spread since  *)
(* isValid_ was computed: a spread tensor is one of those there were.       *)
(* Callers must give lengths that suit the tensors.                         *)
THEOREM CombsAreReadable ==
  ASSUME ~AnyLens
  PROVE  Spec => []CombsReadable
  <1>1. TableOK => CombsReadable
    <2> SUFFICES ASSUME TableOK, NEW k \in DOMAIN data, NEW read \in CombReads(data[k])
                 PROVE  read[2] <= Len(read[1].dtypes) /\ read[2] <= Len(read[1].formats)
      BY DEF CombsReadable
    <2> DEFINE op == data[k]
    <2>1. /\ op.isValid /\ read[2] \in 1 .. op.supportSize
          /\ read[1] \in IrsIn(op.ins) \cup IrsIn(op.outs)
      BY DEF CombReads
    <2>2. AllHave(op.ins, op.supportSize) /\ AllHave(op.outs, op.supportSize)
      BY <2>1 DEF TableOK, OperationOK
    <2>3. IrHas(read[1], op.supportSize)
      BY <2>1, <2>2 DEF IrsIn, AllHave
    <2> QED
      BY <2>1, <2>3 DEF IrHas
  <1> QED
    BY <1>1, TableHolds, PTL

-----------------------------------------------------------------------------
(* A field of a tensor, looked up in what was read and in the lines.        *)
KeysSeen(entries, side) == {key \in DOMAIN entries : key[1] = side /\ key[3] # "name"}
FieldSeen(entries, side, n, f, default) ==
  IF <<side, n, f>> \in KeysSeen(entries, side) THEN entries[<<side, n, f>>] ELSE default

LinesOfSide(file, S, side) == {i \in S : file[i].key[1] = side /\ file[i].key[3] # "name"}
LinesOf(file, S, side, n, f) == {i \in LinesOfSide(file, S, side) : file[i].key = <<side, n, f>>}
FieldFound(file, S, side, n, f, default) ==
  IF LinesOf(file, S, side, n, f) = {} THEN default
  ELSE file[Min(LinesOf(file, S, side, n, f))].value

LEMMA SameField ==
  ASSUME NEW file, IsFile(file), NEW S \in SUBSET DOMAIN file, NEW side, NEW n, NEW f, f # "name",
         NEW default
  PROVE  FieldSeen(EntriesOf(file, S), side, n, f, default)
           = FieldFound(file, S, side, n, f, default)
  <1> DEFINE k == <<side, n, f>>
             at == {i \in S : file[i].key = k}
             entries == EntriesOf(file, S)
  <1>1. /\ DOMAIN entries = {file[i].key : i \in S}
        /\ k \in {file[i].key : i \in S} => entries[k] = file[Min(at)].value
    <2>1. entries = EntriesSaid(file, S)
      BY EntriesHave
    <2> HIDE DEF entries
    <2> QED
      BY <2>1 DEF EntriesSaid
  <1>2. k[1] = side /\ k[3] = f
    OBVIOUS
  <1> HIDE DEF k
  <1>3. LinesOf(file, S, side, n, f) = at
    BY <1>2 DEF LinesOf, LinesOfSide, k
  <1>4. k \in {file[i].key : i \in S} <=> at # {}
    OBVIOUS
  <1> HIDE DEF at, entries
  <1>5. k \in KeysSeen(entries, side) <=> k \in {file[i].key : i \in S}
    BY <1>1, <1>2 DEF KeysSeen
  <1> QED
    BY <1>1, <1>3, <1>4, <1>5 DEF FieldSeen, FieldFound, k, entries

(* The tensors of a side as the code makes them are those the lines mean.   *)
LEMMA IrsMean ==
  ASSUME NEW file, IsFile(file), NEW S \in SUBSET DOMAIN file, NEW side, Parses(EntriesOf(file, S))
  PROVE  ListOf(IrsOf(EntriesOf(file, S), side))
           = [n \in 1 .. Max({0} \cup {file[i].key[2] + 1 : i \in LinesOfSide(file, S, side)}) |->
                [dtypes |-> FieldFound(file, S, side, n - 1, "dtype", << >>),
                 formats |-> FieldFound(file, S, side, n - 1, "format", << >>),
                 isOptional |-> FieldFound(file, S, side, n - 1, "optional", FALSE)]]
  <1> DEFINE entries == EntriesOf(file, S)
             irs == IrsOf(entries, side)
             sizes == {0} \cup {file[i].key[2] + 1 : i \in LinesOfSide(file, S, side)}
             ir(n) == [dtypes |-> FieldFound(file, S, side, n, "dtype", << >>),
                       formats |-> FieldFound(file, S, side, n, "format", << >>),
                       isOptional |-> FieldFound(file, S, side, n, "optional", FALSE)]
  <1>1. DOMAIN entries = {file[i].key : i \in S}
    <2>1. entries = EntriesSaid(file, S)
      BY EntriesHave
    <2> HIDE DEF entries
    <2> QED
      BY <2>1 DEF EntriesSaid
  <1> HIDE DEF entries
  <1>2. irs = [storage |-> [n \in Slots |->
                 [dtypes |-> FieldSeen(entries, side, n, "dtype", << >>),
                  formats |-> FieldSeen(entries, side, n, "format", << >>),
                  isOptional |-> FieldSeen(entries, side, n, "optional", FALSE)]],
               size |-> Max({0} \cup {key[2] + 1 : key \in KeysSeen(entries, side)})]
    BY Zenon DEF IrsOf, FieldSeen, KeysSeen
  <1>3. {0} \cup {key[2] + 1 : key \in KeysSeen(entries, side)} = sizes
    BY <1>1 DEF KeysSeen, LinesOfSide
  <1>4. \A n : /\ FieldSeen(entries, side, n, "dtype", << >>) = FieldFound(file, S, side, n, "dtype", << >>)
               /\ FieldSeen(entries, side, n, "format", << >>) = FieldFound(file, S, side, n, "format", << >>)
               /\ FieldSeen(entries, side, n, "optional", FALSE) = FieldFound(file, S, side, n, "optional", FALSE)
    <2>1. "dtype" # "name" /\ "format" # "name" /\ "optional" # "name"
      OBVIOUS
    <2> QED
      BY <2>1, SameField, Zenon DEF entries
  <1>5. irs.size = Max(sizes) /\ \A n \in Slots : irs.storage[n] = ir(n)
    <2> HIDE DEF irs, sizes
    <2>1. irs.size = Max(sizes)
      BY <1>2, <1>3
    <2>2. irs.storage = [n \in Slots |->
                           [dtypes |-> FieldSeen(entries, side, n, "dtype", << >>),
                            formats |-> FieldSeen(entries, side, n, "format", << >>),
                            isOptional |-> FieldSeen(entries, side, n, "optional", FALSE)]]
      BY <1>2, Zenon
    <2> DEFINE seen(n) == [dtypes |-> FieldSeen(entries, side, n, "dtype", << >>),
                           formats |-> FieldSeen(entries, side, n, "format", << >>),
                           isOptional |-> FieldSeen(entries, side, n, "optional", FALSE)]
    <2>3. \A n : seen(n) = ir(n)
      BY <1>4, Zenon
    <2> HIDE DEF seen, ir
    <2>4. irs.storage = [n \in Slots |-> seen(n)]
      BY <2>2, Zenon DEF seen
    <2>5. \A n \in Slots : irs.storage[n] = ir(n)
      BY <2>3, <2>4
    <2> QED
      BY <2>1, <2>5
  <1>6. irs.size \in 0 .. MAX_SIZE
    <2>1. \E X : irs \in IrLists(X)
      BY IrsOfType DEF entries
    <2> QED
      BY <2>1 DEF IrLists
  <1> HIDE DEF irs, sizes, ir
  <1>7. \A n \in 1 .. irs.size : irs.storage[n - 1] = ir(n - 1)
    <2>1. MAX_SIZE \in Nat
      BY SVectorAssumption
    <2>2. \A n \in 1 .. irs.size : n - 1 \in Slots
      BY <1>6, <2>1 DEF Slots
    <2> QED
      BY <1>5, <2>2
  <1>8. ListOf(irs) = [n \in 1 .. Max(sizes) |-> ir(n - 1)]
    BY <1>5, <1>7 DEF ListOf
  <1> QED
    BY <1>8 DEF ir, irs, sizes, entries

(* What Load reads of a section and what the section means.                 *)
LEMMA SectionRead ==
  ASSUME NEW file \in Files, Tidy(file), NEW k \in DOMAIN ParseIniFileToMap(file),
         Parses(ParseIniFileToMap(file)[k]), NEW side
  PROVE  ListOf(IrsOf(ParseIniFileToMap(file)[k], side)) = MeantBy(file, k, side)
  <1> DEFINE S == FirstSection(file, k)
  <1>1. IsFile(file)
    BY OperationIrAssumption
  <1>2. ParseIniFileToMap(file)
          = [name \in {n \in {NameAt(file, h) : h \in DOMAIN file} : SectionsOf(file, n) # {}} |->
               EntriesOf(file, FirstSection(file, name))]
    BY <1>1, ReadHas
  <1>3. SectionsOf(file, k) # {} /\ ParseIniFileToMap(file)[k] = EntriesOf(file, S)
    BY <1>2
  <1>4. S \in SUBSET DOMAIN file
    BY <1>1, <1>3, SectionFirst
  <1>5. MeantBy(file, k, side)
           = [m \in 1 .. Max({0} \cup {file[i].key[2] + 1 : i \in LinesOfSide(file, S, side)}) |->
                [dtypes |-> FieldFound(file, S, side, m - 1, "dtype", << >>),
                 formats |-> FieldFound(file, S, side, m - 1, "format", << >>),
                 isOptional |-> FieldFound(file, S, side, m - 1, "optional", FALSE)]]
    BY Zenon DEF MeantBy, FieldFound, LinesOf, LinesOfSide
  <1> HIDE DEF S
  <1>6. Parses(EntriesOf(file, S))
    BY <1>3
  <1>7. ListOf(IrsOf(EntriesOf(file, S), side)) = MeantBy(file, k, side)
    BY <1>1, <1>4, <1>5, <1>6, IrsMean
  <1> QED
    BY <1>3, <1>7

-----------------------------------------------------------------------------
(* What the ghost says of an operation.                                     *)
MeantOK == \A k \in DOMAIN meant : meant[k] = [ins |-> meant[k].ins, outs |-> meant[k].outs]

LEMMA MeaningIs ==
  ASSUME NEW file \in Files, NEW k \in DOMAIN ParseIniFileToMap(file),
         Parses(ParseIniFileToMap(file)[k])
  PROVE  Meaning(file, k, Parse(ParseIniFileToMap(file)[k]))
           = [ins |-> ListOf(Parse(ParseIniFileToMap(file)[k]).ins),
              outs |-> ListOf(Parse(ParseIniFileToMap(file)[k]).outs)]
  <1> DEFINE entries == ParseIniFileToMap(file)[k]
             op == Parse(entries)
  <1>1. op.ins = IrsOf(entries, "input") /\ op.outs = IrsOf(entries, "output")
    BY DEF Parse, InitIsValid
  <1>2. Tidy(file) => /\ ListOf(IrsOf(entries, "input")) = MeantBy(file, k, "input")
                      /\ ListOf(IrsOf(entries, "output")) = MeantBy(file, k, "output")
    BY SectionRead
  <1> HIDE DEF entries, op
  <1> QED
    BY <1>1, <1>2, Zenon DEF Meaning, op, entries

LEMMA LoadIsMeant ==
  ASSUME AsMeant, MeantOK, NEW file \in Files, Load(file)
  PROVE  AsMeant' /\ MeantOK'
  <1> DEFINE sections == ParseIniFileToMap(file)
             refused == {k \in DOMAIN sections : k \in InvalidOpKeys \/ ~Parses(sections[k])}
             loaded == {k \in DOMAIN sections \ refused : \A r \in refused : k < r}
             read == [k \in loaded |-> Parse(sections[k])]
             means == [k \in loaded |-> Meaning(file, k, Parse(sections[k]))]
  <1>1. data' = Joined(data, read) /\ meant' = Joined(meant, means)
    BY DEF Load
  <1>2. \A k \in loaded : k \in DOMAIN sections /\ Parses(sections[k])
    OBVIOUS
  <1>3. /\ DOMAIN read = loaded /\ DOMAIN means = loaded
        /\ \A k \in loaded : read[k] = Parse(sections[k])
        /\ \A k \in loaded : means[k] = Meaning(file, k, Parse(sections[k]))
    OBVIOUS
  <1> HIDE DEF loaded, read, means
  <1>4. \A k \in loaded : means[k] = [ins |-> ListOf(read[k].ins), outs |-> ListOf(read[k].outs)]
    BY <1>2, <1>3, MeaningIs
  <1> HIDE DEF sections
  <1>5. /\ data' = [k \in DOMAIN data \cup DOMAIN read |-> IF k \in DOMAIN data THEN data[k] ELSE read[k]]
        /\ meant' = [k \in DOMAIN meant \cup DOMAIN means |-> IF k \in DOMAIN meant THEN meant[k] ELSE means[k]]
    BY <1>1, Zenon DEF Joined
  <1>6. /\ DOMAIN data' = DOMAIN data \cup loaded /\ DOMAIN meant' = DOMAIN data \cup loaded
        /\ \A k \in DOMAIN data : data'[k] = data[k] /\ meant'[k] = meant[k]
        /\ \A k \in loaded : k \notin DOMAIN data => data'[k] = read[k] /\ meant'[k] = means[k]
    BY <1>3, <1>5 DEF AsMeant
  <1>7. ASSUME NEW k \in DOMAIN data'
        PROVE  /\ meant'[k] = [ins |-> meant'[k].ins, outs |-> meant'[k].outs]
               /\ ListOf(data'[k].ins) = meant'[k].ins /\ ListOf(data'[k].outs) = meant'[k].outs
    <2>1. CASE k \in DOMAIN data
      <3>1. /\ meant[k] = [ins |-> meant[k].ins, outs |-> meant[k].outs]
            /\ ListOf(data[k].ins) = meant[k].ins /\ ListOf(data[k].outs) = meant[k].outs
        BY <2>1, Zenon DEF AsMeant, MeantOK
      <3>2. data'[k] = data[k] /\ meant'[k] = meant[k]
        BY <1>6, <2>1
      <3> QED
        BY <3>1, <3>2, Zenon
    <2>2. CASE k \notin DOMAIN data
      <3>1. k \in loaded /\ data'[k] = read[k] /\ meant'[k] = means[k]
        BY <1>6, <2>2
      <3>2. means[k] = [ins |-> ListOf(read[k].ins), outs |-> ListOf(read[k].outs)]
        BY <1>4, <3>1
      <3>3. means[k].ins = ListOf(read[k].ins) /\ means[k].outs = ListOf(read[k].outs)
        BY <3>2
      <3> QED
        BY <3>1, <3>2, <3>3, Zenon
    <2> QED
      BY <2>1, <2>2
  <1>8. MeantOK'
    BY <1>6, <1>7 DEF MeantOK
  <1>9. AsMeant'
    BY <1>6, <1>7 DEF AsMeant, ListOf
  <1> QED
    BY <1>8, <1>9

LEMMA ExtendInIsMeant ==
  ASSUME TypeOK, TableOK, AsMeant, MeantOK, ~AnyLens, NEW k \in DOMAIN data, ExtendIn(k)
  PROVE  AsMeant' /\ MeantOK'
  <1> DEFINE op == data[k]
             wide == Extended(op.ins, vec)
             wider == Widened(meant[k].ins, vec)
  <1>1. vec \in Vectors /\ Suits(vec, op.ins) /\ CanExtend(op.ins, vec) /\ OperationOK(op)
    BY DEF ExtendIn, TypeOK, TableOK
  <1>2. k \in DOMAIN meant /\ DOMAIN data = DOMAIN meant
    BY DEF AsMeant
  <1>3. data' = [data EXCEPT ![k] = [op EXCEPT !.ins = wide]]
    BY DEF ExtendIn
  <1>4. meant' = [meant EXCEPT ![k] = [meant[k] EXCEPT !.ins = wider]]
    BY <1>1, <1>2 DEF ExtendIn
  <1>5. ListOf(wide) = wider
    <2>1. PICK X : op.ins \in IrLists(X)
      BY <1>1 DEF OperationOK
    <2>2. Suited(op.ins, vec)
      BY <1>1, SuitedLens
    <2>3. ListOf(op.ins) = meant[k].ins
      BY DEF AsMeant
    <2>4. ListOf(Extended(op.ins, vec)) = Widened(ListOf(op.ins), vec)
      BY <2>1, <2>2, ListsAreWidened
    <2> QED
      BY <2>3, <2>4, Zenon
  <1>6. [op EXCEPT !.ins = wide]
          = [ins |-> wide, outs |-> op.outs, supportSize |-> op.supportSize, isValid |-> op.isValid]
    BY <1>1 DEF OperationOK
  <1>7. [meant[k] EXCEPT !.ins = wider] = [ins |-> wider, outs |-> meant[k].outs]
    BY <1>2 DEF MeantOK
  <1>8. ListOf(op.outs) = meant[k].outs
    BY DEF AsMeant
  <1> HIDE DEF op, wide, wider
  <1>9. /\ DOMAIN data' = DOMAIN data /\ DOMAIN meant' = DOMAIN data
        /\ data'[k] = [ins |-> wide, outs |-> op.outs, supportSize |-> op.supportSize, isValid |-> op.isValid]
        /\ meant'[k] = [ins |-> wider, outs |-> meant[k].outs]
        /\ \A i \in DOMAIN data : i # k => data'[i] = data[i] /\ meant'[i] = meant[i]
    BY <1>2, <1>3, <1>4, <1>6, <1>7
  <1>10. /\ data'[k].ins = wide /\ data'[k].outs = op.outs
         /\ meant'[k].ins = wider /\ meant'[k].outs = meant[k].outs
    BY <1>9
  <1>11. ASSUME NEW i \in DOMAIN data
         PROVE  /\ meant'[i] = [ins |-> meant'[i].ins, outs |-> meant'[i].outs]
                /\ ListOf(data'[i].ins) = meant'[i].ins /\ ListOf(data'[i].outs) = meant'[i].outs
    <2>1. CASE i = k
      BY <1>5, <1>8, <1>9, <1>10, <2>1, Zenon
    <2>2. CASE i # k
      <3>1. data'[i] = data[i] /\ meant'[i] = meant[i]
        BY <1>9, <2>2
      <3>2. /\ meant[i] = [ins |-> meant[i].ins, outs |-> meant[i].outs]
            /\ ListOf(data[i].ins) = meant[i].ins /\ ListOf(data[i].outs) = meant[i].outs
        BY <1>2, Zenon DEF AsMeant, MeantOK
      <3> QED
        BY <3>1, <3>2, Zenon
    <2> QED
      BY <2>1, <2>2
  <1>12. MeantOK'
    BY <1>9, <1>11 DEF MeantOK
  <1>13. AsMeant'
    BY <1>9, <1>11 DEF AsMeant, ListOf
  <1> QED
    BY <1>12, <1>13

LEMMA ExtendOutIsMeant ==
  ASSUME TypeOK, TableOK, AsMeant, MeantOK, ~AnyLens, NEW k \in DOMAIN data, ExtendOut(k)
  PROVE  AsMeant' /\ MeantOK'
  <1> DEFINE op == data[k]
             wide == Extended(op.outs, vec)
             wider == Widened(meant[k].outs, vec)
  <1>1. vec \in Vectors /\ Suits(vec, op.outs) /\ CanExtend(op.outs, vec) /\ OperationOK(op)
    BY DEF ExtendOut, TypeOK, TableOK
  <1>2. k \in DOMAIN meant /\ DOMAIN data = DOMAIN meant
    BY DEF AsMeant
  <1>3. data' = [data EXCEPT ![k] = [op EXCEPT !.outs = wide]]
    BY DEF ExtendOut
  <1>4. meant' = [meant EXCEPT ![k] = [meant[k] EXCEPT !.outs = wider]]
    BY <1>1, <1>2 DEF ExtendOut
  <1>5. ListOf(wide) = wider
    <2>1. PICK X : op.outs \in IrLists(X)
      BY <1>1 DEF OperationOK
    <2>2. Suited(op.outs, vec)
      BY <1>1, SuitedLens
    <2>3. ListOf(op.outs) = meant[k].outs
      BY DEF AsMeant
    <2>4. ListOf(Extended(op.outs, vec)) = Widened(ListOf(op.outs), vec)
      BY <2>1, <2>2, ListsAreWidened
    <2> QED
      BY <2>3, <2>4, Zenon
  <1>6. [op EXCEPT !.outs = wide]
          = [ins |-> op.ins, outs |-> wide, supportSize |-> op.supportSize, isValid |-> op.isValid]
    BY <1>1 DEF OperationOK
  <1>7. [meant[k] EXCEPT !.outs = wider] = [ins |-> meant[k].ins, outs |-> wider]
    BY <1>2 DEF MeantOK
  <1>8. ListOf(op.ins) = meant[k].ins
    BY DEF AsMeant
  <1> HIDE DEF op, wide, wider
  <1>9. /\ DOMAIN data' = DOMAIN data /\ DOMAIN meant' = DOMAIN data
        /\ data'[k] = [ins |-> op.ins, outs |-> wide, supportSize |-> op.supportSize, isValid |-> op.isValid]
        /\ meant'[k] = [ins |-> meant[k].ins, outs |-> wider]
        /\ \A i \in DOMAIN data : i # k => data'[i] = data[i] /\ meant'[i] = meant[i]
    BY <1>2, <1>3, <1>4, <1>6, <1>7
  <1>10. /\ data'[k].ins = op.ins /\ data'[k].outs = wide
         /\ meant'[k].ins = meant[k].ins /\ meant'[k].outs = wider
    BY <1>9
  <1>11. ASSUME NEW i \in DOMAIN data
         PROVE  /\ meant'[i] = [ins |-> meant'[i].ins, outs |-> meant'[i].outs]
                /\ ListOf(data'[i].ins) = meant'[i].ins /\ ListOf(data'[i].outs) = meant'[i].outs
    <2>1. CASE i = k
      BY <1>5, <1>8, <1>9, <1>10, <2>1, Zenon
    <2>2. CASE i # k
      <3>1. data'[i] = data[i] /\ meant'[i] = meant[i]
        BY <1>9, <2>2
      <3>2. /\ meant[i] = [ins |-> meant[i].ins, outs |-> meant[i].outs]
            /\ ListOf(data[i].ins) = meant[i].ins /\ ListOf(data[i].outs) = meant[i].outs
        BY <1>2, Zenon DEF AsMeant, MeantOK
      <3> QED
        BY <3>1, <3>2, Zenon
    <2> QED
      BY <2>1, <2>2
  <1>12. MeantOK'
    BY <1>9, <1>11 DEF MeantOK
  <1>13. AsMeant'
    BY <1>9, <1>11 DEF AsMeant, ListOf
  <1> QED
    BY <1>12, <1>13

(* Whatever the files and the order of calls, the table says of every       *)
(* operation what the lines of its section say, spread by the lengths that  *)
(* callers gave: collecting sections line by line loses and mixes nothing,  *)
(* also if a Load ends half way, and tensors spread within one array do not *)
(* overwrite those still to be copied.  Callers must give lengths that suit *)
(* the tensors.                                                             *)
THEOREM TableIsAsMeant ==
  ASSUME ~AnyLens
  PROVE  Spec => []AsMeant
  <1> DEFINE MInv == AsMeant /\ MeantOK
  <1>1. InitIr => MInv
    BY DEF InitIr, Nothing, AsMeant, MeantOK
  <1>2. TypeOK /\ TableOK /\ MInv /\ [Next]_<<vec, data, meant>> => MInv'
    <2> SUFFICES ASSUME TypeOK, TableOK, MInv, [Next]_<<vec, data, meant>>
                 PROVE  MInv'
      OBVIOUS
    <2>1. CASE UNCHANGED <<data, meant>>
      BY <2>1 DEF AsMeant, MeantOK, ListOf
    <2>2. ASSUME NEW file \in Files, Load(file)
          PROVE  MInv'
      BY <2>2, LoadIsMeant
    <2>3. ASSUME NEW k \in DOMAIN data, ExtendIn(k) \/ ExtendOut(k)
          PROVE  MInv'
      BY <2>3, ExtendInIsMeant, ExtendOutIsMeant
    <2> QED
      BY <2>1, <2>2, <2>3 DEF Next, irVars
  <1>3. MInv => AsMeant
    OBVIOUS
  <1>4. Spec => [](TypeOK /\ TableOK)
    BY TableVectors, TypeCorrect, TableHolds, PTL
  <1> QED
    BY <1>1, <1>2, <1>3, <1>4, PTL DEF Spec
=============================================================================
