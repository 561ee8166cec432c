-------------------------------- MODULE SVector --------------------------------
(***************************************************************************)
(* SVector: a vector in an array of fixed size.  Taking elements away only *)
(* lowers size_; the array keeps what it held, and the constructors that   *)
(* take elements write those only.  So what lies behind size_ is anything, *)
(* and a resize that grows the vector shows it.                            *)
(*                                                                         *)
(* A call that throws (no room, an index out of range) has changed nothing *)
(* and is not a step.  The pointers the calls return are not modelled.     *)
(***************************************************************************)
EXTENDS Integers, SequencesExt

CONSTANTS
  Elems,    \* the values of T
  Default,  \* T{}
  MAX_SIZE  \* the template's capacity, DEFAULT_SVECTOR_SIZE unless given

ASSUME SVectorAssumption == Default \in Elems /\ MAX_SIZE \in Nat \ {0}

VARIABLE vec

Slots == 0 .. MAX_SIZE - 1
Storage == [Slots -> Elems]
Vectors == [storage : Storage, size : 0 .. MAX_SIZE]

TypeOK == vec \in Vectors

-----------------------------------------------------------------------------
(* The constructors: of no elements, and of n, from a list or n times the   *)
(* same, which are written over an array that holds anything.               *)
NewVector == [storage |-> [i \in Slots |-> Default], size |-> 0]

Listed(n, written, rest) ==
  [storage |-> [i \in Slots |-> IF i < n THEN written[i] ELSE rest[i]], size |-> n]

Init ==
  \/ vec = NewVector
  \/ \E n \in 0 .. MAX_SIZE, written, rest \in Storage : vec = Listed(n, written, rest)

-----------------------------------------------------------------------------
(* Mutant of Inserted: the elements are moved from the front, each onto the *)
(* next one before that has moved.                                          *)
InsertedForwards(v, p, e) ==
  [storage |-> [i \in Slots |-> IF i < p \/ i > v.size THEN v.storage[i]
                                ELSE IF i = p THEN e ELSE v.storage[p]],
   size |-> v.size + 1]

(* insert: those from p on move up by one, the last first.                  *)
Inserted(v, p, e) ==
  [storage |-> [i \in Slots |-> IF i < p \/ i > v.size THEN v.storage[i]
                                ELSE IF i = p THEN e ELSE v.storage[i - 1]],
   size |-> v.size + 1]

(* What insert finds behind a reference to the element in slot j, once the  *)
(* elements have moved.                                                     *)
ReadAfterMove(v, p, j) == v.storage[IF j <= p THEN j ELSE j - 1]

(* Mutant of Erased: the size stays.                                        *)
ErasedNot(v, a, b) ==
  [storage |-> [i \in Slots |-> IF a <= i /\ i < v.size - (b - a)
                                THEN v.storage[i + (b - a)] ELSE v.storage[i]],
   size |-> v.size]

(* erase of the slots a to b - 1; erase of one is that of a to a.  Of an    *)
(* empty range in the middle the code moves every later element onto        *)
(* itself, which leaves elements as plain as these as they were.            *)
Erased(v, a, b) ==
  [storage |-> [i \in Slots |-> IF a <= i /\ i < v.size - (b - a)
                                THEN v.storage[i + (b - a)] ELSE v.storage[i]],
   size |-> v.size - (b - a)]

Written(v, i, e) == [storage |-> [v.storage EXCEPT ![i] = e], size |-> v.size]
Resized(v, n) == [storage |-> v.storage, size |-> n]

(* operator== and operator<: the shorter vector comes first, and of two of  *)
(* one size the one with the lower element where they first differ.         *)
Equal(v, w) ==
  v.size = w.size /\ \A i \in 0 .. v.size - 1 : v.storage[i] = w.storage[i]

Less(v, w) ==
  \/ v.size < w.size
  \/ /\ v.size = w.size
     /\ \E i \in 0 .. v.size - 1 :
          /\ v.storage[i] < w.storage[i]
          /\ \A j \in 0 .. i - 1 : v.storage[j] = w.storage[j]

-----------------------------------------------------------------------------
(* push_back, and emplace_back, which destroys what the slot held.          *)
PushBack(e) ==
  /\ vec.size # MAX_SIZE
  /\ vec' = Resized(Written(vec, vec.size, e), vec.size + 1)

Insert(p, e) ==
  /\ vec.size # MAX_SIZE
  /\ p <= vec.size
  /\ vec' = Inserted(vec, p, e)

Erase(a, b) ==
  /\ b <= vec.size /\ a <= b
  /\ vec' = Erased(vec, a, b)

(* A write through operator[] or at().                                      *)
At(i, e) ==
  /\ i < vec.size
  /\ vec' = Written(vec, i, e)

Clear == vec' = Resized(vec, 0)

Resize(n) == vec' = Resized(vec, n)

NextVector ==
  \/ \E e \in Elems :
       \/ PushBack(e)
       \/ \E i \in Slots : Insert(i, e) \/ At(i, e)
  \/ \E a, b \in 0 .. MAX_SIZE : Erase(a, b)
  \/ Clear
  \/ \E n \in 0 .. MAX_SIZE : Resize(n)

SVectorSpec == Init /\ [][NextVector]_vec

-----------------------------------------------------------------------------
(***************************************************************************)
(* The vector's elements are a bounded list: whatever the array holds      *)
(* behind them, every call does to the elements what a list would do.      *)
(***************************************************************************)
ListOf(v) == [i \in 1 .. v.size |-> v.storage[i - 1]]

(* Every list in a vector of its own.                                       *)
AllLists == {Listed(n, w, NewVector.storage) : n \in 0 .. MAX_SIZE, w \in Storage}

AsList == INSTANCE BoundedList WITH list <- ListOf(vec), length <- vec.size
ImplementsList == AsList!Spec

(***************************************************************************)
(* Each call does to the vector at hand what the like operation on         *)
(* sequences does, also an insert of one of its own elements that lies no  *)
(* further back than the place, and the comparisons compare the elements   *)
(* and not the arrays: of two different vectors one is less, never the     *)
(* longer one.                                                             *)
(***************************************************************************)
CallsAsListed ==
  LET l == ListOf(vec)
  IN  /\ vec.size < MAX_SIZE =>
           \A p \in 0 .. vec.size :
             /\ \A e \in Elems : ListOf(Inserted(vec, p, e)) = InsertAt(l, p + 1, e)
             /\ \A j \in 0 .. p : j < vec.size =>
                  ListOf(Inserted(vec, p, ReadAfterMove(vec, p, j))) = InsertAt(l, p + 1, l[j + 1])
      /\ \A a, b \in 0 .. vec.size : a <= b =>
           ListOf(Erased(vec, a, b)) = SubSeq(l, 1, a) \o SubSeq(l, b + 1, vec.size)
      /\ \A w \in AllLists :
           /\ Equal(vec, w) <=> l = ListOf(w)
           /\ Equal(vec, w) <=> ~Less(vec, w) /\ ~Less(w, vec)
           /\ Less(vec, w) => vec.size <= w.size
=============================================================================
