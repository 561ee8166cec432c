------------------------------ MODULE BoundedList ------------------------------
(***************************************************************************)
(* What SVector promises: a list of at most MAX_SIZE elements.  An element *)
(* can be put anywhere into it, overwritten, and removed with those behind *)
(* it; a list that is resized keeps the elements that it still has room    *)
(* for, and those it gains are arbitrary, until they are written.          *)
(***************************************************************************)
EXTENDS Integers

CONSTANTS Elems, MAX_SIZE

VARIABLES
  list,   \* the elements, a function on 1 .. length
  length

vars == <<list, length>>

ListsOf(n) == [1 .. n -> Elems]

Init == length \in 0 .. MAX_SIZE /\ list \in ListsOf(length)

Insert(p, e) ==
  /\ length < MAX_SIZE
  /\ length' = length + 1
  /\ list' = [i \in 1 .. length + 1 |->
                IF i < p THEN list[i] ELSE IF i = p THEN e ELSE list[i - 1]]

(* The elements after the first a and up to the b-th go.                    *)
Remove(a, b) ==
  /\ length' = length - (b - a)
  /\ list' = [i \in 1 .. length - (b - a) |->
                IF i <= a THEN list[i] ELSE list[i + (b - a)]]

Write(p, e) == list' = [list EXCEPT ![p] = e] /\ UNCHANGED length

Resize(n) ==
  /\ length' = n
  /\ list' \in ListsOf(n)
  /\ \A i \in 1 .. n : i <= length => list'[i] = list[i]

Next ==
  \/ \E p \in 1 .. length + 1, e \in Elems : Insert(p, e)
  \/ \E a, b \in 0 .. length : a <= b /\ Remove(a, b)
  \/ \E p \in 1 .. length, e \in Elems : Write(p, e)
  \/ \E n \in 0 .. MAX_SIZE : Resize(n)

Spec == Init /\ [][Next]_vars
=============================================================================
