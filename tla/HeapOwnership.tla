---------------------------- MODULE HeapOwnership ----------------------------
(***************************************************************************)
(* What a heap shared by several owners promises: a block has at most one  *)
(* owner, and a step only takes free blocks for one owner or gives that    *)
(* owner's blocks back.  No block ever passes from an owner to another.    *)
(***************************************************************************)
CONSTANTS
  Blocks,  \* the blocks of the heap
  Owners,  \* who may own them
  Nobody   \* owner of a free block, none of Owners

VARIABLE owner

Init == owner = [b \in Blocks |-> Nobody]

(* Owner o takes free blocks and gives back blocks of its own.              *)
Exchange(o) ==
  /\ owner' \in [Blocks -> Owners \cup {Nobody}]
  /\ \A b \in Blocks :
       \/ owner'[b] = owner[b]
       \/ owner[b] = Nobody /\ owner'[b] = o
       \/ owner[b] = o /\ owner'[b] = Nobody

Next == \E o \in Owners : Exchange(o)

Spec == Init /\ [][Next]_owner
=============================================================================
