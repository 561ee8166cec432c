------------------------------- MODULE MCMemset -------------------------------
(* Small instances of Memset for TLC. *)
EXTENDS Memset

(* No platform; few cores with a small buffer, whose copies take several    *)
(* turns; a last core whose part goes beyond the word; more cores than a    *)
(* tensor may need.                                                         *)
MCDevices ==
  {[coreNum |-> 0, ubSize |-> 0], [coreNum |-> 2, ubSize |-> 5], [coreNum |-> 3, ubSize |-> 5],
   [coreNum |-> 5, ubSize |-> 10]}

(* None, less than a block, several blocks for one core, for all cores, and *)
(* for fewer cores than there are, the multiples of whose shares overflow.  *)
Sizes == {0, 1, 5, 10, 13}
MCCalls == [sizes : UNION {[1 .. n -> Sizes] : n \in 1 .. 2}, argsNum : {2}]
=============================================================================
