---------------------------- MODULE MCShareMemory ----------------------------
(* Small instances of ShareMemory for TLC. *)
EXTENDS ShareMemory, TLC

(* Not for liveness, which TLC does not check under symmetry.               *)
Interchangeable == Permutations(Procs) \cup Permutations(Segments)
=============================================================================
