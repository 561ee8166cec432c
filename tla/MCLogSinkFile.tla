---------------------------- MODULE MCLogSinkFile ----------------------------
(* Small instances of LogSinkFile for TLC. *)
EXTENDS LogSinkFile, TLC

Interchangeable == Permutations(Procs)
=============================================================================
