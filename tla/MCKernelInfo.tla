----------------------------- MODULE MCKernelInfo -----------------------------
(* Small instances of KernelInfo for TLC. *)
EXTENDS KernelInfo, TLC

(* Blocks, callers' buffers and launches are only compared and stored.  The *)
(* kernels are not in the set: OwnerOf chooses among them.                  *)
Interchangeable ==
  Permutations(Blocks) \cup Permutations(CallerBuffers) \cup Permutations(Launches)
=============================================================================
