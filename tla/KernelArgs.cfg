\* Kernels of every signature in MCSignatures, initialised, cloned, reset,
\* switched and run in any order.
SPECIFICATION ArgsSpec
CONSTANTS
  Signatures <- MCSignatures
  Tilings <- MCTilings
  Rank = 1
INVARIANT DataWithinArgs
PROPERTY RunsAsDeclared
