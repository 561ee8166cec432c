\* Three processes that may die at any point, and a semaphore that is waited
\* for as long as it takes.  All processes may be gone or wait for a semaphore
\* that a dead one held, so nothing need be left to do.
SPECIFICATION Spec
CONSTANTS
  Procs = {p1, p2, p3}
  Segments = {s1, s2, s3, s4}
  NONE = NONE
  Zeroed = Zeroed
  GivesUp = FALSE
  Crashes = TRUE
SYMMETRY Interchangeable
INVARIANTS MutualExclusion OneMemory
PROPERTY NothingWiped
CHECK_DEADLOCK FALSE
