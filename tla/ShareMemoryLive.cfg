\* Two processes that may die, and a wait for the semaphore that ends.
SPECIFICATION FairSpec
CONSTANTS
  Procs = {p1, p2}
  Segments = {s1, s2, s3}
  NONE = NONE
  Zeroed = Zeroed
  GivesUp = TRUE
  Crashes = TRUE
PROPERTY GetsThrough
