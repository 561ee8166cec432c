\* Two processes, of which each may be started twice, keep one file each beyond
\* a directory of one, for three seconds.  Two messages fit into a file.  At the
\* bounds every process can still log, so there is no deadlock.
SPECIFICATION Spec
CONSTANTS
  Procs = {p1, p2}
  MaxFiles = 1
  MaxSize = 3
  Lengths = {1}
  Fd = 3
  Root = FALSE
  MaxTime = 2
  MaxRun = 2
SYMMETRY Interchangeable
INVARIANTS FilesBounded SizeBounded
PROPERTY ContentsKept
