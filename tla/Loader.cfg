\* Libraries whose binaries may be flawed, runtime calls that may fail, and a
\* load at process start and exit.  The program ends.
SPECIFICATION Spec
CONSTANTS
  Library <- MCLibrary
  Directories <- MCDirectories
  NoName = ""
  MAX_FILE_LINE_NUM = 20000
  SocVersions = {"Ascend910B1", "Ascend310P3", "Ascend910", ""}
  Modules = {m1, m2, m3, m4}
  NONE = NONE
  Transient = TRUE
INVARIANTS Complete HandedOut PlatformAsConfigured CloneLikePrototype LoadedMeansRegistered ModulesReturned
SYMMETRY Symmetry
CHECK_DEADLOCK FALSE
