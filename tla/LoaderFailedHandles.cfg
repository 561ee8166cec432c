\* The kernel whose handle fails to initialise is handed out all the same.
SPECIFICATION Spec
CONSTANTS
  Library <- MCLibrary
  Directories <- MCDirectories
  NoName = ""
  MAX_FILE_LINE_NUM = 20000
  SocVersions = {"Ascend910B1", "Ascend310P3", "Ascend910", ""}
  Modules = {m1, m2, m3}
  NONE = NONE
  Transient = FALSE
INVARIANT KernelsAreLoaded
CHECK_DEADLOCK FALSE
