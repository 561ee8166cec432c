\* At most two attributes and objects, some of them too large for a file.
SPECIFICATION Spec
CONSTANTS
  AttrNames <- MCAttrNames
  InvalidNames <- MCInvalidNames
  Values <- MCValues
  ObjectNames <- MCObjectNames
  Lengths = {1, 5}
  MAX_FILE_SIZE = 8
  Short = FALSE
  Reuse = FALSE
  MaxEntries = 2
INVARIANTS ReadsWhole WrittenReads ObjectsInBuffer
