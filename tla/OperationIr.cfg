\* Callers pass lengths that suit the tensors, and list tensors behind the others.
SPECIFICATION Spec
CONSTANTS
  Elems <- MCElems
  Default = 0
  MAX_SIZE = 3
  INT64_MAX = 7
  INT32_MAX = 2
  MAX_DIM = 2
  MAX_SHAPE_SIZE = 7
  ElementSizes = {0, 1, 2, 4}
  Files <- MCFiles
  NoName = 0
  InvalidOpKeys = {3}
  MAX_TENSOR_INDEX = 3
  MAX_FILE_LINE_NUM = 11
  AnyLens = FALSE
INVARIANTS CallsAsListed AcceptedFits ViewKeepsElements AsMeant CombsReadable
PROPERTY ImplementsList
