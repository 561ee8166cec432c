\* Numbers of eight bits, three of them mantissa, and integers of four, eight and
\* eleven bits.
SPECIFICATION Spec
CONSTANTS
  EXP_LEN = 4
  MAN_LEN = 3
  TRCT_LEN = 16
  FP32_MAN_LEN = 9
  FP64_MAN_LEN = 12
  BITS8 = 4
  BITS16 = 8
  BITS32 = 11
  Floats <- MCFloats
  Doubles <- MCDoubles
  Ints32 <- MCInts32
  Overlooked = {}
INVARIANTS ArithmeticNearest ConvertedIsNearest ConvertsToNearest OrderedByValue
