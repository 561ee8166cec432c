\* Two tensors at most, of up to seven blocks, in a word of eight, on devices of
\* no, two and five cores.
SPECIFICATION FairSpec
CONSTANTS
  BLOCK_BYTES = 2
  BLOCK_BYTES_ONCE = 2
  MEMSET_MAX_TENSOR_NUM = 2
  Word = 16
  Devices <- MCDevices
  Calls <- MCCalls
INVARIANTS AllZeroed NothingBehind ZerosSuffice
PROPERTY Ends
