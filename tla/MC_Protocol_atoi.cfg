\* A body length that overflows int: a valid PUT completes too early.
CONSTANTS
  Cases <- MCAtoiCases
  BufSize <- MCBufSizeWide
  Layouts = {FALSE}
  IntBits = 3
  SizeBits = 6
SPECIFICATION Spec
INVARIANTS
  ValidFrameParsed
CHECK_DEADLOCK FALSE
