\* A header line ended by a bare CR: which code reaches the error response.
CONSTANTS
  Cases <- MCCases
  BufSize <- MCBufSizeWide
  Layouts = {FALSE}
  IntBits = 8
  SizeBits = 16
SPECIFICATION Spec
INVARIANTS
  ErrorIsKnownCode
CHECK_DEADLOCK FALSE
