\* Two-byte buffers: the command token and the length token cross buffers.
CONSTANTS
  Cases <- MCCases
  BufSize <- MCBufSizeNarrow
  Layouts = {FALSE, TRUE}
  IntBits = 8
  SizeBits = 16
SPECIFICATION Spec
INVARIANTS
  ValidFrameParsed
CHECK_DEADLOCK FALSE
