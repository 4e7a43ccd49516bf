\* Three-byte buffers: the LF after the length token opens a new buffer.
CONSTANTS
  Cases <- MCStrayCases
  BufSize <- MCBufSizeThree
  Layouts = {FALSE, TRUE}
  IntBits = 8
  SizeBits = 16
SPECIFICATION Spec
INVARIANTS
  NoStrayWrite
CHECK_DEADLOCK FALSE
