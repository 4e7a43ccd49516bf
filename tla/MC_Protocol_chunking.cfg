\* Frames of every shape read in every split, one buffer per request.
CONSTANTS
  Cases <- MCCases
  BufSize <- MCBufSizeWide
  Layouts = {FALSE}
  IntBits = 8
  SizeBits = 16
SPECIFICATION Spec
INVARIANTS
  TypeOK
  ValidFrameParsed
  ChunkIndependence
\* One request's parse ends when it completes, fails or its frame is read.
CHECK_DEADLOCK FALSE
