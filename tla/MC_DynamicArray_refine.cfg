\* dynamic_array_t implements the sequence its callers rely on.
CONSTANTS
  Values = {a, b}
  Indexes = {0, 1, 2, 4}
  InitSizes = {1, 2}
  MaxElts = 4
  CallOk = {TRUE, FALSE}
  NULL = NULL
  Garbage = Garbage
SPECIFICATION Spec
PROPERTY ImplementsArraySeq
