\* Every file of the component grammar, read in chunks of 1 to 5 bytes, or failing.
CONSTANTS
  Cases <- MCCases
  ReadSize <- MCReadSize
  KeySize <- MCKeySizeCode
  OpenOk = {TRUE, FALSE}
  ReadOk = {TRUE, FALSE}
SPECIFICATION Spec
INVARIANTS
  ConfigAsWritten
\* conf_file_parser returns once the file is parsed or rejected.
CHECK_DEADLOCK FALSE
