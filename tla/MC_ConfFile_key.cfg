\* key[] scaled to 6 bytes against files containing the word "daemon".
CONSTANTS
  Cases <- MCKeyCases
  ReadSize <- MCReadSize
  KeySize <- MCKeySizeSmall
  OpenOk = {TRUE}
  ReadOk = {TRUE}
SPECIFICATION Spec
INVARIANTS
  KeyInBounds
\* conf_file_parser returns once the file is parsed or rejected.
CHECK_DEADLOCK FALSE
