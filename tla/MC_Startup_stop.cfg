\* SIGTERM at any point of the lifecycle ends the process.
CONSTANTS
  LOG_CONTENT_MAX_LEN = 2048
  TimeLen = 0
  StrErrorLen <- MCStrErrorLen
  Loggers <- MCLoggers
  Msgs = {}
  CallOk = {TRUE, FALSE}
  MaxSigterm = 2
  WriteFiles <- MCWriteFiles
  WriteBufs <- MCWriteBufs
  Builds = {"term", "backtrace"}
  FaultSigs = {"SIGSEGV", "SIGBUS"}
  MaxFault = 2
SPECIFICATION Spec
INVARIANTS
  FileWriteWritesBuf
  HandlerNotReentered
PROPERTY StopEventually
CHECK_DEADLOCK FALSE
