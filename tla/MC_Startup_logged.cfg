\* With no log command, the startup info message is not in any log.
CONSTANTS
  LOG_CONTENT_MAX_LEN = 2048
  TimeLen = 0
  StrErrorLen <- MCStrErrorLen
  Loggers <- MCLoggers
  Msgs = {}
  CallOk = {TRUE, FALSE}
  MaxSigterm = 2
  WriteFiles <- MCWriteFiles
  WriteBufs <- MCWriteBufs
  Builds = {"term", "backtrace"}
  FaultSigs = {"SIGSEGV", "SIGBUS"}
  MaxFault = 2
SPECIFICATION Spec
INVARIANT ResourceBuiltLogged
CHECK_DEADLOCK FALSE
