\* log_core_writer with an errno and a long message overflows info_str.
CONSTANTS
  LOG_CONTENT_MAX_LEN = 2048
  TimeLen = 0
  StrErrorLen <- MCStrErrorLen
  Loggers <- MCLoggers
  Msgs <- MCMsgs
SPECIFICATION LoggerSpec
INVARIANT LineInBuffer
