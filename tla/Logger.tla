------------------------------- MODULE Logger -------------------------------
(***************************************************************************)
(* The logger of src/src/logger.c: log_create, the level wrappers         *)
(* log_error, log_warn, log_info, log_debug, log_printf and log_stderr,    *)
(* and the line log_core_writer assembles in its 2048-byte stack buffer    *)
(* info_str.                                                                *)
(*                                                                         *)
(* A line is abstracted to its lengths: the cached time, the level prefix, *)
(* the strerror text and " - " when err is not 0, and the formatted        *)
(* message, whose length is what vsnprintf returns.  The message is a      *)
(* record [id, n]: its identity and the length of its formatted text.      *)
(* A logger is NULL or a record [level, file].  The log sink is the set of *)
(* lines written, each with the highest index of info_str it wrote.        *)
(***************************************************************************)
EXTENDS Integers

CONSTANTS
  LOG_CONTENT_MAX_LEN, \* sizeof info_str (2048)
  TimeLen,             \* cache_log_time.len (times.c is not in the tree)
  StrErrorLen,         \* StrErrorLen[e]: strlen(strerror(e)) for errno e
  Loggers,             \* the loggers callers log through (NULL included)
  Msgs                 \* the messages callers log

ASSUME LOG_CONTENT_MAX_LEN \in Nat /\ TimeLen \in Nat

\* The null file_t pointer (log_core_writer then writes to stdout), and the
\* null logger, a record like the others so that loggers form one set.
NoFile == "NULL"
NULL == [level |-> 0, file |-> NoFile]

\* The level numbers follow the order of level_str, whose entry 0 is null.
LOG_LEVEL_ERROR  == 1
LOG_LEVEL_WARN   == 2
LOG_LEVEL_INFO   == 3
LOG_LEVEL_DEBUG  == 4
LOG_LEVEL_STDOUT == 5

\* level_str[level].len: " [ERROR] ", " [WARN] ", " [INFO] ", " [DEBUG] ",
\* " [STDOUT] ".
level_str_len == <<9, 8, 8, 9, 10>>

Errnos == {0} \cup DOMAIN StrErrorLen

VARIABLE sink

(***************************************************************************)
(* log_core_writer(f, err, level, fmt, args).  p advances past the time,   *)
(* the level prefix and, when err is not 0, strerror(err) and " - ".       *)
(* vsnprintf is then given max_len = LOG_CONTENT_MAX_LEN - prefix - 1      *)
(* bytes at p: it writes min(n, max_len - 1) characters and a NUL, p moves *)
(* by the same amount, and the LF overwrites the NUL.  n is never negative *)
(* for the formats of this code, so the int / size_t comparison is the     *)
(* plain one.  top is the highest index of info_str the call writes.       *)
(***************************************************************************)
LogCoreWriter(f, err, level, m) ==
  LET head    == TimeLen + level_str_len[level]
                 + (IF err # 0 THEN StrErrorLen[err] + 3 ELSE 0)
      max_len == LOG_CONTENT_MAX_LEN - level_str_len[level] - 1
      adv     == IF m.n < max_len THEN m.n ELSE max_len - 1
  IN  [file |-> f, level |-> level, msg |-> m.id, err |-> err,
       len |-> head + adv + 1, top |-> head + adv]

\* The lines a wrapper writes: none when the logger is NULL or its level
\* is below the wrapper's; log_error checks only for NULL.
LogError(logger, err, m) ==
  IF logger = NULL THEN {}
  ELSE {LogCoreWriter(logger.file, err, LOG_LEVEL_ERROR, m)}

LogWarn(logger, err, m) ==
  IF logger = NULL \/ logger.level < LOG_LEVEL_WARN THEN {}
  ELSE {LogCoreWriter(logger.file, err, LOG_LEVEL_WARN, m)}

LogInfo(logger, err, m) ==
  IF logger = NULL \/ logger.level < LOG_LEVEL_INFO THEN {}
  ELSE {LogCoreWriter(logger.file, err, LOG_LEVEL_INFO, m)}

LogDebug(logger, err, m) ==
  IF logger = NULL \/ logger.level < LOG_LEVEL_DEBUG THEN {}
  ELSE {LogCoreWriter(logger.file, err, LOG_LEVEL_DEBUG, m)}

\* log_printf and log_stderr write to standard output (f = NULL).
LogPrintf(m) == {LogCoreWriter(NoFile, 0, LOG_LEVEL_STDOUT, m)}

LogStderr(err, m) == {LogCoreWriter(NoFile, err, LOG_LEVEL_STDOUT, m)}

\* log_create with pmalloc succeeding: a logger of that level and file.
LogCreate(level, file) == [level |-> level, file |-> file]

-----------------------------------------------------------------------------
(***************************************************************************)
(* Callers log any message through any logger, with any errno.            *)
(***************************************************************************)
LoggerInit == sink = {}

LoggerNext ==
  \E m \in Msgs, err \in Errnos :
    \/ \E l \in Loggers : sink' = sink \cup LogError(l, err, m)
    \/ \E l \in Loggers : sink' = sink \cup LogWarn(l, err, m)
    \/ \E l \in Loggers : sink' = sink \cup LogInfo(l, err, m)
    \/ \E l \in Loggers : sink' = sink \cup LogDebug(l, err, m)
    \/ sink' = sink \cup LogPrintf(m)
    \/ sink' = sink \cup LogStderr(err, m)

LoggerSpec == LoggerInit /\ [][LoggerNext]_sink

\* Every line log_core_writer assembles stays inside info_str: its last
\* byte (the LF, where vsnprintf also put its NUL) has an index below
\* LOG_CONTENT_MAX_LEN.
LineInBuffer == \A l \in sink : l.top < LOG_CONTENT_MAX_LEN
=============================================================================
