------------------------------ MODULE Startup ------------------------------
(***************************************************************************)
(* The process lifecycle of src/src/xpipe.c: main's startup sequence       *)
(* (configuration, resources and the default logger, module prepare and  *)
(* init, daemonising), the working loop guarded by xpipe_resource.stop,    *)
(* and SIGTERM, delivered at any moment and handled by sig_term_handler    *)
(* once setup_signals has installed it (the build without              *)
(* USE_BACKTRACE).                                                         *)
(*                                                                         *)
(* main is one thread; pc names the statement it is about to run.  The     *)
(* configuration parser is abstracted to its result (ConfFile checks it),  *)
(* and the callees whose source is not in the tree (sys_modules_prepare,   *)
(* the net module's init and process hooks, fork, open) to success or      *)
(* failure, the choice ranging over CallOk.  The handler runs atomically   *)
(* between two of main's steps, as a signal handler does.                  *)
(***************************************************************************)
EXTENDS Logger, XFile

CONSTANTS
  CallOk,       \* outcomes of a call that may fail: a subset of BOOLEAN
  MaxSigterm,   \* bound on the SIGTERMs sent to the process
  Builds,       \* the builds checked: "term", and "backtrace" (USE_BACKTRACE)
  FaultSigs,    \* the fault signals the backtrace build catches
  MaxFault      \* bound on the fault signals the process raises

ASSUME /\ CallOk \subseteq BOOLEAN /\ CallOk # {} /\ MaxSigterm \in Nat
       /\ Builds \subseteq {"term", "backtrace"} /\ Builds # {}
       /\ FaultSigs \subseteq {"SIGSEGV", "SIGBUS", "SIGFPE", "SIGILL"}
       /\ MaxFault \in Nat

\* main's exit status, or the signal that ended the process, as a string.
XPE_ERROR == "-1"

\* The messages main and the handler log: the format and its length.
ConfError      == [id |-> "conf_error", n |-> 40]
OpenDefaultErr == [id |-> "open default log error", n |-> 15]
ResourceBuilt  == [id |-> "finish building resource", n |-> 58]
PrepareFailed  == [id |-> "prepare all system modules failed", n |-> 34]
ModuleInit     == [id |-> "module init successfully", n |-> 30]
OpenPidErr     == [id |-> "Open pid error", n |-> 15]
WritePidErr    == [id |-> "Write pid into file failed", n |-> 27]
ProcessFailed  == [id |-> "process module failed", n |-> 27]
SigtermMsg     == [id |-> "Receive SIGTERM", n |-> 44]
BacktraceLine  == [id |-> "backtrace symbol", n |-> 60]
BacktraceEnd   == [id |-> "aaaaaaaa", n |-> 8]

\* The default log file create_default_logger opens.
DefaultLogFile == "default_logger_full_path"

\* log_stdout, the logger main passes to the parser: INFO, to stdout.
LogStdout == LogCreate(LOG_LEVEL_INFO, NoFile)

VARIABLES
  pc,             \* main's next statement, "exited" once the process ends
  stop,           \* xpipe_resource.stop
  sigterm,        \* SIGTERM's disposition: "default" or "handler"
  sent,           \* SIGTERMs sent so far
  mainLogger,     \* sys_main_module.logger, set by a "log" command
  defaultLogger,  \* xpipe_resource.default_logger
  daemon,         \* the main module's daemon setting
  exitCode,       \* main's return value, or the signal that ended it
  build,          \* the build running: "term" or "backtrace"
  faultDisp,      \* each fault signal's disposition: "default" or "handler"
  faults,         \* fault signals raised so far
  stack           \* the sig_backtrace_handler frames running, innermost last

vars == <<pc, stop, sigterm, sent, mainLogger, defaultLogger, daemon,
          exitCode, sink, build, faultDisp, faults, stack>>

\* The statements after resources are built and before the process ends.
AfterBuild == {"prepare", "init_main", "init_net", "daemon", "working"}

\* main returns (or calls exit) with code c.
Exit(c) == pc' = "exited" /\ exitCode' = c

Init ==
  /\ pc = "conf"
  /\ stop = 0
  /\ sigterm = "default"
  /\ sent = 0
  /\ mainLogger = NULL
  /\ defaultLogger = NULL
  /\ daemon = 0
  /\ exitCode = "none"
  /\ sink = {}
  /\ build \in Builds
  /\ faultDisp = [s \in FaultSigs |-> "default"]
  /\ faults = 0
  /\ stack = <<>>

\* conf_file_parser: an error ends main; otherwise the main block set
\* daemon and, with "log", the main module's logger.
ConfFileParser ==
  /\ pc = "conf"
  /\ \/ /\ sink' = sink \cup LogStderr(0, ConfError)
        /\ Exit(XPE_ERROR)
        /\ UNCHANGED <<mainLogger, daemon>>
     \/ \E l \in Loggers, d \in {0, 1} :
          /\ mainLogger' = l
          /\ daemon' = d
          /\ pc' = "resource"
          /\ UNCHANGED <<exitCode, sink>>
  /\ UNCHANGED <<stop, sigterm, sent, defaultLogger, faultDisp>>

(***************************************************************************)
(* create_default_logger: its return value and what it leaves in           *)
(* default_logger.  With a main logger that logger becomes the default.   *)
(* Otherwise it opens the default log file (or fails) and log_create makes *)
(* an INFO logger for it, which stays in a local: default_logger is never *)
(* assigned and keeps its value.                                           *)
(***************************************************************************)
CreateDefaultLogger(opened) ==
  CASE mainLogger # NULL -> [ret |-> "ok", logger |-> mainLogger]
    [] opened            -> [ret |-> "ok", logger |-> defaultLogger]
    [] OTHER             -> [ret |-> "error", logger |-> defaultLogger]

\* "build some resource": stop is cleared, the default logger created (its
\* open failure logged to log_stdout), and resource building logged.
BuildResource ==
  /\ pc = "resource"
  /\ stop' = 0
  /\ \E opened \in CallOk, e \in DOMAIN StrErrorLen :
       LET r == CreateDefaultLogger(opened) IN
       /\ defaultLogger' = r.logger
       /\ IF r.ret = "ok"
          THEN /\ sink' = sink \cup LogInfo(r.logger, 0, ResourceBuilt)
               /\ pc' = "prepare"
               /\ UNCHANGED exitCode
          ELSE /\ sink' = sink \cup LogError(LogStdout, e, OpenDefaultErr)
               /\ Exit(XPE_ERROR)
  /\ UNCHANGED <<sigterm, sent, mainLogger, daemon, faultDisp>>

\* sys_modules_prepare, failing or not.
Prepare ==
  /\ pc = "prepare"
  /\ \E ok \in CallOk :
       IF ok THEN pc' = "init_main" /\ UNCHANGED <<exitCode, sink>>
       ELSE /\ sink' = sink \cup LogError(defaultLogger, 0, PrepareFailed)
            /\ Exit(XPE_ERROR)
  /\ UNCHANGED <<stop, sigterm, sent, mainLogger, defaultLogger, daemon, faultDisp>>

(***************************************************************************)
(* system_modules_init runs each module's init_mod in sys_modules order,   *)
(* main then net, logging each success.  The main module's init_mod is     *)
(* init_main_mod, which calls setup_signals.  SIGHUP and SIGPIPE are      *)
(* ignored, which no step here observes; every handler is installed with   *)
(* SA_NODEFER | SA_ONSTACK | SA_RESETHAND.  A failing sigaction ends main   *)
(* unlogged.                                                               *)
(***************************************************************************)
\* setup_signals succeeding.  Without USE_BACKTRACE, sigaction(SIGTERM)
\* installs sig_term_handler; with it, sig_backtrace_handler is installed
\* for SIGSEGV, SIGBUS, SIGFPE and SIGILL and SIGTERM keeps its default.
SetupSignals ==
  IF build = "term"
  THEN sigterm' = "handler" /\ UNCHANGED faultDisp
  ELSE faultDisp' = [s \in FaultSigs |-> "handler"] /\ UNCHANGED sigterm

InitMain ==
  /\ pc = "init_main"
  /\ \E ok \in CallOk :
       IF ok THEN /\ SetupSignals
                  /\ sink' = sink \cup LogInfo(defaultLogger, 0, ModuleInit)
                  /\ pc' = "init_net"
                  /\ UNCHANGED exitCode
       ELSE Exit(XPE_ERROR) /\ UNCHANGED <<sigterm, faultDisp, sink>>
  /\ UNCHANGED <<stop, sent, mainLogger, defaultLogger, daemon>>

\* Mutant of InitNet: stop is cleared after the handler is installed, as
\* if resources were reset after module init instead of before.
InitNetClearStop ==
  /\ pc = "init_net"
  /\ \E ok \in CallOk :
       IF ok THEN /\ sink' = sink \cup LogInfo(defaultLogger, 0, ModuleInit)
                  /\ pc' = "daemon"
                  /\ UNCHANGED exitCode
       ELSE Exit(XPE_ERROR) /\ UNCHANGED sink
  /\ stop' = 0
  /\ UNCHANGED <<sigterm, sent, mainLogger, defaultLogger, daemon, faultDisp>>

\* The net module's init_mod (tcp_server.c, not in the tree).
InitNet ==
  /\ pc = "init_net"
  /\ \E ok \in CallOk :
       IF ok THEN /\ sink' = sink \cup LogInfo(defaultLogger, 0, ModuleInit)
                  /\ pc' = "daemon"
                  /\ UNCHANGED exitCode
       ELSE Exit(XPE_ERROR) /\ UNCHANGED sink
  /\ UNCHANGED <<stop, sigterm, sent, mainLogger, defaultLogger, daemon, faultDisp>>

(***************************************************************************)
(* process_daemon.  With daemon set, the parent exits at fork and the      *)
(* child, which the model follows, carries on: it opens the pid file and  *)
(* writes its pid, and either failure ends main with an error logged.  A  *)
(* failing fork returns -1, which is not 0 either: the only process calls *)
(* exit(0), unlogged, and no child is left.                                *)
(***************************************************************************)
ProcessDaemon ==
  /\ pc = "daemon"
  /\ \/ /\ daemon = 0
        /\ pc' = "working"
        /\ UNCHANGED <<exitCode, sink>>
     \/ /\ daemon = 1
        /\ \E forked \in CallOk, open \in CallOk, wrote \in CallOk,
              e \in DOMAIN StrErrorLen :
             CASE ~forked -> Exit("0") /\ UNCHANGED sink
               [] ~open ->
                    /\ sink' = sink \cup LogError(defaultLogger, e, OpenPidErr)
                    /\ Exit(XPE_ERROR)
               [] ~wrote ->
                    /\ sink' = sink \cup LogError(defaultLogger, e, WritePidErr)
                    /\ Exit(XPE_ERROR)
               [] OTHER -> pc' = "working" /\ UNCHANGED <<exitCode, sink>>
  /\ UNCHANGED <<stop, sigterm, sent, mainLogger, defaultLogger, daemon, faultDisp>>

(***************************************************************************)
(* One pass of system_modules_working: while stop is 0, run each module's  *)
(* process_mod (the main module has none; the net module's may fail, which *)
(* is logged), then timer_update.  Once stop is set, main returns 0.  stop *)
(* is a plain int shared with the handler, but the loop calls functions    *)
(* through pointers, so the compiler reloads it on every pass.             *)
(***************************************************************************)
Working ==
  /\ pc = "working"
  /\ IF stop # 0
     THEN Exit("0") /\ UNCHANGED sink
     ELSE \E ok \in CallOk :
            /\ sink' = IF ok THEN sink
                       ELSE sink \cup LogError(defaultLogger, 0, ProcessFailed)
            /\ UNCHANGED <<pc, exitCode>>
  /\ UNCHANGED <<stop, sigterm, sent, mainLogger, defaultLogger, daemon, faultDisp>>

(***************************************************************************)
(* A SIGTERM arrives.  Under the default disposition it ends the process.  *)
(* With the handler installed, SA_RESETHAND restores the default first,    *)
(* then sig_term_handler logs a warning and sets stop.                     *)
(***************************************************************************)
SigTerm ==
  /\ pc # "exited"
  /\ sent < MaxSigterm
  /\ sent' = sent + 1
  /\ sigterm' = "default"
  /\ IF sigterm = "default"
     THEN Exit("SIGTERM") /\ UNCHANGED <<stop, sink>>
     ELSE /\ sink' = sink \cup LogWarn(defaultLogger, 0, SigtermMsg)
          /\ stop' = 1
          /\ UNCHANGED <<pc, exitCode>>
  /\ UNCHANGED <<mainLogger, defaultLogger, daemon, build, faultDisp, faults, stack>>

(***************************************************************************)
(* A fault signal s is raised by the instruction running: main's code, or  *)
(* backtrace_symbols and the logging inside a backtrace handler.  Under    *)
(* the default disposition it ends the process.  With the handler          *)
(* installed, SA_RESETHAND restores the default as the handler is entered; *)
(* SA_NODEFER leaves s unblocked, so a fault inside the handler is         *)
(* delivered at once.                                                      *)
(***************************************************************************)
\* Mutant of Fault: the handler installed without SA_RESETHAND.
FaultNoResetHand(s) ==
  /\ pc # "exited"
  /\ faults < MaxFault
  /\ stack # <<>> => stack[Len(stack)].at = "symbols"
  /\ faults' = faults + 1
  /\ IF faultDisp[s] = "default"
     THEN Exit(s) /\ UNCHANGED stack
     ELSE /\ stack' = Append(stack, [sig |-> s, at |-> "symbols"])
          /\ UNCHANGED <<pc, exitCode>>
  /\ UNCHANGED <<faultDisp, stop, sigterm, sent, mainLogger, defaultLogger,
                 daemon, sink, build>>

Fault(s) ==
  /\ pc # "exited"
  /\ faults < MaxFault
  /\ stack # <<>> => stack[Len(stack)].at = "symbols"
  /\ faults' = faults + 1
  /\ IF faultDisp[s] = "default"
     THEN Exit(s) /\ UNCHANGED <<faultDisp, stack>>
     ELSE /\ faultDisp' = [faultDisp EXCEPT ![s] = "default"]
          /\ stack' = Append(stack, [sig |-> s, at |-> "symbols"])
          /\ UNCHANGED <<pc, exitCode>>
  /\ UNCHANGED <<stop, sigterm, sent, mainLogger, defaultLogger, daemon,
                 sink, build>>

\* sig_backtrace_handler up to process_exit: backtrace_symbols fails (goto
\* process_exit) or its lines go to log_error on the default logger,
\* followed by log_printf("aaaaaaaa").
BacktraceSymbols ==
  /\ stack # <<>>
  /\ stack[Len(stack)].at = "symbols"
  /\ \E ok \in CallOk :
       sink' = IF ok THEN sink \cup LogError(defaultLogger, 0, BacktraceLine)
                                 \cup LogPrintf(BacktraceEnd)
               ELSE sink
  /\ stack' = [stack EXCEPT ![Len(stack)].at = "exit"]
  /\ UNCHANGED <<pc, stop, sigterm, sent, mainLogger, defaultLogger, daemon,
                 exitCode, build, faultDisp, faults>>

\* process_exit: sigaction(sig, SIG_DFL), then kill(getpid(), sig), which
\* SA_NODEFER lets through at once: the default action ends the process.
BacktraceExit ==
  /\ stack # <<>>
  /\ stack[Len(stack)].at = "exit"
  /\ LET s == stack[Len(stack)].sig IN
       /\ faultDisp' = [faultDisp EXCEPT ![s] = "default"]
       /\ Exit(s)
  /\ UNCHANGED <<stop, sigterm, sent, mainLogger, defaultLogger, daemon,
                 sink, build, faults, stack>>

\* main's own steps, which run only while no signal handler does.
Main ==
  /\ stack = <<>>
  /\ \/ ConfFileParser \/ BuildResource \/ Prepare \/ InitMain \/ InitNet
     \/ ProcessDaemon \/ Working
  /\ UNCHANGED <<build, faults, stack>>

Handler == BacktraceSymbols \/ BacktraceExit

StartupNext == Main \/ Handler \/ SigTerm \/ \E s \in FaultSigs : Fault(s)

\* One file_write call (XFile) is checked beside main's steps; it shares no
\* variable with them.
allVars == <<vars, xvars>>

Next == (StartupNext /\ UNCHANGED xvars) \/ (XFileNext /\ UNCHANGED vars)

\* main, and a handler interrupting it, run whenever the process has not
\* ended: every step returns (sockets are nonblocking and epoll_wait times
\* out), so both are weakly fair.  Nothing obliges anyone to send SIGTERM
\* or any instruction to fault.
\* main at its first statement, and the file_write call about to start.
SpecInit == Init /\ XFileInit

Spec == SpecInit /\ [][Next]_allVars
        /\ WF_vars(Main) /\ WF_vars(Handler)

-----------------------------------------------------------------------------
\* Once a SIGTERM has been sent, the process eventually ends, whether the
\* signal arrived before setup_signals, during startup (the stop flag must
\* survive until the working loop reads it) or in the working loop.
StopEventually == (sent > 0) ~> (pc = "exited")

\* A fault inside sig_backtrace_handler never enters the handler again for
\* the signal it is handling: SA_RESETHAND has restored that signal's
\* default, so the nested fault ends the process instead of recursing.  A
\* different fault signal may still nest one handler for itself.
HandlerNotReentered ==
  \A i, j \in DOMAIN stack : i < j => stack[i].sig # stack[j].sig

\* After main has built its resources, the info message announcing it is in
\* a log whenever the logger in charge admits info: the main module's
\* logger, or else the INFO-level logger create_default_logger makes.
ResourceBuiltLogged ==
  (pc \in AfterBuild /\ (mainLogger = NULL \/ mainLogger.level >= LOG_LEVEL_INFO))
    => \E l \in sink : l.msg = ResourceBuilt.id
=============================================================================
