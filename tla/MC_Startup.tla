----------------------------- MODULE MC_Startup -----------------------------
(***************************************************************************)
(* Model-checking instance of Startup: both builds, every call may fail,   *)
(* up to two SIGTERMs (the second meets the disposition SA_RESETHAND       *)
(* restored), up to two faults of SIGSEGV or SIGBUS (so that a fault can   *)
(* strike inside a backtrace handler), and                                 *)
(* configurations without a log command and with one at ERROR, INFO and    *)
(* STDOUT level.                                                           *)
(***************************************************************************)
EXTENDS Startup

MCStrErrorLen == [e \in {2} |-> 25]

MCLoggers == {NULL} \cup {LogCreate(lv, "main_log") : lv \in {1, 3, 5}}
\* file_write checked on a fresh FL_APPEND log file (pos 0, the cached
\* offset whatever pmalloc left: here 0 or 5) and one already holding a
\* byte, and on a plain file at its start and at its end.
MCWriteFiles ==
  {[data |-> d, pos |-> 0, offset |-> o, append |-> TRUE] :
     d \in {<<>>, <<"x">>}, o \in {0, 5}}
  \cup {[data |-> <<"x">>, pos |-> p, offset |-> p, append |-> FALSE] : p \in {0, 1}}

\* A line of three distinct bytes, so that a byte written twice or out of
\* order shows, and a one-byte line.
MCWriteBufs == {<<"a", "b", "LF">>, <<"LF">>}
=============================================================================
