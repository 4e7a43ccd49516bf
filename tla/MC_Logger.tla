----------------------------- MODULE MC_Logger -----------------------------
(***************************************************************************)
(* Model-checking instance of Logger with the real buffer size.  The time *)
(* length is taken as 0, the most favourable value, so that any overflow  *)
(* found is due to the strerror text alone.  ENOENT's text is 25 bytes.   *)
(* Messages: a short one and one of 2020 formatted bytes.                  *)
(***************************************************************************)
EXTENDS Logger

MCStrErrorLen == [e \in {2} |-> 25]

MCLoggers == {NULL} \cup {LogCreate(lv, "log_file") : lv \in {1, 3, 5}}

MCMsgs == {[id |-> "short", n |-> 40], [id |-> "long", n |-> 2020]}
=============================================================================
