------------------------------- MODULE ConfFile -------------------------------
(***************************************************************************)
(* The configuration file parser conf_file_parser (src/src/conf_file.c),   *)
(* with conf_file_init, the module and command lookups, the dynamic arrays *)
(* it uses (src/src/dynamic_array.c) and the command handlers of the main  *)
(* module (src/src/xpipe.c).                                               *)
(*                                                                         *)
(* The file is read with file_read in chunks of any length read(2) may   *)
(* return, at most ReadSize bytes, and scanned one byte per step by a     *)
(* state machine whose C switch falls through from one case into the      *)
(* next; each fallthrough is a call of the next case's operator.  The     *)
(* locals state, old_state, key/k, cmd_args and mod survive from one      *)
(* chunk to the next.                                                      *)
(*                                                                         *)
(* Characters are one-letter strings; a word is a sequence of them.  key  *)
(* is the sequence key[0 .. k-1]; a write at an index >= KeySize is       *)
(* outside the array and recorded in overflow.                             *)
(***************************************************************************)
EXTENDS Integers, Sequences, SequencesExt

CONSTANTS
  Cases,      \* configuration files, as component records
  ReadSize,   \* the byte count of file_read (1024 in the code)
  KeySize,    \* the length of key[] (256 in the code)
  OpenOk,     \* outcomes open_file_fd may have for a log file
  ReadOk      \* outcomes read(2) may have in file_read

ASSUME ReadSize \in Nat \ {0} /\ KeySize \in Nat \ {0}
ASSUME OpenOk \subseteq BOOLEAN /\ OpenOk # {}
ASSUME ReadOk \subseteq BOOLEAN /\ ReadOk # {}

-----------------------------------------------------------------------------
(* Characters and the classes of xstring.h.                                *)

SP == "SP"
LF == "LF"
Letters == {"m", "a", "i", "n", "e", "t", "d", "o", "f", "p", "l", "g", "x"}
IsLetter(c) == c \in Letters
IsDigit(c) == c = "1"
IsBlank(c) == c \in {SP, LF}

MAIN   == <<"m", "a", "i", "n">>
NET    == <<"n", "e", "t">>
DAEMON == <<"d", "a", "e", "m", "o", "n">>
PID    == <<"p", "i", "d">>
LOG    == <<"l", "o", "g">>
OFF    == <<"o", "f", "f">>
INFO   == <<"i", "n", "f", "o">>

\* The levels cmd_log_set recognises (only "info" is spelled out; the rest
\* stand for "error", "warn", "debug" and "stdout").
Levels == {INFO, <<"e">>, <<"w">>, <<"d">>, <<"s">>}

-----------------------------------------------------------------------------
(* The module table and the command tables.                                *)

\* The commands of the main module: "log" is flagged mod (a command every
\* module's block accepts).
MainCommands ==
  <<[name |-> DAEMON, mod |-> FALSE],
    [name |-> PID,    mod |-> FALSE],
    [name |-> LOG,    mod |-> TRUE]>>

\* sys_modules: main, then net, whose source is not in the repository and
\* whose own commands are not modelled.
SysModules == <<[name |-> MAIN, cmds |-> MainCommands],
                [name |-> NET,  cmds |-> <<>>]>>

Mods == DOMAIN SysModules

NoCmd == [name |-> <<>>, mod |-> FALSE]

\* conf_file_get_sys_mod: the index of the module named key, 0 if none.
ConfFileGetSysMod(key) == SelectInSeq(SysModules, LAMBDA m : m.name = key)

\* conf_file_get_command: the module's commands up to the first flagged
\* mod (or the table's end) are searched for the name.
ConfFileGetCommand(m, name) ==
  LET cs   == SysModules[m].cmds
      stop == SelectInSeq(cs, LAMBDA c : c.mod \/ c.name = name)
  IN  IF stop = 0 \/ cs[stop].mod THEN NoCmd ELSE cs[stop]

\* conf_file_init: the index of global commands, the main module's
\* commands flagged mod, in table order.
GlobalCmds == SelectSeq(MainCommands, LAMBDA c : c.mod)

\* conf_file_get_global_cmd: the first global command with the name.
ConfFileGetGlobalCmd(name) ==
  LET i == SelectInSeq(GlobalCmds, LAMBDA c : c.name = name)
  IN  IF i = 0 THEN NoCmd ELSE GlobalCmds[i]

\* dynamic_array_push of one element; the doubling of elts when full is
\* memory management that leaves the element sequence as it is.
DynamicArrayPush(a, x) == Append(a, x)

\* dynamic_array_get_ix: the element at (0-based) index i, or NULL.
DynamicArrayGetIx(a, i) == IF i < Len(a) THEN a[i + 1] ELSE <<>>

\* create_main_loc_conf: daemon 0 and the default pid file.
MainLocConf == [created |-> TRUE, daemon |-> 0, pid |-> <<"default">>]

\* The main module's mod_conf before its block is parsed (NULL).
NoMainConf == [created |-> FALSE, daemon |-> 0, pid |-> <<>>]

-----------------------------------------------------------------------------
(* The command handlers of the main module.  st holds the parser's locals *)
(* and what the handlers have set: the main module's conf (main) and the  *)
(* level of the logger each module's "log" command created (loggers).     *)

Fail(st) == [st EXCEPT !.ret = "CONF_ERROR"]

\* cmd_daemon_set: exactly one argument; anything but "off" turns it on.
CmdDaemonSet(st, args) ==
  IF Len(args) # 2 THEN Fail(st)
  ELSE [st EXCEPT !.main.daemon = IF DynamicArrayGetIx(args, 1) = OFF THEN 0 ELSE 1]

\* cmd_pid_set: exactly one argument, the pid file's name.
CmdPidSet(st, args) ==
  IF Len(args) # 2 THEN Fail(st)
  ELSE [st EXCEPT !.main.pid = DynamicArrayGetIx(args, 1)]

\* cmd_log_set: a file name and a level; the file is opened before the
\* level is checked, and the logger belongs to the block's module m.
CmdLogSet(st, args, m) ==
  IF Len(args) # 3 THEN {Fail(st)}
  ELSE {IF ~ok THEN [Fail(st) EXCEPT !.envFail = TRUE]
        ELSE IF DynamicArrayGetIx(args, 2) \notin Levels THEN Fail(st)
        ELSE [st EXCEPT !.loggers[m] = DynamicArrayGetIx(args, 2)] : ok \in OpenOk}

\* cmd->set(cmd_args, ...) for the command found.
CmdSet(st, cmd, args, m) ==
  CASE cmd.name = DAEMON -> {CmdDaemonSet(st, args)}
    [] cmd.name = PID    -> {CmdPidSet(st, args)}
    [] cmd.name = LOG    -> CmdLogSet(st, args, m)

-----------------------------------------------------------------------------
(* The cases of the switch in conf_file_parser, for the byte ch.  A case  *)
(* that falls through calls the operator of the next case.                 *)

Goto(st, s) == [st EXCEPT !.state = s]

\* key[k++] = ch
PutKey(st, ch) ==
  [st EXCEPT !.key = Append(@, ch), !.overflow = @ \/ Len(st.key) >= KeySize]

\* key[k] = '\0'
EndKey(st) == [st EXCEPT !.overflow = @ \/ Len(st.key) >= KeySize]

SwOut(st, ch) ==
  CASE ch = "#"       -> [Goto(st, "sw_comment") EXCEPT !.old = "sw_out"]
    [] IsLetter(ch)   -> Goto(PutKey(st, ch), "sw_mod_name")
    [] ~IsBlank(ch)   -> Fail(st)
    [] OTHER          -> st

SwCommentEnd(st) == Goto(st, st.old)

SwComment(st, ch) == IF ch = LF THEN SwCommentEnd(Goto(st, "sw_comment_end")) ELSE st

\* Mutant: k is not reset after the module name.
SwModNameEndKeepKey(st) ==
  LET m == ConfFileGetSysMod(st.key)
  IN  IF m = 0 THEN Fail(st)
      ELSE [st EXCEPT !.mod = m, !.blocks = @ + 1,
                      !.main = IF m = 1 THEN MainLocConf ELSE @]

\* case sw_mod_name_end: find the module, create its conf, store it in
\* mod_cfs at the module's index, reset k and count the block.
SwModNameEnd(st) ==
  LET m == ConfFileGetSysMod(st.key)
  IN  IF m = 0 THEN Fail(st)
      ELSE [st EXCEPT !.mod = m, !.key = <<>>, !.blocks = @ + 1,
                      !.main = IF m = 1 THEN MainLocConf ELSE @]

SwModName(st, ch) ==
  CASE IsLetter(ch) \/ IsDigit(ch) \/ ch \in {"_", "-"} -> PutKey(st, ch)
    [] IsBlank(ch) -> SwModNameEnd(Goto(EndKey(st), "sw_mod_name_end_blank"))
    [] ch = "{"    -> SwModNameEnd(Goto(EndKey(st), "sw_mod_block"))
    [] ch = "#"    -> SwModNameEnd([Goto(EndKey(st), "sw_comment") EXCEPT
                                      !.old = "sw_mod_name_end_blank"])
    [] OTHER       -> Fail(st)

SwModBlockEnd(st) == Goto(st, "sw_out")

\* case sw_mod_block; a letter starts a command and a new cmd_args array.
SwModBlock(st, ch) ==
  CASE ch = "#"       -> [Goto(st, "sw_comment") EXCEPT !.old = "sw_mod_block"]
    [] IsBlank(ch)    -> st
    [] IsLetter(ch)   -> [Goto(PutKey(st, ch), "sw_command") EXCEPT !.args = <<>>]
    [] ch = "}"       -> SwModBlockEnd(Goto(st, "sw_mod_block_end"))
    [] OTHER          -> Fail(st)

\* A blank falls through into sw_mod_block, whose blank case does nothing.
SwModNameEndBlank(st, ch) ==
  CASE ch = "{"       -> Goto(st, "sw_mod_block")
    [] ~IsBlank(ch)   -> Fail(st)
    [] OTHER          -> SwModBlock(st, ch)

\* The word in key becomes the next element of cmd_args; k is reset.
PushArg(st) == [EndKey(st) EXCEPT !.args = DynamicArrayPush(@, st.key), !.key = <<>>]

\* CMD_END: the command named by cmd_args[0] is looked up among the
\* block's module's commands, then among the global ones.
CmdEnd(st) ==
  LET st1    == Goto(st, "sw_mod_block")
      name   == DynamicArrayGetIx(st.args, 0)
      local  == ConfFileGetCommand(st.mod, name)
      global == ConfFileGetGlobalCmd(name)
  IN  CASE local # NoCmd  -> CmdSet(st1, local, st.args, st.mod)
        [] global = NoCmd -> {Fail(st1)}
        [] OTHER          -> CmdSet(st1, global, st.args, st.mod)

SwCommand(st, ch) ==
  CASE IsBlank(ch) -> {Goto(PushArg(st), "sw_command_blank")}
    [] ch = ";"    -> CmdEnd(Goto(PushArg(st), "sw_command_end"))
    [] OTHER       -> {PutKey(st, ch)}

SwCommandBlank(st, ch) ==
  CASE ch = ";"       -> CmdEnd(Goto(st, "sw_command_end"))
    [] IsBlank(ch)    -> {st}
    [] OTHER          -> {Goto(PutKey(st, ch), "sw_command")}

\* One iteration of the for loop: the outcomes of the switch for ch.
Step(st, ch) ==
  CASE st.state = "sw_out"                -> {SwOut(st, ch)}
    [] st.state = "sw_comment"            -> {SwComment(st, ch)}
    [] st.state = "sw_mod_name"           -> {SwModName(st, ch)}
    [] st.state = "sw_mod_name_end_blank" -> {SwModNameEndBlank(st, ch)}
    [] st.state = "sw_mod_block"          -> {SwModBlock(st, ch)}
    [] st.state = "sw_command"            -> SwCommand(st, ch)
    [] st.state = "sw_command_blank"      -> SwCommandBlank(st, ch)

-----------------------------------------------------------------------------
(* A configuration file: one or two module blocks, as their components,  *)
(* then a tail.                                                            *)

\* A command: its words separated by blanks, an optional blank, then ';'.
CmdText(c) ==
  FoldLeft(LAMBDA acc, w : IF acc = <<>> THEN w ELSE acc \o <<SP>> \o w,
           <<>>, c.words)
  \o (IF c.gap THEN <<SP>> ELSE <<>>) \o <<";">>

\* The blocks of a file: the first one, then those in more.
Blocks(r) ==
  <<[lead |-> r.lead, name |-> r.name, sep |-> r.sep, body |-> r.body,
     close |-> r.close]>> \o r.more

BlockText(b) ==
  b.lead \o b.name \o b.sep \o <<"{">>
  \o FlattenSeq([i \in DOMAIN b.body |-> CmdText(b.body[i])])
  \o b.close

File(r) ==
  FlattenSeq([i \in DOMAIN Blocks(r) |-> BlockText(Blocks(r)[i])]) \o r.tail

VARIABLES
  req,   \* the file being parsed (fixed for the behaviour)
  pos,   \* bytes of the file consumed by file_read so far ...
  last,  \* ... and the end of the current chunk
  pc,    \* "read": at READ_CONF_FILE; "loop": in the for loop; "done"
  ps     \* the parser's locals and what the command handlers set

vars == <<req, pos, last, pc, ps>>

file == File(req)

\* conf_file_parser after conf_file_init: state sw_out, k = 0, no module
\* conf created, no logger.  old_state and mod are uninitialised and
\* always written before they are read.
Init ==
  /\ req \in Cases
  /\ pos = 0
  /\ last = 0
  /\ pc = "read"
  /\ ps = [state |-> "sw_out", old |-> "sw_out", key |-> <<>>, args |-> <<>>,
           mod |-> 0, blocks |-> 0, main |-> NoMainConf,
           loggers |-> [m \in Mods |-> <<>>], ret |-> "run",
           overflow |-> FALSE, envFail |-> FALSE]

(***************************************************************************)
(* file_read(f, buf, size, FL_DEFAULT_OFFSET) with rest bytes of the file *)
(* left: no lseek; read(2) fails (-1), or returns at least one and at     *)
(* most size of those bytes (fewer when interrupted or on a pipe), or 0 at *)
(* the end of the file; f->offset then advances by the count.             *)
(***************************************************************************)
FileRead(size, rest) ==
  (IF FALSE \in ReadOk THEN {-1} ELSE {})
  \cup (IF TRUE \in ReadOk
        THEN IF rest = 0 THEN {0} ELSE 1 .. Min({size, rest})
        ELSE {})

\* READ_CONF_FILE: a failed read returns CONF_ERROR; at the end of the
\* file only sw_out and sw_mod_block_end are complete.
ReadConfFile ==
  /\ pc = "read"
  /\ \E n \in FileRead(ReadSize, Len(file) - pos) :
       \/ /\ n > 0
          /\ last' = pos + n
          /\ pc' = "loop"
          /\ UNCHANGED ps
       \/ /\ n = 0
          /\ ps' = [ps EXCEPT !.ret = IF ps.state \in {"sw_out", "sw_mod_block_end"}
                                        THEN "CONF_OK" ELSE "CONF_ERROR"]
          /\ pc' = "done"
          /\ UNCHANGED last
       \/ /\ n = -1
          /\ ps' = [Fail(ps) EXCEPT !.envFail = TRUE]
          /\ pc' = "done"
          /\ UNCHANGED last
  /\ UNCHANGED <<req, pos>>

\* One iteration of the for loop over the chunk; an error returns.
ScanByte ==
  /\ pc = "loop"
  /\ \E st \in Step(ps, file[pos + 1]) :
       /\ ps' = st
       /\ pc' = CASE st.ret = "CONF_ERROR" -> "done"
                  [] pos + 1 = last        -> "read"
                  [] OTHER                 -> "loop"
  /\ pos' = pos + 1
  /\ UNCHANGED <<req, last>>

Next == ReadConfFile \/ ScanByte

Spec == Init /\ [][Next]_vars

-----------------------------------------------------------------------------
(* The reference: which files are well formed and what they configure.     *)

ModOf(b) == ConfFileGetSysMod(b.name)

CmdValid(m, ws) ==
  \/ m = 1 /\ ws[1] \in {DAEMON, PID} /\ Len(ws) = 2
  \/ ws[1] = LOG /\ Len(ws) = 3 /\ ws[3] \in Levels

BlockValid(b) ==
  /\ b.lead # <<"{">>
  /\ b.name \in {MAIN, NET}
  /\ b.sep # <<SP, "x">>
  /\ \A i \in DOMAIN b.body : CmdValid(ModOf(b), b.body[i].words)
  /\ b.close = <<"}">>

Valid(r) ==
  /\ \A i \in DOMAIN Blocks(r) : BlockValid(Blocks(r)[i])
  /\ r.tail # <<"#">>

\* The commands of the blocks of module m, in file order.
ModCmds(r, m) ==
  LET bs == SelectSeq(Blocks(r), LAMBDA b : ModOf(b) = m)
  IN  FlattenSeq([i \in DOMAIN bs |-> bs[i].body])

\* The main conf after the main block's commands, each setting its field.
ExpectedMain(r) ==
  IF \A i \in DOMAIN Blocks(r) : Blocks(r)[i].name # MAIN THEN NoMainConf
  ELSE FoldLeft(LAMBDA cf, c :
                  CASE c.words[1] = DAEMON -> [cf EXCEPT !.daemon = IF c.words[2] = OFF THEN 0 ELSE 1]
                    [] c.words[1] = PID    -> [cf EXCEPT !.pid = c.words[2]]
                    [] OTHER               -> cf,
                MainLocConf, ModCmds(r, 1))

\* The level of each module's logger: that of the last "log" in its block.
ExpectedLoggers(r) ==
  [m \in Mods |->
     LET logs == SelectSeq(ModCmds(r, m), LAMBDA c : c.words[1] = LOG)
     IN  IF logs = <<>> THEN <<>> ELSE logs[Len(logs)].words[3]]

(* A file is accepted exactly when it is well formed (and every log file  *)
(* opens), and an accepted file configures what its commands say: the     *)
(* byte-at-a-time scan with its case fallthroughs, the reset of k after    *)
(* every word, the switch of mod from one block to the next and the       *)
(* command lookups compose to the intended reading, however file_read     *)
(* splits the file.                                                        *)
ConfigAsWritten ==
  pc = "done" =>
    /\ (ps.ret = "CONF_OK") = (Valid(req) /\ ~ps.envFail)
    /\ ps.ret = "CONF_OK" =>
         /\ ps.blocks = Len(Blocks(req))
         /\ ps.main = ExpectedMain(req)
         /\ ps.loggers = ExpectedLoggers(req)

(* key[256] is never written past its end: conf_file_parser appends to   *)
(* key with key[k++] and terminates it with key[k] = '\0' without ever    *)
(* comparing k with the array's size.                                      *)
KeyInBounds == ~ps.overflow

====
