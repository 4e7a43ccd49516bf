------------------------------- MODULE XFile -------------------------------
(***************************************************************************)
(* file_write of src/src/xfile.c, the call through which log_core_writer   *)
(* puts every log line into its file.                                      *)
(*                                                                         *)
(* A file is a record: data, the bytes in the file; pos, the descriptor's *)
(* position in the kernel; offset, the file_t's cached f->offset; append, *)
(* whether the descriptor was opened with FL_APPEND (then every write(2)  *)
(* goes to the end, whatever pos is).  write(2) may write any number of   *)
(* the bytes it is given from 1 up, or fail; file_write's loop must turn  *)
(* every such sequence of results into one contiguous copy of buf, or an  *)
(* error.  The variables are one call's arguments and locals, and each    *)
(* step is one lseek or one pass of the loop.                             *)
(***************************************************************************)
EXTENDS Integers, Sequences, FiniteSets

CONSTANTS
  WriteFiles,  \* the files file_write is checked on
  WriteBufs    \* the buffers it is checked with

\* log_core_writer's lines always end in LF, so no buffer is empty.
ASSUME \A b \in WriteBufs : b # <<>>

\* FL_DEFAULT_OFFSET: write at the current position, no lseek.
FL_DEFAULT_OFFSET == -1

\* The bytes of d with s written from index p + 1 on, the file growing
\* when s runs past its end.
Overwrite(d, p, s) ==
  [i \in 1 .. IF p + Len(s) > Len(d) THEN p + Len(s) ELSE Len(d) |->
     IF i > p /\ i <= p + Len(s) THEN s[i - p] ELSE d[i]]

\* write(2) of n bytes of s succeeding: the bytes land at the end for an
\* append descriptor, else at pos; pos moves past them.
SysWrite(fl, s, n) ==
  LET at == IF fl.append THEN Len(fl.data) ELSE fl.pos
  IN  [fl EXCEPT !.data = Overwrite(@, at, SubSeq(s, 1, n)), !.pos = at + n]

\* What write(2) of size bytes may return besides -1: 0 only when asked
\* for nothing (regular files, no signal interrupting a write).
WriteCounts(size) == IF size = 0 THEN {0} ELSE 1 .. size

VARIABLES
  win,      \* the call's arguments: [file |-> f as passed, buf, off]
  wf,       \* the file f, as the call changes it
  written,  \* file_write's written
  wsize,    \* file_write's size: the bytes still to write
  wret,     \* file_write's return value, once it returns
  wpc       \* "seek", "loop", or "done" once file_write has returned

xvars == <<win, wf, written, wsize, wret, wpc>>

\* A call file_write(f, buf, Len(buf), off) on any file and buffer.
XFileInit ==
  /\ win \in UNION {[file : {fl}, buf : WriteBufs,
                     off : {FL_DEFAULT_OFFSET} \cup 0 .. Len(fl.data)] :
                     fl \in WriteFiles}
  /\ wf = win.file
  /\ written = 0
  /\ wsize = Len(win.buf)
  /\ wret = 0
  /\ wpc = "seek"

\* An offset other than the default and the cached one is sought to; a
\* failing lseek returns XPE_ERROR.
FileWriteSeek ==
  /\ wpc = "seek"
  /\ IF win.off # FL_DEFAULT_OFFSET /\ win.off # wf.offset
     THEN \/ /\ wf' = [wf EXCEPT !.pos = win.off, !.offset = win.off]
             /\ wpc' = "loop" /\ UNCHANGED wret
          \/ wret' = -1 /\ wpc' = "done" /\ UNCHANGED wf
     ELSE wpc' = "loop" /\ UNCHANGED <<wf, wret>>
  /\ UNCHANGED <<win, written, wsize>>

\* Mutant of FileWriteLoop: every write restarts from buf instead of
\* buf + written.
FileWriteLoopFromStart ==
  /\ wpc = "loop"
  /\ \E n \in {-1} \cup WriteCounts(wsize) :
       IF n = -1 THEN wret' = -1 /\ wpc' = "done" /\ UNCHANGED <<wf, written, wsize>>
       ELSE /\ wf' = [SysWrite(wf, SubSeq(win.buf, 1, wsize), n)
                      EXCEPT !.offset = @ + n]
            /\ written' = written + n
            /\ IF n = wsize THEN wret' = written + n /\ wpc' = "done" /\ UNCHANGED wsize
               ELSE wsize' = wsize - n /\ UNCHANGED <<wret, wpc>>
  /\ UNCHANGED win

(***************************************************************************)
(* One pass of the for (;;) loop: write(2) of size bytes at buf + written  *)
(* returns n; -1 returns XPE_ERROR; otherwise f->offset and written grow  *)
(* by n, and the call returns written once a write took all it was given, *)
(* else the loop asks again for the size - n bytes left.                   *)
(***************************************************************************)
FileWriteLoop ==
  /\ wpc = "loop"
  /\ \E n \in {-1} \cup WriteCounts(wsize) :
       IF n = -1 THEN wret' = -1 /\ wpc' = "done" /\ UNCHANGED <<wf, written, wsize>>
       ELSE /\ wf' = [SysWrite(wf, SubSeq(win.buf, written + 1, written + wsize), n)
                      EXCEPT !.offset = @ + n]
            /\ written' = written + n
            /\ IF n = wsize THEN wret' = written + n /\ wpc' = "done" /\ UNCHANGED wsize
               ELSE wsize' = wsize - n /\ UNCHANGED <<wret, wpc>>
  /\ UNCHANGED win

XFileNext == FileWriteSeek \/ FileWriteLoop

-----------------------------------------------------------------------------
\* Where buf belongs: at the end for an append descriptor, else at the
\* offset asked for, or the current position for the default one.
Target(fl, offset) ==
  IF fl.append THEN Len(fl.data)
  ELSE IF offset = FL_DEFAULT_OFFSET THEN fl.pos ELSE offset

\* Whatever write(2) and lseek return, file_write returns size only after
\* buf was written once, whole and in order, where it belongs (with the
\* cached offset still the descriptor's position for a plain one), and
\* otherwise returns XPE_ERROR with a proper prefix of buf written there:
\* no byte twice, none out of order, none past buf, and no short write
\* reported as success.
FileWriteWritesBuf ==
  wpc = "done" =>
    LET fl == win.file
        t  == Target(fl, win.off)
    IN  IF wret = Len(win.buf)
        THEN /\ wf.data = Overwrite(fl.data, t, win.buf)
             /\ wf.pos = t + Len(win.buf)
             /\ ~fl.append => wf.offset = wf.pos
        ELSE /\ wret = -1
             /\ \E k \in 0 .. Len(win.buf) - 1 :
                  wf.data = Overwrite(fl.data, t, SubSeq(win.buf, 1, k))
=============================================================================
