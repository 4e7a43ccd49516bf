------------------------------- MODULE Protocol -------------------------------
(***************************************************************************)
(* The resumable request parser protocol_parse (src/src/net/protocol.c)   *)
(* and the receive path that feeds it one read at a time.                  *)
(*                                                                         *)
(* A client sends one request frame.  The bytes arrive in reads of         *)
(* arbitrary size; every read lands in the tail buffer of the request's   *)
(* buffer chain (a new buffer is linked when the tail is full) and the     *)
(* read's new byte range is handed to protocol_parse.  The receive path   *)
(* (tcp_server_recv) is not in the repository and is modelled from        *)
(* spec.md 4.2; the parser is translated from protocol.c.                  *)
(*                                                                         *)
(* Bytes are abstracted to a small alphabet; a position in the frame       *)
(* (1-based) stands for the pointer p, and the buffer that holds it is     *)
(* (position - 1) \div BufSize.  Whether a new buffer lies directly after *)
(* the previous one in memory is the allocator's choice (layout): the      *)
(* parser's pointer arithmetic across two buffers is only meaningful when *)
(* it does.                                                                *)
(***************************************************************************)
EXTENDS Integers, Sequences, SequencesExt

CONSTANTS
  Cases,     \* request frames a client may send, as component records
  BufSize,   \* capacity of one buffer of the chain (request_buf_size)
  Layouts,   \* TRUE: a new buffer may follow the previous one in memory;
             \* FALSE: it may lie elsewhere
  IntBits,   \* width of int (32), scaled
  SizeBits   \* width of size_t and long (64 on LP64), scaled

ASSUME BufSize \in Nat \ {0}
ASSUME IntBits \in Nat \ {0} /\ SizeBits \in Nat /\ IntBits < SizeBits
ASSUME Layouts \subseteq BOOLEAN /\ Layouts # {}

-----------------------------------------------------------------------------
(* The byte alphabet and the character classes of xstring.h.              *)

CR == "CR"
LF == "LF"
SP == "SP"
UpperAlpha == {"P", "U", "T", "G", "E", "L", "I", "S", "Q", "X"}
LowerAlpha == {"u", "t", "h", "i"}
DigitChars == <<"0", "1", "2", "3">>
Digit == Range(DigitChars)
DigitValue(d) == CHOOSE v \in 0 .. 3 : DigitChars[v + 1] = d
Bytes == UpperAlpha \cup LowerAlpha \cup Digit \cup {";", "_", "=", SP, CR, LF}

\* is_blank(c)
IsBlank(c) == c \in {CR, LF, SP}

\* the header character test of the sw_type_lf and sw_headers cases
IsHeaderChar(c) == c \in UpperAlpha \cup LowerAlpha \cup Digit \cup {";", "_", "="}

PUT   == <<"P", "U", "T">>
GET   == <<"G", "E", "T">>
LIST  == <<"L", "I", "S", "T">>
QUEUE == <<"Q", "U", "E", "U", "E">>

Errors == {"err_type_invalid", "err_only_cr", "err_type_not_found",
           "err_headers_invalid", "err_data_len_invalid", "err_needless_data"}

Results == Errors \cup {"PROTOCOL_OK", "PROTOCOL_DONE", "PROTOCOL_ERROR"}

States == {"sw_start", "sw_type", "sw_type_cr", "sw_type_lf", "sw_headers",
           "sw_headers_cr", "sw_headers_lf", "sw_data_len", "sw_data_len_cr",
           "sw_data_len_lf", "sw_data"}

Types == {"UNKNOW", "PUT_T", "GET_T", "LIST_T", "QUEUE_T"}

-----------------------------------------------------------------------------
(* Memory: which buffer a position is in, and whether the bytes between   *)
(* two positions are contiguous in memory.  layout[b] says that buffer b   *)
(* (0-based, b >= 1) was allocated directly after buffer b - 1.            *)

BufOf(i) == (i - 1) \div BufSize

Contiguous(layout, i, j) == \A b \in (BufOf(i) + 1) .. BufOf(j) : layout[b]

\* pro->end - pro->start: two distinct allocations of at least BufSize
\* (>= BUFFER_MIN_SIZE) bytes are never 3, 4 or 5 bytes apart, so a
\* difference across non-adjacent buffers is represented by -1.
PtrDiff(layout, i, j) == IF Contiguous(layout, i, j) THEN j - i ELSE -1

\* The string the memory at f's position s reads as, for n bytes.
Token(f, s, n) == SubSeq(f, s, s + n - 1)

\* The command selected in the sw_type_cr case by the token length.
MatchType(f, layout, s, e) ==
  LET n == PtrDiff(layout, s, e)
  IN  CASE n = 3 /\ Token(f, s, 3) = PUT   -> "PUT_T"
        [] n = 3 /\ Token(f, s, 3) = GET   -> "GET_T"
        [] n = 4 /\ Token(f, s, 4) = LIST  -> "LIST_T"
        [] n = 5 /\ Token(f, s, 5) = QUEUE -> "QUEUE_T"
        [] OTHER                           -> "err_type_not_found"

Decimal(ds) == FoldLeft(LAMBDA acc, d : 10 * acc + DigitValue(d), 0, ds)

\* x_atoi(pro->start): the digits from s up to the CR at e (nulled), or,
\* when the token crosses into a buffer that is not adjacent, the digits up
\* to the end of s's buffer followed by memory that is not a digit.
Atoi(f, layout, s, e) ==
  IF Contiguous(layout, s, e) THEN Decimal(SubSeq(f, s, e - 1))
  ELSE Decimal(SubSeq(f, s, (BufOf(s) + 1) * BufSize))

\* x_atoi is atoi, which glibc computes as (int) strtol(s, NULL, 10): the
\* value saturates at LONG_MAX, and the conversion to int keeps the low
\* IntBits bits as a two's-complement value.
XAtoi(v) ==
  LET l == IF v > 2^(SizeBits - 1) - 1 THEN 2^(SizeBits - 1) - 1 ELSE v
      u == l % 2^IntBits
  IN  IF u >= 2^(IntBits - 1) THEN u - 2^IntBits ELSE u

\* An int assigned to the size_t data_len.
SizeT(i) == i % 2^SizeBits

\* *(p - 1) = '\0' writes outside every buffer when p is the first byte of
\* a buffer that does not follow its predecessor in memory.
StrayWrite(layout, i) == (i - 1) % BufSize = 0 /\ ~layout[BufOf(i)]

-----------------------------------------------------------------------------
(* One iteration of the for loop of protocol_parse: st is the loop's      *)
(* locals (state, data_len), the protocol struct pro, and ret, "cont"     *)
(* while the loop goes on or the value returned from inside the loop.     *)

Goto(st, s) == [st EXCEPT !.state = s]
Fail(st, e) == [st EXCEPT !.ret = e]

SwStart(f, st, i) ==
  CASE IsBlank(f[i])           -> st
    [] f[i] \notin UpperAlpha  -> Fail(st, "err_type_invalid")
    [] OTHER -> [Goto(st, "sw_type") EXCEPT !.pro.start = i]

SwType(f, st, i) ==
  CASE f[i] = CR               -> [Goto(st, "sw_type_cr") EXCEPT !.pro.end = i]
    [] f[i] \notin UpperAlpha  -> Fail(st, "err_type_invalid")
    [] OTHER                   -> st

SwTypeCr(f, layout, st, i) ==
  LET t == MatchType(f, layout, st.pro.start, st.pro.end)
  IN  CASE f[i] # LF               -> Fail(st, "err_only_cr")
        [] t = "err_type_not_found" -> Fail(st, t)
        [] OTHER -> [Goto(st, "sw_type_lf") EXCEPT !.pro.type = t]

SwTypeLf(f, st, i) ==
  CASE f[i] = CR               -> Goto(st, "sw_headers_cr")
    [] ~IsHeaderChar(f[i])     -> Fail(st, "err_headers_invalid")
    [] OTHER -> [Goto(st, "sw_headers") EXCEPT !.pro.hstart = i]

SwHeaders(f, st, i) ==
  CASE f[i] = CR               -> [Goto(st, "sw_headers_cr") EXCEPT !.pro.hend = i]
    [] ~IsHeaderChar(f[i])     -> Fail(st, "err_headers_invalid")
    [] OTHER                   -> st

SwHeadersCr(f, st, i) ==
  IF f[i] # LF THEN Fail(st, "PROTOCOL_ERROR") ELSE Goto(st, "sw_headers_lf")

SwHeadersLf(f, st, i) ==
  CASE st.pro.type # "PUT_T"   -> Fail(st, "err_needless_data")
    [] f[i] \notin Digit       -> Fail(st, "err_data_len_invalid")
    [] OTHER -> [Goto(st, "sw_data_len") EXCEPT !.pro.start = i]

SwDataLen(f, st, i) ==
  CASE f[i] = CR               -> [Goto(st, "sw_data_len_cr") EXCEPT !.pro.end = i]
    [] f[i] \notin Digit       -> Fail(st, "err_data_len_invalid")
    [] OTHER                   -> st

SwDataLenCr(f, layout, st, i) ==
  LET n   == SizeT(XAtoi(Atoi(f, layout, st.pro.start, st.pro.end)))
      st2 == [st EXCEPT !.stray = @ \/ StrayWrite(layout, i),
                        !.dl = n, !.pro.dataLen = n]
  IN  CASE f[i] # LF  -> Fail(st, "err_only_cr")
        [] n <= 0     -> Fail(st2, "err_data_len_invalid")
        [] OTHER      -> Goto(st2, "sw_data_len_lf")

\* Mutant: the LF that ends the length line is not counted against data_len.
SwDataLenLfNoCount(st, i) == [Goto(st, "sw_data") EXCEPT !.pro.dstart = i]

SwDataLenLf(st, i) ==
  [Goto(st, "sw_data") EXCEPT !.pro.dstart = i, !.dl = @ - 1]

\* Mutant: a data byte is counted without checking that any were announced.
SwDataUnchecked(st) == [st EXCEPT !.dl = @ - 1]

SwData(st) ==
  IF st.dl = 0 THEN Fail(st, "err_needless_data") ELSE [st EXCEPT !.dl = @ - 1]

Step(f, layout, st, i) ==
  CASE st.state = "sw_start"       -> SwStart(f, st, i)
    [] st.state = "sw_type"        -> SwType(f, st, i)
    [] st.state = "sw_type_cr"     -> SwTypeCr(f, layout, st, i)
    [] st.state = "sw_type_lf"     -> SwTypeLf(f, st, i)
    [] st.state = "sw_headers"     -> SwHeaders(f, st, i)
    [] st.state = "sw_headers_cr"  -> SwHeadersCr(f, st, i)
    [] st.state = "sw_headers_lf"  -> SwHeadersLf(f, st, i)
    [] st.state = "sw_data_len"    -> SwDataLen(f, st, i)
    [] st.state = "sw_data_len_cr" -> SwDataLenCr(f, layout, st, i)
    [] st.state = "sw_data_len_lf" -> SwDataLenLf(st, i)
    [] st.state = "sw_data"        -> SwData(st)

RECURSIVE ParseLoop(_, _, _, _, _)
ParseLoop(f, layout, st, i, last) ==
  IF i > last \/ st.ret # "cont" THEN st
  ELSE ParseLoop(f, layout, Step(f, layout, st, i), i + 1, last)

\* Mutant: a chunk that ends mid-frame saves the state but not tmp_len.
EndOfChunkNoLen(st, last) ==
  CASE st.pro.type \notin {"UNKNOW", "PUT_T"} /\ st.state = "sw_headers_lf" ->
         [st EXCEPT !.ret = "PROTOCOL_DONE"]
    [] st.pro.type = "PUT_T" /\ st.state = "sw_data" /\ st.dl = 0 ->
         [st EXCEPT !.ret = "PROTOCOL_DONE", !.pro.dend = last + 1]
    [] OTHER ->
         [st EXCEPT !.ret = "PROTOCOL_OK", !.pro.state = st.state]

\* The completion tests after the loop; otherwise state and data_len are
\* saved back into the protocol struct and the parse is incomplete.
EndOfChunk(st, last) ==
  CASE st.pro.type \notin {"UNKNOW", "PUT_T"} /\ st.state = "sw_headers_lf" ->
         [st EXCEPT !.ret = "PROTOCOL_DONE"]
    [] st.pro.type = "PUT_T" /\ st.state = "sw_data" /\ st.dl = 0 ->
         [st EXCEPT !.ret = "PROTOCOL_DONE", !.pro.dend = last + 1]
    [] OTHER ->
         [st EXCEPT !.ret = "PROTOCOL_OK",
                    !.pro.state = st.state, !.pro.tmpLen = st.dl]

\* protocol_parse(r, start, end) over the frame positions first .. last.
ParseChunk(f, layout, pro, first, last) ==
  LET st == ParseLoop(f, layout,
                      [pro |-> pro, state |-> pro.state, dl |-> pro.tmpLen,
                       ret |-> "cont", stray |-> FALSE],
                      first, last)
  IN  IF st.ret # "cont" THEN st ELSE EndOfChunk(st, last)

\* The zeroed struct protocol_init allocates with pcalloc.
ProInit == [state |-> "sw_start", type |-> "UNKNOW", start |-> 0, end |-> 0,
            hstart |-> 0, hend |-> 0, dataLen |-> 0, tmpLen |-> 0,
            dstart |-> 0, dend |-> 0]

-----------------------------------------------------------------------------
(* A request frame as its grammar components (spec.md 4.3).               *)

Frame(r) ==
  r.lead \o r.type \o <<CR, LF>> \o r.hdrs \o <<CR, LF>>
         \o (IF r.len = <<>> THEN <<>> ELSE r.len \o <<CR, LF>>)
         \o r.body \o r.tail

VARIABLES
  req,      \* the frame the client sends (fixed for the behaviour)
  got,      \* bytes read so far, all of them handed to the parser
  pro,      \* the request's protocol_t
  result,   \* what the last protocol_parse call returned
  layout,   \* layout[b]: buffer b was allocated right after buffer b - 1
  stray     \* some call wrote outside every buffer

vars == <<req, got, pro, result, layout, stray>>

frame == Frame(req)

Init ==
  /\ req \in Cases
  /\ got = 0
  /\ pro = ProInit
  /\ result = "PROTOCOL_OK"
  /\ layout = <<>>
  /\ stray = FALSE

\* tcp_server_recv: while the parse is incomplete, read 1 .. room bytes
\* into the tail buffer, linking a new buffer first when the tail is full,
\* and hand the new bytes to protocol_parse.
Recv ==
  /\ result = "PROTOCOL_OK"
  /\ got < Len(frame)
  /\ LET full    == got > 0 /\ got % BufSize = 0
         layouts == IF full THEN {Append(layout, a) : a \in Layouts}
                    ELSE {layout}
         room    == BufSize - (got % BufSize)
     IN  \E l \in layouts, k \in 1 .. room :
           /\ got + k <= Len(frame)
           /\ LET res == ParseChunk(frame, l, pro, got + 1, got + k)
              IN  /\ pro' = res.pro
                  /\ result' = res.ret
                  /\ stray' = (stray \/ res.stray)
           /\ got' = got + k
           /\ layout' = l
           /\ UNCHANGED req

Next == Recv

Spec == Init /\ [][Next]_vars

-----------------------------------------------------------------------------
(* The reference: what the grammar of spec.md 4.3 says about a frame.     *)

Valid(r) ==
  /\ \A j \in DOMAIN r.lead : IsBlank(r.lead[j])
  /\ r.type \in {PUT, GET, LIST, QUEUE}
  /\ \A j \in DOMAIN r.hdrs : IsHeaderChar(r.hdrs[j])
  /\ IF r.type = PUT
       THEN /\ r.len # <<>>
            /\ \A j \in DOMAIN r.len : r.len[j] \in Digit
            /\ Decimal(r.len) = Len(r.body)
            /\ Len(r.body) > 0
       ELSE r.len = <<>> /\ r.body = <<>>
  /\ r.tail = <<>>

CommandOf(t) ==
  CASE t = PUT -> "PUT_T" [] t = GET -> "GET_T"
    [] t = LIST -> "LIST_T" [] t = QUEUE -> "QUEUE_T"

\* The whole frame parsed in one call out of one buffer.
OneShot(r) ==
  LET f == Frame(r)
  IN  ParseChunk(f, [b \in 1 .. Len(f) |-> TRUE], ProInit, 1, Len(f)).ret

HeaderToken == IF pro.hstart = 0 THEN <<>> ELSE SubSeq(frame, pro.hstart, pro.hend - 1)

BodyToken == SubSeq(frame, pro.dstart, pro.dend - 1)

-----------------------------------------------------------------------------
(* Type invariant: the parser state protocol_parse leaves in struct        *)
(* protocol between reads stays within its domains; tmp_len never wraps.  *)
TypeOK ==
  /\ req \in Cases
  /\ got \in 0 .. Len(frame)
  /\ pro.state \in States /\ pro.type \in Types
  /\ {pro.start, pro.end, pro.hstart, pro.hend, pro.dstart, pro.dend} \subseteq 0 .. Len(frame) + 1
  /\ pro.tmpLen \in Nat /\ pro.dataLen \in Nat
  /\ result \in Results
  /\ layout \in Seq(BOOLEAN)
  /\ stray \in BOOLEAN

(* Resumability (spec.md 8): however a valid frame is split into reads,   *)
(* protocol_parse never reports an error, reports completion exactly when *)
(* the last byte has been read, and then holds the frame's command, its   *)
(* header token and exactly its declared body.                            *)
ValidFrameParsed ==
  Valid(req) =>
    /\ result \in {"PROTOCOL_OK", "PROTOCOL_DONE"}
    /\ (result = "PROTOCOL_DONE") = (got = Len(frame))
    /\ result = "PROTOCOL_DONE" =>
         /\ pro.type = CommandOf(req.type)
         /\ HeaderToken = req.hdrs
         /\ req.type = PUT => BodyToken = req.body

(* Error determinism under fragmentation: whatever protocol_parse decides *)
(* for a frame read in pieces is what it decides for the frame read at    *)
(* once, except that a complete request followed by extra bytes completes *)
(* at a read boundary where the one-shot parse reports the extra byte as  *)
(* err_needless_data.                                                     *)
ChunkIndependence ==
  result # "PROTOCOL_OK" =>
    \/ result = OneShot(req)
    \/ result = "PROTOCOL_DONE" /\ OneShot(req) = "err_needless_data"

(* Every error protocol_parse returns is one of the six codes that index  *)
(* the protocol_err_info table of error responses (spec.md 6).            *)
ErrorIsKnownCode == result \in Errors \cup {"PROTOCOL_OK", "PROTOCOL_DONE"}

(* No call of protocol_parse writes outside the request's buffers.        *)
NoStrayWrite == ~stray

=============================================================================
