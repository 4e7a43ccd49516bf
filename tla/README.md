# TLA+ models of Xpipe

This directory models the network core of Xpipe with TLA+ and checks it
with TLC. The network core is the request parser, the epoll event
driver, the dispatch loop and the connection pool, in `src/src/net`.
The directory also models the configuration file parser (`conf_file.c`),
the dynamic array (`dynamic_array.c`), the logger (`logger.c`) and the
process lifecycle in `xpipe.c`: startup, SIGTERM, the `USE_BACKTRACE`
fault handler and the working loop, and `file_write` (`xfile.c`).
Every module is translated from the C source. The exceptions are the
parts whose source (`tcp_server.c`) is not in the repository; those are
modelled from `spec.md` and marked `spec_modelled` in `PROJECT.json`.

## The system

Xpipe is a single-threaded, epoll-driven TCP server for a small queue
protocol (`PUT`, `GET`, `LIST`, `QUEUE`).

| Part | Source | State | Operations |
|------|--------|-------|------------|
| Protocol state machine | `net/protocol.c` | `protocol_t`: state, type, token pointers, `data_len`, `tmp_data_len`, body start and end | `protocol_init`, `protocol_parse` (one call per read) |
| Buffer chain | `net/tcp_server.h` (`buffer_t`; code absent) | linked fixed-size buffers | append a buffer when the tail is full |
| Event multiplexer | `net/net_epoll.c` | epoll fd, kernel interest list, `conn->events` | `epoll_add_event`, `epoll_del_event`, `epoll_polling` |
| Dispatch loop | `net/net_event.c` | the active list, `active_conns` | `process_events`, `add_event`, `del_event` |
| Connection and request manager | `net/tcp_server.h` (code absent) | connection pool, free list, per-connection flags | accept, recv, send, `tcp_free_connection` |
| Configuration file parser | `conf_file.c` | parser state, `key[256]`, module and command arrays | `conf_file_parser` |
| Dynamic array | `dynamic_array.c` | `elts`, `nelts`, `nalloc` | push, push_ix, get_ix |
| Logger | `logger.c` | none (writes a 2048-byte line buffer) | `log_core_writer` and the level wrappers |
| Process lifecycle | `xpipe.c`, `mod_manager.h` | `xpipe_resource`, `stop` | startup, signals, module loop |
| Helpers | `xstring.*`, `xfile.c`, `system.h`, `mem_pool.h` | none | wrappers over libc and syscalls |

How the parts interact:

1. `process_events` calls `epoll_polling`, which pushes every ready
   connection onto the front of the active list through `conn->next`.
2. It then walks that list. For each connection it runs:
   - the read handler (accept on the listener, receive on a client);
   - the write handler (send);
   - the deferred removal `del_event(dead_events)`.
3. Then it either closes the connection or applies the deferred
   `add_event(add_events)`.
4. Closing frees the slot with `tcp_free_connection`. That pushes the
   slot onto the pool's free list through the same `next` field.

Receiving appends the bytes to the request's buffer chain and hands the
new range to `protocol_parse`. A complete request queues a response and
asks for write interest. An error response closes the connection once
it is sent.

The behaviours that make this hard:

- the parser is resumable at every byte boundary;
- a token can span two buffers of the chain;
- one `next` field serves two lists;
- epoll registrations are cached in `conn->events` while the kernel holds
  the truth;
- clients may hang up at any time.

## Modules

### Protocol (`Protocol.tla`, `MC_Protocol.tla`)

`protocol_parse` is a pure operator over the frame, the memory layout of
the buffers and the saved `protocol_t`:

- Each `case` of the switch is one operator (`SwStart` … `SwData`),
  with its early returns as `Fail`.
- `ParseLoop` is the `for` loop, written as a recursive operator.
- `EndOfChunk` is the completion test and the write-back after the loop.

The state machine has one action, `Recv`, which models
`tcp_server_recv` from spec 4.2. Each step does the following:

- It reads between 1 and `room` bytes into the tail buffer, first
  linking a new buffer when the tail is full.
- The allocator chooses whether the new buffer directly follows the old
  one in memory (`layout`).
- It calls `ParseChunk` on the new bytes.

The model's state and the code:

| Model | Code |
|-------|------|
| `got` | bytes read so far |
| `pro` | `r->protocol` |
| `result` | the last return value |
| `stray` | whether `*(p - 1) = '\0'` ever wrote outside the chain |

Pointer arithmetic and memory reads are modelled by what they do:

- `PtrDiff` is `j - i` when the memory between the two positions is
  contiguous. Otherwise it is -1, because two allocations of at least
  `BUFFER_MIN_SIZE` bytes are never 3, 4 or 5 bytes apart.
- `Atoi` reads up to the end of the first buffer when the next buffer is
  elsewhere.
- `XAtoi` is glibc's `atoi`, that is `(int) strtol`. The value saturates
  at `LONG_MAX`, and the conversion keeps the low `IntBits` bits as a
  signed value. `SizeT` is the assignment of that int to the `size_t`
  `data_len`.

The reference is the grammar of spec 4.3 (`Valid`), together with the
one-shot parse of the whole frame from one buffer (`OneShot`).

Frames are built from components, each from a small set chosen to reach
every state and every error:

- a leading blank;
- the type: `PUT`, `GET`, `QUEUE`, an unknown `PUTX`, or a lowercase
  `Pu`;
- the headers: none, `t=1`, a space, or a stray CR;
- the length: none, `0` or `2`;
- the body: none or `hi`;
- trailing data: none or one extra byte.

That gives 480 frames, and each frame is read in every possible split.

### EventLoop (`EventLoop.tla`, `MC_EventLoop.tla`)

`EventLoop` models the event driver, the dispatch loop and the connection
pool, against a model of the kernel:

| Model | Code or kernel |
|-------|----------------|
| `kreg[fd]` | the kernel's interest list: the mask and `data.ptr` |
| `fdOpen` | open descriptors |
| `backlog` | the listen queue |
| `inbound[fd]` | what a client socket has to read |

`conn[c]` holds the fields of `tcp_connection_t`:

- `events`, `active`, `dead`, `add`, `close`, the two handlers and
  `next`;
- `resp`, the unsent part of a response;
- `rerr`, whether the response is an error response.

The actions:

| Action | Code |
|--------|------|
| `EpollPolling` | `epoll_polling`. Any order of up to `EpollSize` ready descriptors; each owner is prepended to the active list, and the last push of a connection wins. A descriptor left out of a truncated report stays ready for the next call. A timeout is a step that changes nothing. |
| `ProcessEvent` | One iteration of the `while` loop of `process_events`: read handler, write handler, `del_event`, then close and free, or `add_event`. |
| `Connect`, `ClientSend`, `ClientClose` | The clients. A request is good or bad; a bad one gets an error response and a close. |

`EpollAddEvent`, `EpollDelEvent`, `AddEvent` and `DelEvent` translate
`net_epoll.c` and `net_event.c`. They return the new state and, for add,
whether `epoll_ctl` succeeded:

- ADD of a watched descriptor fails (`EEXIST`);
- MOD of an unwatched descriptor fails (`ENOENT`);
- either on a closed descriptor fails (`EBADF`).

### ConfFile (`ConfFile.tla`, `MC_ConfFile.tla`)

`conf_file_parser` runs once at startup, before anything else, and is
sequential. Its state is the set of locals that survive from one
`file_read` chunk to the next:

- `state` and `old_state`;
- the `key` buffer and its index `k`;
- `cmd_args`;
- `mod`.

`ps` holds those locals together with what the command handlers set:

- the main module's conf (`daemon`, `pid`);
- the level of each module's logger;
- `conf->blocks`.

It also keeps two history flags:

- `overflow`: some write to `key` fell outside its `KeySize` bytes;
- `envFail`: a log file failed to open, or a read failed.

The actions:

| Action | Code |
|--------|------|
| `ReadConfFile` | `READ_CONF_FILE` with `file_read` (`FileRead`, `xfile.c`). A read returns any count from 1 to `ReadSize` bytes, as `read(2)` may return fewer, or fails, which rejects the file. At end of file only `sw_out` or `sw_mod_block_end` is accepted. |
| `ScanByte` | One iteration of the `for` loop. |

`Step` is the `switch`. Each `case` is an operator, and a case without
`break` calls the next case's operator, exactly as C falls through. For
example, `SwModName` calls `SwModNameEnd` on a blank, a `{` or a `#`.

The lookups translate `conf_file_get_sys_mod`, `conf_file_get_command`,
which stops at the first command flagged `mod`, and
`conf_file_get_global_cmd`, on the module tables of `xpipe.c`. `cmd_args`
is a sequence, pushed and read with the `dynamic_array` operators.

The reference is built from components. A file is one module block
with these parts:

- a leading comment or blank;
- a name: `main`, `net`, unknown, or with a bad character;
- a separator before `{`;
- a body of commands;
- the closing `}`;
- a tail.

`Valid` is the grammar the parser's error messages describe. Every
comment, the last one included, ends with a newline. `ExpectedMain` and
`ExpectedLoggers` say what a block's commands configure.

The net module's source is not in the repository, so its own command
table is modelled as empty. Only the global `log` command applies to it.

### DynamicArray and ArraySeq (`DynamicArray.tla`, `ArraySeq.tla`, `MC_DynamicArray.tla`)

`ArraySeq` is what callers assume of a `dynamic_array_t`:

- a sequence that `push` extends by one element, or leaves alone when
  memory runs out;
- `get_ix` returns the element at a 0-based index, or NULL past the end;
- a write through `push_ix` is visible only at an index already pushed.

`ConfFile` uses exactly this view.

`DynamicArray` has the real representation. `elts` is a function on
`0 .. nalloc - 1`, and its first `nelts` slots hold the elements. A slot
never written holds `Garbage`. Each action is a call together with the
caller's store or read through the pointer it returns:

| Action | Code |
|--------|------|
| `Init` | `dynamic_array_create`, which then does what `dynamic_array_init` (`DynamicArrayInit`) does, with sizes 1 and 2 |
| `DynamicArrayPush` | `dynamic_array_push`. A full array is regrown to `2 * nalloc` by `Grown`, copying `size * nalloc` bytes. A failed regrowth returns NULL and changes nothing. |
| `DynamicArrayPushIx` | `dynamic_array_push_ix`: any index below `nalloc`, with `nelts` unchanged |
| `DynamicArrayGetIx` | `dynamic_array_get_ix` and the read of the element into `out` |

The refinement mapping takes the sequence to be the first `nelts` slots:
`AS == INSTANCE ArraySeq WITH seq <- [k \in 1 .. nelts |-> elts[k - 1]]`.
`ImplementsArraySeq == AS!Spec` is the property checked.

### Logger (`Logger.tla`, `MC_Logger.tla`)

A line of `log_core_writer` is abstracted to its lengths. The parts are:

- the cached time, `TimeLen` (`times.c` is not in the tree);
- the level prefix (`level_str`);
- `strerror(err)` and `" - "`, when `err` is not 0;
- the message, a record of its identity and of the length `n` that
  `vsnprintf` returns.

`LogCoreWriter` follows the pointer arithmetic of lines 27 to 44. Its
`top` field is the highest index of `info_str` the call writes. The
wrappers `LogError`, `LogWarn`, `LogInfo` and `LogDebug` return the set
of lines written: none for a NULL logger or one whose level is too low.
`LogPrintf` and `LogStderr` write to stdout. The log is the set `sink`.
`LoggerNext` lets any caller log any message through any logger.

### Startup (`Startup.tla`, `MC_Startup.tla`)

`main` is one thread. `pc` names the statement it runs next, and the
SIGTERM handler runs as one atomic step between two of main's steps.
Callees whose source is not in the tree succeed or fail, ranging over
`CallOk`. These are `sys_modules_prepare`, the net module's hooks, and
the pid file's open and write.

| Action | Code |
|--------|------|
| `ConfFileParser` | `conf_file_parser`, abstracted to its result: an error, or the main block's `daemon` and logger (`ConfFile` checks the parser itself) |
| `BuildResource` | lines 248-258 with `create_default_logger` (`CreateDefaultLogger`): `stop = 0`, the default logger, and the "finish building resource" info message |
| `Prepare` | `sys_modules_prepare` |
| `InitMain`, `InitNet` | `system_modules_init` for `main` then `net`. `init_main_mod` runs `setup_signals` (`SetupSignals`). |
| `ProcessDaemon` | `process_daemon`: fork, then the pid file's open and write. A failing fork returns -1, which also takes the `!= 0` branch: `exit(0)`, unlogged, with no child. |
| `Working` | one pass of `system_modules_working`: return once `stop` is set, otherwise run the net module's `process_mod` |
| `SigTerm` | a SIGTERM arrives. Under the default disposition it ends the process. Otherwise `SA_RESETHAND` restores the default and `sig_term_handler` logs a warning and sets `stop`. |
| `Fault(s)` | a fault signal (SIGSEGV, SIGBUS) raised by the code running, main's or the handler's. Under the default disposition it ends the process. Otherwise `SA_RESETHAND` restores the default on entry and a `sig_backtrace_handler` frame is pushed on `stack`. |
| `BacktraceSymbols` | `backtrace_symbols` fails (`goto process_exit`) or its lines go to `log_error` on the default logger, then `log_printf` |
| `BacktraceExit` | `process_exit`: `sigaction(sig, SIG_DFL)` and `kill(getpid(), sig)`, which ends the process by that signal |

`build` is fixed in `Init` from `Builds`: `"term"` is the build without
`USE_BACKTRACE` (`setup_signals` installs `sig_term_handler` for SIGTERM),
`"backtrace"` the one with it (`sig_backtrace_handler` for the fault
signals, SIGTERM left at its default). Main's steps are disabled while a
handler frame is on `stack`, as the handler runs on main's thread. A
fault may strike while `backtrace_symbols` runs, since that is where a
corrupted heap faults again.

`Startup` extends `Logger`, so every message main logs goes through the
level wrappers into `sink`. It also extends `XFile` (below).

### XFile (`XFile.tla`)

`file_write` is how `log_core_writer` writes a line to a log file. The
variables are one call's arguments (`win`) and its locals: the file
`wf`, `written`, `size` (`wsize`) and the return value. A file is a
record of its bytes, the kernel position, the cached `f->offset` and
whether it was opened with `FL_APPEND`.

| Action | Code |
|--------|------|
| `FileWriteSeek` | the `lseek` to an offset other than the default and the cached one; a failure returns `XPE_ERROR` |
| `FileWriteLoop` | one pass of the `for (;;)` loop: `write(2)` (`SysWrite`) of `size` bytes at `buf + written` returns -1 or 1 to `size`; the call returns once a write took everything it was given |

`Startup`'s `Spec` runs one such call beside main's steps. The call
shares no variable with them, so the startup runs check it on every
file and buffer of their configuration.

## Runs

| Run | Expect | What it shows |
|-----|--------|---------------|
| `protocol_chunking` | pass | Every frame, split any way into a contiguous buffer, parses as the grammar says (`ValidFrameParsed`). The verdict never depends on the split (`ChunkIndependence`). The one exception is a trailing byte after a complete frame, PUT or not: the one-shot parse reports it as `err_needless_data`, while a read that ends exactly at the frame's end completes it first. |
| `protocol_errcodes` | violation | A non-LF after the header CR, as in TLC's trace `PUT\r\nt\rh…` (a `GET` frame reaches it the same way), makes `protocol_parse` return `PROTOCOL_ERROR`, which is not one of the six error codes (`protocol.c:164`). |
| `protocol_straddle` | violation | With 2-byte buffers that are not adjacent in memory, a valid request is rejected as `err_type_not_found`: the type token spans two buffers (`protocol.c:100`). |
| `protocol_stray` | violation | With 3-byte buffers, the LF after the body length starts a new buffer and `*(p - 1) = '\0'` writes outside the chain (`protocol.c:198`). |
| `protocol_atoi` | violation | With `int` scaled to 3 bits and `size_t` to 6, a PUT of declared length 10 and a 10-byte body completes after 2 body bytes. `x_atoi` is `(int) strtol`, so a real length of 2^32 + 2 gives 2, and 2^31 to 2^32 - 1 gives a huge `size_t` that never completes (`protocol.c:205`). |
| `eventloop_dispatch` | pass | Two pool slots and three clients, each sending two requests and free to hang up at any time; `epoll_wait` reports at most two of the up to three ready descriptors. The free list and the active list, which share `next`, stay disjoint and exact (`PoolLinks`). The interest list agrees with `conn->events` (`WatchesMatch`). Between cycles a connection has write interest exactly while response bytes are left (`WriteInterestMatchesResponse`), so the loop neither spins on EPOLLOUT nor strands a response. Under weak fairness of polling and dispatch, every request is eventually answered or its connection closed (`RequestAnswered`). |
| `conf_parse` | pass | Each of 2688 one-block files and 2352 two-block files (a `main` and a `net` block, in either order), read in chunks of every length from 1 to 5 bytes, is accepted exactly when well formed and no log file fails to open and no read fails. An accepted file configures what its commands say (`ConfigAsWritten`). |
| `conf_key` | violation | With `key[]` scaled to 6 bytes, `net{daemon ` writes `key[6]`. The parser never bounds `k`, so a word of 256 or more bytes overflows the real `key[256]` (`conf_file.c:222`). |
| `array_refine` | pass | A `dynamic_array_t` implements `ArraySeq` (`ImplementsArraySeq`). This holds across regrowth from sizes 1 and 2, a failed regrowth, and `push_ix` and `get_ix` below, at and past `nelts` and `nalloc`. Regrowth keeps every element, and `get_ix` never returns `Garbage`. |
| `logger_buffer` | violation | `log_error` with ENOENT and a 2020-byte message writes up to index 2057 of the 2048-byte `info_str`, even with an empty time (`LineInBuffer`). `max_len` subtracts only the level prefix (`logger.c:39`). No message in the tree is that long today. |
| `startup_stop` | pass | In both builds, a SIGTERM sent at any step ends the process (`StopEventually`). That covers a SIGTERM before `setup_signals`, one during init, one in the working loop, one during a backtrace handler, and a second one after `SA_RESETHAND`. A fault inside `sig_backtrace_handler` never enters the handler again for the same signal (`HandlerNotReentered`). `file_write` returns `size` only after writing all of `buf` once, in order, at the end of an append file or at the offset asked for. Otherwise it returns `XPE_ERROR` with a proper prefix written, whatever the `write(2)` calls return (`FileWriteWritesBuf`). |
| `startup_logged` | violation | With no `log` command, `create_default_logger` never stores the logger it creates. `default_logger` stays NULL and the startup info message is dropped (`ResourceBuiltLogged`), as is every later message through the default logger (`xpipe.c:405`). |

Each property of a passing run has a mutant in `PROJECT.json`: a
plausible bug in the modelled code that TLC shows breaks it. For example,
reading `next` after `tcp_free_connection` breaks `PoolLinks`, and
replacing the interest mask instead of joining it breaks
`RequestAnswered`, and keeping the removed events instead of the others in
`epoll_del_event` breaks `WriteInterestMatchesResponse`. Copying one slot too few at regrowth breaks
`ImplementsArraySeq`. Clearing `stop` after module init instead of
before it breaks `StopEventually`. Installing the fault handler without
`SA_RESETHAND` breaks `HandlerNotReentered`. Restarting each `write(2)`
at `buf` instead of `buf + written` breaks `FileWriteWritesBuf`.

### Bounds

- **Protocol.** Buffers of 24 bytes hold any frame, so reads split it
  anywhere. Buffers of 2 and 3 bytes put a token boundary and the LF at a
  buffer start.
- **Protocol widths.** `x_atoi` keeps the widths of `int` and `size_t`
  as constants. They are scaled, because TLC's integers are 32-bit. The
  passing runs use 8 and 16 bits, far above any length in their frames.
  `protocol_atoi` uses 3 and 6 bits, so a two-digit length overflows
  `int` just as a ten-digit one does at 32 bits.
- **ConfFile.** `ReadSize` is 5 and every shorter read is allowed, so
  chunk boundaries fall at every byte of words and comments. `KeySize` is the code's 256 in the passing run; no
  word in those files comes near it. Two-block files put the switch of
  `mod` and the second `create_conf` after a `}`, with a valid or
  invalid second body. A module never gets two blocks (see below).
- **EventLoop.** The bounds are two slots, client descriptors {1, 2, 3},
  and three connection attempts of two requests each. That is enough for
  the pool to run empty and for a slot to be freed and reused by a new
  descriptor number. A client can hang up with a response pending, and
  that connection can close while others are still on the active list.
- **EventLoop liveness.** `RequestAnswered` is checked at the same bounds
  as the safety invariants: three clients on two slots, so it is checked
  while the pool runs empty and slots are reused.
- **EventLoop EpollSize.** `EpollSize` is 2 while the listener and two
  connections can be ready at once, so reports are truncated and the
  active list is built from a partial report.

- **DynamicArray.** Initial sizes 1 and 2 and up to four elements, so
  that an array regrows twice (1, 2, 4) or once (2, 4). Indexes 0, 1, 2
  and 4 fall below, at and past both `nelts` and `nalloc`.
- **Logger.** The buffer keeps its real size of 2048 bytes. The time
  length is 0, the value least likely to overflow, so the overflow found
  is due to the strerror text alone.
- **Startup.** Both builds; every call may fail and two SIGTERMs may be
  sent. One SIGTERM reaches every step. A second one meets the
  disposition that `SA_RESETHAND` restored. Two faults of two signals
  let a fault strike inside a handler, of the same signal or the other.
- **XFile.** A three-byte line of distinct bytes and a one-byte one, on
  an empty and a one-byte append file (with two cached offsets, as
  `pmalloc` leaves `f->offset` unset) and on a plain file at both of its
  positions. A byte written twice or out of order changes the file.

### Fairness

`process_events` is the only thread and it runs forever: `main` calls
each module's `process_mod` in a loop. `epoll_wait` has a one-second
timeout. So polling and dispatching, whenever enabled, are weakly fair.
That is enough even with truncated reports. Each client sends a bounded
number of requests, so every readiness ends, and a descriptor left out is
reported once the others are no longer ready. The kernel also rotates
its ready list, but the model does not rely on that.
Clients get no fairness, because they may stop sending at any time.

In `Startup`, main's steps are weakly fair. Every step returns, because
sockets are nonblocking and `epoll_wait` times out. A backtrace
handler's steps are weakly fair too. Sending SIGTERM gets no fairness,
because nobody is obliged to send it. Faults get none either. The `stop` flag is a plain
`int` written by the handler. The working loop calls `process_mod`
through a pointer and `timer_update` on every pass, so the compiler must
reload `stop`. The model therefore reads its current value.

## Not modelled, and why

- `epoll_build` and `epoll_destroy`, and the arena allocator. Apart from
  the regrowth of a dynamic array, every allocation succeeds in the models.
- Command execution and response contents. A request is abstracted to
  good or bad.
- `Startup`: the bytes written to the
  pid file (the open mode's `FL_` flags are in `xfile.h`, which is not in
  the repository); `log_create`'s pmalloc failure; and `sys_modules_finish`,
  which is never called.
- The handlers' use of functions that are not async-signal-safe:
  `vsnprintf` and `write` in both handlers, and `malloc` inside
  `backtrace_symbols`. That hazard lies inside libc, below what the
  models represent.
- Memory pool (`mem_pool.h` only) and XTest (test macros).
- ConfFile files with two blocks of one module. A second `main` block
  re-creates the main conf (`conf_file.c:245`) but keeps the logger an
  earlier `log` set. Neither the spec nor a comment says what a repeated
  block means, so no expected reading can be stated. `SwModNameEnd`
  models the re-creation faithfully; only the case set leaves it out.
- An abstract connection lifecycle (free, open, closing) refined by
  `EventLoop`. A slot is marked closing and freed within one
  `ProcessEvent` step, so the abstract spec would be the pool itself,
  which `PoolLinks` already checks.
- An abstract parser verdict refined by `Protocol`. `Protocol` already
  checks its verdict against a reference reading of the frame
  (`ValidFrameParsed`). A refinement would restate that check.

