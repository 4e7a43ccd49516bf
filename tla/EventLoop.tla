------------------------------ MODULE EventLoop ------------------------------
(***************************************************************************)
(* The event driver and its dispatch loop: epoll_polling, epoll_add_event *)
(* and epoll_del_event (src/src/net/net_epoll.c), add_event, del_event and *)
(* process_events (src/src/net/net_event.c), composed with the connection *)
(* pool and the accept / receive / send handlers of the TCP server, whose *)
(* source (tcp_server.c) is not in the repository and which are modelled  *)
(* from spec.md 4.2 and 7.                                                 *)
(*                                                                         *)
(* The kernel side is the epoll interest list (kreg, keyed by descriptor, *)
(* holding the registered mask and the data.ptr connection), the set of   *)
(* open descriptors, the listen backlog and what each client socket has   *)
(* to read.  Clients connect, send requests, wait for the response and    *)
(* may hang up at any moment.  A request is abstracted to whether it       *)
(* parses (the Protocol module checks the parser itself).                  *)
(***************************************************************************)
EXTENDS Integers, Sequences, FiniteSets, SequencesExt

CONSTANTS
  Slots,        \* the preallocated connection pool
  Listener,     \* the listening connection, a distinguished pool entry
  NIL,          \* the null link
  Fds,          \* descriptor numbers available for client sockets
  LFd,          \* the listen socket's descriptor
  EpollSize,    \* event_driver->size: most events one epoll_wait returns
  MaxClients,   \* bound on connection attempts
  MaxRequests   \* bound on requests a client sends on one connection

ASSUME Listener \notin Slots /\ NIL \notin Slots \cup {Listener}
ASSUME Fds \subseteq Nat /\ LFd \in Nat /\ LFd \notin Fds
ASSUME EpollSize \in Nat \ {0}
ASSUME MaxClients \in Nat /\ MaxRequests \in Nat \ {0}

Conns == Slots \cup {Listener}
AllFds == Fds \cup {LFd}
R == "EV_READ_EVENT"
W == "EV_WRITE_EVENT"
NoFd == -1
NoWatch == [mask |-> {}, ptr |-> NIL]
Handlers == {"none", "accept", "recv", "send"}

\* A connection slot as tcp_free_connection leaves it.
FreeConn(nxt) ==
  [fd |-> NoFd, events |-> {}, active |-> {}, dead |-> {}, add |-> {},
   close |-> FALSE, rh |-> "none", wh |-> "none", next |-> nxt,
   resp |-> 0, rerr |-> FALSE]

NoClient == [st |-> "none", reqs |-> 0, bad |-> FALSE]

VARIABLES
  conn,      \* conn[c]: the tcp_connection_t fields and c's request
  freeHead,  \* head of the pool's free list (chained through next)
  cursor,    \* active_conn of process_events, NIL between cycles
  phase,     \* "poll" or "dispatch"
  pending,   \* history: connections polled this cycle and not yet visited
  kreg,      \* kreg[fd]: the epoll registration of descriptor fd
  fdOpen,    \* open descriptors
  backlog,   \* connections waiting in the listen queue
  clients,   \* connection attempts so far
  inbound,   \* inbound[fd]: "none", "data" or "eof" to read on fd
  cl         \* cl[fd]: the client at the other end of fd

vars == <<conn, freeHead, cursor, phase, pending, kreg, fdOpen, backlog,
          clients, inbound, cl>>

\* The state the handlers act on, as one record.
World == [conn |-> conn, freeHead |-> freeHead, kreg |-> kreg,
          fdOpen |-> fdOpen, backlog |-> backlog, inbound |-> inbound,
          cl |-> cl]

SetWorld(w) ==
  /\ conn' = w.conn /\ freeHead' = w.freeHead /\ kreg' = w.kreg
  /\ fdOpen' = w.fdOpen /\ backlog' = w.backlog /\ inbound' = w.inbound
  /\ cl' = w.cl

\* The list starting at h, following next; a cycle shows as a list longer
\* than the pool.
RECURSIVE ChainFrom(_, _, _)
ChainFrom(cs, h, n) ==
  IF h = NIL \/ n = 0 THEN <<>> ELSE <<h>> \o ChainFrom(cs, cs[h].next, n - 1)

Chain(cs, h) == ChainFrom(cs, h, Cardinality(Conns) + 1)

-----------------------------------------------------------------------------
(* epoll registration                                                      *)

\* Mutant: the new events replace the registered ones instead of joining them.
EpollAddEventReplace(w, c, evs) ==
  LET fd   == w.conn[c].fd
      op   == IF w.conn[c].events = {} THEN "ADD" ELSE "MOD"
      ok   == fd \in w.fdOpen /\ ((op = "ADD") = (w.kreg[fd] = NoWatch))
  IN  [ok |-> ok,
       w  |-> IF ok THEN [w EXCEPT !.kreg[fd] = [mask |-> evs, ptr |-> c],
                                   !.conn[c].events = evs]
              ELSE w]

\* epoll_add_event: ADD when the connection has no events yet, else MOD,
\* with the union of the new and the registered events; conn->events is
\* only updated when epoll_ctl succeeds (ADD of a watched descriptor fails
\* with EEXIST, MOD of an unwatched one with ENOENT, both of a closed one
\* with EBADF).  The result is the new state and whether it succeeded.
EpollAddEvent(w, c, evs) ==
  LET fd   == w.conn[c].fd
      op   == IF w.conn[c].events = {} THEN "ADD" ELSE "MOD"
      mask == evs \cup w.conn[c].events
      ok   == fd \in w.fdOpen /\ ((op = "ADD") = (w.kreg[fd] = NoWatch))
  IN  [ok |-> ok,
       w  |-> IF ok THEN [w EXCEPT !.kreg[fd] = [mask |-> mask, ptr |-> c],
                                   !.conn[c].events = mask]
              ELSE w]

\* add_event: register, then bind the handler for the events added.
AddEvent(w, c, evs, h) ==
  LET r == EpollAddEvent(w, c, evs)
  IN  [ok |-> r.ok,
       w  |-> IF ~r.ok THEN r.w
              ELSE [r.w EXCEPT !.conn[c].rh = IF R \in evs THEN h ELSE @,
                               !.conn[c].wh = IF W \in evs THEN h ELSE @]]

\* Mutant: the registration is deleted even when some events remain.
EpollDelEventAlwaysDel(w, c, evs) ==
  LET fd   == w.conn[c].fd
      rest == w.conn[c].events \ evs
      kr   == IF fd \in w.fdOpen /\ w.kreg[fd] # NoWatch
                THEN [w.kreg EXCEPT ![fd] = NoWatch]
                ELSE w.kreg
  IN  [w EXCEPT !.kreg = kr, !.conn[c].events = rest]

\* Mutant: the events to remove are kept instead of the others
\* (conn->events & events, the ~ forgotten).
EpollDelEventNoComplement(w, c, evs) ==
  LET fd   == w.conn[c].fd
      rest == w.conn[c].events \cap evs
      kr   == IF fd \in w.fdOpen /\ w.kreg[fd] # NoWatch
                THEN [w.kreg EXCEPT ![fd] = IF rest = {} THEN NoWatch
                                            ELSE [mask |-> rest, ptr |-> c]]
                ELSE w.kreg
  IN  [w EXCEPT !.kreg = kr, !.conn[c].events = rest]

\* epoll_del_event: MOD to what remains, or DEL when nothing does; the
\* result of epoll_ctl is ignored and conn->events always updated.
EpollDelEvent(w, c, evs) ==
  LET fd   == w.conn[c].fd
      rest == w.conn[c].events \ evs
      kr   == IF fd \in w.fdOpen /\ w.kreg[fd] # NoWatch
                THEN [w.kreg EXCEPT ![fd] = IF rest = {} THEN NoWatch
                                            ELSE [mask |-> rest, ptr |-> c]]
                ELSE w.kreg
  IN  [w EXCEPT !.kreg = kr, !.conn[c].events = rest]

\* del_event: nothing to do for a connection without events.
DelEvent(w, c, evs) ==
  IF w.conn[c].events = {} THEN w ELSE EpollDelEvent(w, c, evs)

-----------------------------------------------------------------------------
(* The connection pool and the handlers (tcp_server.c, from spec.md).      *)

\* tcp_free_connection: drop the registration, clear the connection and
\* its request, push the slot on the free list.
TcpFreeConnection(w, c) ==
  LET w2 == DelEvent(w, c, w.conn[c].events)
  IN  [w2 EXCEPT !.conn[c] = FreeConn(w.freeHead), !.freeHead = c]

\* close(fd): the kernel drops the descriptor's registration and the peer
\* sees the connection end.
CloseFd(w, fd) ==
  [w EXCEPT !.fdOpen = @ \ {fd}, !.kreg[fd] = NoWatch,
            !.inbound[fd] = "none", !.cl[fd] = NoClient]

\* One accepted client: the lowest free descriptor; tcp_get_connection pops
\* the free list (PoolExhausted: the new socket is closed); the new
\* connection is registered for reading with tcp_server_recv, and marked
\* for close when that fails.
AcceptOne(w) ==
  LET fd == Min(Fds \ w.fdOpen)
      s  == w.freeHead
      w1 == [w EXCEPT !.backlog = @ - 1]
  IN  IF s = NIL THEN w1
      ELSE LET w2 == [w1 EXCEPT
                        !.freeHead = w.conn[s].next,
                        !.fdOpen = @ \cup {fd},
                        !.conn[s].fd = fd,
                        !.cl[fd] = [st |-> "idle", reqs |-> 0, bad |-> FALSE]]
               r  == AddEvent(w2, s, {R}, "recv")
           IN  IF r.ok THEN r.w ELSE [r.w EXCEPT !.conn[s].close = TRUE]

\* tcp_server_accept: accept until the listen queue is empty (EAGAIN) or
\* no descriptor is left (EMFILE).
RECURSIVE TcpServerAccept(_)
TcpServerAccept(w) ==
  IF w.backlog = 0 \/ Fds \subseteq w.fdOpen THEN w
  ELSE TcpServerAccept(AcceptOne(w))

\* tcp_server_recv: end of stream closes; a parsed request queues its
\* response (two writes' worth) and asks for write interest; a malformed
\* one queues an error response after which the connection is closed.
TcpServerRecv(w, c) ==
  LET fd == w.conn[c].fd
  IN  CASE w.inbound[fd] = "eof"  -> [w EXCEPT !.conn[c].close = TRUE]
        [] w.inbound[fd] = "data" ->
             [w EXCEPT !.inbound[fd] = "none",
                       !.conn[c].resp = IF w.cl[fd].bad THEN 1 ELSE 2,
                       !.conn[c].rerr = w.cl[fd].bad,
                       !.conn[c].add = @ \cup {W}]
        [] OTHER -> w

\* tcp_server_send: write part or all of the response; when it is drained
\* the request is finished: the client has its answer, write interest is
\* dropped, and an error response closes the connection.  Writing to a
\* client that hung up fails and closes.
TcpServerSend(w, c) ==
  LET fd == w.conn[c].fd
      Wrote(k) ==
        LET left == w.conn[c].resp - k
        IN  IF left > 0 THEN [w EXCEPT !.conn[c].resp = left]
            ELSE [w EXCEPT !.conn[c].resp = 0,
                           !.cl[fd].st = "idle",
                           !.conn[c].close = w.conn[c].rerr,
                           !.conn[c].dead = IF w.conn[c].rerr THEN @ ELSE @ \cup {W}]
  IN  CASE w.cl[fd].st = "gone" -> {[w EXCEPT !.conn[c].close = TRUE]}
        [] w.conn[c].resp = 0   -> {w}
        [] OTHER                -> {Wrote(k) : k \in {1, w.conn[c].resp}}

ReadHandler(w, c) ==
  CASE w.conn[c].rh = "accept" -> {TcpServerAccept(w)}
    [] w.conn[c].rh = "recv"   -> {TcpServerRecv(w, c)}
    [] OTHER                   -> {w}

WriteHandler(w, c) ==
  IF w.conn[c].wh = "send" THEN TcpServerSend(w, c) ELSE {w}

-----------------------------------------------------------------------------
(* The event loop                                                          *)

\* What epoll reports for a registration: read readiness when the listen
\* queue or the socket has something, write readiness whenever asked.
Readiness(fd) ==
  LET m == kreg[fd].mask
  IN  (IF R \in m /\ (IF fd = LFd THEN backlog > 0 ELSE inbound[fd] # "none")
         THEN {R} ELSE {})
      \cup (IF W \in m THEN {W} ELSE {})

\* epoll_polling: epoll_wait returns up to EpollSize ready descriptors in
\* any order; each owner (data.ptr) gets its active events and is pushed
\* on the front of the active list.
EpollPolling ==
  /\ phase = "poll"
  /\ LET ready == {fd \in AllFds : kreg[fd] # NoWatch /\ Readiness(fd) # {}}
         n     == Min({Cardinality(ready), EpollSize})
     IN  \/ /\ ready = {}
            /\ UNCHANGED vars
         \/ \E order \in [1 .. n -> ready] :
              /\ n > 0
              /\ IsInjective(order)
              /\ LET owner(i) == kreg[order[i]].ptr
                     \* the last push of c is the one that sticks
                     pos(c)   == CHOOSE i \in 1 .. n :
                                   owner(i) = c /\ \A j \in i + 1 .. n : owner(j) # c
                     polled   == {owner(i) : i \in 1 .. n}
                 IN  /\ conn' = [c \in Conns |->
                                  IF c \notin polled THEN conn[c]
                                  ELSE [conn[c] EXCEPT
                                          !.active = Readiness(order[pos(c)]),
                                          !.next = IF pos(c) = 1 THEN NIL
                                                   ELSE owner(pos(c) - 1)]]
                     /\ cursor' = owner(n)
                     /\ pending' = polled
              /\ phase' = "dispatch"
              /\ UNCHANGED <<freeHead, kreg, fdOpen, backlog, clients, inbound, cl>>

\* Mutant: the next connection is read from the slot after it was freed.
ContinueAfterFree(w, c) == TcpFreeConnection(w, c).conn[c].next

\* The value process_events reads for the next connection after deciding
\* to close c, before c is freed.
ContinueAfterClose(w, c) == w.conn[c].next

\* One iteration of the while loop of process_events for the connection at
\* the cursor: read handler, write handler, deferred removal, then either
\* close and free, or the deferred addition of write interest.
ProcessEvent ==
  /\ phase = "dispatch"
  /\ LET c == cursor IN
     \E w1 \in (IF R \in conn[c].active THEN ReadHandler(World, c) ELSE {World}) :
     \E w2 \in (IF W \in conn[c].active THEN WriteHandler(w1, c) ELSE {w1}) :
       LET w3 == IF w2.conn[c].dead = {} THEN w2
                 ELSE [DelEvent(w2, c, w2.conn[c].dead) EXCEPT !.conn[c].dead = {}]
           nxtClose == ContinueAfterClose(w3, c)
           w4 == IF w3.conn[c].add = {} THEN w3
                 ELSE [AddEvent(w3, c, w3.conn[c].add, "send").w
                         EXCEPT !.conn[c].add = {}]
           nxt == IF w3.conn[c].close THEN nxtClose ELSE w4.conn[c].next
       IN  /\ IF w3.conn[c].close
                THEN SetWorld(TcpFreeConnection(CloseFd(w3, w3.conn[c].fd), c))
                ELSE SetWorld(w4)
           /\ cursor' = nxt
           /\ pending' = pending \ {c}
           /\ phase' = IF nxt = NIL THEN "poll" ELSE "dispatch"
           /\ UNCHANGED clients

-----------------------------------------------------------------------------
(* Clients                                                                 *)

Connect ==
  /\ clients < MaxClients
  /\ clients' = clients + 1
  /\ backlog' = backlog + 1
  /\ UNCHANGED <<conn, freeHead, cursor, phase, pending, kreg, fdOpen, inbound, cl>>

\* A client that has its previous answer sends a request, good or not.
ClientSend(fd) ==
  /\ cl[fd].st = "idle"
  /\ cl[fd].reqs < MaxRequests
  /\ \E bad \in BOOLEAN :
       cl' = [cl EXCEPT ![fd] = [st |-> "wait", reqs |-> @.reqs + 1, bad |-> bad]]
  /\ inbound' = [inbound EXCEPT ![fd] = "data"]
  /\ UNCHANGED <<conn, freeHead, cursor, phase, pending, kreg, fdOpen, backlog, clients>>

ClientClose(fd) ==
  /\ cl[fd].st \in {"idle", "wait"}
  /\ cl' = [cl EXCEPT ![fd].st = "gone"]
  /\ inbound' = [inbound EXCEPT ![fd] = "eof"]
  /\ UNCHANGED <<conn, freeHead, cursor, phase, pending, kreg, fdOpen, backlog, clients>>

-----------------------------------------------------------------------------
\* The server after tcp_server_init: the pool chained into the free list,
\* the listener registered for reading with tcp_server_accept.
Init ==
  \E order \in [1 .. Cardinality(Slots) -> Slots] :
    /\ IsInjective(order)
    /\ conn = [c \in Conns |->
                IF c = Listener
                  THEN [FreeConn(NIL) EXCEPT !.fd = LFd, !.events = {R},
                                             !.rh = "accept"]
                  ELSE LET i == CHOOSE j \in 1 .. Cardinality(Slots) : order[j] = c
                       IN  FreeConn(IF i = Cardinality(Slots) THEN NIL ELSE order[i + 1])]
    /\ freeHead = IF Slots = {} THEN NIL ELSE order[1]
    /\ cursor = NIL
    /\ phase = "poll"
    /\ pending = {}
    /\ kreg = [fd \in AllFds |-> IF fd = LFd THEN [mask |-> {R}, ptr |-> Listener]
                                 ELSE NoWatch]
    /\ fdOpen = {LFd}
    /\ backlog = 0
    /\ clients = 0
    /\ inbound = [fd \in AllFds |-> "none"]
    /\ cl = [fd \in AllFds |-> NoClient]

Next ==
  \/ EpollPolling
  \/ ProcessEvent
  \/ Connect
  \/ \E fd \in Fds : ClientSend(fd)
  \/ \E fd \in Fds : ClientClose(fd)

\* The dispatch loop is the process's only thread and never stops.  When
\* more descriptors are ready than EpollSize, the ones epoll_wait leaves
\* out stay ready (level-triggered) and are reported by a later call.
Fairness == WF_vars(EpollPolling) /\ WF_vars(ProcessEvent)

Spec == Init /\ [][Next]_vars /\ Fairness

-----------------------------------------------------------------------------
(* The dual-purpose link (spec.md 3): the free list, chained through next, *)
(* holds each unused slot exactly once and nothing else; and while         *)
(* process_events walks the active list, the rest of the walk, chained    *)
(* through the same field, is exactly the connections epoll reported this *)
(* cycle and not yet handled, none of them free.                           *)
PoolLinks ==
  LET fl == Chain(conn, freeHead)
  IN  /\ IsInjective(fl)
      /\ ToSet(fl) = {s \in Slots : conn[s].fd = NoFd}
      /\ phase = "dispatch" =>
           LET al == Chain(conn, cursor)
           IN  /\ IsInjective(al)
               /\ ToSet(al) = pending
               /\ ToSet(al) \cap ToSet(fl) = {}

(* The epoll interest list agrees with the connections: every watched      *)
(* descriptor is open and its data.ptr is the connection that owns it,     *)
(* registered with exactly that connection's conn->events; every open      *)
(* connection with events is watched.  A disagreement makes the next       *)
(* add_event pick ADD where MOD is needed or the reverse, and fail.        *)
WatchesMatch ==
  /\ \A fd \in AllFds : kreg[fd] # NoWatch =>
       /\ fd \in fdOpen
       /\ conn[kreg[fd].ptr].fd = fd
       /\ conn[kreg[fd].ptr].events = kreg[fd].mask
  /\ \A c \in Conns : conn[c].fd # NoFd /\ conn[c].events # {} =>
       kreg[conn[c].fd] # NoWatch

(* Between two dispatch cycles a connection asks epoll for write         *)
(* readiness exactly while it has response bytes left to send.  Without   *)
(* a response, level-triggered write interest makes every epoll_wait      *)
(* return at once and the loop spins; without write interest a queued     *)
(* response is never sent.  It depends on the deferred add_events and      *)
(* dead_events of process_events being applied and cleared in order.      *)
WriteInterestMatchesResponse ==
  phase = "poll" =>
    \A c \in Slots : conn[c].fd # NoFd => ((W \in conn[c].events) = (conn[c].resp > 0))

(* Every request a client sends is eventually answered, or its connection *)
(* closed: the response's write interest gets registered and the read     *)
(* interest survives for the next request.                                 *)
RequestAnswered ==
  \A fd \in Fds : cl[fd].st = "wait" ~> cl[fd].st # "wait"

=============================================================================
