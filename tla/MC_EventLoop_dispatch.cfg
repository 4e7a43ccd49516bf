\* Two slots, three clients of two requests each, epoll returning at most two events.
CONSTANTS
  Slots = {s1, s2}
  Listener = lsn
  NIL = NIL
  Fds <- MCFds
  LFd = 0
  EpollSize = 2
  MaxClients = 3
  MaxRequests = 2
SPECIFICATION Spec
PROPERTY RequestAnswered
INVARIANTS
  PoolLinks
  WatchesMatch
  WriteInterestMatchesResponse
