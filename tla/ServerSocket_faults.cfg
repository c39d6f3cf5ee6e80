CONSTANTS
  Conns = {p, q, r}
  MaxFd = 6
  MaxEvents = 2
  MaxData = 1
  Faults = {"accept", "epoll_add", "epoll_wait", "reset", "send"}
  CanStop = TRUE
  Unused = Unused
  Listening = Listening
  Epoll = Epoll
  Spare = Spare
SPECIFICATION Spec
SYMMETRY ConnSymmetry
INVARIANTS
  DescriptorsOwned
  WatchedIsClient
  ClosedBehindLoop
PROPERTIES
  ImplementsStream
\* The process ends, or every peer has come and gone.
CHECK_DEADLOCK FALSE
