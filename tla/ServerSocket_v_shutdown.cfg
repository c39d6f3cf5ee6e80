CONSTANTS
  Conns = {p, q}
  MaxFd = 5
  MaxEvents = 2
  MaxData = 1
  Faults = {}
  CanStop = TRUE
  Unused = Unused
  Listening = Listening
  Epoll = Epoll
  Spare = Spare
SPECIFICATION Spec
INVARIANT RecvOnOpenSocket
\* The process ends, or every peer has come and gone.
CHECK_DEADLOCK FALSE
