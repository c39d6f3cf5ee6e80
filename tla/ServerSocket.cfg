CONSTANTS
  Conns = {p, q}
  MaxFd = 5
  MaxEvents = 2
  MaxData = 3
  Faults = {}
  CanStop = TRUE
  Unused = Unused
  Listening = Listening
  Epoll = Epoll
  Spare = Spare
SPECIFICATION FairSpec
INVARIANTS
  TypeOK
  NeverAborts
PROPERTIES
  CloseIsReported
  StopLeavesLoop
\* The process ends.
CHECK_DEADLOCK FALSE
