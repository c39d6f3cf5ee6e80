CONSTANTS
  Conns = {c1, c2}
  MaxAdds = 2
  MaxCloses = 0
SPECIFICATION FairSpec
PROPERTY ClosedReceiverDisappears
\* Every connection has closed and the window is drained.
CHECK_DEADLOCK FALSE
