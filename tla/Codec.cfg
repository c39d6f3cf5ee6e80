CONSTANTS
  Delay = 1
  MaxPackets = 5
  MaxFrames = 2
  MaxEncodes = 1
SPECIFICATION Spec
INVARIANTS
  WholeStreamDecoded
  FailureCosts
\* The file has been decoded.
CHECK_DEADLOCK FALSE
