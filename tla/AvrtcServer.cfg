CONSTANTS
  Conns = {c1, c2, c3}
  MaxAdds = 3
  MaxCloses = 1
SPECIFICATION Spec
SYMMETRY ConnSymmetry
INVARIANTS
  TypeOK
  NoStrandedUpdate
  SenderListMatches
  SenderIdsAreOwned
  ClosedIsForgotten
\* Every connection has closed and the window is drained.
CHECK_DEADLOCK FALSE
