CONSTANTS
  Clients = {c1, c2}
  NoArgs = NoArgs
SPECIFICATION FairSpec
INVARIANTS
  TypeOK
  IdsAgree
  CrashesOnlyBy
PROPERTIES
  ClientGetsId
  ClientLeavesWindow
\* Every process has ended.
CHECK_DEADLOCK FALSE
