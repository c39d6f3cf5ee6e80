CONSTANTS
  main = main
  other = other
  plain = plain
  stopping = stopping
  endless = endless
  empty = empty
  Worker = Worker
  Free = Free
  Callers <- MCCallers
  Tasks <- MCTasks
  StopTasks <- MCStopTasks
  EndlessTasks <- MCEndlessTasks
  EmptyTasks <- MCEmptyTasks
  MaxTasks = 4
SPECIFICATION FairSpec
INVARIANTS
  TypeOK
  LockedSections
  FifoExactlyOnce
  NoLostWakeup
  AtMostOneAfterStop
  CurrentThreadSet
PROPERTIES
  ImplementsExecutor
  EveryTaskTaken
  StopWithWorkExits
\* An idle worker sleeps for ever once every caller has returned.
CHECK_DEADLOCK FALSE
