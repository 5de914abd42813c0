\* Every call returns and every stop ends the task, with weak fairness.
SPECIFICATION FairSpec
CONSTANTS
  Never = Never
  NoCall = NoCall
  Calls <- OneCall
  Deadline <- OneDeadline
  Commands <- OneLine
  Ordered <- OneOrdered
  CommandQueue = 1
  EventQueue = 1
  HeldWhileAwaiting = 1
  OpeningDeadline = 1
  BlockTimeout = 1
  MaxTime = 1
  MaxEvents = 1
  HookBlocks = TRUE
PROPERTIES
  EveryCallReturns
  StopEndsTheTask
CHECK_DEADLOCK FALSE
