\* One call and a watcher that falls behind.
SPECIFICATION Spec
CONSTANTS
  Never = Never
  NoCall = NoCall
  Calls <- OneCall
  Deadline <- OneDeadline
  Commands <- OneLine
  Ordered <- OneOrdered
  CommandQueue = 1
  EventQueue = 1
  HeldWhileAwaiting = 2
  OpeningDeadline = 1
  BlockTimeout = 1
  MaxTime = 1
  MaxEvents = 4
  HookBlocks = FALSE
INVARIANTS
  NothingIsDropped
  HeldIsBounded
CHECK_DEADLOCK FALSE
