\* Two calls race their deadlines, a chain and a single command.
SPECIFICATION Spec
CONSTANTS
  Never = Never
  NoCall = NoCall
  Calls <- TwoCalls
  Deadline <- TwoDeadlines
  Commands <- TwoLines
  Ordered <- TwoUnordered
  CommandQueue = 1
  EventQueue = 1
  HeldWhileAwaiting = 1
  OpeningDeadline = 1
  BlockTimeout = 1
  MaxTime = 2
  MaxEvents = 0
  HookBlocks = FALSE
INVARIANTS
  TypeOK
  RepliesAreOwn
  WaitingCallIsOwned
  WithdrawnIsNeverWritten
CHECK_DEADLOCK FALSE
