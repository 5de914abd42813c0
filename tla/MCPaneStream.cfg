\* Two panes appear and the layout changes twice around a stream and a snapshot.
SPECIFICATION FairSpec
CONSTANTS
  Others = {o1, o2}
  MaxChunks = 1
  MaxChanges = 1
  MaxSnapshots = 1
INVARIANTS
  GoneMeansGone
PROPERTIES
  AppearedIsMuted
CHECK_DEADLOCK FALSE
