\* The watched pane goes, one chunk and one other change.
SPECIFICATION FairSpec
CONSTANTS
  Others = {}
  MaxChunks = 1
  MaxChanges = 1
  MaxSnapshots = 0
PROPERTY GoneEndsTheStream
CHECK_DEADLOCK FALSE
