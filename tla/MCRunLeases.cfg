\* Any two of two runs and a send of keys, in two panes that are respawned, cleared or synchronized.
SPECIFICATION FairSpec
CONSTANTS
  Panes = {p1, p2}
  Runs = {r1, r2}
  Sends = {s1}
  MaxStarted = 2
  MaxGeneration = 2
  MaxRespawns = 1
  MaxEvents = 1
INVARIANTS
  RunningIsReserved
  AloneUnlessRespawned
PROPERTIES
  FinishedIsReleased
CHECK_DEADLOCK FALSE
