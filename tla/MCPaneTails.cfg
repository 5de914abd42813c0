\* Two callers follow two panes through one retained tail; either server restarts.
SPECIFICATION Spec
CONSTANTS
  Panes = {p1, p2}
  Callers = {c1, c2}
  NoPane = NoPane
  NoCaller = NoCaller
  MaxTails = 1
  RingBytes = 1
  SnapshotQueue = 1
  MaxWritten = 2
  MaxEpoch = 3
  MaxOwner = 2
  MaxEra = 2
  MaxCalls = 3
INVARIANTS
  TypeOK
  NoSilentGap
SYMMETRY TailSymmetry
CHECK_DEADLOCK FALSE
