\* Two clients, one with two layers: undisturbed sequences, and short ones with faults.
SPECIFICATION Spec
CONSTANTS
  Claude = claude
  Others = {codex}
  Commands = {k1, k2}
  NoCommand = none
  MaxWork = 5
  FaultCost = 2
SYMMETRY CommandSymmetry
INVARIANTS
  TypeOK
  NothingIsLost
  LedgerIsBacked
  AllOrNothing
  RevertRestores
  UndisturbedCommandsSucceed
CHECK_DEADLOCK FALSE
