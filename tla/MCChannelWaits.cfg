\* Three callers of one channel and two signals.
SPECIFICATION FairSpec
CONSTANTS
  Callers = {1, 2, 3}
  MaxSignals = 2
INVARIANTS
  EntryMatchesItsUsers
  KeptMeansNobodyWaits
  ReleasedCallerIsSignalled
PROPERTIES
  EveryWaitReturns
CHECK_DEADLOCK FALSE
