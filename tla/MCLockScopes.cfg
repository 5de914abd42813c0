\* Three users of one channel, each a caller of its own lock or a scope.
SPECIFICATION FairScopeSpec
CONSTANTS
  Lockers = {c1, c2, c3}
  Nobody = Nobody
INVARIANTS
  MutualExclusion
  GrantIsHeld
PROPERTIES
  UnusedLockIsReleased
  EveryLockReturns
CHECK_DEADLOCK FALSE
