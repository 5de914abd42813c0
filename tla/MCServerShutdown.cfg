\* Two dispatches, or a dispatch and an attach, race a shutdown that must return.
SPECIFICATION FairSpec
CONSTANTS
  Requests = {r1, r2}
  Attaches = {a1}
  Shutdowns = {s1}
  MaxInFlight = 1
  MaxClients = 1
  MaxCalls = 2
INVARIANTS
  TypeOK
  ClientsWithinLimits
  AnswerMeansReleased
  GuardFollowsChild
PROPERTIES
  KeepsRegistry
  EveryDispatchReturns
  EveryShutdownReturns
CHECK_DEADLOCK FALSE
