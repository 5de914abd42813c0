\* Every valid plan of four operations, under every planner.
SPECIFICATION Spec
CONSTANT Length = 4
INVARIANTS
  RunsAsRecorded
  OutcomesAreTrue
  ErrorsAreTrue
CHECK_DEADLOCK FALSE
