\* One job, one server process, no I/O error: RunningIsCurrent fails.
CONSTANTS
  Jobs = {j1}
  Workers = {w1}
  NumFields = 1
  MaxCrashes = 1
  MaxIoErrors = 0
SPECIFICATION Spec
INVARIANTS RunningIsCurrent
CHECK_DEADLOCK FALSE
