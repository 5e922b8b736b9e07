\* Two jobs of one server process, one crash, two I/O errors.
CONSTANTS
  Jobs = {j1, j2}
  Workers = {w1}
  NumFields = 1
  MaxCrashes = 1
  MaxIoErrors = 2
SPECIFICATION FairSpec
PROPERTIES ImplementsLifecycle Settles
\* Jobs end, and the bounds on faults run out.
CHECK_DEADLOCK FALSE
