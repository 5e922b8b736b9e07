\* Two jobs on up to two workers, two fields each, one crash, one I/O error.
CONSTANTS
  Jobs = {j1, j2}
  Workers = {w1, w2}
  NumFields = 2
  MaxCrashes = 1
  MaxIoErrors = 1
SYMMETRY JobsAndWorkersSymmetry
SPECIFICATION Spec
INVARIANTS TypeOK IInv PublishedCoherent FinishedMatchesRun StrandedOnlyByFault PollSound
PROPERTIES ImplementsPipeline
\* Jobs end, and the bounds on faults run out.
CHECK_DEADLOCK FALSE
