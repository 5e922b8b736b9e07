\* Two fields, every reply.
CONSTANTS
  NumFields = 2
  Threshold = 6
  Replies <- EveryReply
SPECIFICATION Spec
INVARIANTS TypeOK IInv AnsweredIsSupported UncheckedIsConfident ResponseComplete
PROPERTIES ImplementsPipeline
\* A run ends.
CHECK_DEADLOCK FALSE
