\* Every field against every reply.
CONSTANTS
  Fields <- EveryField
  Values <- EveryValue
  Fold <- FoldText
  Strip <- StripText
  Decimal <- DecimalText
  TrueTexts = {"yes"}
  FalseTexts = {"no"}
  Matching = {"IT", "DE", "1", "7.5"}
SPECIFICATION Spec
INVARIANTS PassedHasTechnicalValue
\* The two calls return.
CHECK_DEADLOCK FALSE
