\* A body that is not JSON.
CONSTANTS
  IsObject <- IsJsonObject
  Attempts <- SmallAttempts
  Texts <- SmallTexts
SPECIFICATION Spec
INVARIANTS FailsWithLLMError
CHECK_DEADLOCK FALSE
