\* A brace before the object.
CONSTANTS
  IsObject <- IsJsonObject
  Attempts <- SmallAttempts
  Texts <- SmallTexts
SPECIFICATION Spec
INVARIANTS FirstObjectFound
CHECK_DEADLOCK FALSE
