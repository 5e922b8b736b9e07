\* Two fields, up to one repair, payloads of every kind.
CONSTANTS
  NumFields = 2
  Threshold = 6
  Replies <- ThreeReplies
  IsObject <- IsEmptyObject
  Attempts <- SmallAttempts
  Texts <- TwoTexts
  Payloads <- SmallPayloads
SPECIFICATION FairSpec
INVARIANTS IInv CodeTellsCause RequestsBounded AcceptedFormSound
PROPERTIES Responds
\* A request ends.
CHECK_DEADLOCK FALSE
