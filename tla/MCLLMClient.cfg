\* Every provider, every number of repair attempts from a negative one up, and
\* replies with up to one character before and two after some JSON.
CONSTANTS
  IsObject <- IsJsonObject
  Attempts <- SmallAttempts
  Texts <- SmallTexts
SPECIFICATION FairSpec
INVARIANTS TypeOK IInv CallsBounded RepairsLatest UsesItsAttempts FirstBraceParsed
PROPERTIES Terminates
\* generate_json ends.
CHECK_DEADLOCK FALSE
