\* Every text of up to five lines, ten characters to a chunk.
CONSTANTS
  TitleA = TitleA
  TitleB = TitleB
  NoTitle = NoTitle
  MaxLines = 5
  MaxChars = 10
  Titles <- TwoTitles
  Texts <- SmallTexts
SPECIFICATION Spec
INVARIANTS TypeOK IInv Partition SizeBound SizeIsOfLines Maximal SectionIsNear AllTextChunked EndsHaveText
\* The text ends.
CHECK_DEADLOCK FALSE
