\* Every text of up to two lines: a heading right after a text is enough.
CONSTANTS
  TitleA = TitleA
  TitleB = TitleB
  NoTitle = NoTitle
  MaxLines = 2
  MaxChars = 10
  Titles <- TwoTitles
  Texts <- SmallTexts
SPECIFICATION Spec
INVARIANTS SectionIsOwn
\* The text ends.
CHECK_DEADLOCK FALSE
