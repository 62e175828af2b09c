SPECIFICATION Spec
CONSTANTS
  Paths <- Files
  Readable <- CanRead
  Longest = 5
  LinesIn <- Length
  Offset <- Offsets
  ReadLines = 3
  ReadBytes = 4
  Count <- Tokens
  Caps <- SmallCaps
  Answers <- UpToThree
INVARIANTS
  TypeOK
  WithinCaps
  SnippetsTrue
  NothingHidden
