SPECIFICATION FairSpec
CONSTANTS
  Texts <- TwoTexts
  Tools <- TwoTools
  Fragments <- TwoFragments
  Reasons <- TwoReasons
  Counts = {3, 7}
  MaxParts = 4
INVARIANTS
  TextInOrder
  ToolCallsArrive
  ClosingIsTrue
PROPERTIES SpeaksAnthropic MessageEnds
