SPECIFICATION Spec
CONSTANTS
  Texts <- OneText
  Tools <- TwoTools
  Fragments <- OneFragment
  Reasons <- TwoReasons
  Counts = {7}
  MaxParts = 4
INVARIANT AllToolArgumentsSent
