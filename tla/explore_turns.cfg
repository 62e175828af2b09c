SPECIFICATION FairSpec
CONSTANTS
  MaxTurns = 2
  Ids = {"a", "b"}
  Batches <- UpToTwo
INVARIANTS
  EveryCallAnswered
  OutcomeIsTrue
PROPERTY ExploreEnds
