SPECIFICATION FairSpec
CONSTANTS
  Requests = {r1, r2}
  First = r1
  Configs <- OneConfigs
  Sizes = {5}
  Evidence = {3}
  Counts = {12, 40}
  MaxChunks = 4
ACTION_CONSTRAINT Followers
INVARIANTS
  RecordedWhenServed
  TiersAddUp
  MeteredExactly
  LogIsComplete
PROPERTY EveryRequestEnds
