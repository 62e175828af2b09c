SPECIFICATION ConversationSpec
CONSTANTS
  Vocabulary <- SomeWords
  Ids = {"x", "y"}
  Systems <- ThreeSystems
  Says <- SomeSays
  Asides <- SomeAsides
  Replies <- SomeReplies
  Streams <- SomeStreams
  MaxMessages = 5
INVARIANTS
  UpstreamLegal
  NothingLost
  EvidencePlaced
  RoundTrip
CHECK_DEADLOCK FALSE
