SPECIFICATION FairSpec
CONSTANTS
  Requests = {r1, r2, r3}
  NoRequest = nobody
  Found = {"old", "new"}
  Configs <- AllConfigs
INVARIANTS
  TypeOK
  AnswersAgree
PROPERTIES
  OneCatalogue
  EveryCallerServed
