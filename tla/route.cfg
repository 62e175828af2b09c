SPECIFICATION FairSpec
CONSTANTS
  Requests = {r1, r2}
  NoRequest = nobody
  Configs <- AllConfigs
  Asks <- ManyAsks
  FileCountThreshold = 2
  Exemplars = 2
  Similarities = {0, 1}
INVARIANTS
  GateHolds
  ServicesOnlyAdd
PROPERTIES
  CentroidsSettleOnce
  EveryRequestClassified
