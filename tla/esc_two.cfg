SPECIFICATION FairSpec
CONSTANTS
  Requests = {r1, r2}
  Configs <- TwoConfigs
  Statuses <- TwoStatuses
  Completions <- TwoCompletions
  Prefixes <- TwoPrefixes
  JudgeDigits <- TwoDigits
PROPERTIES
  ClimbsTheLadder
  EveryRequestSettles
