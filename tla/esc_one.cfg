SPECIFICATION Spec
CONSTANTS
  Requests = {r1}
  Configs <- OneConfigs
  Statuses <- OneStatuses
  Completions <- OneCompletions
  Prefixes <- OnePrefixes
  JudgeDigits <- OneDigits
INVARIANTS
  TypeOK
  CallBound
  ReportsTheClimb
  EscalatesRightly
