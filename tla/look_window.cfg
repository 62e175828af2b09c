SPECIFICATION Spec
CONSTANTS
  Scripts <- AllScripts
  Escs <- OnOff
  MaxChars = 2
  FrameCap = 3
  RefusalCap = 2
  MaxChunks = 4
INVARIANTS
  TypeOK
  Verbatim
  HoldBackBound
  VerdictIsRight
  CleanEndIsWhole
