SPECIFICATION Spec
CONSTANTS
  s1 = s1
  s2 = s2
  Session <- MCSession
  WellKnown = WellKnown
  F = 3
  LastLen = 0
  SeqSize = 4
  NDev = 2
  Retry = "default"
  TimeoutCount = 0
  Duplication = TRUE
  MayFail = TRUE
SYMMETRY MCSymmetry
CHECK_DEADLOCK FALSE
INVARIANTS
  TypeOK
  TransferIntact
PROPERTIES
  IsDownload
