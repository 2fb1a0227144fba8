SPECIFICATION Spec
CONSTANTS
  s1 = s1
  s2 = s2
  Session <- MCSession
  WellKnown = WellKnown
  F = 6
  LastLen = 0
  SeqSize = 4
  NDev = 1
  Retry = "no"
  TimeoutCount = 0
  Duplication = TRUE
  MayFail = FALSE
CHECK_DEADLOCK FALSE
PROPERTIES
  SameBlockIgnored
