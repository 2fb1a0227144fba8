SPECIFICATION FairSpec
CONSTANTS
  s1 = s1
  s2 = s2
  Session <- MCSession
  WellKnown = WellKnown
  F = 10
  LastLen = 0
  SeqSize = 4
  NDev = 2
  Retry = "once"
  TimeoutCount = 0
  Duplication = FALSE
  MayFail = TRUE
CHECK_DEADLOCK FALSE
INVARIANTS
  NoBlockMisplaced
  Lockstep
  NeverStalls
PROPERTIES
  Delivered
