SPECIFICATION FairSpec
CONSTANTS
  Limit = 3
  MaxCount = 5
  NullCount <- AnyCount
  MaxFaults = 1
  NoEnv = NoEnv
INVARIANTS
  TypeOK
  LimitHolds
  RunsBootcmd
PROPERTIES
  BootcmdSurvives
  Recovers
