SPECIFICATION FairSpec
CONSTANTS
  NDev = 3
  HasMac <- MCAllButEth0
  Retries <- MCRetries
  ProtoTime = 6
  StartAgainTime = 2
  ArpTime = 1
  ArpCount = 5
  InitMayFail = TRUE
  TimersExpire = TRUE
  Burst = TRUE
  MaxPackets = 3
INVARIANTS
  TypeOK
  OnlyCurrentActive
  UndisturbedOnceTriesAll
  Armed
PROPERTIES
  Returns
