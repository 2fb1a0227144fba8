SPECIFICATION Spec
CONSTANTS
  NDev = 2
  HasMac <- MCAll
  Retries <- MCOnce
  ProtoTime = 2
  StartAgainTime = 10
  ArpTime = 5
  ArpCount = 5
  InitMayFail = FALSE
  TimersExpire = TRUE
  Burst = FALSE
  MaxPackets = 2
INVARIANTS
  OnceTriesAll
