SPECIFICATION FairSpec
CHECK_DEADLOCK FALSE
CONSTANTS
  Key = {k1, k2, k3}
  Addr <- MCAddr
  NSlots = 2
  Delay = 1
INVARIANTS
  TypeOK
  RunsWhatWasAccepted
  Dispatch
  Heard
  LeasesHold
PROPERTIES
  IsCommandQueue
  IsLeaseServer
  CountdownEnds
