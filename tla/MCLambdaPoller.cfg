\* Mappings of a queue and a stream, created, updated, disabled and deleted.
SPECIFICATION Spec
CONSTANTS
  m1 = m1
  m2 = m2
  Msgs <- TwoMsgs
  Configs <- TwoConfigs
  MaxReceive = 10
  RingSize = 2
  MaxRecords = 3
  MaxMappings = 2
INVARIANTS NoneDropped BatchDistinct NothingSkipped
PROPERTIES EveryMessageTried
CHECK_DEADLOCK FALSE
