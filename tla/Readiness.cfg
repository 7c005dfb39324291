CONSTANTS
  Timeout = 20
  Interval = 2
  ProbeLimit = 3
  MaxChanges = 4

SPECIFICATION FairWaitSpec
CHECK_DEADLOCK FALSE

INVARIANTS
  WaitTypeOK
  ReadyNotTimedOut

PROPERTIES
  EndsInTime
