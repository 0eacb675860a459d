SPECIFICATION FairSpec
CONSTANTS
  NoStatus = NoStatus
  Faults = {"client", "broker", "timeout", "tick", "crash"}
  MaxPushes = 1
  MaxMessages = 1
  MaxFaults = 2
  MaxStarts = 2
INVARIANTS
  TriggersCovered
PROPERTIES
  RetainedConverges
  OfflineWhenGone
CHECK_DEADLOCK FALSE
