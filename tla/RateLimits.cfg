SPECIFICATION Spec
CONSTANTS
  None = None
  Types <- MCTypes
  Limit <- MCLimit
  MaxMessagesPerSecond = 2
  BurstSize = 3
  BanDuration = 3
  StaleThreshold = 4
  Second = 2
  MaxTime = 9
  MaxMessages = 6
INVARIANTS
  BucketBound
  TwoWindows
PROPERTIES
  BanHonoured
CHECK_DEADLOCK FALSE
