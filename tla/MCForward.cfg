SPECIFICATION FairSpec
CONSTANTS
  Calls = {1, 2, 3, 4}
  NoCall = 0
  Keys = {11, 12, 13}
  KeyOf <- Reused
  QueueCapacity = 2
  MaxPending = 2
  MaxHandlers = 1
  WireCapacity = 1
  WirePending = 1
  Settings <- Mixed
INVARIANTS TypeOK BoundsHold AnsweredOnce
CHECK_DEADLOCK FALSE
PROPERTY CallsSettle
