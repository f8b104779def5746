SPECIFICATION Spec
CONSTANTS
  Channels = {1, 2, 3}
  AcceptCapacity = 1
  QueueCapacity = 2
  Settings <- Mixed
INVARIANT TypeOK
INVARIANT NeverOverrun
INVARIANT CloseComesLast
INVARIANT WindowAccounted
PROPERTY FramesInOrder
CHECK_DEADLOCK FALSE
