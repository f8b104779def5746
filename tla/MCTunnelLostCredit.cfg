SPECIFICATION Spec
CONSTANTS
  Channels = {1}
  AcceptCapacity = 1
  QueueCapacity = 2
  Settings <- LostCredit
INVARIANT WaitsOnlyPastWindow
CHECK_DEADLOCK FALSE
