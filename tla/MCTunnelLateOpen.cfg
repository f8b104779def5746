SPECIFICATION FairSpec
CONSTANTS
  Channels = {1}
  AcceptCapacity = 1
  QueueCapacity = 2
  Settings <- LateOpen
PROPERTY OuterEndEndsAll
CHECK_DEADLOCK FALSE
