SPECIFICATION FairSpec
CONSTANTS
  Channels = {1, 3}
  AcceptCapacity = 1
  QueueCapacity = 2
  Settings <- Reliable
PROPERTY SendsProceed
PROPERTY EndsBoth
CHECK_DEADLOCK FALSE
