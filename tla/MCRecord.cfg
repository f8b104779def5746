SPECIFICATION FairSpec
CONSTANTS
  Followers = {"f"}
  MaxQueuedMessages = 1
  MaxSequence = 4
  Stored = 1
  Faulty = {"log", "target", "f"}
  MaxSends = 4
  MaxHeads = 1
INVARIANT TypeOK
INVARIANT KeepsOrder
INVARIANT HeadFences
PROPERTY Proceeds
PROPERTY EndsFollowers
CHECK_DEADLOCK FALSE
