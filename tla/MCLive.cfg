SPECIFICATION FairSpec
CONSTANTS
  Owners = {1, 2, 3, 4}
  Parent <- Family
  Line <- Lines
  Calls = {1, 2}
  MaxMinted = 3
  MaxAttached = 2
  Settings <- Mixed
INVARIANT TypeOK
INVARIANT HeldByALivingOwner
INVARIANT AliasesLearn
INVARIANT BarrierHolds
PROPERTY UnwindsItsOwn
PROPERTY CloseSettles
CHECK_DEADLOCK FALSE
