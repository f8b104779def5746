SPECIFICATION FairRouteSpec
CONSTANTS
  r1 = r1
  r2 = r2
  T = T
  M = M
  D = D
  V = V
  W = W
  E = E
  PV = PV
  PW = PW
  Names = {a, b}
  Bodies = {x, y}
  Captures = 3
  Leases = 2
  Apps = {1, 2, 3}
  Kind <- Kinds
  Path <- Paths
  Surroundings <- Mixed
INVARIANT NothingHeldInVain
INVARIANT EndsAreTold
INVARIANT RequestKeepsItsRoute
INVARIANT TypeOK
INVARIANT ControlOnceEach
INVARIANT RetiresOnTime
INVARIANT CountersExact
PROPERTY RetiresEventually
