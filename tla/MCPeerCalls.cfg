SPECIFICATION Spec
CONSTANTS
  MaxSerial = 2
  MaxPending = 2
  MaxHandlers = 1
  QueueCapacity = 1
  InFlight = 1
  Methods = {"m"}
  Handled = {"m"}
  AppCallers = {"client"}
  HandlerCallers = {}
  EventCallers = {}
  Emitters = {"client"}
  Closers = {}
  Nonconforming = {}
  Stalling = {"client", "server"}
  MaxEvents = 1
INVARIANTS TypeOK NeverRefuses CancelFollowsRequest OneAnswer BudgetsKept
CHECK_DEADLOCK FALSE
