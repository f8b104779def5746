SPECIFICATION Spec
CONSTANTS
  MaxSerial = 1
  MaxPending = 2
  MaxHandlers = 1
  QueueCapacity = 1
  InFlight = 1
  Methods = {"m", "unknown"}
  Handled = {"m"}
  AppCallers = {"server"}
  HandlerCallers = {}
  EventCallers = {}
  Emitters = {}
  Closers = {}
  Nonconforming = {"client"}
  Stalling = {}
  MaxEvents = 0

PROPERTIES RunsOnce
CHECK_DEADLOCK FALSE
