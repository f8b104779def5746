SPECIFICATION FairSpec
CONSTANTS
  MaxSerial = 1
  MaxPending = 1
  MaxHandlers = 1
  QueueCapacity = 1
  InFlight = 1
  Methods = {"m"}
  Handled = {"m"}
  AppCallers = {"client"}
  HandlerCallers = {"server"}
  EventCallers = {}
  Emitters = {}
  Closers = {}
  Nonconforming = {}
  Stalling = {"client", "server"}
  MaxEvents = 0

PROPERTIES KeepsPromise CallsReturn
CHECK_DEADLOCK FALSE
