SPECIFICATION FairSpec
CONSTANTS
  MaxSerial = 1
  MaxPending = 1
  MaxHandlers = 1
  QueueCapacity = 1
  InFlight = 1
  Methods = {"m"}
  Handled = {"m"}
  AppCallers = {}
  HandlerCallers = {}
  EventCallers = {"server"}
  Emitters = {"client"}
  Closers = {"server"}
  Nonconforming = {}
  Stalling = {"client", "server"}
  MaxEvents = 4

PROPERTIES EventsInOrder PeersUnwind
CHECK_DEADLOCK FALSE
