SPECIFICATION Spec
CHECK_DEADLOCK FALSE
CONSTANTS
  Clients = {a, b}
  QueueLimit = 2
  ReplayLimit = 2
  MaxContent = 2
  MaxId = 3
  MaxRestarts = 1
PROPERTY
  ReconnectCatchesUp
