SPECIFICATION StreamSpec
CONSTANTS
  a = a
  b = b
  x = x
  Catchup = Catchup
  NoSession = NoSession
  Sessions = {a, b}
  Attachers = {x}
  MaxEvents = 2
  MaxDeferred = 1
  MaxCommands = 2
  MaxRequests = 1
  MaxFaults = 1
INVARIANT NothingForgotten
PROPERTY CatchesUp
CHECK_DEADLOCK FALSE
