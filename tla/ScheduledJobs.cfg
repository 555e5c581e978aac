CONSTANTS
  heartbeat = heartbeat
  once = once
  root = root
  Jobs = {heartbeat, once}
  Sessions = {root}
  SessionOf <- MCSessionOf
  Once = {once}
  Heartbeats = {heartbeat}
  MaxTicks = 2
  MaxEdits = 3
  MaxCrashes = 1
SPECIFICATION Spec
INVARIANTS OncePerTick ClaimsAreHeld PreparedIsQuiet
PROPERTIES DeliveredAsStored DueIsClaimed DispatchesEnd
CHECK_DEADLOCK FALSE
