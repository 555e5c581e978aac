CONSTANTS
  MaxPids = 1
  Stoppers = {s1}
  Finalizer = finalizer
  Launcher = launcher
  Adopter = adopter
  MaxTries = 2
  MaxRounds = 1
  MaxRetries = 0
  MaxBreaks = 0
  MaxCrashes = 0
SPECIFICATION Spec

PROPERTY DeadIsUnregistered
CHECK_DEADLOCK FALSE
CONSTANT MaxFaults = 0
CONSTRAINT FewFaults
