CONSTANTS
  MaxPids = 2
  Stoppers = {s1}
  Finalizer = finalizer
  Launcher = launcher
  Adopter = adopter
  MaxTries = 2
  MaxRounds = 1
  MaxRetries = 1
  MaxBreaks = 1
  MaxCrashes = 1
  MaxFaults = 2
SPECIFICATION Spec
CONSTRAINT FewFaults
INVARIANTS CleanupIsSafe OneProcess
PROPERTIES RecoveringEnds OnlyTheDeadAreCleaned
CHECK_DEADLOCK FALSE
