SPECIFICATION FairSpec
CONSTANTS
  m1 = m1
  a1 = a1
  p1 = p1
  s1 = s1
  sweep = sweep
  d1 = d1
  NoFence = NoFence
  Mutation <- MCMutation
  DrainCmd <- MCDrainCmd
  Prepare <- MCPrepare
  Shutdown <- MCShutdown
  Sweeper <- MCSweeper
  Detacher <- MCDetacher
INVARIANTS
  NoLostWakeup
  FenceIsMutex
  DecisionSeesOnlyLateMutations
  CheckpointSeesOnlyLateMutations
  CheckpointExcludesStop
PROPERTIES
  EveryCommandSettles
  PreparationSettles
CHECK_DEADLOCK FALSE
