CONSTANTS
  Workers = {w1, w2}
  MaxRounds = 2
  MaxConns = 2
  MaxChanges = 1
  MaxFaults = 1
SPECIFICATION Spec
INVARIANTS CheckpointHolds CommittedIsCaptured RollbackClosesNothing
PROPERTIES FreshUnlessLost TransactionsSettle
CHECK_DEADLOCK FALSE
