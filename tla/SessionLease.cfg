SPECIFICATION FairSpec
CONSTANTS
  p1 = p1
  p2 = p2
  Nobody = Nobody
  Proc <- MCProc
  MaxLife = 3
  MaxPauses = 1
INVARIANTS
  HolderOwnsLease
PROPERTIES
  OperationsSettle
CHECK_DEADLOCK FALSE
