SPECIFICATION FairSpec
CONSTANTS
  prompt = prompt
  Cmd <- MCCmd
  MaxConn = 3
  MaxGen = 2
INVARIANTS
  AckSeparatesDispatches
  ForgottenIsSettled
  SuccessIsTruthful
  TwiceOnlyIfOverlapped
PROPERTIES
  ParkedSettles
CHECK_DEADLOCK FALSE
