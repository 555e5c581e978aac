CONSTANTS
  Roots = {r1}
  Readers = {a}
  Wakes = {w1, w2}
  Recompute = recompute
  Nobody = nobody
  MaxEdits = 1
  MaxPrepares = 1
SPECIFICATION Spec
CONSTRAINT FewAtWork
INVARIANT ServedIsFresh
PROPERTY DueIsTried
CHECK_DEADLOCK FALSE
