SPECIFICATION Spec
CONSTANTS
  w1 = w1
  k1 = k1
  k2 = k2
  e = e
  Workers = {w1}
  Keys = {k1,k2,e}
  Unguarded = {e}
  Threshold = 2
  MaxTasks = 4
  MaxCrashes = 1
CHECK_DEADLOCK FALSE
INVARIANTS TypeOK ClaimInv
PROPERTY ImplementsOnce
