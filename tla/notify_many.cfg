SPECIFICATION Spec
CONSTANTS
  w1 = w1
  w2 = w2
  w3 = w3
  k1 = k1
  Workers = {w1,w2,w3}
  Keys = {k1}
  Unguarded = {}
  Threshold = 1
  MaxTasks = 4
  MaxCrashes = 1
CHECK_DEADLOCK FALSE
SYMMETRY Perms
INVARIANTS SkippedForAnother FailureIsQueued
PROPERTY MarkerStays
