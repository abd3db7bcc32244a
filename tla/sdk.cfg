SPECIFICATION FairSpec
CONSTANTS
  i1 = i1
  i2 = i2
  f1 = f1
  Instances = {i1,i2}
  Fields = {f1}
  Bucket = 2
  QueueSize = 2
  BatchSize = 2
  MaxKeys = 1
  CbThreshold = 1
  BufferSize = 1
  MaxTime = 2
  MaxMetrics = 3
  MaxRuns = 2
CHECK_DEADLOCK FALSE
INVARIANTS TypeOK MinutesExact
PROPERTY MinutesPublished
