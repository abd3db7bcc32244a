SPECIFICATION FairSpec
CONSTANTS
  Threads = {t1}
  Windows <- MCWindows
  Warn = 4
  Crit = 8
  WarnPct = 2
  CritPct = 5
  WarnX = 15
  CritX = 20
  RocLatency = 100
  RocErrors = 200
  MinLatency = 1
  MinErrors = 1
  Learning = TRUE
  MinSnapshots = 3
  MaxSnapshots = 3
  QueueSize = 1
  RateLimit = 1
INVARIANTS TypeOK QuietIsHealthy
PROPERTIES LearnsTheUsual SlackConverges
