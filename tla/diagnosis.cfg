SPECIFICATION Spec
CONSTANTS
  w1 = w1
  w2 = w2
  database = database
  network = network
  Workers = {w1,w2}
  Latencies = {4,9}
  Categories = {database,network}
  Confidences = {4,6,7}
  None = None
  Retries = 2
  MaxHistory = 2
  MaxCommits = 3
  Shown = 2
  Window = 2
  Slack = 1
  MaxOps = 4
SYMMETRY Perms
INVARIANTS TypeOK CouncilHeeds LatestKept
