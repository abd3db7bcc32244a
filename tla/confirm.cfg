SPECIFICATION FairSpec
CONSTANTS
  i1 = i1
  Incidents = {i1}
  TokenTTL = 2
  UsedTTL = 3
  MaxStall = 1
  Attempts = 2
  HasWebhook = TRUE
  Faults = TRUE
  MaxTime = 4
  MaxLinks = 1
  MaxRequests = 2
  MaxCrashes = 1
CHECK_DEADLOCK FALSE
INVARIANTS TypeOK SpendInv RecordedAsItWas
PROPERTY AuthorizedIsAccounted
