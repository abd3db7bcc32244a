SPECIFICATION FairSpec
CONSTANTS
  w1 = w1
  w2 = w2
  Workers = {w1,w2}
  Recipients = 2
  Configured = TRUE
  HasSlack = TRUE
  HasFallback = TRUE
  Threshold = 3
  Cooldown = 1
INVARIANTS TypeOK SuppressionEarned BlackoutSeen
PROPERTY HealthyIsUsed
