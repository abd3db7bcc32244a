SPECIFICATION FairSpec
CONSTANTS
  w1 = w1
  Workers = {w1}
  None = None
  MaxTime = 1
  ActiveTTL = 1
  VoiceAfter = 9
  SecondaryAfter = 9
  Quota = 1
  HasVoice = FALSE
  Gated = {}
  Faults = FALSE
  MaxCrashes = 1
  MaxCalls = 0
PROPERTIES LeasesReturn OpeningAudited
