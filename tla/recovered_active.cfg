SPECIFICATION Spec
CONSTANTS
  w1 = w1
  Workers = {w1}
  None = None
  MaxTime = 1
  ActiveTTL = 9
  VoiceAfter = 9
  SecondaryAfter = 9
  Quota = 1
  HasVoice = FALSE
  Gated = {}
  Faults = FALSE
  MaxCrashes = 0
  MaxCalls = 0
INVARIANT RecoveredIsCleared
