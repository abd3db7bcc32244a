SPECIFICATION Spec
CONSTANTS
  w1 = w1
  w2 = w2
  Workers = {w1,w2}
  None = None
  MaxTime = 1
  ActiveTTL = 1
  VoiceAfter = 9
  SecondaryAfter = 9
  Quota = 2
  HasVoice = FALSE
  Gated = {}
  Faults = FALSE
  MaxCrashes = 1
  MaxCalls = 1
SYMMETRY Perms
CONSTRAINT Opening
INVARIANTS TypeOK LoopInv OneOwner
PROPERTY ActiveNeverReplaced
