SPECIFICATION Spec
CONSTANTS
  w1 = w1
  Workers = {w1}
  None = None
  MaxTime = 1
  ActiveTTL = 1
  VoiceAfter = 0
  SecondaryAfter = 1
  Quota = 1
  HasVoice = TRUE
  Gated = {}
  Faults = TRUE
  MaxCrashes = 1
  MaxCalls = 0
INVARIANTS AuditSound AuditComplete LinkIsStored QuotaHolds ShadowIsSilent EscalationsBounded
