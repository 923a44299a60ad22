CONSTANTS
  a = a  h = h  p = p  v = v  w = w
  Intents = {a, p}
  Workers = {v, w}
  Flavor <- FlavorOf
  StoredPending = {"unknown", "requires_action"}
  Registered = {v, w}
  ChargeEnabled = {w}
  BatchSize = 2
  MaxIntents = 1
  MaxEvents = 1
  MaxFaults = 1
  MaxAttempts = 3
  NoJob = NoJob
SPECIFICATION FairSpec
PROPERTY CaptureEventuallyCredited
