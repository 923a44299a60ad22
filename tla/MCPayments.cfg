CONSTANTS
  a = a  h = h  p = p  v = v  w = w
  Intents = {a, h, p}
  Workers = {v, w}
  Flavor <- FlavorOf
  StoredPending = {"unknown", "requires_action"}
  Registered = {v, w}
  ChargeEnabled = {v, w}
  BatchSize = 2
  MaxIntents = 1
  MaxEvents = 1
  MaxFaults = 3
  MaxAttempts = 3
  NoJob = NoJob
SYMMETRY AnyWorker
SPECIFICATION Spec
INVARIANTS CreditedExactlyOnce ChargedAtMostOnce CaptureNeverWrittenOff UnsettledIsScheduled QuietMeansSettled
PROPERTY ImplementsSettlement
