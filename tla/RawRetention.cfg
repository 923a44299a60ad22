SPECIFICATION FairSpec
CONSTANTS
  policy1 = policy1
  clearance1 = clearance1
  verifier1 = verifier1
  wide = wide
  Policies = {policy1}
  Required <- RequiredOf
  Registered = {verifier1}
  HotDays <- DaysOf
  Clearances = {clearance1}
  Cover <- CoverOf
  Holds = {wide, narrow}
  Extent <- ExtentOf
  Operations = {o1, o2}
  Plans <- ThreePlans
  Handlers = {k1}
  Periods = {month1}
  MaxSequence = 2
  ReceivedAt <- Received
  Freshness = 1
  MaxTime = 2
  None = None
INVARIANTS
  HoldsAndDecisionsExclude
  RetiredIsPrefix
  AbortedIsNeverApplied
PROPERTIES
  DecidedOnCurrentEvidence
  QueuedHoldsSettle
