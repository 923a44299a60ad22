SPECIFICATION FairSpec
CONSTANTS
  Users = {u1, u2}
  Methods = {}
  Payments = {p1}
  Reversals = {}
  Handoffs = {h1}
  Closures = {}
  MinBalance <- Overdraft
  MaxBalance = 1
  MaxWrites = 3
  MaxReceipts = 1
  CollectsPreflight = TRUE
  MaxSettlements = 1
  CarriedBalances = {}
  None = None
INVARIANTS
  EligibleMeansSettled
PROPERTIES
  CancellationReleasesFence
CHECK_DEADLOCK FALSE
