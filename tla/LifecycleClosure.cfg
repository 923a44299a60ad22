SPECIFICATION Spec
CONSTANTS
  Users = {u1, u2}
  Methods = {m1}
  Payments = {}
  Reversals = {}
  Handoffs = {h1}
  Closures = {c1}
  MinBalance <- Overdraft
  MaxBalance = 1
  MaxWrites = 5
  MaxReceipts = 1
  CollectsPreflight = FALSE
  MaxSettlements = 1
  CarriedBalances = {1}
  None = None
SYMMETRY Interchangeable
INVARIANTS
  AuthorityBelongsToOwner
  ClosedIsSettled
CHECK_DEADLOCK FALSE
