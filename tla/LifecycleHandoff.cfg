SPECIFICATION Spec
CONSTANTS
  Users = {u1, u2}
  Methods = {}
  Payments = {p1}
  Reversals = {r1}
  Handoffs = {h1}
  Closures = {}
  MinBalance <- Overdraft
  MaxBalance = 1
  MaxWrites = 6
  MaxReceipts = 2
  CollectsPreflight = FALSE
  MaxSettlements = 1
  CarriedBalances = {0}
  None = None
SYMMETRY Interchangeable
INVARIANTS
  ConfirmedBalanceTransfers
  StillUntilDecided
  ReversalChargesItsOwner
CHECK_DEADLOCK FALSE
