SPECIFICATION Spec
CONSTANTS
  Keys = {1, 2, 3}
  Quantities = {1, 3}
  Rates <- FiveRates
  BasisPoints = 4
  TaxRates = {1, 3}
  MaxInt = 6
  MaxFacts = 4
INVARIANTS
  TaxFollowsSubtotal
  OverflowIsExact
CHECK_DEADLOCK FALSE
