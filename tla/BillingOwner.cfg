SPECIFICATION Spec
CONSTANTS
  Versions = {v1, v2}
  Cards <- OneCard
  Cutovers = {0, 2}
  MaxTime = 4
  UsageIDs = {f1, f2}
  Rows <- OTARows
  Products = {"p"}
  Periods <- SecondMonth
  Months <- SecondMonth
  Users = {a, b}
  Closers = {c1}
  OTAPrice = 1
  MaxTerms = 3
  MaxStops = 0
  MaxPosts = 1
  TermStarts = {0, 3}
  None = None
INVARIANTS
  OTAInvoiceIsSealed
  OTAInvoiceChargesMonthOwner
  RecipientIsOwner
  VisibleInvoiceIsOwn
  EstimateIsInvoiceOrHeld
SYMMETRY Interchangeable
