SPECIFICATION FairSpec
CONSTANTS
  Versions = {v1}
  Cards <- FreeAndPaid
  Cutovers = {0}
  MaxTime = 0
  UsageIDs = {f1, f2}
  Rows <- MeteredRows
  Products = {}
  Periods <- FirstMonth
  Months <- NoMonths
  Users = {a}
  Closers = {c1, c2}
  OTAPrice = 1
  MaxTerms = 1
  MaxStops = 1
  MaxPosts = 4
  TermStarts = {0}
  None = None
INVARIANTS
  ClosedPeriodBillsAllItsFacts
  InvoiceDebitedOnce
  RendersAgree
PROPERTIES
  CloseCompletes
