SPECIFICATION Spec
CONSTANTS
  Versions = {v1, v2, v3}
  Cards <- PricedCards
  Cutovers = {0, 1, 2}
  MaxTime = 3
  UsageIDs = {f1}
  Rows <- CutoverRows
  Products = {}
  Periods <- MonthAndStraddler
  Months <- NoMonths
  Users = {}
  Closers = {c1}
  OTAPrice = 1
  MaxTerms = 1
  MaxStops = 0
  MaxPosts = 1
  TermStarts = {}
  None = None
INVARIANTS
  PriceIsUnambiguous
  InvoicePriceExplained
  PublishedExtendsBase
SYMMETRY Interchangeable
