SPECIFICATION Spec
CONSTANTS
  Terms <- OwnerTerms
  Methods = {m1, m2}
  Amounts = {2}
  Opening = 3
  MinBalance <- Overdraft
  MaxBalance = 5
  DayLength = 2
  Delay = 0
  Passing <- Interrupted
  MaxClock = 0
  MaxPosts = 2
  MaxEdits = 2
  MaxIntents = 2
  MaxManual = 1
  MaxFences = 2
  NoPolicy = NoPolicy
  Never = Never
SYMMETRY AnyMethod
INVARIANTS
  NoInheritedPolicy
  CommitIsQuiet
CHECK_DEADLOCK FALSE
