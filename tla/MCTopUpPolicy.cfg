SPECIFICATION Spec
CONSTANTS
  Terms <- LimitTerms
  Methods = {m1}
  Amounts = {2}
  Opening = 3
  MinBalance <- Overdraft
  MaxBalance = 5
  DayLength = 2
  Delay = 1
  Passing <- Outcomes
  MaxClock = 3
  MaxPosts = 5
  MaxEdits = 2
  MaxIntents = 3
  MaxManual = 0
  MaxFences = 0
  NoPolicy = NoPolicy
  Never = Never
INVARIANTS
  OneTopUpInFlight
  WithinDailyLimits
  CooldownKept
  ThreeFailuresDisable
PROPERTIES
  OneTopUpPerCrossing
CHECK_DEADLOCK FALSE
