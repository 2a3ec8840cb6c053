\* Two outputs with one input each and a shared one; timers with a period of 0, of 1
\* and of 2, over two whole periods and what lies between.
CONSTANTS
  O = 2
  G = 1
  L = 1
  Divisors = {0, 1, 2}
  EndOfTime = 5
  Periods = {0, 1, 2}
  Horizon = 5
SPECIFICATION MCSpec
INVARIANTS CurrentIsPending NoEdgeLost
PROPERTIES PendingIsSignalled InterruptsOnTime PeriodsAreWhole
CHECK_DEADLOCK FALSE
