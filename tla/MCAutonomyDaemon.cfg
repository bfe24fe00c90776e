SPECIFICATION FairSpec
CONSTANTS
  None = None
  Daemons = {d1, d2}
  Costs = {0, 1, 2}
  max_iters = 2
  max_tokens = 2
  daily_max_tokens = 3
INVARIANTS
  OneIsFree
  StopsSoon
  WithinBudget
PROPERTIES
  EveryDaemonEnds
CHECK_DEADLOCK FALSE
