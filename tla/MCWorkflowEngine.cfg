SPECIFICATION Spec
CONSTANTS
  None = None
  Empty = Empty
  Torn = Torn
  Threads = {t1, t2}
  Plans <- MCPlans
  MAX_CONCURRENT_WORKFLOWS = 2
  MAX_WORKFLOW_DEPTH = 2
  MAX_WORKFLOW_HISTORY = 1
  MaxCreated = 3
  MaxCalls = 4
  MaxCrashes = 1
SYMMETRY Symmetric
INVARIANTS
  HistoryBounded
  DependenciesHold
  VerdictIsEarned
CHECK_DEADLOCK FALSE
