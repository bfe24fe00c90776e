SPECIFICATION Spec
CONSTANTS
  None = None
  Empty = Empty
  Torn = Torn
  Writers = {loop, daemon}
  Loop = loop
  Ids = {m1, m2}
  _MAX_MISSIONS = 2
  MaxCalls = 3
  MaxFailures = 0
  MaxCrashes = 0
INVARIANTS
  ThreadSafe
CHECK_DEADLOCK FALSE
