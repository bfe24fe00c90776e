SPECIFICATION Spec
CONSTANTS
  None = None
  m1 = m1
  m2 = m2
  Missions = {m1, m2}
  Plan <- ThePlan
  _MAX_HISTORY = 2
  _ROTATED = 1
  _LOAD_LIMIT = 2
  _MAX_PER_CYCLE = 2
  MaxCrashes = 1
INVARIANTS
  RunsBounded
  ApprovedIsNotHalf
  RejectedIsStopped
  
CHECK_DEADLOCK FALSE
