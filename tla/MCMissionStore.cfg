SPECIFICATION Spec
CONSTANTS
  None = None
  Empty = Empty
  Torn = Torn
  Writers = {loop}
  Loop = loop
  Ids = {m1, m2, m3}
  _MAX_MISSIONS = 1
  MaxCalls = 4
  MaxFailures = 2
  MaxCrashes = 2
PROPERTIES
  DurableSpec
  OpenIsKept
CHECK_DEADLOCK FALSE
