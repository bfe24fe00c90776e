SPECIFICATION MCSpec
CONSTANTS
  None = None
  Calls = {c1, c2}
  Missions = {m, n}
  Tools = {t, g}
  GatedTools = {g}
  ReadTools = {t}
  Seconds = {0}
  failure_threshold = 1
  max_actions_per_session = 1
  _MAX_SESSIONS = 1
  Redis = FALSE
  max_retries = 1
  MaxFailures = 1
INVARIANTS
  CircuitCounts
  LimitHolds
  OneThreadPerCall
PROPERTIES
  EveryCallEnds
CHECK_DEADLOCK FALSE
