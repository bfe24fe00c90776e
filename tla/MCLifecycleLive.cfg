SPECIFICATION FairSpec
CONSTANTS
  None = None
  Missions = {m1}
  Runs = {r1, r2}
  Kinds <- AllKinds
  Routes <- DirectRoutes
  Cognition = TRUE
  RecoveryMayFail = FALSE
  MaxFailures = 1
  FailureThreshold = 2
  MaxCrashes = 1
PROPERTY EventuallySettled
CHECK_DEADLOCK FALSE
