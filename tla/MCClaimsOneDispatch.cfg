SPECIFICATION Spec
CONSTANTS
  None = None
  Missions = {m1}
  Runs = {r1, r2, r3}
  Kinds = {"crew"}
  Routes = {"v2submit", "v2approve"}
  Cognition = FALSE
  RecoveryMayFail = FALSE
  MaxFailures = 0
  FailureThreshold = 2
  MaxCrashes = 0
INVARIANT OneCrewPerMission
CHECK_DEADLOCK FALSE
