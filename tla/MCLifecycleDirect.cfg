SPECIFICATION BridgeSpec
CONSTANTS
  None = None
  Missions = {m1}
  Runs = {r1, r2, r3}
  Kinds <- AllKinds
  Routes <- DirectRoutes
  Cognition = FALSE
  RecoveryMayFail = TRUE
  MaxFailures = 1
  FailureThreshold = 1
  MaxCrashes = 1
SYMMETRY RunSymmetry
INVARIANTS
  OneCrewPerMission
  RecordFollowsContext
  ViewIsEarned
  AwaitingCanBeGranted
PROPERTY ContractSpec
CHECK_DEADLOCK FALSE
