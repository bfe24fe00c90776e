SPECIFICATION Spec
CONSTANTS
  None = None
  Missions = {m1}
  Runs = {r1, r2, r3}
  Kinds = {"crew"}
  Routes <- V2Routes
  Cognition = TRUE
  RecoveryMayFail = FALSE
  MaxFailures = 1
  FailureThreshold = 1
  MaxCrashes = 1
SYMMETRY RunSymmetry
INVARIANTS
  TypeOK
  HighRiskNeedsGrant
  NoGhostRecord
  NoRefusedTransition
PROPERTY PendingNeedsDecision
CHECK_DEADLOCK FALSE
