SPECIFICATION FairSpec
CONSTANTS
  None = None
  Empty = Empty
  Torn = Torn
  Loop = Loop
  Writers = {c1, c2, Loop}
  Submitters = {c1, c2}
  Goals = {"g"}
  Keys <- TheKeys
  AutoKeys <- TheAutoKeys
  Requests <- TheRequests
  MaxDecisions = 2
  _MAX_RETRIES = 2
  _ATTEMPT_TIMEOUT_S = 360
  _APPROVAL_SUBMIT_TIMEOUT_S = 20
  _LONG_MODE_TIMEOUT = 1200
INVARIANTS
  ApprovedWasDecided
  HighRiskRunsOnce
  HighRiskStaysGated
  RetryBudgetFits
PROPERTIES
  ContractSpec
  EventuallyEnds
CHECK_DEADLOCK FALSE
