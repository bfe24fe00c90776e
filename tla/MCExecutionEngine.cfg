SPECIFICATION FairSpec
CONSTANTS
  None = None
  t1 = t1
  t2 = t2
  Tasks = {t1, t2}
  Priorities = {1}
  MaxAttempts = 2
  PolicyAttempts <- ThePolicies
  MAX_CONCURRENT = 1
  MAX_QUEUE_SIZE = 1
  MAX_TERMINAL_KEPT = 1
INVARIANTS
  NoLostTask
  DroppedWasCancelled
  OneHolder
  FlagStopsSuccess
PROPERTIES
  FlagStopsRetries
  EventuallyTerminal
CHECK_DEADLOCK FALSE
