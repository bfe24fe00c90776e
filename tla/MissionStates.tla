---------------------------- MODULE MissionStates ----------------------------
(***************************************************************************)
(* The statuses of a mission and the table of the transitions between      *)
(* them: kernel/state/mission_state.py.  The kernel holds no other state;   *)
(* MissionLifecycle is its user.                                            *)
(***************************************************************************)

MissionStatus ==
  { "CREATED", "PLANNED", "RUNNING", "AWAITING_APPROVAL", "REVIEW",
    "DONE", "FAILED", "CANCELLED" }

VALID_TRANSITIONS ==
  [ s \in MissionStatus |->
      CASE s = "CREATED"           -> { "PLANNED", "FAILED" }
        [] s = "PLANNED"           -> { "RUNNING", "FAILED" }
        [] s = "RUNNING"           -> { "REVIEW", "FAILED", "AWAITING_APPROVAL" }
        [] s = "AWAITING_APPROVAL" -> { "RUNNING", "FAILED", "CANCELLED" }
        [] s = "REVIEW"            -> { "DONE", "RUNNING", "FAILED" }
        [] OTHER                   -> {} ]

\* MissionStateMachine.is_valid, the test that `apply` makes before it writes
is_valid(current, target) == target \in VALID_TRANSITIONS[current]

TerminalStatus == { "DONE", "FAILED", "CANCELLED" }

=============================================================================
