------------------------- MODULE OrchestrationBridge -------------------------
(***************************************************************************)
(* The fourth status of a mission: the canonical view that the v3 routes    *)
(* show (core/orchestration_bridge.py over core/canonical_mission_store.py).*)
(* The bridge is called by the routes of MissionLifecycle and changes the   *)
(* view in the same call; nothing that runs a mission reads the view.       *)
(* A write of its store is taken to succeed.                                *)
(***************************************************************************)
EXTENDS MissionLifecycle

VARIABLE canonical  \* _canonical_missions, and the row of the store with it

bridgeVars == << vars, canonical >>

CanonicalMissionStatus ==
  { "CREATED", "QUEUED", "PLANNING", "WAITING_APPROVAL", "READY", "RUNNING",
    "REVIEW", "COMPLETED", "FAILED", "CANCELLED" }

is_terminal(c) == c \in { "COMPLETED", "FAILED", "CANCELLED" }

\* map_legacy_mission_status, for the two sources of a view.  A status that is
\* not in the table is CREATED, and AWAITING_APPROVAL is in neither.
of_legacy(s) ==
  CASE s = "PENDING_VALIDATION" -> "WAITING_APPROVAL"
    [] s = "APPROVED" -> "READY"
    [] s \in { "DONE", "PLAN_ONLY" } -> "COMPLETED"
    [] s = "REJECTED" -> "CANCELLED"
    [] OTHER -> "CREATED"

\* mutant of of_context: what is not in the table has gone wrong
of_context_Unknown(s) ==
  CASE s = "PLANNED" -> "READY"
    [] s = "DONE" -> "COMPLETED"
    [] s \in { "CREATED", "RUNNING", "REVIEW" } -> s
    [] OTHER -> "FAILED"

of_context(s) ==
  CASE s = "PLANNED" -> "READY"
    [] s = "DONE" -> "COMPLETED"
    [] s \in { "RUNNING", "REVIEW", "FAILED" } -> s
    [] OTHER -> "CREATED"

Show(m, c) == canonical' = [canonical EXCEPT ![m] = c]

\* submit_mission: the view starts as what the legacy record says
SubmitThroughBridge(m, r) ==
  /\ Submit(m, r, "v3submit")
  /\ Show(m, of_legacy(legacy'[m]))

\* approve_mission, by either route
ApproveThroughBridge(m) ==
  /\ \/ \E r \in Runs : ApproveV3(m, r)
     \/ \E r1, r2 \in Runs : ApproveV2(m, r1, r2)
  /\ IF canonical[m] = "WAITING_APPROVAL" THEN Show(m, "READY")
     ELSE UNCHANGED canonical

\* reject_mission
RejectThroughBridge(m, r) ==
  /\ Reject(m, r)
  /\ IF canonical[m] # None /\ ~is_terminal(canonical[m]) THEN Show(m, "CANCELLED")
     ELSE UNCHANGED canonical

\* get_mission_canonical takes over what the registered context says, once it is
\* more than a beginning, until the view is terminal.  (Its second source asks
\* MissionSystem for a method that it does not have.)
get_mission_canonical(m) ==
  /\ server = "up" /\ registry[m] # None
  /\ ~is_terminal(canonical[m])
  /\ of_context(status[registry[m]]) \in { "RUNNING", "REVIEW", "COMPLETED", "FAILED" }
  /\ Show(m, of_context(status[registry[m]]))
  /\ UNCHANGED vars

\* KL-008: a bridge made after a restart fails every view that waits.  It is made
\* by its first caller, before which nobody sees the views.
Restart ==
  /\ Boot
  /\ canonical' = [m \in Missions |->
                     IF canonical[m] = "WAITING_APPROVAL" THEN "FAILED"
                     ELSE canonical[m]]

\* steps of which the bridge is not told
Unseen ==
  /\ \/ \E m \in Missions, r \in Runs : \/ Submit(m, r, "v2submit")
                                        \/ ResolveRoute(m, r, "grant")
                                        \/ ResolveRoute(m, r, "deny")
     \/ \E r \in Runs : Step(r)
     \/ Crash
  /\ UNCHANGED canonical

BridgeInit == Init /\ canonical = [m \in Missions |-> None]

BridgeNext ==
  \/ \E m \in Missions : \/ \E r \in Runs : \/ SubmitThroughBridge(m, r)
                                            \/ RejectThroughBridge(m, r)
                         \/ ApproveThroughBridge(m)
                         \/ get_mission_canonical(m)
  \/ Restart
  \/ Unseen

BridgeSpec == BridgeInit /\ [][BridgeNext]_bridgeVars

BridgeTypeOK == canonical \in [Missions -> CanonicalMissionStatus \cup {None}]

-----------------------------------------------------------------------------

\* A view that says FAILED or COMPLETED is final, so it must be right: until the
\* process has been restarted it says so of missions whose record is closed,
\* FAILED of those that failed, whatever is granted, denied or run afterwards.
\* (A cancelled resumption is DONE in its context and FAILED in the record.)
ViewIsEarned ==
  crashes = 0 =>
    \A m \in Missions :
      /\ canonical[m] = "FAILED" => record[m] = "FAILED"
      /\ canonical[m] = "COMPLETED" => record[m] \in { "DONE", "FAILED" }

-----------------------------------------------------------------------------
(* What comments of the code say and TLC refutes (README, divergences)       *)

\* A mission whose view was failed at a restart is over
\* (orchestration_bridge.py, KL-008: "an orphaned WAITING_APPROVAL that will
\* never resolve"): resolve_approval rebuilds its context and runs it.
FailedViewIsFinal ==
  \A m \in Missions : canonical[m] = "FAILED" => record[m] \in TerminalStatus

\* A mission that was cancelled through the bridge is not worked on
\* (reject_mission: "closes the approval gate").
CancelledIsNotExecuted ==
  \A r \in Runs : pc[r] = "exec" => canonical[of[r]] # "CANCELLED"

=============================================================================
