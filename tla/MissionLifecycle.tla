-------------------------- MODULE MissionLifecycle --------------------------
(***************************************************************************)
(* The life of a mission in MetaOrchestrator: the coroutines that run it    *)
(* (core/meta_orchestrator.py run_mission and resolve_approval with the     *)
(* mixins of core/orchestration), the HTTP routes that schedule them        *)
(* (api/routes/missions.py, convergence.py, mission_persistence.py and      *)
(* api/mission_approval.py), and the three places that keep a status of the *)
(* mission: the in-memory context, the persisted record of                  *)
(* core/mission_persistence.py and the legacy record of                     *)
(* core/mission_system.py.                                                  *)
(*                                                                          *)
(* A coroutine runs without interruption from one `await` to the next; an   *)
(* action is such a segment.  Two persisted transitions of one segment are  *)
(* two actions, because the process can be killed between them.             *)
(***************************************************************************)
EXTENDS MissionStates, Naturals, FiniteSets

CONSTANTS
  Missions,          \* mission ids
  Runs,              \* slots for the coroutines of the event loop
  None,
  Kinds,             \* which of "crew", "chat", "creative" the goals may be
  Routes,            \* the submission and decision routes in use
  Cognition,         \* may CognitionOrchestrator wrap the supervisor?
  RecoveryMayFail,   \* may recover_from_persistence fail at startup?
  FailureThreshold,  \* failure_threshold of the circuit breaker
  MaxFailures,       \* bound: how often a write of mission_state.json may fail
                     \* (disk full, file locked; _save only logs it)
  MaxCrashes         \* bound: how often the process may be killed

ASSUME LifecycleAssumption ==
  /\ Missions \cap Runs = {}
  /\ None \notin Missions \cup Runs
  /\ Kinds \subseteq { "crew", "chat", "creative" }
  /\ Routes \subseteq { "v2submit", "v3submit", "v2approve", "v3approve",
                        "reject", "resolve" }
  /\ Cognition \in BOOLEAN
  /\ RecoveryMayFail \in BOOLEAN
  /\ MaxFailures \in Nat
  /\ FailureThreshold \in Nat \ {0}
  /\ MaxCrashes \in Nat

VARIABLES
  \* what the goal of each mission is; fixed by its text
  kind,         \* the path run_mission takes: crew, chat or creative
  risk,         \* risk_level of the classification ("high" covers critical)
  flagged,      \* missions for which something other than the class asks
                \* for approval: the request, confidence or kernel policy
  \* the coroutines
  pc,           \* the await at which each one stands
  job,          \* what scheduled it
  of,           \* its mission
  resumed,      \* the paused context that resolve_approval runs it for
  forced,       \* force_approved
  cog,          \* is the supervisor wrapped by CognitionOrchestrator?
  blocked,      \* did AlignmentLayer refuse the goal in this run?
  \* the mission
  status,       \* status of each MissionContext object; the object is named
                \* after the coroutine that made it, or after the mission
                \* when it was rebuilt from the record
  registry,     \* MetaOrchestrator._missions
  record,       \* MissionPersistenceStore: status in the store, None if absent
  saved,        \* ... and in mission_state.json
  failures,
  legacy,       \* MissionSystem: status of the legacy record, None if absent
  legacyDisk,   \* ... and as last saved
  breaker,      \* MissionCircuitBreaker
  server,       \* is the process up?
  crashes,
  \* history, read by properties only
  granted       \* missions a human has approved

goals == << kind, risk, flagged >>
task == << job, of, resumed >>
runVars == << pc, task, forced, cog, blocked >>
recordVars == << record, saved, failures >>
legacyVars == << legacy, legacyDisk >>
vars == << goals, runVars, status, registry, recordVars, legacyVars, breaker,
           server, crashes, granted >>

-----------------------------------------------------------------------------
(* Vocabulary *)

Contexts == Runs \cup Missions

\* the awaits of run_mission; "queued" is a task not started, "return" the
\* caller's code after run_mission, "over" a finished coroutine
Awaits == { "planning", "planned", "creative", "closing", "prepare", "chat",
            "supervise", "gate", "exec", "review", "retry", "reviewed",
            "storing" }
Pcs == Awaits \cup { "idle", "queued", "return", "over" }

Jobs == { "v2submit", "v3submit", "resume", "grant", "deny" }

\* statuses of the legacy record that the routes here can produce
LegacyStatus == { "APPROVED", "PENDING_VALIDATION", "AWAITING_APPROVAL",
                  "REJECTED", "DONE", "PLAN_ONLY" }
LegacyPending == { "PENDING_VALIDATION", "AWAITING_APPROVAL" }

ASSUME NoneAssumption == None \notin MissionStatus \cup LegacyStatus \cup Jobs

active(r) == pc[r] \in Awaits

\* Does anything ask for approval of this run?  classification.needs_approval
\* holds for high risk; force_approved silences every source.
needs_approval(r) ==
  ~forced[r] /\ (of[r] \in flagged \/ risk[of[r]] = "high")

\* core/orchestration/execution_supervisor.py: _needs_approval and skip_approval
gated(r) ==
  ~forced[r] /\ (needs_approval(r) \/ risk[of[r]] \in { "medium", "high" })

\* The risk that reaches _request_approval.  The direct call of supervise
\* raises a flagged run to "high"; the cognition wrapper passes the class, and
\* the gate then lifts "low" to "medium" only.
gate_risk(r) ==
  IF needs_approval(r) /\ ~cog[r] THEN "high"
  ELSE IF risk[of[r]] = "low" THEN "medium" ELSE risk[of[r]]

TypeOK ==
  /\ kind \in [Missions -> Kinds]
  /\ risk \in [Missions -> { "low", "medium", "high" }]
  /\ flagged \in SUBSET Missions
  /\ pc \in [Runs -> Pcs]
  /\ job \in [Runs -> Jobs \cup {None}]
  /\ of \in [Runs -> Missions \cup {None}]
  /\ resumed \in [Runs -> Contexts \cup {None}]
  /\ forced \in [Runs -> BOOLEAN]
  /\ cog \in [Runs -> BOOLEAN]
  /\ blocked \in [Runs -> BOOLEAN]
  /\ status \in [Contexts -> MissionStatus \cup {None}]
  /\ registry \in [Missions -> Contexts \cup {None}]
  /\ record \in [Missions -> MissionStatus \cup {None}]
  /\ saved \in [Missions -> MissionStatus \cup {None}]
  /\ failures \in 0..MaxFailures
  /\ legacy \in [Missions -> LegacyStatus \cup {None}]
  /\ legacyDisk \in [Missions -> LegacyStatus \cup {None}]
  /\ breaker \in [failures : 0..FailureThreshold, open : BOOLEAN]
  /\ server \in { "up", "down" }
  /\ crashes \in 0..MaxCrashes
  /\ granted \in SUBSET Missions

Closed == [failures |-> 0, open |-> FALSE]

Init ==
  /\ kind \in [Missions -> Kinds]
  /\ risk \in [Missions -> { "low", "medium", "high" }]
  /\ flagged \in SUBSET Missions
  /\ pc = [r \in Runs |-> "idle"]
  /\ job = [r \in Runs |-> None]
  /\ of = [r \in Runs |-> None]
  /\ resumed = [r \in Runs |-> None]
  /\ forced = [r \in Runs |-> FALSE]
  /\ cog = [r \in Runs |-> FALSE]
  /\ blocked = [r \in Runs |-> FALSE]
  /\ status = [c \in Contexts |-> None]
  /\ registry = [m \in Missions |-> None]
  /\ record = [m \in Missions |-> None]
  /\ saved = [m \in Missions |-> None]
  /\ failures = 0
  /\ legacy = [m \in Missions |-> None]
  /\ legacyDisk = [m \in Missions |-> None]
  /\ breaker = Closed
  /\ server = "up"
  /\ crashes = 0
  /\ granted = {}

-----------------------------------------------------------------------------
(* MissionCircuitBreaker, and the effect of one transition *)

breaker_record_success == breaker' = Closed

breaker_record_failure ==
  LET n == breaker.failures + 1
      capped == IF n > FailureThreshold THEN FailureThreshold ELSE n
  IN breaker' = [failures |-> capped,
                 open |-> breaker.open \/ n >= FailureThreshold]

\* MissionPersistenceStore: the table in memory first, then the whole of it to
\* the file, which otherwise keeps what an earlier write left there
Write(table, earlier) ==
  /\ record' = table
  /\ \/ saved' = table /\ UNCHANGED failures
     \/ /\ failures < MaxFailures
        /\ failures' = failures + 1
        /\ saved' \in earlier

Persist(table) == Write(table, {saved})

\* _transition: checked against the table, applied to the context, persisted.
\* Its last block calls a method get_mission that MissionSystem does not have;
\* the AttributeError is swallowed, so the legacy record stays as it is.
Transition(r, target) ==
  /\ is_valid(status[r], target)
  /\ status' = [status EXCEPT ![r] = target]
  /\ Persist([record EXCEPT ![of[r]] = target])

\* MissionSystem: what _save_mission writes is the record as it is in memory.
\* (That this write may fail as well is left out.)
SetLegacy(m, s) ==
  /\ legacy' = [legacy EXCEPT ![m] = s]
  /\ legacyDisk' = [legacyDisk EXCEPT ![m] = s]

At(r, here) == server = "up" /\ pc[r] = here
Goto(r, there) == pc' = [pc EXCEPT ![r] = there]

\* the coroutine is finished; its context stays, so the slot is not used again
Leave(r) ==
  /\ Goto(r, "over")
  /\ job' = [job EXCEPT ![r] = None]
  /\ of' = [of EXCEPT ![r] = None]
  /\ resumed' = [resumed EXCEPT ![r] = None]
  /\ forced' = [forced EXCEPT ![r] = FALSE]
  /\ cog' = [cog EXCEPT ![r] = FALSE]
  /\ blocked' = [blocked EXCEPT ![r] = FALSE]

-----------------------------------------------------------------------------
(* Scheduling: the routes *)

Schedule(r, m, j) ==
  /\ pc' = [pc EXCEPT ![r] = "queued"]
  /\ job' = [job EXCEPT ![r] = j]
  /\ of' = [of EXCEPT ![r] = m]

\* submit_task (v2) and submit_mission (v3): MissionSystem.submit decides on
\* its own score whether the legacy record waits; the run is scheduled anyway
Submit(m, r, j) ==
  /\ At(r, "idle")
  /\ j \in { "v2submit", "v3submit" } \cap Routes
  /\ legacy[m] = None
  /\ \E s \in { "APPROVED", "PENDING_VALIDATION", "AWAITING_APPROVAL" } :
       SetLegacy(m, s)
  /\ Schedule(r, m, j)
  /\ UNCHANGED << goals, resumed, forced, cog, blocked, status, registry, recordVars,
                  breaker, server, crashes, granted >>

\* MissionSystem.approve
ms_approve(m) ==
  IF legacy[m] \in LegacyPending
  THEN SetLegacy(m, "APPROVED")
  ELSE UNCHANGED legacyVars

\* MissionSystem.reject
ms_reject(m) ==
  IF legacy[m] \in { "PENDING_VALIDATION", "APPROVED" }
  THEN SetLegacy(m, "REJECTED")
  ELSE UNCHANGED legacyVars

\* approve_mission_for_resume: the bridge schedules resolve_approval, and the
\* route schedules a forced run of its own.  A mission whose legacy record is
\* already APPROVED passes the status check.
ApproveV2(m, r1, r2) ==
  /\ "v2approve" \in Routes
  /\ r1 # r2 /\ At(r1, "idle") /\ At(r2, "idle")
  /\ legacy[m] \in LegacyPending \cup { "APPROVED" }
  /\ ms_approve(m)
  /\ pc' = [pc EXCEPT ![r1] = "queued", ![r2] = "queued"]
  /\ job' = [job EXCEPT ![r1] = "grant", ![r2] = "resume"]
  /\ of' = [of EXCEPT ![r1] = m, ![r2] = m]
  /\ granted' = granted \cup {m}
  /\ UNCHANGED << goals, resumed, forced, cog, blocked, status, registry, recordVars,
                  breaker, server, crashes >>

\* OrchestrationBridge.approve_mission, reached through the v3 route
ApproveV3(m, r) ==
  /\ "v3approve" \in Routes
  /\ At(r, "idle") /\ legacy[m] # None
  /\ ms_approve(m)
  /\ Schedule(r, m, "grant")
  /\ granted' = granted \cup {m}
  /\ UNCHANGED << goals, resumed, forced, cog, blocked, status, registry, recordVars,
                  breaker, server, crashes >>

\* reject_mission_payload, whose last call saves the legacy record whatever
\* its status, and OrchestrationBridge.reject_mission
Reject(m, r) ==
  /\ "reject" \in Routes
  /\ At(r, "idle") /\ legacy[m] # None
  /\ \/ ms_reject(m)
     \/ legacy[m] \in { "AWAITING_APPROVAL", "DONE", "PLAN_ONLY" }
        /\ SetLegacy(m, legacy[m])
  /\ Schedule(r, m, "deny")
  /\ UNCHANGED << goals, resumed, forced, cog, blocked, status, registry, recordVars,
                  breaker, server, crashes, granted >>

\* POST /{mission_id}/resolve-approval awaits resolve_approval itself
ResolveRoute(m, r, verdict) ==
  /\ "resolve" \in Routes
  /\ At(r, "idle") /\ legacy[m] # None
  /\ verdict \in { "grant", "deny" }
  /\ Schedule(r, m, verdict)
  /\ granted' = IF verdict = "grant" THEN granted \cup {m} ELSE granted
  /\ UNCHANGED << goals, resumed, forced, cog, blocked, status, registry, recordVars,
                  legacyVars, breaker, server, crashes >>

-----------------------------------------------------------------------------
(* run_mission *)

\* The first segment: the context is registered (in place of an older one) and
\* the circuit breaker consulted.  `st` and `rec` are the statuses as they stand
\* when run_mission is entered; a resumption has tried to save its `rec`.  The
\* context is persisted by its first transition, so CREATED never reaches the
\* record.
Begin(r, m, approved, st, rec) ==
  /\ registry' = [registry EXCEPT ![m] = r]
  /\ forced' = [forced EXCEPT ![r] = approved]
  /\ \/ /\ breaker.open
        /\ status' = [st EXCEPT ![r] = "FAILED"]
        /\ Write([rec EXCEPT ![m] = "FAILED"],
                 IF rec = record THEN {saved} ELSE { saved, rec })
        /\ Goto(r, "return")
        /\ UNCHANGED breaker
     \/ \* closed, or open for longer than reset_s: the counters start again
        /\ status' = [st EXCEPT ![r] = "CREATED"]
        /\ IF rec = record THEN UNCHANGED recordVars ELSE Persist(rec)
        /\ Goto(r, "planning")
        /\ breaker' = IF breaker.open THEN Closed ELSE breaker

StartSubmitted(r) ==
  /\ At(r, "queued") /\ job[r] \in { "v2submit", "v3submit" }
  /\ Begin(r, of[r], FALSE, status, record)
  /\ UNCHANGED << goals, task, cog, blocked, legacyVars, server, crashes,
                  granted >>

\* the run that approve_mission_for_resume schedules: no look at the status
StartResume(r) ==
  /\ At(r, "queued") /\ job[r] = "resume"
  /\ Begin(r, of[r], TRUE, status, record)
  /\ UNCHANGED << goals, task, cog, blocked, legacyVars, server, crashes,
                  granted >>

\* resolve_approval: the context in memory, or one rebuilt from the record
approval_context(m) ==
  IF registry[m] = None /\ record[m] = "AWAITING_APPROVAL" THEN m
  ELSE registry[m]

approval_status(m) ==
  IF registry[m] = None THEN record[m] ELSE status[registry[m]]

\* the paused context is set RUNNING, and run_mission then makes another one
\* and starts from the beginning
Reopen(r) ==
  LET m == of[r] c == approval_context(m) IN
  /\ resumed' = [resumed EXCEPT ![r] = c]
  /\ Begin(r, m, TRUE, [status EXCEPT ![c] = "RUNNING"],
                       [record EXCEPT ![m] = "RUNNING"])
  /\ UNCHANGED << goals, job, of, cog, blocked, legacyVars, server, crashes,
                  granted >>

\* mutant of StartGrant: the status of the context is not looked at
StartGrant_Unchecked(r) ==
  /\ At(r, "queued") /\ job[r] = "grant" /\ approval_context(of[r]) # None
  /\ Reopen(r)

StartGrant(r) ==
  /\ At(r, "queued") /\ job[r] = "grant"
  /\ approval_status(of[r]) = "AWAITING_APPROVAL"
  /\ Reopen(r)

\* mutant of StartDeny: a status of the other vocabulary, core/state.py's
StartDeny_OtherEnum(r) ==
  LET m == of[r] c == approval_context(m) IN
  /\ At(r, "queued") /\ job[r] = "deny"
  /\ approval_status(m) = "AWAITING_APPROVAL"
  /\ status' = [status EXCEPT ![c] = "REJECTED"]
  /\ registry' = [registry EXCEPT ![m] = c]
  /\ Persist([record EXCEPT ![m] = "REJECTED"])
  /\ Leave(r)
  /\ UNCHANGED << goals, legacyVars, breaker, server, crashes, granted >>

\* mutant of StartDeny: closed in memory, not on disk
StartDeny_Unpersisted(r) ==
  LET m == of[r] c == approval_context(m) IN
  /\ At(r, "queued") /\ job[r] = "deny"
  /\ approval_status(m) = "AWAITING_APPROVAL"
  /\ status' = [status EXCEPT ![c] = "FAILED"]
  /\ registry' = [registry EXCEPT ![m] = c]
  /\ Leave(r)
  /\ UNCHANGED << goals, recordVars, legacyVars, breaker, server, crashes,
                  granted >>

StartDeny(r) ==
  LET m == of[r] c == approval_context(m) IN
  /\ At(r, "queued") /\ job[r] = "deny"
  /\ approval_status(m) = "AWAITING_APPROVAL"
  /\ status' = [status EXCEPT ![c] = "FAILED"]
  /\ registry' = [registry EXCEPT ![m] = c]
  /\ Persist([record EXCEPT ![m] = "FAILED"])
  /\ Leave(r)
  /\ UNCHANGED << goals, legacyVars, breaker,
                  server, crashes, granted >>

\* not_found and wrong_status
NotAwaiting(r) ==
  /\ At(r, "queued") /\ job[r] \in { "grant", "deny" }
  /\ approval_status(of[r]) # "AWAITING_APPROVAL"
  /\ Leave(r)
  /\ UNCHANGED << goals, status, registry,
                  recordVars, legacyVars, breaker, server, crashes, granted >>

\* _kernel_planning has answered
Plan(r) ==
  /\ At(r, "planning")
  /\ Transition(r, "PLANNED")
  /\ Goto(r, "planned")
  /\ UNCHANGED << goals, task, forced, cog, blocked, registry, legacyVars,
                  breaker, server, crashes, granted >>

Launch(r) ==
  /\ At(r, "planned")
  /\ Transition(r, "RUNNING")
  /\ Goto(r, IF kind[of[r]] = "creative" THEN "creative" ELSE "prepare")
  /\ UNCHANGED << goals, task, forced, cog, blocked, registry, legacyVars,
                  breaker, server, crashes, granted >>

\* creative mode, or the team of dispatch_improve: a result closes the mission
CreativeAnswers(r) ==
  /\ At(r, "creative")
  /\ Transition(r, "REVIEW")
  /\ Goto(r, "closing")
  /\ UNCHANGED << goals, task, forced, cog, blocked, registry, legacyVars,
                  breaker, server, crashes, granted >>

Close(r) ==
  /\ At(r, "closing")
  /\ Transition(r, "DONE")
  /\ Goto(r, "return")
  /\ UNCHANGED << goals, task, forced, cog, blocked, registry, legacyVars,
                  breaker, server, crashes, granted >>

\* ... and otherwise the standard pipeline takes over
CreativeFails(r) ==
  /\ At(r, "creative")
  /\ Goto(r, "prepare")
  /\ UNCHANGED << goals, task, forced, cog, blocked, status, registry,
                  recordVars, legacyVars, breaker, server, crashes, granted >>
-----------------------------------------------------------------------------
(* _execute_supervised: the alignment check, the chat paths, supervise *)

\* build_enriched_goal and inject_memory_context.  When AlignmentLayer refuses,
\* the block asks for RUNNING -> DONE, which the table does not have: the
\* ValueError is swallowed by the block's own handler and the run goes on.
aligned(r, refused) == blocked' = [blocked EXCEPT ![r] = refused]

\* a goal of chat mode that should_skip_fast_path sends away from the fast
\* path; it is refused outright unless an approval is wanted
fast_path_skipped(r, destructive) ==
  needs_approval(r) \/ risk[of[r]] = "high" \/ destructive

ChatRefused(r, refused, destructive) ==
  /\ At(r, "prepare") /\ kind[of[r]] = "chat"
  /\ fast_path_skipped(r, destructive) /\ ~needs_approval(r)
  /\ aligned(r, refused)
  /\ status' = [status EXCEPT ![r] = "DONE"]
  /\ Persist([record EXCEPT ![of[r]] = "DONE"])
  /\ Goto(r, "return")
  /\ UNCHANGED << goals, task, forced, cog, registry, legacyVars, breaker,
                  server, crashes, granted >>

ChatTries(r, refused, destructive) ==
  /\ At(r, "prepare") /\ kind[of[r]] = "chat"
  /\ ~fast_path_skipped(r, destructive)
  /\ aligned(r, refused)
  /\ Goto(r, "chat")
  /\ UNCHANGED << goals, task, forced, cog, status, registry, recordVars,
                  legacyVars, breaker, server, crashes, granted >>

\* the fast path writes DONE into the context and persists it, past the table
ChatAnswers(r) ==
  /\ At(r, "chat")
  /\ status' = [status EXCEPT ![r] = "DONE"]
  /\ Persist([record EXCEPT ![of[r]] = "DONE"])
  /\ Goto(r, "return")
  /\ UNCHANGED << goals, task, forced, cog, blocked, registry, legacyVars,
                  breaker, server, crashes, granted >>

ChatFails(r) ==
  /\ At(r, "chat")
  /\ Goto(r, "supervise")
  /\ UNCHANGED << goals, task, forced, cog, blocked, status, registry,
                  recordVars, legacyVars, breaker, server, crashes, granted >>

Prepare(r, refused, wrapped) ==
  /\ At(r, "prepare")
  /\ kind[of[r]] = "chat" => needs_approval(r)
  /\ wrapped => Cognition /\ kind[of[r]] # "chat"
  /\ aligned(r, refused)
  /\ cog' = [cog EXCEPT ![r] = wrapped]
  /\ Goto(r, "supervise")
  /\ UNCHANGED << goals, task, forced, status, registry, recordVars,
                  legacyVars, breaker, server, crashes, granted >>

\* _handle_success_outcome up to its first await, and _handle_failed_outcome
Succeed(r) ==
  /\ breaker_record_success
  /\ Transition(r, "REVIEW")
  /\ Goto(r, "review")

Fail(r) ==
  /\ breaker_record_failure
  /\ Transition(r, "FAILED")
  /\ Goto(r, "return")

\* supervise: a record that already says DONE is a success without execution
SkipCompleted(r) ==
  /\ At(r, "supervise") /\ record[of[r]] = "DONE"
  /\ Succeed(r)
  /\ UNCHANGED << goals, task, forced, cog, blocked, registry, legacyVars,
                  server, crashes, granted >>

Supervise(r) ==
  /\ At(r, "supervise") /\ record[of[r]] # "DONE"
  /\ Goto(r, IF gated(r) THEN "gate" ELSE "exec")
  /\ UNCHANGED << goals, task, forced, cog, blocked, status, registry,
                  recordVars, legacyVars, breaker, server, crashes, granted >>

\* mutant of GateOpens: a submission that times out is always an approval
GateOpens_OnTimeout(r) ==
  /\ At(r, "gate")
  /\ Goto(r, "exec")
  /\ UNCHANGED << goals, task, forced, cog, blocked, status, registry,
                  recordVars, legacyVars, breaker, server, crashes, granted >>

\* submit_for_approval approves WRITE_LOW by itself, and for a medium risk a
\* submission that fails or times out is an approval as well
GateOpens(r) ==
  /\ At(r, "gate") /\ gate_risk(r) # "high"
  /\ Goto(r, "exec")
  /\ UNCHANGED << goals, task, forced, cog, blocked, status, registry,
                  recordVars, legacyVars, breaker, server, crashes, granted >>

\* mutant of GateWaits: the record is written, the context forgotten
GateWaits_RecordOnly(r) ==
  /\ At(r, "gate") /\ gate_risk(r) = "high"
  /\ Persist([record EXCEPT ![of[r]] = "AWAITING_APPROVAL"])
  /\ legacy' = [legacy EXCEPT ![of[r]] = "PENDING_VALIDATION"]
  /\ Goto(r, "return")
  /\ UNCHANGED << goals, task, forced, cog, blocked, status, registry,
                  legacyDisk, breaker, server, crashes, granted >>

\* the item is pending: _handle_awaiting_approval, which writes the status of
\* the legacy record without saving it
GateWaits(r) ==
  /\ At(r, "gate") /\ gate_risk(r) = "high"
  /\ Transition(r, "AWAITING_APPROVAL")
  /\ legacy' = [legacy EXCEPT ![of[r]] = "PENDING_VALIDATION"]
  /\ Goto(r, "return")
  /\ UNCHANGED << goals, task, forced, cog, blocked, registry, legacyDisk,
                  breaker, server, crashes, granted >>

\* the submission failed or timed out
GateFails(r) ==
  /\ At(r, "gate") /\ gate_risk(r) = "high"
  /\ Fail(r)
  /\ UNCHANGED << goals, task, forced, cog, blocked, registry, legacyVars,
                  server, crashes, granted >>

ExecSucceeds(r) ==
  /\ At(r, "exec")
  /\ Succeed(r)
  /\ UNCHANGED << goals, task, forced, cog, blocked, registry, legacyVars,
                  server, crashes, granted >>

\* the attempts are exhausted, or the supervisor absorbed a cancellation
ExecFails(r) ==
  /\ At(r, "exec")
  /\ Fail(r)
  /\ UNCHANGED << goals, task, forced, cog, blocked, registry, legacyVars,
                  server, crashes, granted >>

\* an exception of the cognition wrapper loses the supervisor's outcome, and
\* run_execution calls supervise a second time, directly
CognitionLost(r) ==
  /\ server = "up" /\ pc[r] \in { "supervise", "gate", "exec" } /\ cog[r]
  /\ cog' = [cog EXCEPT ![r] = FALSE]
  /\ Goto(r, "supervise")
  /\ UNCHANGED << goals, task, forced, blocked, status, registry, recordVars,
                  legacyVars, breaker, server, crashes, granted >>
-----------------------------------------------------------------------------
(* After the execution: review, the bounded retry, the end *)

\* _handle_kernel_retry: a weak answer is executed once more, under the id
\* "<mid>-retry", while the mission is back in RUNNING
Retry(r) ==
  /\ At(r, "review")
  /\ Transition(r, "RUNNING")
  /\ Goto(r, "retry")
  /\ UNCHANGED << goals, task, forced, cog, blocked, registry, legacyVars,
                  breaker, server, crashes, granted >>

\* mutant of RetryEnds: an answer accepted without going back to REVIEW
RetryEnds_NoReview(r) ==
  /\ At(r, "retry")
  /\ Goto(r, "reviewed")
  /\ UNCHANGED << goals, task, forced, cog, blocked, status, registry,
                  recordVars, legacyVars, breaker, server, crashes, granted >>

RetryEnds(r) ==
  /\ At(r, "retry")
  /\ Transition(r, "REVIEW")
  /\ Goto(r, "reviewed")
  /\ UNCHANGED << goals, task, forced, cog, blocked, registry, legacyVars,
                  breaker, server, crashes, granted >>

Finish(r) ==
  /\ server = "up" /\ pc[r] \in { "review", "reviewed" }
  /\ Transition(r, "DONE")
  /\ Goto(r, "storing")
  /\ UNCHANGED << goals, task, forced, cog, blocked, registry, legacyVars,
                  breaker, server, crashes, granted >>

\* _store_mission_memories has returned
Stored(r) ==
  /\ At(r, "storing")
  /\ Goto(r, "return")
  /\ UNCHANGED << goals, task, forced, cog, blocked, status, registry,
                  recordVars, legacyVars, breaker, server, crashes, granted >>

\* A cancellation that arrives while the memories are stored asks for
\* DONE -> FAILED, and the ValueError leaves run_mission.  Its callers log it and
\* go on to Return; resolve_approval fails the context that it resumed, which is
\* not the registered one any more, and with it the record.
StoringCancelled(r) ==
  /\ At(r, "storing")
  /\ Goto(r, "return")
  /\ IF job[r] = "grant"
     THEN /\ status' = [status EXCEPT ![resumed[r]] = "FAILED"]
          /\ Persist([record EXCEPT ![of[r]] = "FAILED"])
     ELSE UNCHANGED << status, recordVars >>
  /\ UNCHANGED << goals, task, forced, cog, blocked, registry, legacyVars,
                  breaker, server, crashes, granted >>

\* The handlers at the end of run_mission (TimeoutError, CancelledError,
\* Exception) fail the mission and leave the breaker alone.  The chat and
\* creative paths catch every Exception of their own, so only the timeout of
\* submit_mission (v3) cancels them.
Interruptible(r) ==
  \/ pc[r] \in { "planning", "prepare", "supervise", "gate", "exec", "review",
                 "retry" }
  \/ pc[r] \in { "creative", "chat" } /\ job[r] = "v3submit"

\* mutant of Abort: the failure is not persisted
Abort_Unpersisted(r) ==
  /\ server = "up" /\ Interruptible(r)
  /\ status' = [status EXCEPT ![r] = "FAILED"]
  /\ Goto(r, "return")
  /\ UNCHANGED << goals, task, forced, cog, blocked, registry, recordVars,
                  legacyVars, breaker, server, crashes, granted >>

Abort(r) ==
  /\ server = "up" /\ Interruptible(r)
  /\ Transition(r, "FAILED")
  /\ Goto(r, "return")
  /\ UNCHANGED << goals, task, forced, cog, blocked, registry, legacyVars,
                  breaker, server, crashes, granted >>

\* mutant of complete: without its first guard
complete_Unguarded(m) ==
  \E s \in IF legacy[m] = "APPROVED" THEN { "DONE" }
           ELSE { "DONE", "PLAN_ONLY" } : SetLegacy(m, s)

\* MissionSystem.complete; whether the goal asks for a write decides PLAN_ONLY.
\* set_final_output, called before it when there is a text, saves the record.
complete(m) ==
  IF legacy[m] \in LegacyPending
  THEN /\ UNCHANGED legacy
       /\ legacyDisk' \in { legacyDisk, [legacyDisk EXCEPT ![m] = legacy[m]] }
  ELSE \E s \in IF legacy[m] = "APPROVED" THEN { "DONE" }
                ELSE { "DONE", "PLAN_ONLY" } : SetLegacy(m, s)

\* What the scheduler of the run does with the result: _run_mission leaves a
\* paused mission alone and completes any other, a failed one included;
\* _resume_mission completes it; the other callers drop it.
paused(r) == job[r] = "v2submit" /\ status[r] = "AWAITING_APPROVAL"

completes(r) == job[r] = "resume" \/ (job[r] = "v2submit" /\ ~paused(r))

Return(r) ==
  /\ At(r, "return")
  /\ Leave(r)
  /\ \/ /\ paused(r)
        /\ legacy' = [legacy EXCEPT ![of[r]] = "PENDING_VALIDATION"]
        /\ UNCHANGED legacyDisk
     \/ completes(r) /\ complete(of[r])
     \/ ~paused(r) /\ ~completes(r) /\ UNCHANGED legacyVars
  /\ UNCHANGED << goals, status, registry,
                  recordVars, breaker, server, crashes, granted >>

-----------------------------------------------------------------------------
(* The process is killed and started again *)

Crash ==
  /\ server = "up" /\ crashes < MaxCrashes
  /\ server' = "down"
  /\ crashes' = crashes + 1
  /\ pc' = [r \in Runs |-> "idle"]
  /\ job' = [r \in Runs |-> None]
  /\ of' = [r \in Runs |-> None]
  /\ resumed' = [r \in Runs |-> None]
  /\ forced' = [r \in Runs |-> FALSE]
  /\ cog' = [r \in Runs |-> FALSE]
  /\ blocked' = [r \in Runs |-> FALSE]
  /\ status' = [c \in Contexts |-> None]
  /\ registry' = [m \in Missions |-> None]
  /\ record' = saved
  /\ legacy' = legacyDisk
  /\ breaker' = Closed
  /\ UNCHANGED << goals, saved, failures, legacyDisk, granted >>

\* MissionPersistenceStore.recover_non_terminal
recover_non_terminal ==
  { m \in Missions :
      record[m] \in { "RUNNING", "AWAITING_APPROVAL", "REVIEW", "PLANNED" } }

\* mutant of Recover: every mission that was not closed is queued again
Recover_RequeuesAll ==
  /\ Persist([m \in Missions |->
                IF m \in recover_non_terminal THEN "PLANNED" ELSE record[m]])
  /\ UNCHANGED << goals, runVars, status, registry, legacyVars, breaker,
                  crashes, granted >>

\* mutant of Recover: interrupted missions are left as they are
Recover_SkipsRunning ==
  /\ registry' = [m \in Missions |->
                    IF record[m] = "AWAITING_APPROVAL" THEN m ELSE None]
  /\ status' = [c \in Contexts |->
                  IF c \in Missions /\ record[c] = "AWAITING_APPROVAL"
                  THEN "AWAITING_APPROVAL" ELSE None]
  /\ UNCHANGED << goals, runVars, recordVars, legacyVars, breaker, crashes,
                  granted >>

\* the table with some of the missions closed
failing(ms) == [m \in Missions |-> IF m \in ms THEN "FAILED" ELSE record[m]]

\* recover_from_persistence: a paused mission gets its context back, one that
\* was running is failed, each with a save of its own
Recover ==
  LET waiting == { m \in recover_non_terminal :
                     record[m] = "AWAITING_APPROVAL" }
      broken == recover_non_terminal \ waiting IN
  /\ registry' = [m \in Missions |-> IF m \in waiting THEN m ELSE None]
  /\ status' = [c \in Contexts |->
                  IF c \in waiting THEN "AWAITING_APPROVAL" ELSE None]
  /\ Write(failing(broken), { failing(ms) : ms \in SUBSET broken })
  /\ UNCHANGED << goals, runVars, legacyVars, breaker, crashes, granted >>

\* ... which may raise before it has changed anything
Unrecovered ==
  /\ RecoveryMayFail
  /\ UNCHANGED << goals, runVars, status, registry, recordVars, legacyVars,
                  breaker, crashes, granted >>

\* api/lifespan.py starts the server whatever the recovery raised
Boot ==
  /\ server = "down"
  /\ server' = "up"
  /\ Recover \/ Unrecovered

-----------------------------------------------------------------------------

Decide(m) ==
  \/ \E r \in Runs : \/ Submit(m, r, "v2submit")
                     \/ Submit(m, r, "v3submit")
                     \/ ApproveV3(m, r)
                     \/ Reject(m, r)
                     \/ ResolveRoute(m, r, "grant")
                     \/ ResolveRoute(m, r, "deny")
  \/ \E r1, r2 \in Runs : ApproveV2(m, r1, r2)

Start(r) ==
  \/ StartSubmitted(r) \/ StartResume(r) \/ StartGrant(r) \/ StartDeny(r)
  \/ NotAwaiting(r)

Step(r) ==
  \/ Start(r)
  \/ Plan(r) \/ Launch(r)
  \/ CreativeAnswers(r) \/ Close(r) \/ CreativeFails(r)
  \/ \E refused, other \in BOOLEAN : \/ ChatRefused(r, refused, other)
                                     \/ ChatTries(r, refused, other)
                                     \/ Prepare(r, refused, other)
  \/ ChatAnswers(r) \/ ChatFails(r)
  \/ SkipCompleted(r) \/ Supervise(r)
  \/ GateOpens(r) \/ GateWaits(r) \/ GateFails(r)
  \/ ExecSucceeds(r) \/ ExecFails(r) \/ CognitionLost(r)
  \/ Retry(r) \/ RetryEnds(r) \/ Finish(r)
  \/ Stored(r) \/ StoringCancelled(r) \/ Abort(r)
  \/ Return(r)

Next ==
  \/ \E m \in Missions : Decide(m)
  \/ \E r \in Runs : Step(r)
  \/ Crash
  \/ Boot

Spec == Init /\ [][Next]_vars

\* The event loop runs every task that is ready and every await of a run has a
\* timeout, its own or that of its HTTP client; the process manager restarts the
\* server.  People decide or do not.
Fairness == /\ \A r \in Runs : WF_vars(Step(r))
            /\ WF_vars(Boot)

FairSpec == Spec /\ Fairness

-----------------------------------------------------------------------------
(* Safety *)

\* The crew never works on a high-risk goal that no human has approved,
\* whichever routes are used, retries and restarts included: the approval gate
\* of supervise (execution_supervisor.py) is the only way to execute_fn, and
\* force_approved is only ever set behind a decision.
HighRiskNeedsGrant ==
  \A r \in Runs : pc[r] = "exec" /\ risk[of[r]] = "high" => of[r] \in granted

\* A record that says a mission is under way has a coroutine behind it whenever
\* the server is up: no exit of run_mission leaves PLANNED, RUNNING or REVIEW
\* behind, and the recovery clears what a kill left.
NoGhostRecord ==
  server = "up" =>
    \A m \in Missions :
      record[m] \in { "PLANNED", "RUNNING", "REVIEW" } =>
        \E r \in Runs : of[r] = m /\ active(r)

\* Every transition that run_mission asks for outside the alignment check is
\* one that the table has, so no ValueError comes out of the middle of a run:
\* the status of its context is the one its program point expects.
expected_status(here) ==
  CASE here = "planning" -> "CREATED"
    [] here = "planned" -> "PLANNED"
    [] here \in { "review", "reviewed", "closing" } -> "REVIEW"
    [] here = "storing" -> "DONE"
    [] OTHER -> "RUNNING"

NoRefusedTransition ==
  \A r \in Runs : active(r) => status[r] = expected_status(pc[r])

\* A legacy record that waits for a decision leaves that state by a decision
\* only: approve, with the grant noted, or reject; `complete` never moves it.
\* (A kill puts back what was last saved.)
PendingNeedsDecision ==
  [][ \A m \in Missions :
        legacy[m] \in LegacyPending /\ legacy'[m] \notin LegacyPending =>
          \/ legacy'[m] = "APPROVED" /\ m \in granted'
          \/ legacy'[m] = "REJECTED"
          \/ server' = "down" ]_vars

\* At most one coroutine runs a mission at any time
\* (api/routes/missions.py: the set _running_missions "prevents the same
\* mission from being dispatched twice concurrently").
OneCrewPerMission ==
  \A m \in Missions, r1, r2 \in Runs :
    /\ of[r1] = m /\ active(r1)
    /\ of[r2] = m /\ active(r2)
    => r1 = r2

\* A mission whose record says it awaits approval can be approved: the context
\* that resolve_approval will find, or rebuild, awaits approval as well, before
\* and after a restart.
AwaitingCanBeGranted ==
  server = "up" =>
    \A m \in Missions :
      record[m] = "AWAITING_APPROVAL" =>
        approval_status(m) = "AWAITING_APPROVAL"

\* The record of a mission says what its context says: the list of missions reads
\* the one, resolve_approval the other.  They part in one case, when both are
\* closed: a cancelled resumption (StoringCancelled) is DONE in its context and
\* FAILED in the record.
RecordFollowsContext ==
  server = "up" =>
    \A m \in Missions :
      registry[m] # None /\ status[registry[m]] # "CREATED" =>
        \/ record[m] = status[registry[m]]
        \/ status[registry[m]] = "DONE" /\ record[m] = "FAILED"

-----------------------------------------------------------------------------
(* Liveness *)

Settled(m) == record[m] \in TerminalStatus \cup { "AWAITING_APPROVAL" }

\* A mission that a run has taken up is closed or waits for a human in the end,
\* across crashes; only one killed before its first persisted transition is
\* lost.
EventuallySettled ==
  \A m \in Missions :
    registry[m] # None ~> \/ Settled(m)
                          \/ server = "down" /\ record[m] = None

-----------------------------------------------------------------------------
(* What comments of the code say and TLC refutes (README, divergences)       *)

\* What AlignmentLayer blocks is not executed (execution_mixin.py, where
\* inject_memory_context returns None: "AlignmentLayer blocked - ctx already
\* set to DONE").
BlockedIsNotExecuted == \A r \in Runs : ~ (pc[r] = "exec" /\ blocked[r])

\* A mission for which the request, the confidence policy, the kernel policy or
\* the security layer asks for approval is executed only after one
\* (meta_orchestrator.py: "mission.approval_forced").
FlaggedNeedsGrant ==
  \A r \in Runs : pc[r] = "exec" /\ of[r] \in flagged => of[r] \in granted

\* A mission that was rejected is not reported as done
\* (mission_system.py, complete: never DONE without approval).
RejectedIsNotCompleted ==
  [][ \A m \in Missions : legacy[m] = "REJECTED" => legacy'[m] # "DONE" ]_vars

-----------------------------------------------------------------------------
(* Refinement: what readers of the record are promised *)

phase_of(s) ==
  CASE s = None -> "new"
    [] s = "AWAITING_APPROVAL" -> "waiting"
    [] s \in TerminalStatus -> "closed"
    [] OTHER -> "open"

recorded_phase == [m \in Missions |-> phase_of(record[m])]
saved_phase == [m \in Missions |-> phase_of(saved[m])]

at_work == { m \in Missions : \E r \in Runs : of[r] = m /\ pc[r] = "exec" }

Contract == INSTANCE MissionContract WITH phase <- recorded_phase,
                                          saved <- saved_phase,
                                          working <- at_work

\* Seen through its record, the mission keeps the contract: it waits before it
\* is resumed with a grant, is closed once and for all, and is worked on only
\* while it is open (execution_supervisor.py, meta_orchestrator.py).
ContractSpec == Contract!Spec

=============================================================================
