# A TLA+ verification of the Bea orchestrator

Bea runs *missions*: a goal comes in over HTTP, an orchestrator classifies it,
may stop it for a human's approval, has a crew of agents work on it, reviews the
answer and closes it. This directory holds TLA+ models of the parts of that
program whose correctness depends on the order in which things happen, the TLC
configurations that check them, and TLAPS proofs about them.

Paths below are relative to the root of the repository.

## 1. The system

| Component | Code | State | Operations |
|---|---|---|---|
| Mission state machine | `kernel/state/mission_state.py` | none: a table of transitions | `is_valid`, `apply` |
| MetaOrchestrator | `core/meta_orchestrator.py`, `core/orchestration/*_mixin.py`, `execution_supervised_runner.py`, `execution_policy_gate.py`, `execution_memory_injector.py` | `_missions`: one context per mission id, with its status | `run_mission`, `resolve_approval`, `recover_from_persistence` |
| Execution supervisor | `core/orchestration/execution_supervisor.py`, `core/cognition/orchestrator.py` | an outcome per call | skip, approval gate, attempts, fallback |
| Mission circuit breaker | `core/orchestration/mission_circuit_breaker.py` | failures, open | `is_open`, `record_success`, `record_failure` |
| Mission persistence | `core/mission_persistence.py` | one record per mission, a JSON file | `persist`, `update_status`, `resolve_approval`, `recover_non_terminal` |
| MissionSystem | `core/mission_system.py` | the *legacy* record of each mission, another vocabulary of statuses (`core/state.py`) | `submit`, `approve`, `reject`, `complete`, `cancel` |
| Routes and approval | `api/routes/missions.py`, `convergence.py`, `mission_persistence.py`, `api/mission_approval.py`, `api/lifespan.py` | the asyncio tasks they schedule | submit (v2, v3), approve (v2, v3), reject, abort, resolve-approval, start of the server |
| Bridge | `core/orchestration_bridge.py`, `canonical_types.py`, `canonical_mission_store.py` | the *canonical view* of each mission, a third vocabulary, in memory and in SQLite | submit, approve, reject, look (v3), start |
| Execution engine | `executor/execution_engine.py`, `retry_policy.py`, `task_model.py` | a heap, a registry, cancel flags, threads | `submit`, `cancel`, `start`, `stop`, the loops |
| Approval queue | `core/approval_queue.py` | a JSON file of items | `submit_for_approval`, `approve`, `reject` |
| Actions | `core/action_queue.py`, `core/action_executor.py`, `core/mission_system.py` | the actions of each mission, in memory and in SQLite; the worker's batch | enqueue, approve, reject, execute, rotate, load |
| Tool executor | `core/tool_executor.py`, `core/tool_permissions.py` | a call and its attempts; permission requests | `execute`, decide, lapse |
| Tool circuit breaker | `core/resilience/_base.py` | one circuit per tool | `can_execute`, `record_success`, `record_failure` |
| Policy sessions | `core/policy_engine.py`, `core/session_store.py` | one tracker of actions per mission, in memory or in Redis | `evaluate_tool`, `ensure_session`, `new_session`, clean-up |
| Autonomy daemon | `core/autonomy/daemon.py`, `budget.py`, `runners.py`, `api/routes/autonomy.py` | the daemon the routes know of, its thread, its budget | start, forced start, stop, the loop |
| Task queues | `executor/task_queue.py`, `core/task_queue.py` | asyncio queues and registries | nothing in the program adds a task |
| Provider circuit breaker | `core/circuit_breaker.py` | closed, open, half-open | nothing in the program calls it |
| Workflow runtime | `core/workflow/executor.py`, `state.py` | the executions of workflows, in memory and in a JSON file | `create_workflow`, `run_all`, `pause`, `resume`, `cancel`, `save`, `load` |
| Schedules, resilience, parallel agents | `core/workflow/scheduler.py`, `events.py`, `agents/parallel_executor.py` | tasks, triggers, results | list, record |
| Self-improvement | `core/self_improvement`, `core/improvement_daemon.py`, `core/rollback_manager.py`, `kernel/improvement/gate.py` | experiments and patches | propose, gate, apply, roll back |
| Policy and governance | `kernel/policy`, `core/governance.py`, `core/mission_guards.py`, `core/resource_guard.py` | limits and counters | decide |
| The rest | agents, memory, connectors, gateways, front ends | prompts, vectors, sessions | I/O |

**How they interact.** A route writes a legacy record (`MissionSystem.submit`)
and schedules a coroutine that calls `run_mission`. That coroutine makes a
context, registers it under the mission's id *in place of any older one*, and
moves it through the table; each transition is also written to the persisted
record. A mission thus has four statuses: the context in memory (which
`resolve_approval` reads), the record in memory and on disk (which recovery,
`supervise` and the lists read), the legacy record (which the v2 routes read), and
the canonical view of the bridge (which the v3 routes read). Nothing locks them
together, and the writes of all of them are *fail-open*: a failure is logged and
the process goes on with what it has in memory. A decision of a human schedules another coroutine for the
same mission; a timeout or an exception can end one at any `await`; the process
can be killed at any time.

Below the coroutine of a mission, `supervise` submits an item to the approval
queue in a thread of the default executor, waits ten seconds for it and, if it is
let through, executes the goal with retries. The queue is a file that each
operation reads, changes and writes back. Tools are called through
`ToolExecutor` by many threads at once; they share the circuit breaker, the
session trackers and the permission requests. A legacy mission has *actions* of
its own, which a worker thread executes while the routes approve and reject
them. The autonomy daemon is a further thread, with an event loop of its own, in
which it runs missions through the same orchestrator and the same stores. The
workflow routes are plain functions: each request calls the one `WorkflowEngine`
on a thread of its own.

**What is hard.** Several coroutines for one mission; a decision that comes
before the pause, twice, or after a restart; cancellation in the middle of the
gate, the execution or the retry; a kill between two persisted transitions; a
recovery that fails; writes that fail unseen; legacy statuses written by a run that
returns late; a view that a restart fails while its mission can still be resumed. In the
execution engine: statuses that four kinds of threads read and write without a
lock, cancellation by flag *or* by status depending on when the caller looked,
handlers that outlive their timeout, a purge in the middle of a retry. In the
stores: two savers that share one temporary file. In the tools: trackers and
circuits that change between the look and the record, threads that nobody joins.
In the autonomy daemon: a replacement that does not wait for the replaced. In the
workflow engine: a status that is looked at and written later by requests which
lock nothing, a first load that races with them, two runs of one workflow, and a
file written where it is. The
hazards of `PROJECT.json` list these at their lines.

**What makes it correct.** For the mission: no high-risk work without a grant;
one crew per mission; the record never lies about a mission under way; a pause
can be resolved; every mission ends or waits for a human; a run never asks for
a transition that the table refuses. For `supervise`: a high risk stays gated
and runs once, a call ends whatever the queue does. For the engine: no task is
lost or held twice; a flag that is set before the look stops retries and success;
every task ends. For the stores: a kill loses at most the call under way, and what
failed to be saved. For actions: each runs
once, approval and rejection concern a mission whole. For tools: a mission's
limit holds, a circuit counts failures, a call ends. For the daemon: one that
has not been told to stop, and no more than its budget. For a workflow: no step
before those it depends on have succeeded, a verdict that its steps have earned, a
history that does not grow. For the view: it calls a mission over only when it is.

## 2. The modules

| Module | What it is |
|---|---|
| `MissionStates` | the statuses and the table of transitions |
| `MissionLifecycle` | the coroutines of `run_mission` and `resolve_approval`, the routes that schedule them, context, record and legacy record, the breaker, crash and restart |
| `OrchestrationBridge` | the canonical view beside them; extends `MissionLifecycle` |
| `MissionContract` | abstract: what readers of the persisted status are promised |
| `ExecutionEngine` | the engine's heap, threads, flags, retries and purge |
| `TempFile` | how `_save` of the JSON stores overlaps: truncate, write, rename, and open handles |
| `ApprovalQueue` | the queue's file, its submissions and decisions; extends `TempFile` |
| `Supervisor` | the coroutine `supervise`; extends `ApprovalQueue` |
| `SuperviseContract` | abstract: what the callers of `supervise` rely on |
| `MissionStore` | lock, snapshot, save, eviction and kill of the records; extends `TempFile` |
| `DurableRecords` | abstract: what those who persist a mission rely on, saves that fail included |
| `ActionPipeline` | actions: routes, worker, rotation, rows, load |
| `ToolBreaker`, `PolicySessions` | the circuits of the tools; the trackers of the missions |
| `ToolExecutor` | a tool call through all its gates; extends both |
| `AutonomyDaemon` | daemons and the routes that start and stop them |
| `WorkflowEngine` | workflows: the requests, the run of the steps, the file |
| `MissionLifecycleProofs` | theorems about `MissionLifecycle`, in three parts: for every route; without the approval of v2; the refinement of `MissionContract` and what follows from it |
| the other `...Proofs` | theorems about `ActionPipeline`, `AutonomyDaemon`, `ExecutionEngine`, `MissionStore`, `Supervisor`, `ToolExecutor`, `WorkflowEngine` |
| `MC...` | instances for TLC |

How they fit together. `MissionLifecycle` treats `supervise` as two steps, "gate"
and "exec", and the store as two tables, `record` in memory and `saved` in the
file. The modules below it justify
this: `Supervisor` implements `SuperviseContract`, whose moves are those two
steps, and `MissionStore` implements `DurableRecords`: a call changes the record of
one mission, drops only others that have ended, and is saved before the next
unless the save fails; a restart finds what was last saved, whole. That holds while one thread writes, which is
the program without the autonomy daemon; with the daemon's thread it does not (run
`claims_store_threads`).

### MissionLifecycle and the code

A *run* is a coroutine of the event loop. `pc[r]` is the `await` at which it
stands, and one action is the code between two awaits: asyncio switches
nowhere else. When a segment persists two transitions they are two actions,
since a kill can fall between them ("planned", "closing", "reviewed").

| State | Code |
|---|---|
| `status` | `ctx.status` of each `MissionContext`; the object is named after the run that made it, or after the mission when `resolve_approval` or the recovery rebuilt it |
| `registry` | `MetaOrchestrator._missions` |
| `record`, `saved` | the status in `MissionPersistenceStore`, in memory and in its file: `persist` writes the one and then the other, and swallows a failure of the second |
| `failures` | how many of those writes have failed, bounded by `MaxFailures` |
| `resumed` | the context that a resumption set RUNNING, which `resolve_approval` fails when the resumed run raises |
| `legacy`, `legacyDisk` | `MissionSystem._missions` and what `_save_mission` wrote last |
| `forced`, `cog` | `force_approved`; whether `CognitionOrchestrator` wraps `supervise` |
| `breaker` | `MissionCircuitBreaker` |
| `kind`, `risk`, `flagged` | what the goal's text fixes once: the path taken, the class of risk, whether anything beyond the class asks for approval |
| `blocked`, `granted` | history: AlignmentLayer's verdict; missions a human approved |

`Submit`, `ApproveV2`, `ApproveV3`, `Reject`, `ResolveRoute` are the routes. (The
abort route changes nothing: the `AttributeError` of the `cancel_mission` it asks
for, which its queue does not have, comes before anything else it would do.)
`StartSubmitted`, `StartResume`, `StartGrant`, `StartDeny` and `NotAwaiting` are
the first segments of what they schedule; all but the last two end in `Begin`, the
head of `run_mission`, which `StartGrant` reaches through `Reopen`: the old context
is RUNNING first, and persisted. `Plan` ... `Return` follow the run to its
scheduler. `Abort` is any of the three handlers at the end of `run_mission`. A
cancellation while a run that is DONE stores its memories is different
(`StoringCancelled`): the handler asks for DONE to FAILED, which is refused; the
exception ends a submitted run, but the handler of `resolve_approval`
(`meta_orchestrator.py:771`) catches it and fails the *old* context, so that the
record says FAILED and the registered context DONE. Every transition ends in
`Persist`: the record in memory, then the file, which may fail. `Crash` drops
everything in memory and brings back `saved`; `Boot` is the start of the server in
`api/lifespan.py`: with `Recover`, which is `recover_from_persistence` with a save
for each mission it fails, or `Unrecovered`, when that raised.

Data left out: plans, memories, traces, results and their quality. Whatever a
policy, a model or an agent answers is a free choice of the action that awaits
it. The attempts inside `supervise` are one step ("exec"), because no status
changes between them. The bounded retry runs under the id `<mid>-retry`; its own
gate has the risk of the first and is not shown separately.

Two consequences worth knowing. The creative mode and the BeaTeam of the modes
improve, lab and dev run before the approval gate (`meta_orchestrator.py:484`),
which belongs to `supervise`; no document asks otherwise, and no property here
speaks of it. And a goal in chat mode whose risk is high and
which a human has approved is still "refused" and closed as DONE
(`ChatRefused`, with `forced`).

### OrchestrationBridge and the code

`canonical` is the view that the bridge keeps of each mission and saves in SQLite
(a save of it that fails is not modelled). The bridge is told of a submission, an
approval and a rejection; it learns of the rest only when somebody looks:
`get_mission_canonical` takes over what the registered context says, unless the
view is terminal, and then for good. AWAITING_APPROVAL is in neither of its two
tables (`of_legacy`, `of_context`), so a mission that waits is shown as CREATED, or
as it was shown last. `Restart` is KL-008: the first caller after a restart makes a
new bridge, which fails every view that is WAITING_APPROVAL. Nothing that runs a
mission reads the view; section 5 says what follows.

### ExecutionEngine and the code

An action is what one thread does between two points at which another thread can
change what it reads next. `submit` is three actions (length, registry, heap)
and `cancel` two (look, act), since the lock is released in between; a task's
status is not locked at all. The task's thread looks at its flag in one step
(`FlagIsClear`, `ResultStands`) and begins the attempt or writes SUCCEEDED in the
next (`Attempt`, `TakeResult`), so a cancel may set the flag in between and one
attempt, or the success, then takes place all the same. `warned` notes the tasks
whose flag was set where the thread had still to look, or whose attempt began with
it: `FlagStopsRetries` and `FlagStopsSuccess` are about them. `finished` is the order of `finished_at`, which the
purge sorts by. `handlers` counts handler threads, those given up after a
timeout included. `batch` is what `_process_batch` has popped and not launched.
Handlers, delays and errors are free choices, except that no handler is retried
beyond `max_attempts` and the policy.

### MissionContract

A mission seen by a reader of its record is new, open, waiting or closed.
`MissionLifecycle` implements this through `recorded_phase` and `at_work`: a
waiting mission is opened only with a grant, a closed one stays closed, a crew
works only for an open mission, one crew at a time, a restart closes what was
open, and a kill (`Halt`) goes back to the last write that succeeded.
`ContractSpec` is checked as a property, so every step of every route, run,
crash and restart is a step of the contract or leaves it unchanged.

### Supervisor, ApprovalQueue, TempFile and the code

A *call* of `supervise` stands at the await that `stage[c]` names; a call and the
submission it starts share their name. A submission approves by itself, finds a
duplicate, or loads the file, adds its item and saves in three steps.
`approve` and `reject` are the same on the event loop, without an await in
between, so one at a time. The gate may time out, fail or be cancelled while the
thread goes on, and its item appears later. `spent` bounds the time since the
call from above, in half seconds, so that the retry budget can be compared with
the deadline. `real` is whether the session an attempt returned would pass
`_check_session_outcome`, which the fallback does not call. A cancellation during
an attempt is absorbed by `supervise` (`Absorbed`), elsewhere it leaves it.

`TempFile` has one reason to exist: `write_text` truncates before it writes, all
savers use one `<name>.tmp`, and a handle follows its file when the file is
renamed. A second saver can thus truncate what the first is about to rename, or
write into what is already the queue's file. What cannot be parsed is loaded as
an empty queue, and the next submission saves that.

### MissionStore and the code

`_missions` is the dictionary: a record, or `None`, for each mission; a text in the
files or in `data` is one too. `persist`, `update_status`, `resolve_approval` and
`delete` change the records under the lock; `_save` takes a snapshot under the lock
again and writes it after it. `delete` alone keeps the lock (an `RLock`) through its
save. Of a status the store asks only whether it is terminal or awaiting. The time
in `updated_at` is the number of the call, so that no two records are of one time.
`evicted` takes the oldest of the terminal records, as many as there are too many.
A store over its cap that is full of open missions drops a mission in the very call
that ends it; `OpenIsKept` says so. `SaveFails` is the `except Exception` of
`_save`, at any of its steps: the file keeps its old text, the temporary one may be
torn, the caller goes on, and so does the store, ahead of its file until a later
save succeeds.

`DurableRecords` has the records in memory (`_missions`) and what a new process
would load (`loaded`, computed from the file as `_load` does). A call is a `Change`,
the rename a `Save`, a save that fails a `Fail`, a kill a `Restart`; the steps on
the temporary file are none. `behind` says that a save has failed and none has
succeeded since; while it is false a call begins only when disk and memory agree.

### ActionPipeline and the code

The handlers of the event loop do not await, so they are serial among each other;
the worker thread runs between any two of their steps. An approval or a rejection
is, for each action, a look at the status, the assignment, and the update of the
row. The worker takes a batch, executes an action, and marks it in the same three
steps. `rotate` keeps what is not done; `newest` is what a start loads. Production
plans never contain a critical action, so the branch for one is left out. `stop` of
the worker has no caller. Two things are taken for granted: the database is there
(when `get_db()` gives `None` the queue saves and loads a JSON file instead,
`action_queue.py:285`, `:317`), and a statement succeeds (`db.execute` logs an error
and returns). A submission is taken to approve its actions: they name no tool, so
`mission_system.py:305` finds none that blocks, unless the lookup raises and the
actions stay PENDING_VALIDATION (`:937`).

`batch` is the set of what `run_once` took and has not left behind; `current` is the
action of it under way. The lists that the code sorts by `created_at` are sets here,
and `oldest(n, S)` is the first n of S in that order: what `_rotate` deletes, what
`run_once` takes, and which action comes next.

### ToolExecutor, ToolBreaker, PolicySessions and the code

`stage[c]` follows `execute`: validation, the permission of a gated tool, the
breaker, the policy, the attempts in threads that are joined with a limit, and
the feedback to the breaker. `strays` counts threads left behind. `evaluate_tool`
is a sequence of calls of the store, each under the store's lock, with other
calls in between: get, delete the expired, delete those over the cap, create,
record, save. `tracker` names objects, since two callers may hold different
trackers of one mission, or one that is no longer in the store (`gaps` are the
missions that once had none). With Redis `get` returns a copy, so `held` is the
caller's own. `Cool` and `GrowOld` are the clock.

`GateFails` is an exception of a gate, each of which `execute` catches where it asks.
Of the permission check: a gated tool goes on like any other
(`tool_executor.py:728`). Of the breaker: the call goes on (`:738`). Of the policy,
at any point of `evaluate_tool`: a tool that only reads goes on without having been
counted, any other is blocked (`:769`). `LimitHolds` is about the actions that the
policy answered and says nothing of those.

Of what the models show: a gated tool runs only when its permission check raises,
because "Approved → resume" was never implemented; an exception of a tool never
reaches the breaker, because the handler reads `result` before it is bound (stage
"raised").

### AutonomyDaemon and the code

`/start` and `/stop` are coroutines that join the thread synchronously: they block
the event loop, and one is served at a time. `route` is what the one being served
waits for. A forced start tells the old thread to stop, waits up to five seconds
and replaces it whether it has ended or not. It drops the budget tracker, so each
daemon has a tracker of its own. `charge` adds to the day first and raises there
before it reaches the mission. A started thread is taken to have read the global
`_daemon` before the next replacement, which comes five seconds later.

### WorkflowEngine and the code

A thread is a request, or a step that calls the engine through the connector
`workflow_trigger`. `pc[t]` is the point between two statements at which another
thread can make a difference: between the two halves of making room and adding,
between a look at the status and its assignment, between the choice of a step and
its start, during the step, and in the three parts of `save`. A statement that
walks over all executions (the count of the active ones, the snapshot) is one step
of the model; in CPython it can be interrupted, which may make it raise, or count
or save a mixture. An execution is named after its place in the order of
`created_at`, by which the oldest is found. `None` as `on[t]` in a save says that
the call ends with it. What a step does is its success or failure; a dependency
that does not exist is ignored, and `run_all` stops at the first failed attempt,
also of a step that has attempts left and is "pending" again: the next request
goes on with it. `Restart` is the next process, which loads the file at its first
call. The first load is not locked: requests that come together each find nothing
loaded (`MustLoad`), read the file (`ReadFile`) and put its entries into the
executions one by one (`PutExecution`), over what another request has done since.
An object that was evicted or replaced in this way while a run holds it is written
to in vain; `stale` names the threads that hold one, and `Mine` what they still
reach. A file that cannot be parsed gives an empty engine, and the next save
replaces it; a save that fails (`SaveFails`) is logged. Two requests may run one
workflow: nothing prevents it, a step may be executed twice, and the second result
replaces the first. Two history variables say what the properties are about:
`reached`, the outcomes that each step has had, and `brought`, how many entries a
load has brought the executions to.

## 3. The runs

| Run | Checks | What it shows |
|---|---|---|
| `lifecycle_v2_routes` | `TypeOK`, `HighRiskNeedsGrant`, `NoGhostRecord`, `NoRefusedTransition`, `PendingNeedsDecision` | with every way to decide, the v2 approval included, three coroutines of a mission, a failed write and one crash |
| `lifecycle_direct_routes` | `OneCrewPerMission`, `RecordFollowsContext`, `ViewIsEarned`, `AwaitingCanBeGranted`, `ContractSpec` | without the v2 approval route, with a recovery and a write that may fail, and the bridge's view beside them |
| `lifecycle_liveness` | `EventuallySettled` | every mission taken up ends or waits, across a failed write and a crash |
| `execution_engine` | `NoLostTask`, `DroppedWasCancelled`, `OneHolder`, `FlagStopsRetries`, `FlagStopsSuccess`, `EventuallyTerminal` | cancels, timeouts, retries, purges and threads that cannot start, of two tasks |
| `supervisor` | `ApprovedWasDecided`, `HighRiskRunsOnce`, `HighRiskStaysGated`, `RetryBudgetFits`, `ContractSpec`, `EventuallyEnds` | two calls on one queue, with late submissions and two decisions |
| `mission_store` | `DurableSpec`, `OpenIsKept` | one thread, evictions, two failed saves and two kills at any step |
| `action_pipeline` | `RunsBounded`, `ApprovedIsNotHalf`, `RejectedIsStopped`, `ApprovedIsQueued` | two missions with three actions, the worker, a full queue and a kill |
| `tool_executor` | `CircuitCounts`, `LimitHolds`, `OneThreadPerCall`, `EveryCallEnds` | two calls, two missions, two tools of which one is gated, a gate that raises |
| `autonomy` | `OneIsFree`, `StopsSoon`, `WithinBudget`, `EveryDaemonEnds` | two daemons that are replaced, stopped or spend too much |
| `workflow_engine` | `HistoryBounded`, `DependenciesHold`, `VerdictIsEarned` | two requests at a time, overlapping loads, runs and saves, saves that fail, one kill |
| `claims_one_dispatch` | `OneCrewPerMission` *violated* | the v2 approval starts two runs of the mission |
| `claims_store_threads` | `ThreadSafe` *violated* | two threads save at once, and the file they leave is not the store |

The type invariant of each module was checked on the instance of its run; in the
listed runs only that of `MissionLifecycle` is. Those of
`MissionLifecycle` and `MissionStore` are theorems, those of `Supervisor`,
`ActionPipeline` and `AutonomyDaemon` are parts of the invariants proved below; the
proofs about the tools and the two engines type what they use.

**Bounds.** `MissionLifecycle`: one mission and two or three coroutines. Missions
share nothing but the breaker, whose other users are covered by a threshold of 1
(it opens as soon as one run fails); three coroutines are the submitted run and
the two of one approval, or a submission, a grant and a denial. `MaxCrashes`: one
kill; what a second meets is a record that the first restart has already cleared.
`MaxFailures`: one write, which a kill may follow at once, after a later success or
never; the next success writes the whole table, so a second failure in between
changes only how old the file is. `claims_one_dispatch` needs none. The run of the
direct routes has the bridge in it, which reads the other modules' state and
changes none of it: what holds of `Spec` there holds of `MissionLifecycle`.
`lifecycle_v2_routes` has a goal for the crew submitted through api/v2, whose
return completes the legacy record; the v3 submission, whose return does not, and
the chat and creative paths are in the other two runs, and the theorems about its
properties assume no bound.
Engine: two tasks, of one priority and with up to two attempts, so that a retry, a
purge by the other task and a full heap all happen; the policy allows as many
attempts as the task in one and one more in the other. `MAX_CONCURRENT`,
`MAX_QUEUE_SIZE` and `MAX_TERMINAL_KEPT` are 1, so that each is met with two tasks.
Supervisor: two calls on one goal, so that a duplicate, a collision of savers and a
decision on either item happen; the numbers are the code's own (two retries, 180 s
per attempt, ten for the gate, 600 s for the long modes).
MissionStore: three missions over a cap of one, four calls, two failed saves and two
kills: an eviction, an update of a record already evicted, a failure after a
failure, and a kill after a kill.
`claims_store_threads` has two threads and three calls.
ActionPipeline: one mission with two actions (to be half approved) and one with
one; history, load and cycle limits of 2, below the three actions.
ToolExecutor: a threshold, a limit and a cap of 1, below what two calls and two
missions need; one retry; one gate that raises. `MCSpec` begins only where the first
mission has the oldest session and the calls differ in one order of tools and
missions, since no property tells one mission or one call from another (TLC's own
symmetry does not go with liveness). AutonomyDaemon: the tokens of an action are 0, 1 or 2, a
mission allows 2 and a day 3, so each is breached first in some behaviour; two
iterations, and one forced start of the second daemon.
WorkflowEngine: three workflows, two threads and a history of one, so that making
room races with adding and a workflow is dropped while it runs; two steps, one with
a second attempt, in the two orders of dependency; four calls, the least for a
create and three requests about it: two runs that overlap and a pause, cancel or
second create between their steps, or a run, a pause, a resume; one kill, after
which both requests load. Saves may fail as often as they are made.
Coroutines, tasks and threads are symmetric where no liveness is checked. `CHECK_DEADLOCK
FALSE`: slots for coroutines, calls, tasks and daemons are used once, so a run of
the model ends.

**Fairness.** `lifecycle_liveness`: each coroutine takes its next step
(the loop runs every ready task, and every await of a run ends: the attempts in
`supervise`, `wait_for` around it, around the cognition wrapper and around the
retry are under timeouts of the orchestrator; the awaits of planning, of the
creative mode and of `dispatch_improve` have none and rest on those of the HTTP
clients of the language models), and the process manager starts the server again. No
decision of a human is fair, nor is any failure. `execution_engine`: the polling
thread and the task threads run, `done_event.wait` has a timeout, and a caller
that began `submit` or `cancel` goes on. Handlers that were given up need not
end. `supervisor`: the event loop runs each call's next step; the fallback has no
limit of its own, and its end by the caller's deadline is fair. Nothing is assumed
of the queue's threads, nor of humans. `tool_executor`: a call's own steps, its
join with a timeout among them; a tool need never return. `autonomy`: the thread
of each daemon; no route need be called and no time need go by.

## 4. The proofs

Each proof holds for every value of the constants that satisfies the named
assumptions of the module, and rests on an inductive invariant. Every invariant and
every safety property that a passing run checks, `ViewIsEarned` excepted, is the
subject of a theorem; where it needs a hypothesis beyond the assumptions, the
paragraph says so.

**`MissionLifecycleProofs`, part 1** (`LifecycleAssumption`, `NoneAssumption`):
`TypeCorrect`, `HighRiskSafe` (`HighRiskNeedsGrant`), `NoRefused`
(`NoRefusedTransition`), `PendingIsDecided` (`PendingNeedsDecision`) and, for a
recovery that does not fail, `NoGhostRecords` (`NoGhostRecord`).
`HighRiskNeedsGrant` alone is not inductive: a run with `force_approved` passes
the gate without another look, so `ForcedIsGranted` says that the flag, and the
jobs that will set it, are only for approved missions. `NoRefusedTransition` needs
to know that no other coroutine writes the status of a run under way: `StartGrant`
and `StartDeny` do write a context that is not their own, but one that awaits
approval, which no run under way has; and that no coroutine exists while the
process is down (`DownIsIdle`), so that the contexts which `Boot` drops belong to
nobody. `FreshIsEmpty` and `ResumedIsOver` say the same of the contexts not yet
used and of the one that a resumption took over, which its handler may fail;
`SavedIsCurrent` that the file is the store as long as no write has failed.
`HasMission` gives the mission of a coroutine its type. The step is proved
in three parts: `TypingStep`; `StepIsLocal`, a step of one coroutine leaves the
others alone; `StepIsFine`, what the step does to its own. Each has one leaf per
action, and `InvStep` puts them together. `NoGhostRecord` is strengthened to
`NoGhosts`: behind an open record there is a run that has not made its last
transition, since one that is storing its memories will write no status any more.
`StepIsAccounted` then says that a step leaves an open record to the run that took
it, so that the second run which v2 starts beside the first does no harm here.

**Part 2** (the same, and `"v2approve" \notin Routes`): `OneCrew`
(`OneCrewPerMission`), `RecordAgrees` (`RecordFollowsContext`) and
`AwaitingIsGrantable` (`AwaitingCanBeGranted`). Without that premise the three are
false: the run claims_one_dispatch and section 5 show how. The invariant
`DirectInv` says that the context registered for a mission is that of its run
(`ActiveIsRegistered`) and belongs to no other mission (`RegisteredIsOwn`), and
that the record is what that context says (`RecordIsCurrent`), or FAILED when the
context is DONE, which is where a cancelled resumption leaves it; `ResumedIsOwn`
says that the context failed there is of the same mission. The record is the one in
memory, so writes that fail do not part the two; a kill does, and `Boot` then
starts from the file alone. It needs to know why
no second run begins: a submission is the first thing that happens to a mission
(`LegacyComesFirst`, `SubmittedIsFirst`), and a grant or a denial finds the mission
paused, when none of its runs is under way. All the steps between the start of a
run and its return have one shape (`Proceeds`, `MiddleRuns`), so that
`MiddleKeeps` is proved once for them.

**Part 3** (as part 2): `KeepsContract` (`ContractSpec`). `Arc` says how a step of a
run moves its record and whether a crew works before and after; `MiddleIsArc` proves
it for each action and `ArcIsStep` finds the move of the contract. A grant is a
`Resume` because of `ForcedIsGranted`, or a `Refuse` when the breaker is open; a boot
is a `Sweep` because no run survives a kill (`DownIsIdle`), a kill a `Halt`. Two
consequences are drawn from the contract: `CrewsShow`, a crew works only for a
mission whose record is open, holds of every step of it. `RecordsLatch`, a closed
record stays closed and a waiting one is opened for an approved mission only, holds
of every step but a `Halt`; for that one the theorem says so if no write has failed,
because the file is then what the store is (`SavedIsCurrent`). After a failed write
a kill may bring back an open record of a closed mission, as in the code.

**`ExecutionEngineProofs`** (`EngineAssumption`): `HeldOnce` (`OneHolder`),
`NothingIsLost` (`NoLostTask`), `RetriesStop` (`FlagStopsRetries`), `SuccessStops`
(`FlagStopsSuccess`), `DroppedOnCancel` (`DroppedWasCancelled`). The invariant says
that a task is in one place (`OnePlace`), in none before it was queued
(`NotBeforeQueued`), that one which waits or is taken is still to be run
(`UnrunIsKnown`) and that a thread about to close has a task that ended
(`EndedIsTerminal`). The two about the flag need `FlagIsKept`, that the flag of a
warned task stays set until its thread drops it, and `WarnedIsStopped`, that such a
thread is past the point where it could begin an attempt or take a result.
`PoppedIsPrefix` is the fact about the heap it rests on: a scan
takes a prefix, so what it removes and what it leaves are together what was there;
`UnrunIsKnown` then shows that of the tasks removed only those cancelled in the
meantime are dropped.

**`SupervisorProofs`** (`QueueAssumption`, `SupervisorAssumption`):
`ApprovalsAreReal` (`ApprovedWasDecided`), `HighRiskIsNotRepeated`
(`HighRiskRunsOnce`), `HighRiskIsGated` (`HighRiskStaysGated`) and
`Implementation` (`ContractSpec`). The queue's part of the invariant, `QueueInv`,
says of *every* text in the system, the two files and what each saver holds, that
it approves only what was decided (`WritesAreDecided`): overlapped savers lose and
tear texts, but a text is never mixed into one that nobody wrote. It also says
that only the levels approved by themselves are answered "auto"
(`AnswersFollowLevels`). `CallsAreGated` then ties the stage of a call to its
request, its risk and its runs. The refinement is the usual one: the initial
states map to initial states, and each action of a call maps to a move of the
contract (`Phases`, `Moves`, `Works`, `ContractCallStep`), while the queue's own
steps leave the contract unchanged (`ContractStep`). Two more invariants add to this
one. `WithinBudget` bounds the time that has passed at each attempt by `Before`, the
sum of the gate, the attempts and the pauses so far; from it `RetriesFit`
(`RetryBudgetFits`) follows for all limits that add up to the deadline
(`BudgetSuffices`), and `DefaultsSuffice` says that those of the code do. The sum of
the pauses, 1 + 2 + ... + n, is in closed form, so no induction is needed.
`RunsAreCounted` ties how often the goal was executed to the attempt, and
`ExecutionsAreBounded` concludes that it is once for each attempt and once for the
fallback.

**`ToolExecutorProofs`** (`BreakerAssumption`, `SessionsAssumption`,
`ExecutorAssumption`): `CircuitsCount`, `OneThread`, `OpensByFailures`, and
`MemoryKeepsLimit` (`LimitHolds`, for the store in memory), with any number of gates
that raise. `OpensByFailures` (`OpenedByFailures`: a circuit that is not closed has
had `failure_threshold` failures, which no run checks) needs `FailuresAreReported`, that the breaker's count is at most the number of calls
reported as failed, and so the finiteness of the set of calls; `OneThread` needs
`StrayIsLast`, that a call which has left a thread behind starts no other.
`MemoryKeepsLimit` needs to know of each tracker whose it is: one tracker in the
store belongs to its mission (`TrackersAreOwn`), one that has never been without
(`FirstTracker`) is the only one that counts, and it counts every action allowed
(`ActionsAreCounted`).

**`AutonomyDaemonProofs`** (`AutonomyAssumption`): `FreeIsKnown` (`OneIsFree`),
`StopIsSoon` (`StopsSoon`), `BudgetHolds` (`WithinBudget`). `BudgetHolds` needs
`Charged`: what was accepted is at most what was charged, to the mission and to
the day. `StopIsSoon` needs `LastAction`: once told, a daemon at the top of its
loop begins nothing; `FreeIsKnown` needs `ReplacedIsTold`.

**`WorkflowEngineProofs`** (`EngineAssumption`): `HistoryHolds` (`HistoryBounded`),
`DependenciesAreKept` (`DependenciesHold`) and `VerdictHolds` (`VerdictIsEarned`),
for any number of overlapping requests, loads and runs. The first counts what is
stored together with the threads that have made room and not yet added
(`HistoryInv`): making room moves one from the first to the second, the last thread
to find room had at most all the others before it, and an entry that a load puts
back is counted in `brought` with the threads about to add (`PutFits`). The other
two cannot be about the statuses of the steps as they are, since an overlapping run
may set a completed step running again, and a load an old text over a new one; they
are about what the steps have come to. The set `reached` only grows, and every
text, in memory, in the file or on its way, says of an execution only what
`reached` supports (`RunInv`): a step that is not pending has dependencies that were
completed (`CheckStep` has seen them so), and a verdict about to be written has been
earned when the steps were looked at. A run that holds a step has seen it ready, and
the object it holds is the stored one or is never looked at again (`ObjectKept`).
Executions are not confused because each thread that creates one has a number of
its own (`Distinct`). Restarts and failed saves leave only texts of which this has
been said.

**`ActionPipelineProofs`** (`PipelineAssumption`): `RunsAreBounded` (`RunsBounded`),
`ApprovedIsWhole` (`ApprovedIsNotHalf`), `RejectionStops` (`RejectedIsStopped`),
`ApprovedStays` (`ApprovedIsQueued`). Three views of an action must agree: its status,
its row and where the two threads stand. The heart of the invariant is in
`WorkerInv`: an action that can still be executed in this life of the process,
because it is not done or is in the batch, has not been executed in it, unless it is
the one under way. `RejectedIsStopped` needs the row, which may be brought back to
APPROVED by a late update; so `Settled` says that an action is done in its row or has
been executed, and `Stopped` adds those too old to be loaded, which remain so because
rows are only appended (`NewestMovesOn`). `EnqueueInv`, `ApproveInv` and `RejectInv`
say of a handler in the middle of a plan what it has done to the actions behind it and
what awaits those ahead, and `HeadInv` what the worker may have made of the action it
stands at; when the plan is walked, they give `MissionInv`. `QueueInv` rests on
`RotateDropsDone`: rotation drops only what is done. There is one lemma per action,
each with one step per part of the invariant that it can disturb.

**`MissionStoreProofs`** (`StoreAssumption`): `TypeCorrect`, `OpenIsNotEvicted`
(`OpenIsKept`) and `CapHolds`, for any number of threads, and `StoreIsDurable`
(`DurableSpec`) for one. `OpenIsNotEvicted` needs only that `evicted` takes terminal
records. `CapHolds` is the other half of eviction: after a `persist` the store is
within its cap, or all that it keeps is open. For this the n oldest of a set must be
n, which is so only when their times differ; `TextsAreDated` says that they do in
every text of the system, the files and the snapshots included, since a kill may
bring any of them back. That the n oldest are n (`OldestAreEnough`) is shown by
looking at the least time with enough records behind it (`LeastElement`, from the
well-foundedness of the naturals). `StoreIsDurable` is the refinement: `SaveInv`
says what the thread has snapshot and what the two files hold at each point of
`_save`, or that a save has failed and what the file holds is an older store,
whole; and `CallTouchesOne` that a call drops only ended missions beside its own.
The hypothesis `Writers = {Loop}` cannot be dropped: the run `claims_store_threads`
is the counterexample.

Left to TLC: liveness (`EventuallySettled`, `EventuallyTerminal`, `EventuallyEnds`,
`EveryCallEnds`, `EveryDaemonEnds`), since the prover has no rule for fairness and
`ENABLED`; and the violations of section 5, which are counterexamples. No definition
that is reasoned about is recursive: what the code does by sorting and slicing is
written with sets and cardinalities.

## 5. Divergences

The two runs with a violation and the findings of `PROJECT.json` are one list.
The following were refuted in the same way. Each operator is in its module with the
line it quotes; put in place of the properties of that module's configuration, it
shows a counterexample:

- `BlockedIsNotExecuted` (`MissionLifecycle`): a goal that AlignmentLayer refused
  is executed (`execution_memory_injector.py:69`, `execution_mixin.py:241`).
- `FlaggedNeedsGrant` (`MissionLifecycle`): under the cognition wrapper a forced
  approval is dropped (`execution_supervised_runner.py:232`,
  `meta_orchestrator.py:388`).
- `RejectedIsNotCompleted` (`MissionLifecycle`): a rejected mission becomes DONE
  when its run returns (`mission_system.py:386`, `:390`).
- `AwaitingCanBeGranted` with the route "v2approve" (`MissionLifecycle`): a pause
  that nobody can resolve (`meta_orchestrator.py:706`).
- `CancelledPendingNeverRuns` (`ExecutionEngine`): a task cancelled while PENDING
  is executed (`execution_engine.py:159`, `:374`).
- `NoGhostSuccess` (`Supervisor`): what the fallback returns is a success
  unseen.
- `AnsweredIsKept` (`ApprovalQueue`): an item that was answered is lost to another
  saver.
- `OneTestCall` (`ToolExecutor`): HALF_OPEN lets every caller through.
- `SingleWorkerIsEnough` (`ToolExecutor`, with `Redis = TRUE`, and limits and retries
  of 1): `session_store.py:15` calls the store sufficient for one worker; two threads
  of it check and record on a copy each and pass the limit of a mission.
- `ActiveBounded` (`WorkflowEngine`, with `MAX_WORKFLOW_HISTORY = 2`): requests that
  count together exceed the limit of active workflows (`executor.py:59`).
- `RunningHasRunner` (`WorkflowEngine`): a step saved as running, by a pause or by
  another request, is not pending after a restart, so no run takes it up; the
  workflow stays active and counts against the limit until somebody cancels it
  (`executor.py:188`).
- `FailedViewIsFinal` (`OrchestrationBridge`): KL-008 says that a view which waits at
  a restart is of a mission that "will never resolve" and makes it FAILED
  (`orchestration_bridge.py:104`); but the record still awaits approval,
  `resolve_approval` rebuilds its context, and the mission runs to DONE while the v3
  routes show it as failed for good.
- `CancelledIsNotExecuted` (`OrchestrationBridge`): a rejection before the pause
  cancels the view and finds no context to close, and the mission is worked on
  (`orchestration_bridge.py:417`).
- `ExecutesApproved` (`ActionPipeline`): an action rejected after the worker took
  it is executed, and may then be shown REJECTED.
- `DailyCap` (`MCAutonomyDaemon`): two daemons of one day spend more than the daily
  cap that `docs/AUTONOMY.md:14` calls hard, since `/start` resets the tracker.
- `FailuresHalt` (`MCAutonomyDaemon`): failures are never detected;
  `str(status).upper()` is "MISSIONSTATUS.FAILED" (`runners.py:84`).

Others were met while modelling and are faithful in the models:

- `execution_supervisor.py:370` says a medium risk must require approval; line
  402 submits it as WRITE_LOW, which is approved by itself (`GateOpens`).
- The comment on the retry budget holds for the long modes, which have 600 s; the
  others have `mission_timeout_s`, 120 by default (`execution_mixin.py:274`), less
  than one attempt.
- A resumption that is cancelled while it stores its memories is DONE in its context
  and FAILED in its record (`meta_orchestrator.py:771`, `StoringCancelled`).
- A mission that awaits approval has no canonical status: AWAITING_APPROVAL is not in
  `_META_ORCHESTRATOR_STATUS_MAP` (`canonical_types.py:227`, `of_context`).
- `meta_orchestrator.py:196` synchronises the legacy record by
  `MissionSystem.get_mission`, which does not exist (`Transition`).
- `outcome_mixin.py:453` sets PENDING_VALIDATION without saving it, and a restart
  forgets it (`GateWaits`).
- `mission_system.py:679`: `reject` leaves a mission in AWAITING_APPROVAL alone
  (`ms_reject`).
- `mission_persistence.py:268` says PLANNED missions are not recovered; line 274
  returns them (`recover_non_terminal`).
- `execution_engine.py:48`: the limit of concurrent workers bounds one batch; the
  next scan takes as many again (`popped`).
- `execution_engine.py:124`: two callers can both take the last place of the heap
  (`SubmitChecks`, `SubmitPushes`).
- `execution_engine.py:256`: a task between its timeout and its retry is terminal
  and can be purged (`RetryAfterTimeout`, `PurgeTerminalTasks`); `is_terminal`
  promises that it has no more transitions.
- `execution_engine.py:317`: when a thread cannot be started the rest of the batch
  is neither in the heap nor running (`LaunchFails`).
- `approval_queue.py`: `approve` and `reject` do not ask whether the item is
  still pending.
- `policy_engine.py:328`: `ensure_session` is called idempotent, but callers that
  race create two trackers; an expired session starts again from zero.
- `governance.py:714` compares the state of a circuit with "OPEN"; its value is
  "open".
- `MissionSystem.cancel` leaves the mission's actions APPROVED; `ms.fail`, which a
  route calls, does not exist; a start loads the 500 newest rows only.
- `workflow/executor.py:122`: a pause or a cancel that is answered between the
  choice of a step and its start is overwritten, and the run goes on (`MarkStep`);
  a resume or a pause may overwrite the verdict, and a completed workflow is then
  active for ever (`SetStatus`). The oldest workflow is dropped when the history is
  full, also while it runs (`Evict`), and `save` truncates the file it replaces.
- `workflow/executor.py:193`: nothing keeps two runs of one workflow apart. The
  second may execute a step once more and turn a completed one into a failed or a
  pending one, below a verdict that says completed (`CheckStep`, `StepEnds`).
- `workflow/executor.py:42`: two first requests both load, and the later load puts
  back what the other has evicted, above `MAX_WORKFLOW_HISTORY` (`PutExecution`).
- `execution_engine.py:363` and `:394`: a cancel that answers True between the look
  at the flag and the write after it does not stop that attempt, or that success
  (`Attempt`, `TakeResult`).
- `abort_mission` calls `cancel_mission` of a queue that has no such method, before
  anything else, and changes nothing.
- `routes/autonomy.py:16` says one daemon thread runs per process; a forced start
  leaves the old one beside the new (`Replace`).
- `budget.py:130` says the mission is checked first and both counters move
  together; the day is charged first, and a breach there leaves the mission as it
  was (`charge`).

## 6. Not modelled

The components with status `not_modelled` in `PROJECT.json`, each with its reason.
Three reasons recur. *No producer*: the agent and core task queues, the provider
breaker and the autonomy choices are built and read, but nothing in the program
drives them, so a model would be of the tests. *Data*: agents, memory, language
models, governance tables; their answers are free choices here. *Transport*: the
gateways, connectors, the web front end and the mobile app, which hold most of
the repository's lines; this is why the map covers a small share of it.

Of the modelled components: a write that fails of the legacy records, the approval
queue, the canonical views and the rows of the actions (those of the mission records
and of the workflows are modelled); the JSON file that stands in for SQLite when
there is none, and the branch of a submission whose registry lookup raises; goals and the phase cursor of `MissionSystem`;
`reset_engine` and the delays of the engine; several worker processes (each would
have its own memory over one set of files); the handler of `_execute_task_safe`
for a crash of the engine itself, which nothing in `_execute_task` leads to; the
limits on tokens, cloud calls and cost of a session, of the form of the one on
actions; what an action or a tool does; the 24-hour window of a budget, which does
not roll while its daemon lives; costs in dollars, which no planner estimates.

## 7. Plan

Proofs: with the daemon's thread the store is not durable, but a text is never mixed
into one that nobody wrote; that and the per-attempt steps of `supervise` under the
lifecycle's "exec" are worth a theorem. The circuits of `MissionLifecycle`
and `ToolBreaker` could be shown to implement one abstract breaker.

`ViewIsEarned` is model-checked only; it needs of `MissionLifecycle` that a context
which is over has a record that is closed, and stays registered.

Models: the self-improvement loop with its gate and rollback; a finer
`WorkflowEngine`, whose walks over the executions are interrupted.
