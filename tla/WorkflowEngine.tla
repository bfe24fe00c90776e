--------------------------- MODULE WorkflowEngine ---------------------------
(***************************************************************************)
(* core/workflow/executor.py: WorkflowEngine, the one instance behind the    *)
(* workflow routes and the workflow_trigger connector.  The routes are plain *)
(* functions, so each request calls it on a thread of its own, and nothing   *)
(* is locked: not the first load, not a save, not two runs of one workflow.  *)
(* A step that calls the engine itself (workflow_trigger) is one thread      *)
(* more.  A statement that walks over the executions, or over the steps of   *)
(* one, is one step here.                                                   *)
(***************************************************************************)
EXTENDS Integers, Sequences, FiniteSets

CONSTANTS
  None,
  Threads,
  Plans,       \* the steps a workflow may be created with
  Empty,       \* a file that has just been opened for writing
  Torn,        \* a file cut short, or with the tail of another text behind its own
  MAX_CONCURRENT_WORKFLOWS,
  MAX_WORKFLOW_DEPTH,
  MAX_WORKFLOW_HISTORY,
  MaxCreated,  \* bound: workflows created
  MaxCalls,    \* bound: calls of the engine
  MaxCrashes   \* bound: kills of the process

Ids == 1..MaxCreated   \* in the order of created_at

\* the plans are those that create_workflow has not refused for their length,
\* with max_retries already capped; the indices of the steps start at 1
ASSUME EngineAssumption ==
  /\ IsFiniteSet(Threads) /\ Threads # {}
  /\ None \notin Ids
  /\ Plans \subseteq Seq([depends_on : SUBSET Nat, max_retries : Int])
  /\ \A plan \in Plans : Len(plan) <= MAX_WORKFLOW_DEPTH
  /\ MAX_WORKFLOW_HISTORY \in Nat \ {0}
  /\ { MAX_CONCURRENT_WORKFLOWS, MAX_WORKFLOW_DEPTH } \subseteq Nat
  /\ { MaxCreated, MaxCalls, MaxCrashes } \subseteq Nat

VARIABLES
  _executions,  \* the executions in memory
  _loaded,
  file,         \* the text of workflow_executions.json
  pc,           \* where each thread is in its call
  on,           \* the execution the call is about
  at,           \* the step that a run is at, or the execution to be evicted
  left,         \* how many more steps run_all may run
  data,         \* the text that the thread is about to write, or has read
  stale,        \* the threads whose execution object is no longer the stored one
  reached,      \* history: what the steps of each execution have come to
  brought,      \* history: the size a load has last brought the executions to
  created,
  calls,
  crashes

threadVars == << pc, on, at, left, data, stale >>

history == << reached, brought >>

bounds == << created, calls, crashes >>

vars == << _executions, _loaded, file, threadVars, history, bounds >>

StepStatus == { "pending", "running", "completed", "failed" }
Active == { "created", "running", "paused" }
Ended == { "completed", "failed", "cancelled" }

Steps == [status : StepStatus, retries : Nat]

\* the statuses that are about to be written, and where execute_step has a step
Setting == { "paused", "running", "cancelled", "completed", "failed" }
Holding == Setting \cup { "mark", "step", "judge" }

IsExecution(execution) ==
  /\ DOMAIN execution = { "status", "plan", "steps" }
  /\ execution.status \in Active \cup Ended
  /\ execution.plan \in Plans
  /\ execution.steps \in [DOMAIN execution.plan -> Steps]

IsStore(store) ==
  /\ DOMAIN store \subseteq Ids
  /\ \A e \in DOMAIN store : IsExecution(store[e])

TypeOK ==
  /\ IsStore(_executions)
  /\ _loaded \in BOOLEAN
  /\ file \in { None, Empty, Torn } \/ IsStore(file)
  /\ pc \in [Threads -> { "idle", "load", "put", "make_room", "choose", "evict",
                          "insert", "next", "begin", "open", "snapshot", "write" }
                          \cup Holding]
  /\ on \in [Threads -> Ids \cup { None }]
  /\ at \in [Threads -> Nat]
  /\ left \in [Threads -> 0..MAX_WORKFLOW_DEPTH]
  /\ DOMAIN data = Threads /\ \A t \in Threads : IsStore(data[t])
  /\ stale \subseteq Threads
  /\ reached \in [Ids -> SUBSET (Nat \X StepStatus)]
  /\ brought \in Nat
  /\ created \in 0..MaxCreated
  /\ calls \in 0..MaxCalls
  /\ crashes \in 0..MaxCrashes

NoStore == [e \in {} |-> None]

Init ==
  /\ _executions = NoStore
  /\ _loaded = FALSE
  /\ file = None
  /\ pc = [t \in Threads |-> "idle"]
  /\ on = [t \in Threads |-> None]
  /\ at = [t \in Threads |-> 0]
  /\ left = [t \in Threads |-> 0]
  /\ data = [t \in Threads |-> NoStore]
  /\ stale = {}
  /\ reached = [e \in Ids |-> {}]
  /\ brought = 0
  /\ created = 0
  /\ calls = 0
  /\ crashes = 0

-----------------------------------------------------------------------------
(* The calls *)

stored == DOMAIN _executions

\* an object that has been evicted, or replaced by a load, is still written to, but
\* nobody reads it
Mine(t) == on[t] \in stored /\ t \notin stale

Put(t, execution) ==
  _executions' =
    IF Mine(t)
    THEN [e \in stored |-> IF e = on[t] THEN execution ELSE _executions[e]]
    ELSE _executions

\* every call begins with _ensure_loaded
Calls(t, where, e) ==
  /\ _loaded
  /\ calls < MaxCalls
  /\ calls' = calls + 1
  /\ pc[t] = "idle"
  /\ pc' = [pc EXCEPT ![t] = where]
  /\ on' = [on EXCEPT ![t] = e]
  /\ UNCHANGED << _loaded, stale, crashes >>

Goes(t, here, there) ==
  /\ pc[t] = here
  /\ pc' = [pc EXCEPT ![t] = there]
  /\ UNCHANGED << calls, crashes >>

\* create_workflow: the limit of the active ones is looked at, and the new one built
create_workflow(t) ==
  /\ created < MaxCreated
  /\ Cardinality({ e \in stored : _executions[e].status \in Active })
       < MAX_CONCURRENT_WORKFLOWS
  /\ created' = created + 1
  /\ Calls(t, "make_room", created')
  /\ UNCHANGED << _executions, file, at, left, data, history >>

\* mutant of full: one more than the history holds
full_OffByOne == Cardinality(stored) > MAX_WORKFLOW_HISTORY

full == Cardinality(stored) >= MAX_WORKFLOW_HISTORY

LookForRoom(t) ==
  /\ Goes(t, "make_room", IF full THEN "choose" ELSE "insert")
  /\ UNCHANGED << _executions, _loaded, file, on, at, left, data, stale, history, created >>

\* the oldest is to make room, whatever its status
ChooseOldest(t) ==
  /\ Goes(t, "choose", "evict")
  /\ \E oldest \in stored :
       /\ \A e \in stored : oldest <= e
       /\ at' = [at EXCEPT ![t] = oldest]
  /\ UNCHANGED << _executions, _loaded, file, on, left, data, stale, history, created >>

Evict(t) ==
  /\ Goes(t, "evict", "insert")
  /\ at[t] \in stored
  /\ _executions' = [e \in stored \ { at[t] } |-> _executions[e]]
  /\ at' = [at EXCEPT ![t] = 0]
  /\ UNCHANGED << _loaded, file, on, left, data, stale, history, created >>

\* min of nothing, or del of what another request has evicted: the request fails
CreateRaises(t) ==
  /\ \/ Goes(t, "choose", "idle") /\ stored = {}
     \/ Goes(t, "evict", "idle") /\ at[t] \notin stored
  /\ on' = [on EXCEPT ![t] = None]
  /\ at' = [at EXCEPT ![t] = 0]
  /\ UNCHANGED << _executions, _loaded, file, left, data, stale, history, created >>

\* what it was created with matters to nobody before it is here
Insert(t, plan) ==
  /\ Goes(t, "insert", "open")
  /\ _executions' =
       [e \in stored \cup { on[t] } |->
          IF e = on[t]
          THEN [status |-> "created", plan |-> plan,
                steps |-> [i \in DOMAIN plan |->
                             [status |-> "pending", retries |-> 0]]]
          ELSE _executions[e]]
  /\ UNCHANGED << _loaded, file, on, at, left, data, stale, history, created >>

Asks(t, e, status) ==
  /\ Calls(t, status, e)
  /\ UNCHANGED << _executions, file, at, left, data, history, created >>

pause(t, e) ==
  /\ _executions[e].status \in { "created", "running" }
  /\ Asks(t, e, "paused")

resume(t, e) ==
  /\ _executions[e].status = "paused"
  /\ Asks(t, e, "running")

cancel(t, e) ==
  /\ _executions[e].status \notin { "completed", "failed" }
  /\ Asks(t, e, "cancelled")

\* the status is written, whatever it is by now: by a pause, a resume or a cancel,
\* and by _update_workflow_status
SetStatus(t, status) ==
  /\ status \in Setting
  /\ Goes(t, status, "open")
  /\ Put(t, [_executions[on[t]] EXCEPT !.status = status])
  /\ stale' = stale \ { t }
  /\ UNCHANGED << _loaded, file, on, at, left, data, history, created >>

-----------------------------------------------------------------------------
(* run_all *)

run_all(t, e) ==
  /\ Calls(t, "next", e)
  /\ left' = [left EXCEPT ![t] = MAX_WORKFLOW_DEPTH]
  /\ UNCHANGED << _executions, file, at, data, history, created >>

\* the first pending step is the one to run, whether it is ready or not
toRun(execution) ==
  { i \in DOMAIN execution.steps :
      /\ execution.steps[i].status = "pending"
      /\ \A j \in 1..(i - 1) : execution.steps[j].status # "pending" }

\* whether the loop of run_all goes on
goesOn(t) ==
  /\ left[t] > 0
  /\ on[t] \in stored
  /\ _executions[on[t]].status \notin Ended \cup { "paused" }
  /\ toRun(_executions[on[t]]) # {}

run_next_step(t) ==
  /\ Goes(t, "next", "begin")
  /\ goesOn(t)
  /\ \E i \in toRun(_executions[on[t]]) : at' = [at EXCEPT ![t] = i]
  /\ UNCHANGED << _executions, _loaded, file, on, left, data, stale, history, created >>

run_all_ends(t) ==
  /\ Goes(t, "next", "idle")
  /\ ~ goesOn(t)
  /\ on' = [on EXCEPT ![t] = None]
  /\ left' = [left EXCEPT ![t] = 0]
  /\ UNCHANGED << _executions, _loaded, file, at, data, stale, history, created >>

\* a dependency beyond the last step is ignored
ready(execution, i) ==
  \A d \in execution.plan[i].depends_on \cap DOMAIN execution.steps :
    execution.steps[d].status = "completed"

\* mutant of CheckStep: the dependencies are not looked at
CheckStep_Unready(t) ==
  /\ Goes(t, "begin", "mark")
  /\ on[t] \in stored
  /\ UNCHANGED << _executions, _loaded, file, on, at, left, data, stale, history, created >>

\* execute_step looks the execution up again, and at the dependencies of the step,
\* but not at its status: an overlapping run may have taken the step
CheckStep(t) ==
  /\ Goes(t, "begin", "mark")
  /\ on[t] \in stored
  /\ at[t] \in DOMAIN _executions[on[t]].steps
  /\ ready(_executions[on[t]], at[t])
  /\ UNCHANGED << _executions, _loaded, file, on, at, left, data, stale, history, created >>

\* an answer without success ends the run
StepRefused(t) ==
  /\ Goes(t, "begin", "idle")
  /\ on[t] \in stored =>
       ~ /\ at[t] \in DOMAIN _executions[on[t]].steps
         /\ ready(_executions[on[t]], at[t])
  /\ on' = [on EXCEPT ![t] = None]
  /\ at' = [at EXCEPT ![t] = 0]
  /\ left' = [left EXCEPT ![t] = 0]
  /\ UNCHANGED << _executions, _loaded, file, data, stale, history, created >>

begun(execution, i) ==
  [execution EXCEPT !.status = "running", !.steps[i].status = "running"]

\* a pause, a cancel or another run's result since the check is overwritten
MarkStep(t) ==
  /\ Goes(t, "mark", "step")
  /\ Put(t, begun(_executions[on[t]], at[t]))
  /\ UNCHANGED << _loaded, file, on, at, left, data, stale, history, created >>

\* a failed attempt leaves the step pending while it has attempts left
ended(step, max_retries, success) ==
  IF success
  THEN [step EXCEPT !.status = "completed"]
  ELSE [status |-> IF step.retries + 1 >= max_retries THEN "failed" ELSE "pending",
        retries |-> step.retries + 1]

attempted(execution, i, success) ==
  [execution EXCEPT !.steps[i] = ended(@, execution.plan[i].max_retries, success)]

\* execute_step after the call, which has not raised or has been caught; a failed
\* attempt ends the run, also when the step is to be tried again
StepEnds(t, success) ==
  LET now == attempted(_executions[on[t]], at[t], success) IN
  /\ Goes(t, "step", "judge")
  /\ Put(t, now)
  /\ reached' = IF Mine(t)
                THEN [reached EXCEPT ![on[t]] =
                        @ \cup { << at[t], now.steps[at[t]].status >> }]
                ELSE reached
  /\ left' = [left EXCEPT ![t] = IF success THEN @ - 1 ELSE 0]
  /\ at' = [at EXCEPT ![t] = 0]
  /\ UNCHANGED << _loaded, file, on, data, stale, brought, created >>

\* mutant of verdict: a step that failed counts as done
verdict_NonePending(execution) ==
  LET statuses == { execution.steps[i].status : i \in DOMAIN execution.steps } IN
  IF statuses \subseteq { "completed", "failed" } THEN "completed" ELSE "open"

\* _update_workflow_status, with "open" for no new status
verdict(execution) ==
  LET statuses == { execution.steps[i].status : i \in DOMAIN execution.steps } IN
  IF statuses \subseteq { "completed" } THEN "completed"
  ELSE IF "failed" \in statuses THEN "failed"
  ELSE "open"

\* what an object that is no longer stored says does not matter
Judge(t) ==
  /\ Goes(t, "judge", IF Mine(t) THEN verdict(_executions[on[t]]) ELSE "open")
  /\ stale' = IF pc'[t] = "open" THEN stale \ { t } ELSE stale
  /\ UNCHANGED << _executions, _loaded, file, on, at, left, data, history, created >>

-----------------------------------------------------------------------------
(* save *)

OpenFile(t) ==
  /\ Goes(t, "open", "snapshot")
  /\ file' = Empty
  /\ UNCHANGED << _executions, _loaded, on, at, left, data, stale, history, created >>

Snapshot(t) ==
  /\ Goes(t, "snapshot", "write")
  /\ data' = [data EXCEPT ![t] = _executions]
  /\ UNCHANGED << _executions, _loaded, file, on, at, left, stale, history, created >>

\* the call is over, or run_all looks for its next step
Leaves(t, here) ==
  /\ Goes(t, here, IF left[t] = 0 THEN "idle" ELSE "next")
  /\ on' = IF left[t] = 0 THEN [on EXCEPT ![t] = None] ELSE on
  /\ data' = [data EXCEPT ![t] = NoStore]
  /\ UNCHANGED << _executions, _loaded, at, left, stale, history, created >>

\* over what another thread has written since the file was opened, a shorter text
\* leaves a tail
WriteFile(t) ==
  /\ Leaves(t, "write")
  /\ \/ file' = data[t]
     \/ file # Empty /\ file' = Torn

\* the file cannot be opened, the executions change size under the snapshot, or the
\* text is not written to its end: it is logged, and the call answers as usual
SaveFails(t) ==
  \/ Leaves(t, "open") /\ UNCHANGED file
  \/ Leaves(t, "snapshot") /\ UNCHANGED file
  \/ Leaves(t, "write") /\ file' \in { file, Torn }

-----------------------------------------------------------------------------
(* load *)

MustLoad(t) ==
  /\ ~ _loaded
  /\ Goes(t, "idle", "load")
  /\ UNCHANGED << _executions, _loaded, file, on, at, left, data, stale, history, created >>

\* a file that is missing or cannot be parsed is no execution at all
loaded == IF file \in { None, Empty, Torn } THEN NoStore ELSE file

ReadFile(t) ==
  /\ Goes(t, "load", "put")
  /\ data' = [data EXCEPT ![t] = loaded]
  /\ UNCHANGED << _executions, _loaded, file, on, at, left, stale, history, created >>

\* the executions on their way into the history
Inserting == { t \in Threads : pc[t] = "insert" }

\* what another request has done since the file was read is replaced
PutExecution(t) ==
  /\ Goes(t, "put", "put")
  /\ \E e \in DOMAIN data[t] :
       /\ _executions' = [f \in stored \cup { e } |->
                            IF f = e THEN data[t][e] ELSE _executions[f]]
       /\ data' = [data EXCEPT ![t] = [f \in DOMAIN @ \ { e } |-> @[f]]]
       /\ stale' = stale \cup { u \in Threads : pc[u] \in Holding /\ on[u] = e }
       /\ brought' = Cardinality(stored \cup { e }) + Cardinality(Inserting)
  /\ UNCHANGED << _loaded, file, on, at, left, reached, created >>

Loaded(t) ==
  /\ Goes(t, "put", "idle")
  /\ DOMAIN data[t] = {}
  /\ _loaded' = TRUE
  /\ data' = [data EXCEPT ![t] = NoStore]
  /\ UNCHANGED << _executions, file, on, at, left, stale, history, created >>

\* the process is killed, and the next one has loaded nothing yet
Restart ==
  /\ crashes < MaxCrashes
  /\ crashes' = crashes + 1
  /\ _executions' = NoStore
  /\ _loaded' = FALSE
  /\ pc' = [t \in Threads |-> "idle"]
  /\ on' = [t \in Threads |-> None]
  /\ at' = [t \in Threads |-> 0]
  /\ left' = [t \in Threads |-> 0]
  /\ data' = [t \in Threads |-> NoStore]
  /\ stale' = {}
  /\ brought' = 0
  /\ UNCHANGED << file, reached, created, calls >>

-----------------------------------------------------------------------------

Call(t) ==
  \/ create_workflow(t)
  \/ \E e \in stored : pause(t, e) \/ resume(t, e) \/ cancel(t, e) \/ run_all(t, e)

Creates(t) ==
  \/ LookForRoom(t)
  \/ ChooseOldest(t)
  \/ Evict(t)
  \/ CreateRaises(t)
  \/ \E plan \in Plans : Insert(t, plan)

Runs(t) ==
  \/ run_next_step(t)
  \/ run_all_ends(t)
  \/ CheckStep(t)
  \/ StepRefused(t)
  \/ MarkStep(t)
  \/ \E success \in BOOLEAN : StepEnds(t, success)
  \/ Judge(t)

Saves(t) ==
  \/ OpenFile(t)
  \/ Snapshot(t)
  \/ WriteFile(t)
  \/ SaveFails(t)

Loads(t) ==
  \/ MustLoad(t)
  \/ ReadFile(t)
  \/ PutExecution(t)
  \/ Loaded(t)

Step(t) ==
  \/ Call(t)
  \/ Creates(t)
  \/ \E status \in Setting : SetStatus(t, status)
  \/ Runs(t)
  \/ Saves(t)
  \/ Loads(t)

Next == Restart \/ \E t \in Threads : Step(t)

Spec == Init /\ [][Next]_vars

-----------------------------------------------------------------------------
(* Properties *)

\* "MAX_WORKFLOW_HISTORY total" (executor.py:31) is exceeded by requests that look
\* at the history together, but by one fewer than there are threads, however often
\* they do it; and by a load that puts back, over what a first request has done
\* since, what it has read, but then the requests never add to what the load left.
HistoryBounded ==
  LET together == MAX_WORKFLOW_HISTORY + Cardinality(Threads) - 1 IN
  Cardinality(stored) <= IF brought > together THEN brought ELSE together

has(e, i, outcome) == << i, outcome >> \in reached[e]

inOrder(e, execution) ==
  \A i \in DOMAIN execution.steps :
    execution.steps[i].status # "pending" =>
      \A d \in execution.plan[i].depends_on \cap DOMAIN execution.steps :
        has(e, d, "completed")

\* A step is only begun when the steps it depends on have come to an end with
\* success: through pauses and failed attempts, a load over a run, restarts, and
\* runs of one workflow that overlap, so that a step may be marked by one run while
\* the other takes it, or a dependency, once more.
DependenciesHold == \A e \in stored : inOrder(e, _executions[e])

earned(e, execution) ==
  /\ execution.status = "completed" =>
       \A i \in DOMAIN execution.steps : has(e, i, "completed")
  /\ execution.status = "failed" =>
       \E i \in DOMAIN execution.steps : has(e, i, "failed")

\* A workflow is said to be completed only when every step of it has come to an end
\* with success, and to have failed only when one has failed, whatever overlapping
\* runs and the other requests wrote between the steps, the verdict and its save.
VerdictIsEarned == \A e \in stored : earned(e, _executions[e])

\* "Bounded: MAX_CONCURRENT_WORKFLOWS active" (executor.py:31), which requests that
\* look together exceed (refuted by TLC: README, divergences).
ActiveBounded ==
  Cardinality({ e \in stored : _executions[e].status \in Active })
    <= MAX_CONCURRENT_WORKFLOWS

\* "persistent multi-step workflows with resume capability" (executor.py:30): a step
\* that was running when the file was saved is not taken up after a restart (refuted
\* by TLC: README, divergences).
RunningHasRunner ==
  \A e \in stored :
    _executions[e].status \in Active =>
      \A i \in DOMAIN _executions[e].steps :
        _executions[e].steps[i].status = "running" => \E t \in Threads : on[t] = e

=============================================================================
