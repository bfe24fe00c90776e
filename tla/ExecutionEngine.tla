--------------------------- MODULE ExecutionEngine ---------------------------
(***************************************************************************)
(* executor/execution_engine.py: a heap of submitted tasks, a polling       *)
(* daemon thread, one thread per task it takes from the heap, one thread    *)
(* per attempt of a handler, and callers that submit and cancel from        *)
(* threads of their own.  An action is what one thread does between two     *)
(* points at which another can step in: a lock, an event or a status of the *)
(* task, which no lock protects.  Where a flag or a status is looked at and *)
(* then something is written, the look and the write are two actions.       *)
(***************************************************************************)
EXTENDS Naturals, Sequences, FiniteSets

CONSTANTS
  Tasks,
  None,
  Priorities,         \* values of ExecutionTask.priority; the lowest first
  MaxAttempts,        \* ExecutionTask.max_attempts
  PolicyAttempts,     \* RetryPolicy.max_attempts of each task
  MAX_CONCURRENT,
  MAX_QUEUE_SIZE,
  MAX_TERMINAL_KEPT

ASSUME EngineAssumption ==
  /\ None \notin Tasks
  /\ Priorities \subseteq Nat /\ Priorities # {}
  /\ MaxAttempts \in Nat \ {0}
  /\ PolicyAttempts \in [Tasks -> Nat]
  /\ MAX_CONCURRENT \in Nat \ {0}
  /\ MAX_QUEUE_SIZE \in Nat \ {0}
  /\ MAX_TERMINAL_KEPT \in Nat

VARIABLES
  priority,
  submit,     \* where the caller of submit stands
  cancel,     \* where the caller of cancel stands; at most one per task
  heap,       \* _heap, in the order in which it will be popped
  registry,   \* keys of _tasks
  status,     \* ExecutionTask.status
  attempts,   \* ExecutionTask.attempts
  finished,   \* tasks with a finished_at, the earliest first
  flag,       \* _cancel_flags: None, or whether the event is set
  worker,     \* the polling thread
  batch,      \* tasks popped by it whose thread is not started
  unstarted,  \* history: those whose thread could not be started
  warned,     \* history: those whose flag was set for the thread to see
  thread,     \* where the thread of each task stands
  handlers    \* handler threads alive, those given up included

callers == << submit, cancel >>
shared == << heap, registry >>
threads == << thread, handlers >>
kept == << priority, unstarted, warned >>   \* most actions leave the history alone
vars == << priority, submit, cancel, heap, registry, status, attempts,
           finished, flag, worker, batch, unstarted, warned, thread, handlers >>

-----------------------------------------------------------------------------

TERMINAL_STATUSES == { "SUCCEEDED", "FAILED", "CANCELLED", "TIMED_OUT" }

Status == { "PENDING", "RUNNING" } \cup TERMINAL_STATUSES

TypeOK ==
  /\ priority \in [Tasks -> Priorities]
  /\ submit \in [Tasks -> { "idle", "checked", "registered", "queued",
                            "refused" }]
  /\ cancel \in [Tasks -> { "idle", "sawPending", "sawRunning", "cancelled",
                            "requested" }]
  /\ \A i \in DOMAIN heap : heap[i] \in Tasks
  /\ registry \subseteq Tasks
  /\ status \in [Tasks -> Status]
  /\ attempts \in [Tasks -> 0..MaxAttempts]
  /\ \A i \in DOMAIN finished : finished[i] \in Tasks
  /\ flag \in [Tasks -> BOOLEAN \cup {None}]
  /\ worker \in { "off", "on", "leaving" }
  /\ batch \subseteq Tasks
  /\ unstarted \subseteq Tasks
  /\ warned \subseteq Tasks
  /\ thread \in [Tasks -> { "none", "started", "check", "cleared", "waiting",
                            "result", "timedout", "sleeping", "exhausted",
                            "closing", "purge", "over" }]
  /\ handlers \in [Tasks -> 0..MaxAttempts]

Init ==
  /\ priority \in [Tasks -> Priorities]
  /\ submit = [t \in Tasks |-> "idle"]
  /\ cancel = [t \in Tasks |-> "idle"]
  /\ heap = << >>
  /\ registry = {}
  /\ status = [t \in Tasks |-> "PENDING"]
  /\ attempts = [t \in Tasks |-> 0]
  /\ finished = << >>
  /\ flag = [t \in Tasks |-> None]
  /\ worker = "on"
  /\ batch = {}
  /\ unstarted = {}
  /\ warned = {}
  /\ thread = [t \in Tasks |-> "none"]
  /\ handlers = [t \in Tasks |-> 0]

-----------------------------------------------------------------------------
(* submit: the length is read, the task registered and the heap extended     *)
(* under three separate holds of two locks                                   *)

SubmitAt(t, here, there) ==
  /\ submit[t] = here
  /\ submit' = [submit EXCEPT ![t] = there]

SubmitChecks(t) ==
  /\ SubmitAt(t, "idle",
       IF Len(heap) >= MAX_QUEUE_SIZE THEN "refused" ELSE "checked")
  /\ UNCHANGED << kept, cancel, shared, status, attempts, finished, flag,
                  worker, batch, threads >>

SubmitRegisters(t) ==
  /\ SubmitAt(t, "checked", "registered")
  /\ registry' = registry \cup {t}
  /\ UNCHANGED << kept, cancel, heap, status, attempts, finished, flag,
                  worker, batch, threads >>

\* tasks of equal priority are ordered by created_at, which precedes submit:
\* among them any place is possible
InsertAt(t, k) ==
  SubSeq(heap, 1, k) \o << t >> \o SubSeq(heap, k + 1, Len(heap))

SubmitPushes(t) ==
  /\ SubmitAt(t, "registered", "queued")
  /\ \E k \in 0..Len(heap) :
       /\ \A i \in 1..k : priority[heap[i]] <= priority[t]
       /\ \A i \in (k + 1)..Len(heap) : priority[heap[i]] >= priority[t]
       /\ heap' = InsertAt(t, k)
  /\ UNCHANGED << kept, cancel, registry, status, attempts, finished,
                  flag, worker, batch, threads >>

-----------------------------------------------------------------------------
(* Statuses: the new one, and the place in the order of finished_at          *)

Others(s, t) == SelectSeq(s, LAMBDA u : u # t)

Ends(t, s) ==
  /\ status' = [status EXCEPT ![t] = s]
  /\ finished' = Append(Others(finished, t), t)

SetStatus(t, s) ==
  /\ status' = [status EXCEPT ![t] = s]
  /\ UNCHANGED finished

-----------------------------------------------------------------------------
(* cancel: it reads the status and acts on it later                          *)

\* a task that is unknown or terminal is refused, which changes nothing
CancelReads(t) ==
  /\ cancel[t] = "idle" /\ t \in registry
  /\ status[t] \in { "PENDING", "RUNNING" }
  /\ cancel' = [cancel EXCEPT ![t] =
                  IF status[t] = "PENDING" THEN "sawPending"
                  ELSE "sawRunning"]
  /\ UNCHANGED << kept, submit, shared, status, attempts, finished, flag,
                  worker, batch, threads >>

CancelPending(t) ==
  /\ cancel[t] = "sawPending"
  /\ Ends(t, "CANCELLED")
  /\ cancel' = [cancel EXCEPT ![t] = "cancelled"]
  /\ UNCHANGED << kept, submit, shared, attempts, flag, worker, batch,
                  threads >>

\* where the thread has still to look at the flag, before an attempt or after it
Watching == { "check", "waiting", "timedout", "sleeping" }

CancelRunning(t) ==
  /\ cancel[t] = "sawRunning"
  /\ flag' = [flag EXCEPT ![t] = IF @ = None THEN None ELSE TRUE]
  /\ warned' = IF flag[t] # None /\ thread[t] \in Watching
               THEN warned \cup {t} ELSE warned
  /\ cancel' = [cancel EXCEPT ![t] = "requested"]
  /\ UNCHANGED << priority, unstarted, submit, shared, status, attempts, finished,
                  worker, batch, threads >>

-----------------------------------------------------------------------------
(* The polling thread *)

\* start and stop; stop joins the thread, so start never finds it leaving
Start ==
  /\ worker = "off"
  /\ worker' = "on"
  /\ UNCHANGED << kept, callers, shared, status, attempts, finished, flag,
                  batch, threads >>

Stop ==
  /\ worker = "on"
  /\ worker' = "leaving"
  /\ UNCHANGED << kept, callers, shared, status, attempts, finished, flag,
                  batch, threads >>

LoopEnds ==
  /\ worker = "leaving" /\ batch = {}
  /\ worker' = "off"
  /\ UNCHANGED << kept, callers, shared, status, attempts, finished, flag,
                  batch, threads >>

\* positions of the tasks that can run, and of all that one batch pops: the
\* tasks that cannot run are dropped up to the next one that can
ready ==
  { i \in DOMAIN heap :
      heap[i] \in registry /\ status[heap[i]] = "PENDING" }

popped ==
  { i \in DOMAIN heap :
      Cardinality({ j \in ready : j <= i }) <= MAX_CONCURRENT }

\* mutant of ProcessBatch: the head is popped before the limit is looked at
ProcessBatch_PopsFirst ==
  /\ worker = "on" /\ batch = {} /\ popped # {}
  /\ batch' = { heap[i] : i \in ready \cap popped }
  /\ heap' = SubSeq(heap, Cardinality(popped) + 2, Len(heap))
  /\ UNCHANGED << kept, callers, registry, status, attempts, finished,
                  flag, worker, threads >>

ProcessBatch ==
  /\ worker = "on" /\ batch = {} /\ popped # {}
  /\ batch' = { heap[i] : i \in ready \cap popped }
  /\ heap' = SubSeq(heap, Cardinality(popped) + 1, Len(heap))
  /\ UNCHANGED << kept, callers, registry, status, attempts, finished,
                  flag, worker, threads >>

LaunchTask(t) ==
  /\ t \in batch
  /\ batch' = batch \ {t}
  /\ thread' = [thread EXCEPT ![t] = "started"]
  /\ UNCHANGED << kept, callers, shared, status, attempts, finished, flag,
                  worker, handlers >>

\* Thread.start raises ("can't start new thread"): the exception ends
\* _process_batch; _worker_loop logs it and goes on
LaunchFails ==
  /\ batch # {}
  /\ unstarted' = unstarted \cup batch
  /\ batch' = {}
  /\ UNCHANGED << priority, warned, callers, shared, status, attempts, finished,
                  flag, worker, threads >>

-----------------------------------------------------------------------------
(* The thread of one task: _execute_task_safe, _execute_task                 *)

ThreadAt(t, here, there) ==
  /\ thread[t] = here
  /\ thread' = [thread EXCEPT ![t] = there]

RegisterFlag(t) ==
  /\ ThreadAt(t, "started", "check")
  /\ flag' = [flag EXCEPT ![t] = FALSE]
  /\ UNCHANGED << kept, callers, shared, status, attempts, finished,
                  worker, batch, handlers >>

\* mutant of FlagIsClear: the flag is not consulted before an attempt
FlagIsClear_Unread(t) ==
  /\ attempts[t] < MaxAttempts
  /\ ThreadAt(t, "check", "cleared")
  /\ UNCHANGED << kept, callers, shared, status, attempts, finished, flag,
                  worker, batch, handlers >>

\* the head of the loop: the status is not read, only the flag
FlagIsClear(t) ==
  /\ attempts[t] < MaxAttempts /\ flag[t] = FALSE
  /\ ThreadAt(t, "check", "cleared")
  /\ UNCHANGED << kept, callers, shared, status, attempts, finished, flag,
                  worker, batch, handlers >>

\* ... and the attempt, before which a cancel may still set the flag
Attempt(t) ==
  /\ ThreadAt(t, "cleared", "waiting")
  /\ attempts' = [attempts EXCEPT ![t] = @ + 1]
  /\ SetStatus(t, "RUNNING")
  /\ handlers' = [handlers EXCEPT ![t] = @ + 1]
  /\ warned' = IF flag[t] = TRUE THEN warned \cup {t} ELSE warned
  /\ UNCHANGED << priority, unstarted, callers, shared, flag, worker, batch >>

CancelledBeforeAttempt(t) ==
  /\ attempts[t] < MaxAttempts /\ flag[t] = TRUE
  /\ ThreadAt(t, "check", "closing")
  /\ Ends(t, "CANCELLED")
  /\ UNCHANGED << kept, callers, shared, attempts, flag, worker, batch,
                  handlers >>

\* mutant of Exhausted: the loop ends and nothing is said
Exhausted_Silent(t) ==
  /\ attempts[t] >= MaxAttempts
  /\ ThreadAt(t, "check", "closing")
  /\ UNCHANGED << kept, callers, shared, status, attempts, finished, flag,
                  worker, batch, handlers >>

Exhausted(t) ==
  /\ attempts[t] >= MaxAttempts
  /\ ThreadAt(t, "check",
       IF status[t] \in TERMINAL_STATUSES THEN "closing" ELSE "exhausted")
  /\ UNCHANGED << kept, callers, shared, status, attempts, finished, flag,
                  worker, batch, handlers >>

ExhaustedFails(t) ==
  /\ ThreadAt(t, "exhausted", "closing")
  /\ Ends(t, "FAILED")
  /\ UNCHANGED << kept, callers, shared, attempts, flag, worker, batch,
                  handlers >>

\* a handler that was given up keeps running until it ends by itself
StrayHandlerEnds(t) ==
  /\ handlers[t] > IF thread[t] = "waiting" THEN 1 ELSE 0
  /\ handlers' = [handlers EXCEPT ![t] = @ - 1]
  /\ UNCHANGED << kept, callers, shared, status, attempts, finished, flag,
                  worker, batch, thread >>

TimesOut(t) ==
  /\ ThreadAt(t, "waiting", "timedout")
  /\ Ends(t, "TIMED_OUT")
  /\ UNCHANGED << kept, callers, shared, attempts, flag, worker, batch,
                  handlers >>

\* should_retry, for an error that is retryable
may_retry(t) == attempts[t] < PolicyAttempts[t]

TimeoutIsFinal(t) ==
  /\ ~may_retry(t)
  /\ ThreadAt(t, "timedout", "closing")
  /\ UNCHANGED << kept, callers, shared, status, attempts, finished, flag,
                  worker, batch, handlers >>

RetryAfterTimeout(t) ==
  /\ may_retry(t)
  /\ ThreadAt(t, "timedout", "sleeping")
  /\ SetStatus(t, "PENDING")
  /\ UNCHANGED << kept, callers, shared, attempts, flag, worker, batch,
                  handlers >>

\* the handler of the current attempt ends in time, with a result or with an
\* exception that is_retryable accepts or not
HandlerEnds(t, there) ==
  /\ ThreadAt(t, "waiting", there)
  /\ handlers' = [handlers EXCEPT ![t] = @ - 1]

ResultCancelled(t) ==
  /\ flag[t] = TRUE
  /\ HandlerEnds(t, "closing")
  /\ Ends(t, "CANCELLED")
  /\ UNCHANGED << kept, callers, shared, attempts, flag, worker, batch >>

\* mutant of ResultStands: the flag is not consulted after the execution
ResultStands_Unread(t) ==
  /\ HandlerEnds(t, "result")
  /\ UNCHANGED << kept, callers, shared, status, attempts, finished, flag,
                  worker, batch >>

ResultStands(t) ==
  /\ flag[t] = FALSE
  /\ HandlerEnds(t, "result")
  /\ UNCHANGED << kept, callers, shared, status, attempts, finished, flag,
                  worker, batch >>

\* ... and its status, before which a cancel may still set the flag
TakeResult(t) ==
  /\ ThreadAt(t, "result", "closing")
  /\ Ends(t, "SUCCEEDED")
  /\ UNCHANGED << kept, callers, shared, attempts, flag, worker, batch,
                  handlers >>

\* mutant of RetryAfterError: the task is put back into the heap as well
RetryAfterError_Requeues(t) ==
  /\ may_retry(t)
  /\ HandlerEnds(t, "sleeping")
  /\ SetStatus(t, "PENDING")
  /\ heap' = Append(heap, t)
  /\ UNCHANGED << kept, callers, registry, attempts, flag, worker, batch >>

RetryAfterError(t) ==
  /\ may_retry(t)
  /\ HandlerEnds(t, "sleeping")
  /\ SetStatus(t, "PENDING")
  /\ UNCHANGED << kept, callers, shared, attempts, flag, worker, batch >>

ErrorIsFinal(t) ==
  /\ HandlerEnds(t, "closing")
  /\ Ends(t, "FAILED")
  /\ UNCHANGED << kept, callers, shared, attempts, flag, worker, batch >>

\* mutant of Wakes: the wait has no timeout
Wakes_OnlyByFlag(t) ==
  /\ flag[t] = TRUE
  /\ ThreadAt(t, "sleeping", "check")
  /\ UNCHANGED << kept, callers, shared, status, attempts, finished, flag,
                  worker, batch, handlers >>

\* _sleep_interruptible: the delay is over or the flag is set
Wakes(t) ==
  /\ ThreadAt(t, "sleeping", "check")
  /\ UNCHANGED << kept, callers, shared, status, attempts, finished, flag,
                  worker, batch, handlers >>

DropFlag(t) ==
  /\ ThreadAt(t, "closing", "purge")
  /\ flag' = [flag EXCEPT ![t] = None]
  /\ UNCHANGED << kept, callers, shared, status, attempts, finished,
                  worker, batch, handlers >>

\* places in `finished` of the terminal tasks that are still registered
terminal ==
  { i \in DOMAIN finished :
      finished[i] \in registry /\ status[finished[i]] \in TERMINAL_STATUSES }

\* _purge_terminal_tasks: the oldest of them above the limit
PurgeTerminalTasks(t) ==
  /\ ThreadAt(t, "purge", "over")
  /\ LET excess == { i \in terminal :
                       Cardinality({ j \in terminal : j >= i }) > MAX_TERMINAL_KEPT }
     IN registry' = registry \ { finished[i] : i \in excess }
  /\ UNCHANGED << kept, callers, heap, status, attempts, finished, flag,
                  worker, batch, handlers >>

-----------------------------------------------------------------------------

CallSubmit(t) == SubmitChecks(t) \/ SubmitRegisters(t) \/ SubmitPushes(t)

CallCancel(t) == CancelReads(t) \/ CancelPending(t) \/ CancelRunning(t)

TaskThread(t) ==
  \/ RegisterFlag(t)
  \/ FlagIsClear(t) \/ Attempt(t) \/ CancelledBeforeAttempt(t)
  \/ Exhausted(t) \/ ExhaustedFails(t)
  \/ TimesOut(t) \/ TimeoutIsFinal(t) \/ RetryAfterTimeout(t)
  \/ ResultCancelled(t) \/ ResultStands(t) \/ TakeResult(t)
  \/ RetryAfterError(t) \/ ErrorIsFinal(t)
  \/ Wakes(t) \/ DropFlag(t) \/ PurgeTerminalTasks(t)

Worker == ProcessBatch \/ LoopEnds \/ LaunchFails \/ \E t \in Tasks : LaunchTask(t)

Next ==
  \/ \E t \in Tasks : \/ CallSubmit(t)
                      \/ CallCancel(t)
                      \/ TaskThread(t)
                      \/ StrayHandlerEnds(t)
  \/ Start
  \/ Stop
  \/ Worker

Spec == Init /\ [][Next]_vars

\* Threads are scheduled, done_event.wait has a timeout, and a caller that has
\* begun submit or cancel goes through with it.  Nobody has to submit or cancel
\* a task, start the engine or end a stray handler.
Fairness ==
  /\ WF_vars(Worker)
  /\ \A t \in Tasks :
       /\ WF_vars(TaskThread(t))
       /\ WF_vars(SubmitRegisters(t) \/ SubmitPushes(t))
       /\ WF_vars(CancelPending(t) \/ CancelRunning(t))

FairSpec == Spec /\ Fairness

-----------------------------------------------------------------------------
(* Safety *)

InHeap(t) == \E i \in DOMAIN heap : heap[i] = t

\* No task disappears (execution_engine.py: "Aucune tâche ne disparaît
\* silencieusement"): once submit has returned, a task that is not terminal is in
\* the heap, in the batch being launched, or held by a live thread, unless the
\* system refused it a thread.
NoLostTask ==
  \A t \in Tasks \ unstarted :
    submit[t] = "queued" /\ status[t] \notin TERMINAL_STATUSES =>
      \/ InHeap(t)
      \/ t \in batch
      \/ thread[t] \notin { "none", "closing", "purge", "over" }

\* A task that has left the heap without a thread was cancelled there and has
\* not run: _process_batch looks at the status again before it takes a task.
DroppedWasCancelled ==
  \A t \in Tasks \ unstarted :
    submit[t] = "queued" /\ ~InHeap(t) /\ t \notin batch
      /\ thread[t] = "none" =>
        status[t] = "CANCELLED" /\ attempts[t] = 0

\* A task is in at most one of the heap, the batch and the threads, and at most
\* once in the heap: it cannot be executed by two threads.
OneHolder ==
  \A t \in Tasks :
    /\ InHeap(t) => t \notin batch /\ thread[t] = "none"
    /\ t \in batch => thread[t] = "none"
    /\ Cardinality({ i \in DOMAIN heap : heap[i] = t }) <= 1

\* A cancellation that has set the flag stops the retries.  The flag is looked at
\* and the attempt counted without a lock (execution_engine.py: _execute_task), so
\* one attempt may begin with the flag set, the one for which the thread has already
\* looked; but no other ever does, through timeouts, errors and interrupted sleeps.
FlagStopsRetries ==
  [][ \A t \in warned : attempts'[t] = attempts[t] ]_vars

\* ... and a task that had its flag set while a handler was at work, or while its
\* thread slept before the next one, never ends as a success, whatever its handlers
\* return.  A flag set in the moment after the last look, as the result is taken, is
\* ignored.
FlagStopsSuccess == \A t \in warned : status[t] # "SUCCEEDED"

-----------------------------------------------------------------------------
(* Liveness *)

\* Every task that was accepted is terminal in the end, with its thread gone,
\* unless the engine has been stopped or a thread was refused in the meantime.
EventuallyTerminal ==
  \A t \in Tasks :
    submit[t] = "queued" ~>
      \/ status[t] \in TERMINAL_STATUSES /\ thread[t] \in { "none", "over" }
      \/ worker # "on"
      \/ t \in unstarted

-----------------------------------------------------------------------------
(* What a comment says and TLC refutes (README, divergences)                 *)

\* A task cancelled while PENDING is never executed (cancel: "ne sera jamais
\* exécutée").
CancelledPendingNeverRuns ==
  [][ \A t \in Tasks :
        cancel[t] = "cancelled" => attempts'[t] = attempts[t] ]_vars

=============================================================================
