---------------------------- MODULE ActionPipeline ----------------------------
(***************************************************************************)
(* core/action_queue.py, core/action_executor.py and what                    *)
(* core/mission_system.py and the routes do to the actions of a mission.     *)
(* Two threads meet here without a lock: the event loop, which enqueues,     *)
(* approves and rejects, and the daemon thread of the executor.  The status  *)
(* of an action is an attribute that both write; its row in SQLite is        *)
(* updated after that, from what the status was when the arguments of the    *)
(* statement were read.  A statement is taken to succeed (the code swallows  *)
(* the failure of one, and the row is then behind).  A submission is taken   *)
(* to approve: an action names no tool, so submit finds none that blocks it, *)
(* unless the look at the registry of capabilities raises.                   *)
(***************************************************************************)
EXTENDS Integers, FiniteSets, SequencesExt

CONSTANTS
  Missions,
  Plan,            \* the actions that the steps of each mission become, in order
  None,
  _MAX_HISTORY,    \* actions kept in memory,
  _ROTATED,        \* ... how many are dropped beyond that,
  _LOAD_LIMIT,     \* ... and how many rows a start reads
  _MAX_PER_CYCLE,
  MaxCrashes       \* bound: kills of the process

Actions == UNION { ToSet(Plan[m]) : m \in Missions }

Done == { "EXECUTED", "FAILED", "REJECTED" }
Statuses == { "PENDING", "APPROVED" } \cup Done

ASSUME PipelineAssumption ==
  /\ Plan \in [Missions -> Seq(Actions)]
  /\ \A m \in Missions : Plan[m] # << >> /\ IsInjective(Plan[m])
  /\ \A m, n \in Missions : m # n => ToSet(Plan[m]) \cap ToSet(Plan[n]) = {}
  /\ None \notin Missions \cup Statuses
  /\ { _MAX_HISTORY, _ROTATED, _LOAD_LIMIT, _MAX_PER_CYCLE } \subseteq Nat \ {0}
  /\ MaxCrashes \in Nat

VARIABLES
  status,    \* of each action object; None before it is made
  queued,    \* ActionQueue._actions
  created,   \* the actions with a row, in the order of created_at
  row,       \* the status in SQLite; None if there is no row
  mission,   \* the legacy status of each mission
  cancelled, \* decision_trace["cancelled"]
  doing,     \* what the event loop is doing to
  todo,      \* ... the actions that are left, of which it stands at the first,
  where,     \* ... at this point,
  target,    \* ... and for which mission
  batch,     \* what run_once has taken and not processed,
  current,   \* ... the action of it that is processed,
  at,        \* ... where the worker stands in it,
  verdict,   \* ... and the outcome of the action it has executed
  runs,      \* how often each action has been executed
  crashes

loopVars == << doing, todo, where, target >>
workerVars == << batch, current, at, verdict >>
missionVars == << mission, cancelled >>
vars == << status, queued, created, row, missionVars, loopVars, workerVars,
           runs, crashes >>

TypeOK ==
  /\ status \in [Actions -> Statuses \cup {None}]
  /\ queued \subseteq { a \in Actions : status[a] # None }
  /\ created \in Seq(Actions) /\ IsInjective(created)
  /\ row \in [Actions -> Statuses \cup {None}]
  /\ mission \in [Missions -> { "none", "AWAITING_APPROVAL", "APPROVED", "DONE",
                                "REJECTED" }]
  /\ cancelled \subseteq Missions
  /\ doing \in { "idle", "enqueue", "approve", "reject" }
  /\ todo \in Seq(Actions)
  /\ where \in { "look", "set", "row" }
  /\ target \in Missions \cup {None}
  /\ batch \subseteq Actions
  /\ current \in batch \cup {None}
  /\ at \in { "poll", "next", "executing", "set", "row" }
  /\ verdict \in { "EXECUTED", "FAILED", None }
  /\ runs \in [Actions -> Nat]
  /\ crashes \in 0..MaxCrashes

Init ==
  /\ status = [a \in Actions |-> None]
  /\ queued = {}
  /\ created = << >>
  /\ row = [a \in Actions |-> None]
  /\ mission = [m \in Missions |-> "none"]
  /\ cancelled = {}
  /\ doing = "idle" /\ todo = << >> /\ where = "look" /\ target = None
  /\ batch = {} /\ current = None /\ at = "poll" /\ verdict = None
  /\ runs = [a \in Actions |-> 0]
  /\ crashes = 0

-----------------------------------------------------------------------------
(* The event loop.  Its handlers do not await: they are serial among each     *)
(* other, and the worker runs between any two of their steps.                 *)

Begins(verb, actions, m) ==
  /\ doing = "idle"
  /\ doing' = verb
  /\ todo' = actions
  /\ where' = "look"
  /\ target' = m

Advances ==
  /\ todo' = Tail(todo)
  /\ where' = "look"
  /\ UNCHANGED << doing, target >>

At(verb, point) == doing = verb /\ todo # << >> /\ where = point

GoesTo(point) ==
  /\ where' = point
  /\ UNCHANGED << doing, todo, target >>

made(m) == { a \in ToSet(Plan[m]) : row[a] # None }

\* of a mission that has been saved: one for each step, none if it had to wait
action_ids(m) == IF made(m) = {} THEN << >> ELSE Plan[m]

\* MissionSystem.submit: a goal that may go on at once ...
Submit(m) ==
  /\ mission[m] = "none" /\ made(m) = {}
  /\ Begins("enqueue", Plan[m], m)
  /\ UNCHANGED << status, queued, created, row, missionVars, workerVars, runs,
                  crashes >>

\* ... and one whose risk or advisory stops it before it has actions
SubmitWaits(m) ==
  /\ doing = "idle"
  /\ mission[m] = "none" /\ made(m) = {}
  /\ mission' = [mission EXCEPT ![m] = "AWAITING_APPROVAL"]
  /\ UNCHANGED << status, queued, created, row, cancelled, loopVars, workerVars,
                  runs, crashes >>

\* the first n of S, by created_at
oldest(n, S) ==
  { created[i] : i \in
    { j \in DOMAIN created :
        created[j] \in S /\ Cardinality({ k \in 1..j : created[k] \in S }) <= n } }

\* mutant of rotate: the oldest actions, done or not
rotate_Oldest(q) ==
  IF Cardinality(q) <= _MAX_HISTORY THEN q ELSE q \ oldest(_ROTATED, q)

\* _rotate: the oldest actions that are done
rotate(q) ==
  IF Cardinality(q) <= _MAX_HISTORY THEN q
  ELSE q \ oldest(_ROTATED, { a \in q : status[a] \in Done })

\* mutant of Enqueue: the mission is saved before its actions are approved
Enqueue_SavesMission ==
  /\ At("enqueue", "look")
  /\ LET a == Head(todo) IN
     /\ status' = [status EXCEPT ![a] = "PENDING"]
     /\ queued' = rotate(queued \cup {a})
     /\ created' = Append(created, a)
     /\ row' = [row EXCEPT ![a] = "PENDING"]
  /\ IF Tail(todo) = << >>
     THEN /\ doing' = "approve"
          /\ todo' = Plan[target]
          /\ mission' = [mission EXCEPT ![target] = "APPROVED"]
          /\ UNCHANGED << where, target >>
     ELSE /\ Advances
          /\ UNCHANGED mission
  /\ UNCHANGED << cancelled, workerVars, runs, crashes >>

\* enqueue; the last action is followed by their approval
Enqueue ==
  /\ At("enqueue", "look")
  /\ LET a == Head(todo) IN
     /\ status' = [status EXCEPT ![a] = "PENDING"]
     /\ queued' = rotate(queued \cup {a})
     /\ created' = Append(created, a)
     /\ row' = [row EXCEPT ![a] = "PENDING"]
  /\ IF Tail(todo) = << >>
     THEN /\ doing' = "approve"
          /\ todo' = Plan[target]
          /\ UNCHANGED << where, target >>
     ELSE Advances
  /\ UNCHANGED << missionVars, workerVars, runs, crashes >>

\* the routes of a task; a call that finds nothing to do answers 404
ApproveTask(a) ==
  /\ a \in queued /\ status[a] = "PENDING"
  /\ Begins("approve", << a >>, None)
  /\ UNCHANGED << status, queued, created, row, missionVars, workerVars, runs,
                  crashes >>

RejectTask(a) ==
  /\ a \in queued /\ status[a] \notin Done
  /\ Begins("reject", << a >>, None)
  /\ UNCHANGED << status, queued, created, row, missionVars, workerVars, runs,
                  crashes >>

\* MissionSystem.approve: a mission that waits has no actions
ApproveMission(m) ==
  /\ doing = "idle"
  /\ mission[m] = "AWAITING_APPROVAL"
  /\ mission' = [mission EXCEPT ![m] = "APPROVED"]
  /\ UNCHANGED << status, queued, created, row, cancelled, loopVars, workerVars,
                  runs, crashes >>

\* mutant of RejectMission: the mission is saved before its actions
RejectMission_SavesFirst(m) ==
  /\ mission[m] = "APPROVED"
  /\ Begins("reject", action_ids(m), m)
  /\ mission' = [mission EXCEPT ![m] = "REJECTED"]
  /\ UNCHANGED << status, queued, created, row, cancelled, workerVars, runs,
                  crashes >>

\* MissionSystem.reject: one that waits is left alone
RejectMission(m) ==
  /\ mission[m] = "APPROVED"
  /\ Begins("reject", action_ids(m), m)
  /\ UNCHANGED << status, queued, created, row, missionVars, workerVars, runs,
                  crashes >>

\* MissionSystem.complete, when the run of the mission returns
Complete(m) ==
  /\ doing = "idle"
  /\ mission[m] = "APPROVED"
  /\ mission' = [mission EXCEPT ![m] = "DONE"]
  /\ UNCHANGED << status, queued, created, row, cancelled, loopVars, workerVars,
                  runs, crashes >>

\* MissionSystem.cancel, in a thread of the route: the actions stay as they are
Cancel(m) ==
  /\ mission[m] \in { "AWAITING_APPROVAL", "APPROVED" }
  /\ mission' = [mission EXCEPT ![m] = "REJECTED"]
  /\ cancelled' = cancelled \cup {m}
  /\ UNCHANGED << status, queued, created, row, loopVars, workerVars, runs,
                  crashes >>

-----------------------------------------------------------------------------
(* ActionQueue.approve and reject *)

Passes(verb) ==
  /\ At(verb, "look")
  /\ \/ Head(todo) \notin queued
     \/ status[Head(todo)] \in (IF verb = "approve" THEN Statuses \ {"PENDING"}
                                ELSE Done)
  /\ Advances
  /\ UNCHANGED << status, queued, created, row, missionVars, workerVars, runs,
                  crashes >>

\* nobody else writes the status of a pending action
Approves ==
  /\ At("approve", "look")
  /\ Head(todo) \in queued /\ status[Head(todo)] = "PENDING"
  /\ status' = [status EXCEPT ![Head(todo)] = "APPROVED"]
  /\ GoesTo("row")
  /\ UNCHANGED << queued, created, row, missionVars, workerVars, runs, crashes >>

LooksToReject ==
  /\ At("reject", "look")
  /\ Head(todo) \in queued /\ status[Head(todo)] \notin Done
  /\ GoesTo("set")
  /\ UNCHANGED << status, queued, created, row, missionVars, workerVars, runs,
                  crashes >>

Rejects ==
  /\ At("reject", "set")
  /\ status' = [status EXCEPT ![Head(todo)] = "REJECTED"]
  /\ GoesTo("row")
  /\ UNCHANGED << queued, created, row, missionVars, workerVars, runs, crashes >>

\* the arguments may have been read before the other thread wrote the status
Updates(a, mine) ==
  \E value \in { mine, status[a] } : row' = [row EXCEPT ![a] = value]

LoopUpdates ==
  /\ doing \in { "approve", "reject" } /\ todo # << >> /\ where = "row"
  /\ Updates(Head(todo), IF doing = "approve" THEN "APPROVED" ELSE "REJECTED")
  /\ Advances
  /\ UNCHANGED << status, queued, created, missionVars, workerVars, runs,
                  crashes >>

\* the mission is saved after its actions
Finishes ==
  /\ doing # "idle" /\ todo = << >>
  /\ doing' = "idle"
  /\ mission' = IF target = None THEN mission
                ELSE [mission EXCEPT ![target] =
                        IF doing = "approve" THEN "APPROVED" ELSE "REJECTED"]
  /\ target' = None
  /\ UNCHANGED << status, queued, created, row, cancelled, todo, where,
                  workerVars, runs, crashes >>

-----------------------------------------------------------------------------
(* The worker: _worker_loop, run_once, _process *)

approved ==
  oldest(_MAX_PER_CYCLE, { a \in queued : status[a] = "APPROVED" })

Poll ==
  /\ at = "poll"
  /\ approved # {}
  /\ batch' = approved
  /\ at' = "next"
  /\ UNCHANGED << status, queued, created, row, missionVars, loopVars, current,
                  verdict, runs, crashes >>

\* the status is not looked at again
Execute ==
  /\ at = "next"
  /\ \E a \in oldest(1, batch) :
       /\ current' = a
       /\ runs' = [runs EXCEPT ![a] = @ + 1]
  /\ at' = "executing"
  /\ UNCHANGED << status, queued, created, row, missionVars, loopVars, batch,
                  verdict, crashes >>

NextAction ==
  /\ batch' = batch \ {current}
  /\ current' = None
  /\ at' = IF batch' = {} THEN "poll" ELSE "next"
  /\ verdict' = None

\* mutant of LooksToMark: a failure is left to the next cycle
LooksToMark_Retries ==
  /\ at = "executing"
  /\ \/ /\ current \in queued /\ status[current] = "APPROVED"
        /\ at' = "set"
        /\ verdict' = "EXECUTED"
        /\ UNCHANGED << batch, current >>
     \/ NextAction
  /\ UNCHANGED << status, queued, created, row, missionVars, loopVars, runs,
                  crashes >>

\* mark_executed, mark_failed
LooksToMark ==
  /\ at = "executing"
  /\ IF current \in queued /\ status[current] = "APPROVED"
     THEN /\ at' = "set"
          /\ verdict' \in { "EXECUTED", "FAILED" }
          /\ UNCHANGED << batch, current >>
     ELSE NextAction
  /\ UNCHANGED << status, queued, created, row, missionVars, loopVars, runs,
                  crashes >>

Marks ==
  /\ at = "set"
  /\ status' = [status EXCEPT ![current] = verdict]
  /\ at' = "row"
  /\ UNCHANGED << queued, created, row, missionVars, loopVars, batch, current,
                  verdict, runs, crashes >>

WorkerUpdates ==
  /\ at = "row"
  /\ Updates(current, verdict)
  /\ NextAction
  /\ UNCHANGED << status, queued, created, missionVars, loopVars, runs, crashes >>

-----------------------------------------------------------------------------
(* A kill of the process, and the start after it: _load *)

newest ==
  { created[i] : i \in { j \in DOMAIN created : j > Len(created) - _LOAD_LIMIT } }

Restart ==
  /\ crashes < MaxCrashes
  /\ crashes' = crashes + 1
  /\ queued' = newest
  /\ status' = [a \in Actions |-> IF a \in newest THEN row[a] ELSE None]
  /\ doing' = "idle" /\ todo' = << >> /\ where' = "look" /\ target' = None
  /\ batch' = {} /\ current' = None /\ at' = "poll" /\ verdict' = None
  /\ UNCHANGED << created, row, missionVars, runs >>

-----------------------------------------------------------------------------

Routes ==
  \/ \E m \in Missions :
       \/ Submit(m) \/ SubmitWaits(m)
       \/ ApproveMission(m) \/ RejectMission(m) \/ Complete(m) \/ Cancel(m)
  \/ \E a \in Actions : ApproveTask(a) \/ RejectTask(a)

Handler ==
  \/ Enqueue
  \/ Passes("approve") \/ Approves
  \/ Passes("reject") \/ LooksToReject \/ Rejects
  \/ LoopUpdates \/ Finishes

Worker ==
  \/ Poll \/ Execute \/ LooksToMark \/ Marks \/ WorkerUpdates

Next == Routes \/ Handler \/ Worker \/ Restart

Spec == Init /\ [][Next]_vars

-----------------------------------------------------------------------------
(* Safety *)

\* An action is executed once in the life of a process, whatever is approved,
\* rejected and rotated meanwhile; only a kill can have it executed again.
RunsBounded == \A a \in Actions : runs[a] <= 1 + crashes

\* A mission that is found APPROVED, after a kill in the middle of its
\* submission too, has no action that waits for an approval of its own.
ApprovedIsNotHalf ==
  \A m \in Missions : mission[m] = "APPROVED" =>
    \A a \in made(m) : row[a] # "PENDING"

\* Rejecting a mission leaves no action that the next start would load and
\* execute for the first time.  (The statement can be no stronger: the update of
\* an approval may come after the update of the execution, and the row then
\* brings back an action that has been executed.)
RejectedIsStopped ==
  \A m \in Missions : mission[m] = "REJECTED" /\ m \notin cancelled =>
    \A a \in made(m) \cap newest : row[a] \in Done \/ runs[a] > 0

\* Every approved action is among those that the worker scans: neither the
\* rotation of another enqueue, nor a start that loads the newest rows only, takes
\* away one that a human or a submission has approved.
ApprovedIsQueued == \A a \in Actions : status[a] = "APPROVED" => a \in queued

-----------------------------------------------------------------------------
(* What a docstring says and TLC refutes (README, divergences)               *)

\* The worker executes approved actions (action_executor.py: "Worker backend qui
\* exécute automatiquement les actions APPROVED"), not one that has been
\* rejected.
ExecutesApproved ==
  [][\A a \in Actions : runs'[a] # runs[a] => status[a] = "APPROVED"]_vars

=============================================================================
