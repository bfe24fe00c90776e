--------------------------- MODULE AutonomyDaemon ---------------------------
(***************************************************************************)
(* core/autonomy and api/routes/autonomy.py: a daemon thread that plans an   *)
(* action, charges its budget and has it run, until it halts, and the routes *)
(* that start, replace and stop it.  The routes are coroutines that join the *)
(* thread without an await: one is served at a time, while daemons go on.    *)
(*                                                                         *)
(* /start makes a budget tracker of its own for each daemon (it drops the    *)
(* singleton first), so both counters of a tracker are those of one daemon.  *)
(* The 24-hour window of a tracker does not roll while its daemon lives: a   *)
(* request allows at most one day.  No planner in use estimates a cost in    *)
(* dollars, and tokens are the one dimension charged.                        *)
(***************************************************************************)
EXTENDS Integers

CONSTANTS
  None,
  Daemons,           \* one for each /start that is answered "started"
  Costs,             \* estimated_tokens of the planned actions
  max_iters,
  max_tokens,        \* of a mission
  daily_max_tokens   \* BEA_AUTONOMY_DAILY_TOKENS_MAX

ASSUME AutonomyAssumption ==
  /\ None \notin Daemons
  /\ Costs \subseteq Nat
  /\ { max_iters, max_tokens, daily_max_tokens } \subseteq Nat \ { 0 }

VARIABLES
  _daemon,        \* the one the routes know of, with its thread
  route,          \* what the route being served is waiting for
  pc,             \* where the thread of each daemon is
  told,           \* the daemons whose stop event is set
  late,           \* those that have used up max_seconds
  iteration,
  mission_usage,  \* tokens charged to the mission
  daily_usage,    \* tokens charged to the day, by the daemon's tracker
  accepted,       \* history: tokens of the actions it has begun
  overrun,        \* history: actions begun since it was told to stop
  misses          \* history: missions in a row that ended in a failure

vars == << _daemon, route, pc, told, late, iteration, mission_usage,
           daily_usage, accepted, overrun, misses >>

Routes == { "idle", "replace", "stop" }
Places == { "new", "top", "planning", "running", "ended" }

TypeOK ==
  /\ _daemon \in Daemons \cup { None }
  /\ route \in Routes
  /\ pc \in [Daemons -> Places]
  /\ told \subseteq Daemons
  /\ late \subseteq Daemons
  /\ iteration \in [Daemons -> 0..max_iters]
  /\ { mission_usage, daily_usage, accepted } \subseteq [Daemons -> Nat]
  /\ { overrun, misses } \subseteq [Daemons -> 0..max_iters]

Zero == [d \in Daemons |-> 0]

Init ==
  /\ _daemon = None
  /\ route = "idle"
  /\ pc = [d \in Daemons |-> "new"]
  /\ told = {}
  /\ late = {}
  /\ iteration = Zero
  /\ mission_usage = Zero
  /\ daily_usage = Zero
  /\ accepted = Zero
  /\ overrun = Zero
  /\ misses = Zero

alive(d) == pc[d] \notin { "new", "ended" }
running == _daemon # None /\ alive(_daemon)

-----------------------------------------------------------------------------
(* The routes *)

\* a daemon with a fresh tracker, and its thread
Spawn ==
  \E d \in Daemons :
    /\ pc[d] = "new"
    /\ _daemon' = d
    /\ pc' = [pc EXCEPT ![d] = "top"]

loopVars == << late, iteration, mission_usage, daily_usage, accepted, overrun,
               misses >>

\* /start: 409 while a daemon is alive and force is not set
Start ==
  /\ route = "idle"
  /\ ~ running
  /\ Spawn
  /\ UNCHANGED << route, told, loopVars >>

\* mutant of ForceStart: the daemon that is to be replaced is only waited for
ForceStart_Joins ==
  /\ route = "idle"
  /\ running
  /\ route' = "replace"
  /\ UNCHANGED << _daemon, pc, told, loopVars >>

\* /start with force: the daemon is told to stop, and its thread is joined
ForceStart ==
  /\ route = "idle"
  /\ running
  /\ told' = told \cup { _daemon }
  /\ route' = "replace"
  /\ UNCHANGED << _daemon, pc, loopVars >>

\* the thread has ended, or five seconds have gone by
Replace ==
  /\ route = "replace"
  /\ route' = "idle"
  /\ Spawn
  /\ UNCHANGED << told, loopVars >>

\* /stop, of a daemon that is alive
Stop ==
  /\ route = "idle"
  /\ running
  /\ told' = told \cup { _daemon }
  /\ route' = "stop"
  /\ UNCHANGED << _daemon, pc, loopVars >>

\* it has ended ("stopped"), or ten seconds have gone by ("stop_signal_sent")
StopAnswers ==
  /\ route = "stop"
  /\ route' = "idle"
  /\ UNCHANGED << _daemon, pc, told, loopVars >>

-----------------------------------------------------------------------------
(* The loop: run_forever and run_once *)

routeVars == << _daemon, route, told >>

\* max_seconds go by
TimeGoesBy(d) ==
  /\ alive(d)
  /\ d \notin late
  /\ late' = late \cup { d }
  /\ UNCHANGED << routeVars, pc, iteration, mission_usage, daily_usage, accepted,
                  overrun, misses >>

Goto(d, place) == pc' = [pc EXCEPT ![d] = place]

\* mutant of halted: the loop is left to its limits
halted_Unasked(d) == d \in late \/ iteration[d] >= max_iters

\* The stop event or a limit.  The limit of three failures in a row never bites:
\* the runner never reports one (Record).
halted(d) == d \in told \/ d \in late \/ iteration[d] >= max_iters

\* halted, or paused by the environment of the process
Halt(d) ==
  /\ pc[d] = "top"
  /\ Goto(d, "ended")
  /\ UNCHANGED << routeVars, loopVars >>

Iterate(d) ==
  /\ pc[d] = "top"
  /\ ~ halted(d)
  /\ iteration' = [iteration EXCEPT ![d] = @ + 1]
  /\ Goto(d, "planning")
  /\ UNCHANGED << routeVars, late, mission_usage, daily_usage, accepted, overrun,
                  misses >>

\* mutant of PlanNothing: the iteration is given back and the loop goes on
PlanNothing_GoesOn(d) ==
  /\ pc[d] = "planning"
  /\ iteration' = [iteration EXCEPT ![d] = @ - 1]
  /\ Goto(d, "top")
  /\ UNCHANGED << routeVars, late, mission_usage, daily_usage, accepted, overrun,
                  misses >>

\* no planner of the chain has an action
PlanNothing(d) ==
  /\ pc[d] = "planning"
  /\ Goto(d, "ended")
  /\ UNCHANGED << routeVars, loopVars >>

\* mutant of within: the action is counted by the next check
within_Before(limit, usage, cost) == usage <= limit

\* _check_limit, after the cost has been added
within(limit, usage, cost) == usage + cost <= limit

\* the day is charged first, and the mission only if the day allows
charge(d, cost) ==
  /\ daily_usage' = [daily_usage EXCEPT ![d] = @ + cost]
  /\ mission_usage' =
       IF within(daily_max_tokens, daily_usage[d], cost)
       THEN [mission_usage EXCEPT ![d] = @ + cost] ELSE mission_usage

affords(d, cost) ==
  /\ within(daily_max_tokens, daily_usage[d], cost)
  /\ within(max_tokens, mission_usage[d], cost)
  /\ d \notin late

\* the planned action is charged and begun
Begin(d) ==
  /\ pc[d] = "planning"
  /\ \E cost \in Costs :
       /\ affords(d, cost)
       /\ charge(d, cost)
       /\ accepted' = [accepted EXCEPT ![d] = @ + cost]
  /\ overrun' = IF d \in told THEN [overrun EXCEPT ![d] = @ + 1] ELSE overrun
  /\ Goto(d, "running")
  /\ UNCHANGED << routeVars, late, iteration, misses >>

\* ... or refused by the budget, which it has used up all the same
Refuse(d) ==
  /\ pc[d] = "planning"
  /\ \E cost \in Costs :
       /\ ~ affords(d, cost)
       /\ charge(d, cost)
  /\ Goto(d, "ended")
  /\ UNCHANGED << routeVars, late, iteration, accepted, overrun, misses >>

\* The mission ends, as a success or as a failure, or raises.  The daemon is told
\* of a success in each case: the runner looks for "FAILED" in the place of
\* "MissionStatus.FAILED", and after an exception the composite runner asks the
\* event bus, which never fails.
Record(d) ==
  /\ pc[d] = "running"
  /\ \E success \in BOOLEAN :
       misses' = [misses EXCEPT ![d] = IF success THEN 0 ELSE @ + 1]
  /\ Goto(d, "top")
  /\ UNCHANGED << routeVars, late, iteration, mission_usage, daily_usage, accepted,
                  overrun >>

Loop(d) ==
  \/ Halt(d) \/ Iterate(d) \/ PlanNothing(d) \/ Begin(d) \/ Refuse(d) \/ Record(d)

Next ==
  \/ Start \/ ForceStart \/ Replace \/ Stop \/ StopAnswers
  \/ \E d \in Daemons : Loop(d) \/ TimeGoesBy(d)

Spec == Init /\ [][Next]_vars

\* A thread goes on: planners do not wait, and run_mission has time limits of its
\* own.  No route need be called, and max_seconds need not go by.
Fairness == \A d \in Daemons : WF_vars(Loop(d))

FairSpec == Spec /\ Fairness

-----------------------------------------------------------------------------
(* Properties *)

\* Whatever is started by force, stopped, or slow to end: of all the daemons that
\* are alive only one has not been told to stop, and it is the one that the
\* routes can still stop.
OneIsFree ==
  \A d \in Daemons : alive(d) /\ d \notin told => d = _daemon

\* A daemon that has been told to stop begins at most the action it was planning:
\* "the loop exits at the next iteration boundary" (api/routes/autonomy.py:18).
StopsSoon == \A d \in Daemons : overrun[d] <= 1

\* The actions a daemon begins cost no more than its mission and its day allow,
\* whatever else is charged, refused or started meanwhile.
WithinBudget ==
  \A d \in Daemons : accepted[d] <= max_tokens /\ accepted[d] <= daily_max_tokens

\* Every daemon that is started comes to an end by itself.
EveryDaemonEnds == \A d \in Daemons : (pc[d] # "new") ~> (pc[d] = "ended")

=============================================================================
