------------------------- MODULE AutonomyDaemonProofs -------------------------
(***************************************************************************)
(* Theorems about AutonomyDaemon, for every set of daemons and of costs and  *)
(* for every limit.                                                         *)
(***************************************************************************)
EXTENDS AutonomyDaemon, TLAPS

-----------------------------------------------------------------------------
(* The inductive invariant *)

\* a mission belongs to an iteration, and fails once
OneMissPerIteration ==
  \A d \in Daemons :
    /\ misses[d] <= iteration[d]
    /\ pc[d] \in { "planning", "running" } => misses[d] < iteration[d]

\* the action begun after the stop is the last: the loop does not plan again
LastAction ==
  \A d \in Daemons :
    /\ overrun[d] <= 1
    /\ overrun[d] > 0 => d \in told /\ pc[d] # "planning"

\* what is begun has been charged, to the mission and to the day
Charged ==
  \A d \in Daemons :
    /\ accepted[d] <= mission_usage[d]
    /\ accepted[d] <= daily_usage[d]

\* the route that replaces a daemon has told it to stop
ReplacedIsTold == route = "replace" => _daemon \in told

Inv == TypeOK /\ OneMissPerIteration /\ LastAction /\ Charged /\ WithinBudget
         /\ ReplacedIsTold /\ OneIsFree

LEMMA InitInv == Init => Inv
  BY AutonomyAssumption
  DEF Init, Inv, TypeOK, OneMissPerIteration, LastAction, Charged, WithinBudget,
      ReplacedIsTold, OneIsFree, Zero, Routes, Places, alive

-----------------------------------------------------------------------------
(* The steps *)

\* the routes change no counter, and the one thread they start is a new one
LEMMA RouteStep ==
  ASSUME Inv, Start \/ ForceStart \/ Replace \/ Stop \/ StopAnswers
  PROVE  Inv'
<1> USE AutonomyAssumption DEF Inv, TypeOK, loopVars, Routes, Places
<1>1. CASE Start
  BY <1>1 DEF Start, Spawn, running, alive, OneMissPerIteration, LastAction, Charged,
              WithinBudget, ReplacedIsTold, OneIsFree
<1>2. CASE ForceStart
  BY <1>2 DEF ForceStart, running, alive, OneMissPerIteration, LastAction, Charged,
              WithinBudget, ReplacedIsTold, OneIsFree
<1>3. CASE Replace
  BY <1>3 DEF Replace, Spawn, alive, OneMissPerIteration, LastAction, Charged,
              WithinBudget, ReplacedIsTold, OneIsFree
<1>4. CASE Stop
  BY <1>4 DEF Stop, running, alive, OneMissPerIteration, LastAction, Charged,
              WithinBudget, ReplacedIsTold, OneIsFree
<1>5. CASE StopAnswers
  BY <1>5 DEF StopAnswers, alive, OneMissPerIteration, LastAction, Charged,
              WithinBudget, ReplacedIsTold, OneIsFree
<1>6. QED
  BY <1>1, <1>2, <1>3, <1>4, <1>5

\* A charge adds the cost to the day, and to the mission when the day allows it.
LEMMA ChargeAdds ==
  ASSUME TypeOK, NEW d \in Daemons, NEW cost \in Costs, charge(d, cost)
  PROVE  /\ mission_usage' \in [Daemons -> Nat]
         /\ daily_usage' \in [Daemons -> Nat]
         /\ \A e \in Daemons : mission_usage[e] <= mission_usage'[e]
                                 /\ daily_usage[e] <= daily_usage'[e]
         /\ daily_usage'[d] = daily_usage[d] + cost
         /\ within(daily_max_tokens, daily_usage[d], cost)
              => mission_usage'[d] = mission_usage[d] + cost
<1> USE AutonomyAssumption DEF TypeOK, charge
<1>1. CASE within(daily_max_tokens, daily_usage[d], cost)
  BY <1>1
<1>2. CASE ~ within(daily_max_tokens, daily_usage[d], cost)
  BY <1>2
<1>3. QED
  BY <1>1, <1>2

\* a step of a daemon's thread keeps its counters together and frees nobody
LEMMA LoopStep ==
  ASSUME Inv, NEW d \in Daemons, Loop(d) \/ TimeGoesBy(d)
  PROVE  Inv'
<1> USE AutonomyAssumption DEF Inv, TypeOK, routeVars, Goto, Places
<1>1. CASE Halt(d)
  BY <1>1 DEF Halt, loopVars, alive, OneMissPerIteration, LastAction, Charged,
              WithinBudget, ReplacedIsTold, OneIsFree
<1>2. CASE Iterate(d)
  BY <1>2 DEF Iterate, halted, alive, OneMissPerIteration, LastAction, Charged,
              WithinBudget, ReplacedIsTold, OneIsFree
<1>3. CASE PlanNothing(d)
  BY <1>3 DEF PlanNothing, loopVars, alive, OneMissPerIteration, LastAction, Charged,
              WithinBudget, ReplacedIsTold, OneIsFree
<1>4. CASE Begin(d)
  <2>1. PICK cost \in Costs : /\ affords(d, cost)
                              /\ charge(d, cost)
                              /\ accepted' = [accepted EXCEPT ![d] = @ + cost]
    BY <1>4 DEF Begin
  <2>2. /\ pc[d] = "planning"
        /\ pc' = [pc EXCEPT ![d] = "running"]
        /\ overrun' = IF d \in told THEN [overrun EXCEPT ![d] = @ + 1] ELSE overrun
        /\ UNCHANGED << _daemon, route, told, late, iteration, misses >>
    BY <1>4 DEF Begin
  <2>3. overrun[d] = 0
    BY <2>2 DEF LastAction
  <2>4. OneMissPerIteration' /\ ReplacedIsTold' /\ OneIsFree'
    BY <2>2 DEF OneMissPerIteration, ReplacedIsTold, OneIsFree, alive
  <2>5. LastAction' /\ overrun' \in [Daemons -> 0..max_iters]
    BY <2>2, <2>3 DEF LastAction
  <2>6. /\ accepted' \in [Daemons -> Nat]
        /\ accepted'[d] = accepted[d] + cost
        /\ \A e \in Daemons \ { d } : accepted'[e] = accepted[e]
    BY <2>1
  <2>7. /\ mission_usage'[d] = mission_usage[d] + cost
        /\ daily_usage'[d] = daily_usage[d] + cost
        /\ \A e \in Daemons : mission_usage[e] <= mission_usage'[e]
                                /\ daily_usage[e] <= daily_usage'[e]
    BY <2>1, ChargeAdds DEF affords
  <2>8. mission_usage' \in [Daemons -> Nat] /\ daily_usage' \in [Daemons -> Nat]
    BY <2>1, ChargeAdds
  <2>9. ASSUME NEW e \in Daemons
        PROVE  accepted'[e] <= mission_usage'[e] /\ accepted'[e] <= daily_usage'[e]
    <3>1. CASE e = d
      BY <3>1, <2>6, <2>7 DEF Charged
    <3>2. CASE e # d
      BY <3>2, <2>6, <2>7, <2>8 DEF Charged
    <3>3. QED
      BY <3>1, <3>2
  <2>10. WithinBudget'
    BY <2>1, <2>6 DEF Charged, WithinBudget, affords, within
  <2>11. TypeOK'
    BY <2>1, <2>2, <2>5, <2>6, ChargeAdds
  <2>12. QED
    BY <2>4, <2>5, <2>9, <2>10, <2>11 DEF Charged
<1>5. CASE Refuse(d)
  <2>1. PICK cost \in Costs : charge(d, cost)
    BY <1>5 DEF Refuse
  <2>2. /\ pc[d] = "planning"
        /\ pc' = [pc EXCEPT ![d] = "ended"]
        /\ UNCHANGED << _daemon, route, told, late, iteration, accepted, overrun,
                        misses >>
    BY <1>5 DEF Refuse
  <2>3. TypeOK'
    BY <2>1, <2>2, ChargeAdds
  <2>4. OneMissPerIteration' /\ LastAction' /\ ReplacedIsTold' /\ OneIsFree'
          /\ WithinBudget'
    BY <2>2 DEF OneMissPerIteration, LastAction, ReplacedIsTold, OneIsFree,
                WithinBudget, alive
  <2>5. Charged'
    BY <2>1, <2>2, ChargeAdds DEF Charged
  <2>6. QED
    BY <2>3, <2>4, <2>5
<1>6. CASE Record(d)
  BY <1>6 DEF Record, alive, OneMissPerIteration, LastAction, Charged,
              WithinBudget, ReplacedIsTold, OneIsFree
<1>7. CASE TimeGoesBy(d)
  BY <1>7 DEF TimeGoesBy, alive, OneMissPerIteration, LastAction, Charged,
              WithinBudget, ReplacedIsTold, OneIsFree
<1>8. QED
  BY <1>1, <1>2, <1>3, <1>4, <1>5, <1>6, <1>7 DEF Loop

LEMMA InvStep == Inv /\ [Next]_vars => Inv'
<1> SUFFICES ASSUME Inv, [Next]_vars PROVE Inv'
  OBVIOUS
<1>1. CASE Start \/ ForceStart \/ Replace \/ Stop \/ StopAnswers
  BY <1>1, RouteStep
<1>2. ASSUME NEW d \in Daemons, Loop(d) \/ TimeGoesBy(d) PROVE Inv'
  BY <1>2, LoopStep
<1>3. CASE UNCHANGED vars
  BY <1>3 DEF vars, Inv, TypeOK, OneMissPerIteration, LastAction, Charged,
              WithinBudget, ReplacedIsTold, OneIsFree, alive
<1>4. QED
  BY <1>1, <1>2, <1>3 DEF Next

-----------------------------------------------------------------------------
(* The theorems *)

\* The invariant holds of every behaviour.
THEOREM Invariance == Spec => []Inv
  BY InitInv, InvStep, PTL DEF Spec

\* Whatever is started by force, stopped or slow to end, of all the daemons alive
\* only the one that the routes know of has not been told to stop
\* (api/routes/autonomy.py: start, stop).
THEOREM FreeIsKnown == Spec => []OneIsFree
<1>1. Inv => OneIsFree
  BY DEF Inv
<1>2. QED
  BY <1>1, Invariance, PTL

\* A daemon begins at most one action after it has been told to stop
\* (core/autonomy/loop.py: run_forever).
THEOREM StopIsSoon == Spec => []StopsSoon
<1>1. Inv => StopsSoon
  BY DEF Inv, LastAction, StopsSoon
<1>2. QED
  BY <1>1, Invariance, PTL

\* The actions begun by a daemon stay within the limit of its mission and of its
\* day, for every cost and every limit (core/autonomy/budget.py: charge).
THEOREM BudgetHolds == Spec => []WithinBudget
<1>1. Inv => WithinBudget
  BY DEF Inv
<1>2. QED
  BY <1>1, Invariance, PTL

=============================================================================
