---------------------------- MODULE ToolBreaker ----------------------------
(***************************************************************************)
(* core/resilience/_base.py: CircuitBreaker, one circuit per tool.  Every    *)
(* operation is made under the breaker's lock and is one step.               *)
(***************************************************************************)
EXTENDS Integers, FiniteSets

CONSTANTS
  Tools,
  failure_threshold

ASSUME BreakerAssumption == failure_threshold \in Nat \ { 0 }

VARIABLES
  circuit,
  consecutive_failures,
  cooled      \* the tools whose circuit opened more than recovery_timeout ago

breakerVars == << circuit, consecutive_failures, cooled >>

CircuitStates == { "CLOSED", "OPEN", "HALF_OPEN" }

BreakerTypeOK ==
  /\ circuit \in [Tools -> CircuitStates]
  /\ consecutive_failures \in [Tools -> Nat]
  /\ cooled \subseteq Tools

\* a tool without an entry is a closed one
BreakerInit ==
  /\ circuit = [t \in Tools |-> "CLOSED"]
  /\ consecutive_failures = [t \in Tools |-> 0]
  /\ cooled = {}

\* recovery_timeout seconds have gone by since the circuit opened
Cool(t) ==
  /\ circuit[t] = "OPEN"
  /\ t \notin cooled
  /\ cooled' = cooled \cup { t }
  /\ UNCHANGED << circuit, consecutive_failures >>

can_execute(t) == circuit[t] # "OPEN" \/ t \in cooled

\* what can_execute does to a circuit that lets the call through
LetThrough(t) ==
  /\ can_execute(t)
  /\ circuit' = [circuit EXCEPT ![t] = IF @ = "OPEN" THEN "HALF_OPEN" ELSE @]
  /\ UNCHANGED << consecutive_failures, cooled >>

\* mutant of record_success: the circuit is closed and its count kept
record_success_KeepsCount(t) ==
  /\ circuit' = [circuit EXCEPT ![t] = "CLOSED"]
  /\ UNCHANGED << consecutive_failures, cooled >>

record_success(t) ==
  /\ circuit' = [circuit EXCEPT ![t] = "CLOSED"]
  /\ consecutive_failures' = [consecutive_failures EXCEPT ![t] = 0]
  /\ UNCHANGED cooled

record_failure(t) ==
  /\ consecutive_failures' = [consecutive_failures EXCEPT ![t] = @ + 1]
  /\ IF \/ circuit[t] = "HALF_OPEN"
        \/ consecutive_failures'[t] >= failure_threshold
     THEN /\ circuit' = [circuit EXCEPT ![t] = "OPEN"]
          /\ cooled' = cooled \ { t }
     ELSE UNCHANGED << circuit, cooled >>

\* A circuit lets calls through freely exactly as long as its tool has failed
\* fewer than failure_threshold times in a row: a test call that fails, or one
\* that was let through before the circuit opened, cannot leave the two apart.
CircuitCounts ==
  \A t \in Tools :
    (circuit[t] = "CLOSED") <=> (consecutive_failures[t] < failure_threshold)

=============================================================================
