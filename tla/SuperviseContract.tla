-------------------------- MODULE SuperviseContract --------------------------
(***************************************************************************)
(* What run_execution relies on when it awaits supervise                     *)
(* (core/orchestration/execution_supervised_runner.py), and what the gate    *)
(* and exec steps of MissionLifecycle take supervise to be: a call that ends *)
(* once, that executes nothing for a high risk it has to show the gate, and  *)
(* that executes a high risk at most once.                                   *)
(***************************************************************************)
EXTENDS Naturals

CONSTANT Calls

VARIABLES
  phase,   \* of each call
  worked,  \* how often its goal has been executed
  gated,   \* calls that must pass the gate,
  risky,   \* ... that show it a high or a critical risk,
  once     \* ... that execute one

vars == << phase, worked, gated, risky, once >>

arguments == << gated, risky, once >>

Init ==
  /\ phase = [c \in Calls |-> "supervise"]
  /\ worked = [c \in Calls |-> 0]
  /\ gated \in SUBSET Calls
  /\ risky \in SUBSET Calls
  /\ once \in SUBSET Calls

Move(c, from, to) ==
  /\ phase[c] = from
  /\ phase' = [phase EXCEPT ![c] = to]
  /\ UNCHANGED << worked, arguments >>

\* the mission was completed by the fast path in the meantime
SkipCompleted(c) == Move(c, "supervise", "succeeded")

Supervise(c) == Move(c, "supervise", IF c \in gated THEN "gate" ELSE "exec")

GateOpens(c) == c \notin risky /\ Move(c, "gate", "exec")

GateWaits(c) == c \in risky /\ Move(c, "gate", "awaiting")

GateFails(c) == c \in risky /\ Move(c, "gate", "failed")

Work(c) ==
  /\ phase[c] = "exec"
  /\ c \in once => worked[c] = 0
  /\ worked' = [worked EXCEPT ![c] = @ + 1]
  /\ UNCHANGED << phase, arguments >>

ExecEnds(c) ==
  /\ worked[c] > 0
  /\ Move(c, "exec", "succeeded") \/ Move(c, "exec", "failed")

\* a cancellation leaves supervise as an exception
Interrupted(c) == Move(c, "gate", "interrupted") \/ Move(c, "exec", "interrupted")

Next ==
  \E c \in Calls :
    \/ SkipCompleted(c) \/ Supervise(c)
    \/ GateOpens(c) \/ GateWaits(c) \/ GateFails(c)
    \/ Work(c) \/ ExecEnds(c) \/ Interrupted(c)

Spec == Init /\ [][Next]_vars

=============================================================================
