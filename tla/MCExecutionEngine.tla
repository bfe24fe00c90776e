-------------------------- MODULE MCExecutionEngine --------------------------
(***************************************************************************)
(* An instance of ExecutionEngine for TLC: the policy of one task allows as  *)
(* many attempts as the task, that of the other allows more.                 *)
(***************************************************************************)
EXTENDS ExecutionEngine, TLC

CONSTANTS t1, t2

ThePolicies == t1 :> 2 @@ t2 :> 3

=============================================================================
