-------------------------- MODULE MCWorkflowEngine --------------------------
(***************************************************************************)
(* An instance of WorkflowEngine for TLC.                                    *)
(***************************************************************************)
EXTENDS WorkflowEngine, TLC

step(depends_on, max_retries) ==
  [depends_on |-> depends_on, max_retries |-> max_retries]

\* a step that the next waits for, with a dependency that does not exist; and two
\* steps of which the first waits for the second
MCPlans ==
  { << step({}, 2), step({1, 9}, 1) >>,
    << step({2}, 1), step({}, 1) >> }

Symmetric == Permutations(Threads)

=============================================================================
