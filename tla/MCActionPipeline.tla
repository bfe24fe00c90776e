-------------------------- MODULE MCActionPipeline --------------------------
(***************************************************************************)
(* Instances of ActionPipeline for TLC: two missions, one of them with two   *)
(* actions.                                                                  *)
(***************************************************************************)
EXTENDS ActionPipeline, TLC

CONSTANTS m1, m2

ThePlan == m1 :> << "a1", "a2" >> @@ m2 :> << "b1" >>

=============================================================================
