------------------------ MODULE MCOrchestrationBridge ------------------------
(***************************************************************************)
(* The lifecycle with the view of the bridge beside it, for TLC.            *)
(***************************************************************************)
EXTENDS OrchestrationBridge, TLC

AllKinds == { "crew", "chat", "creative" }

\* every route but the approval of api/v2, which starts a run of its own
DirectRoutes == { "v2submit", "v3submit", "v3approve", "reject", "resolve" }

RunSymmetry == Permutations(Runs)

=============================================================================
