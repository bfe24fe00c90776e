------------------------- MODULE MCMissionLifecycle -------------------------
(***************************************************************************)
(* Instances of MissionLifecycle for TLC.                                   *)
(***************************************************************************)
EXTENDS MissionLifecycle, TLC

AllKinds == { "crew", "chat", "creative" }

\* every way to decide about a mission that api/v2 has submitted
V2Routes == { "v2submit", "v2approve", "v3approve", "reject", "resolve" }

\* every way to submit a mission and to decide about it
AllRoutes == { "v2submit", "v3submit", "v2approve", "v3approve", "reject",
               "resolve" }

\* ... without the approval of api/v2, which starts a run of its own
DirectRoutes == AllRoutes \ { "v2approve" }

\* the coroutine slots are interchangeable (not used where liveness is checked)
RunSymmetry == Permutations(Runs)

=============================================================================
