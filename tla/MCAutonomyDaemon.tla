-------------------------- MODULE MCAutonomyDaemon --------------------------
(***************************************************************************)
(* Instances of AutonomyDaemon for TLC, and two statements of the guide.     *)
(***************************************************************************)
EXTENDS AutonomyDaemon, FiniteSetsExt

\* "Hard daily budget caps via env vars" (docs/AUTONOMY.md:14): the actions begun
\* by all daemons together, in a behaviour that is shorter than a day, cost no
\* more than the daily limit (refuted by TLC: README, divergences).
DailyCap ==
  MapThenSumSet(LAMBDA d : accepted[d], Daemons) <= daily_max_tokens

\* "The daemon halts as soon as ANY limit is hit" (docs/AUTONOMY.md:129), three
\* failures in a row being one of them: no daemon begins another action after
\* three missions that failed (refuted by TLC: README, divergences).
FailuresHalt == \A d \in Daemons : misses[d] >= 3 => pc[d] # "running"

=============================================================================
