---------------------------- MODULE MCSupervisor ----------------------------
(***************************************************************************)
(* Instances of Supervisor for TLC: times in half seconds.                  *)
(***************************************************************************)
EXTENDS Supervisor

TheKeys == Goals \X { "write_low", "infra", "deploy" }
TheAutoKeys == Goals \X { "write_low" }

Ask_(r, f, s) == [risk |-> r, flagged |-> f, skip |-> s]

\* one request of each treatment: ungated, gated and approved at once, gated and
\* queued, and a resumed one
TheRequests ==
  { Ask_("low", FALSE, FALSE), Ask_("medium", FALSE, FALSE),
    Ask_("high", TRUE, FALSE), Ask_("high", TRUE, TRUE),
    Ask_("critical", FALSE, FALSE) }

=============================================================================
