--------------------------- MODULE MCMissionStore ---------------------------
(***************************************************************************)
(* Instances of MissionStore for TLC: with one thread, and with two.         *)
(***************************************************************************)
EXTENDS MissionStore

=============================================================================
