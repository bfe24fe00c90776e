--------------------------- MODULE MCToolExecutor ---------------------------
(***************************************************************************)
(* Instances of ToolExecutor for TLC.                                        *)
(***************************************************************************)
EXTENDS ToolExecutor

\* No property tells one mission or one call from another: it is enough that the
\* first mission has the oldest session, and of two calls the second the gated tool
\* or, when both have the same tool, the other mission.
FirstCall == CHOOSE c \in Calls : TRUE
FirstMission == CHOOSE m \in Missions : TRUE

MCInit ==
  /\ Init
  /\ tracker[FirstMission].started_at = 1
  /\ \A c \in Calls \ { FirstCall } :
       \/ tool[FirstCall] \notin GatedTools /\ tool[c] \in GatedTools
       \/ /\ tool[c] = tool[FirstCall]
          /\ mission[FirstCall] = FirstMission \/ mission[c] # FirstMission

MCSpec == MCInit /\ [][Next]_vars /\ Fairness

=============================================================================
