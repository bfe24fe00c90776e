--------------------------- MODULE DurableRecords ---------------------------
(***************************************************************************)
(* What core/meta_orchestrator.py and its recovery rely on when they persist *)
(* the context of a mission: one call changes the record of one mission, and *)
(* of others drops those that have ended; and the next process finds all the *)
(* records as they were when a call last saved them, whole.  A call finds    *)
(* what the one before it did saved, unless that save failed: failures are   *)
(* logged and the process goes on with what it has.                          *)
(***************************************************************************)
CONSTANTS Ids, Records, Ended, None

VARIABLES
  mem,    \* the records of the process
  disk,   \* what a new process would load
  behind  \* whether a save has failed and none has succeeded since

vars == << mem, disk, behind >>

Init ==
  /\ mem = [m \in Ids |-> None]
  /\ disk = mem
  /\ behind = FALSE

Change(m) ==
  /\ disk = mem \/ behind
  /\ mem' \in [Ids -> Records \cup {None}]
  /\ \A n \in Ids \ {m} :
       mem'[n] = mem[n] \/ (mem[n] \in Ended /\ mem'[n] = None)
  /\ UNCHANGED << disk, behind >>

Save ==
  /\ disk' = mem
  /\ behind' = FALSE
  /\ UNCHANGED mem

Fail ==
  /\ behind' = TRUE
  /\ UNCHANGED << mem, disk >>

Restart ==
  /\ mem' = disk
  /\ behind' = FALSE
  /\ UNCHANGED disk

Next == Save \/ Fail \/ Restart \/ \E m \in Ids : Change(m)

Spec == Init /\ [][Next]_vars

=============================================================================
