--------------------------- MODULE MissionContract ---------------------------
(***************************************************************************)
(* What the orchestrator promises of a mission to those who read its        *)
(* persisted status (the routes of api/routes/mission_persistence.py, and   *)
(* the start of the server): a mission is taken up once, works or waits,    *)
(* goes from waiting back to work only with a grant, is closed once and for *)
(* all, and a crew is at work only for a mission that is open, one crew at  *)
(* a time.  A kill takes all of it back to the last write that succeeded.   *)
(***************************************************************************)
CONSTANT Missions

VARIABLES
  phase,    \* what the record says of each mission
  saved,    \* ... and what the file says
  working,  \* missions that a crew executes
  granted   \* missions that a human has approved

vars == << phase, saved, working, granted >>

Phases == { "new", "open", "waiting", "closed" }

TypeOK ==
  /\ phase \in [Missions -> Phases]
  /\ saved \in [Missions -> Phases]
  /\ working \in SUBSET Missions
  /\ granted \in SUBSET Missions

Init ==
  /\ phase = [m \in Missions |-> "new"]
  /\ saved = phase
  /\ working = {}
  /\ granted = {}

\* a record is written whole, to a file that may refuse the write
Move(m, from, to) ==
  /\ phase[m] = from
  /\ phase' = [phase EXCEPT ![m] = to]
  /\ saved' \in { saved, phase' }

Grant(m) ==
  /\ granted' = granted \cup {m}
  /\ UNCHANGED << phase, saved, working >>

\* PLANNED is the first status on disk; an open circuit breaker closes at once
TakeUp(m) ==
  /\ Move(m, "new", "open") \/ Move(m, "new", "closed")
  /\ UNCHANGED << working, granted >>

Work(m) ==
  /\ phase[m] = "open" /\ m \notin working
  /\ working' = working \cup {m}
  /\ UNCHANGED << phase, saved, granted >>

\* the crew stops: with a result, which leaves the mission open for its review,
\* or without, and may then start over
Rest(m) ==
  /\ m \in working
  /\ working' = working \ {m}
  /\ Move(m, "open", "open")
  /\ UNCHANGED granted

Pause(m) ==
  /\ Move(m, "open", "waiting") /\ m \notin working
  /\ UNCHANGED << working, granted >>

Resume(m) ==
  /\ m \in granted
  /\ Move(m, "waiting", "open")
  /\ UNCHANGED << working, granted >>

\* ... and refused at once, after the resumption was saved
Refuse(m) ==
  /\ m \in granted /\ phase[m] = "waiting"
  /\ phase' = [phase EXCEPT ![m] = "closed"]
  /\ saved' \in { saved, [phase EXCEPT ![m] = "open"], phase' }
  /\ UNCHANGED << working, granted >>

CloseMission(m) ==
  /\ Move(m, "open", "closed") \/ Move(m, "waiting", "closed")
  /\ working' = working \ {m}
  /\ UNCHANGED granted

\* a write that changes nothing of what was promised
Rewrite ==
  /\ saved' = phase
  /\ UNCHANGED << phase, working, granted >>

\* the start of the server closes what was open, as far as the file lets it
Sweep ==
  LET closing(ms) == [m \in Missions |-> IF m \in ms THEN "closed" ELSE phase[m]]
      open == { m \in Missions : phase[m] = "open" }
  IN /\ working = {}
     /\ phase' = closing(open)
     /\ \E ms \in SUBSET open : saved' = closing(ms)
     /\ UNCHANGED << working, granted >>

\* a kill stops all work and forgets what was not saved
Halt ==
  /\ phase' = saved
  /\ working' = {}
  /\ UNCHANGED << saved, granted >>

Advance ==
  \/ \E m \in Missions : \/ Grant(m) \/ TakeUp(m) \/ Work(m) \/ Rest(m)
                         \/ Pause(m) \/ Resume(m) \/ Refuse(m)
                         \/ CloseMission(m)
  \/ Rewrite
  \/ Sweep

Next == Advance \/ Halt

Spec == Init /\ [][Next]_vars

=============================================================================
