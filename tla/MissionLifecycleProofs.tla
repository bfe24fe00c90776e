------------------------ MODULE MissionLifecycleProofs ------------------------
(***************************************************************************)
(* Theorems about MissionLifecycle, for every number of missions and        *)
(* coroutines, every set of routes and any number of crashes.                *)
(* Part 1 is about all the routes; NoGhostRecords is for a recovery that     *)
(* does not fail.  Parts 2 and 3 are without the approval route of v2, which *)
(* starts a run of its own beside the one that resolve_approval makes: one   *)
(* coroutine then runs a mission, its record agrees with its context, a      *)
(* pause can be resolved, and the whole implements MissionContract.          *)
(***************************************************************************)
EXTENDS MissionLifecycle, TLAPS

-----------------------------------------------------------------------------
(* PART 1.  Every route                                                      *)

-----------------------------------------------------------------------------
(* The inductive invariant *)

\* a coroutine that has been scheduled has a mission, until it is over
HasMission ==
  \A r \in Runs : pc[r] \notin { "idle", "over" } => of[r] \in Missions

\* approval is never assumed: a run that skips the gate, or will skip it, is
\* for a mission that a human has approved; a free slot skips nothing
ForcedIsGranted ==
  \A r \in Runs :
    /\ \/ forced[r]
       \/ pc[r] = "queued" /\ job[r] \in { "grant", "resume" }
       => of[r] \in granted
    /\ pc[r] = "idle" => ~forced[r]

\* a coroutine that has not begun has no context yet and has resumed none
FreshIsEmpty ==
  \A r \in Runs :
    pc[r] \in { "idle", "queued" } => status[r] = None /\ resumed[r] = None

\* the context that a decision resumed belongs to a coroutine that has ended
ResumedIsOver ==
  \A r \in Runs : resumed[r] \in Runs => pc[resumed[r]] \in { "return", "over" }

\* as long as every write of the file has succeeded it says what the store says
SavedIsCurrent == failures = 0 => saved = record

\* while the process is down no coroutine exists
DownIsIdle == server = "down" => \A r \in Runs : pc[r] = "idle"

Inv == TypeOK /\ HasMission /\ ForcedIsGranted /\ HighRiskNeedsGrant
         /\ NoRefusedTransition /\ DownIsIdle
         /\ FreshIsEmpty /\ ResumedIsOver /\ SavedIsCurrent

LEMMA InitInv == Init => Inv
<1> SUFFICES ASSUME Init PROVE Inv
  OBVIOUS
<1> USE LifecycleAssumption DEF Init
<1>1. TypeOK
  BY DEF TypeOK, Closed, Contexts, Pcs
<1>2. HasMission /\ ForcedIsGranted /\ HighRiskNeedsGrant
        /\ NoRefusedTransition /\ DownIsIdle
        /\ FreshIsEmpty /\ ResumedIsOver /\ SavedIsCurrent
  BY DEF HasMission, ForcedIsGranted, HighRiskNeedsGrant, NoRefusedTransition,
         DownIsIdle, active, Awaits, FreshIsEmpty, ResumedIsOver, SavedIsCurrent,
         Contexts
<1>3. QED
  BY <1>1, <1>2 DEF Inv

Tables == [Missions -> MissionStatus \cup {None}]

LEMMA WriteTyping ==
  ASSUME TypeOK, NEW table \in Tables, NEW earlier \in SUBSET Tables,
         Write(table, earlier)
  PROVE  /\ record' \in Tables /\ saved' \in Tables
         /\ failures' \in 0..MaxFailures
  BY LifecycleAssumption DEF TypeOK, Tables, Write

LEMMA BeginTyping ==
  ASSUME TypeOK, NEW r \in Runs, NEW m \in Missions, NEW b \in BOOLEAN,
         NEW st \in [Contexts -> MissionStatus \cup {None}],
         NEW rec \in Tables,
         Begin(r, m, b, st, rec)
  PROVE  /\ registry' \in [Missions -> Contexts \cup {None}]
         /\ forced' \in [Runs -> BOOLEAN]
         /\ status' \in [Contexts -> MissionStatus \cup {None}]
         /\ record' \in Tables /\ saved' \in Tables
         /\ failures' \in 0..MaxFailures
         /\ pc' \in [Runs -> Pcs]
         /\ breaker' \in [failures : 0..FailureThreshold, open : BOOLEAN]
<1>1. Closed \in [failures : 0..FailureThreshold, open : BOOLEAN]
  BY LifecycleAssumption DEF Closed
<1>2. r \in Contexts /\ { "CREATED", "FAILED" } \subseteq MissionStatus
        /\ { "return", "planning" } \subseteq Pcs
  BY DEF Contexts, MissionStatus, Pcs, Awaits
<1>3. record \in Tables /\ saved \in Tables
  BY DEF TypeOK, Tables
<1>4. record' \in Tables /\ saved' \in Tables /\ failures' \in 0..MaxFailures
  <2>1. [rec EXCEPT ![m] = "FAILED"] \in Tables
    BY <1>2 DEF Tables
  <2>2. \/ Write([rec EXCEPT ![m] = "FAILED"],
                 IF rec = record THEN {saved} ELSE { saved, rec })
        \/ UNCHANGED recordVars
        \/ Write(rec, {saved})
    BY DEF Begin, Persist
  <2>3. CASE UNCHANGED recordVars
    BY <1>3, <2>3 DEF recordVars, TypeOK
  <2> QED
    BY <1>3, <2>1, <2>2, <2>3, WriteTyping
<1>5. QED
  BY <1>1, <1>2, <1>4 DEF TypeOK, Begin, Goto

LEMMA TypingStep == TypeOK /\ HasMission /\ [Next]_vars => TypeOK'
<1> SUFFICES ASSUME TypeOK, HasMission, [Next]_vars PROVE TypeOK'
  OBVIOUS
<1> USE LifecycleAssumption DEF TypeOK, goals, runVars, task, recordVars, legacyVars, At, Goto
<1>1. ASSUME NEW m \in Missions, Decide(m) PROVE TypeOK'
  <2> USE DEF Schedule, SetLegacy, ms_approve, ms_reject, Pcs, Jobs,
              LegacyStatus, LegacyPending
  <2>1. ASSUME NEW r \in Runs, Submit(m, r, "v2submit") \/ Submit(m, r, "v3submit")
       PROVE TypeOK'
    BY <2>1 DEF Submit
  <2>2. ASSUME NEW r \in Runs, ApproveV3(m, r)
       PROVE TypeOK'
    BY <2>2 DEF ApproveV3
  <2>3. ASSUME NEW r \in Runs, Reject(m, r)
       PROVE TypeOK'
    BY <2>3 DEF Reject
  <2>4. ASSUME NEW r \in Runs, ResolveRoute(m, r, "grant") \/ ResolveRoute(m, r, "deny")
       PROVE TypeOK'
    BY <2>4 DEF ResolveRoute
  <2>5. ASSUME NEW r1 \in Runs, NEW r2 \in Runs, ApproveV2(m, r1, r2)
       PROVE TypeOK'
    BY <2>5 DEF ApproveV2
  <2>6. QED
    BY <1>1, <2>1, <2>2, <2>3, <2>4, <2>5 DEF Decide
<1>2. ASSUME NEW r \in Runs, Step(r) PROVE TypeOK'
  <2>0. pc[r] = "queued" => of[r] \in Missions
    BY DEF HasMission
  <2> USE DEF Pcs, Awaits, Contexts, Transition, Persist, Write, MissionStatus, Leave,
              Closed, Tables, Succeed, Fail, breaker_record_success, breaker_record_failure,
              HasMission, LegacyStatus, LegacyPending, SetLegacy
  <2>1. CASE StartSubmitted(r)
    BY <2>1, <2>0, BeginTyping DEF StartSubmitted
  <2>2. CASE StartResume(r)
    BY <2>2, <2>0, BeginTyping DEF StartResume
  <2>3. CASE StartGrant(r)
    <3> DEFINE c == approval_context(of[r])
               st == [status EXCEPT ![c] = "RUNNING"]
               rec == [record EXCEPT ![of[r]] = "RUNNING"]
    <3>1. /\ st \in [Contexts -> MissionStatus \cup {None}]
          /\ rec \in Tables
      OBVIOUS
    <3>2. /\ Begin(r, of[r], TRUE, st, rec)
          /\ resumed' = [resumed EXCEPT ![r] = c]
          /\ UNCHANGED << goals, job, of, cog, blocked, legacyVars, server, crashes,
                          granted >>
      BY <2>3 DEF StartGrant, Reopen
    <3>3. c \in Contexts \cup {None} /\ of[r] \in Missions
      BY <2>0, <2>3 DEF StartGrant, approval_context
    <3> HIDE DEF st, rec, c, TypeOK
    <3>4. /\ registry' \in [Missions -> Contexts \cup {None}]
          /\ forced' \in [Runs -> BOOLEAN]
          /\ status' \in [Contexts -> MissionStatus \cup {None}]
          /\ record' \in Tables /\ saved' \in Tables
          /\ failures' \in 0..MaxFailures
          /\ pc' \in [Runs -> Pcs]
          /\ breaker' \in [failures : 0..FailureThreshold, open : BOOLEAN]
      BY <3>1, <3>2, <3>3, BeginTyping
    <3>5. resumed' \in [Runs -> Contexts \cup {None}]
      BY <3>2, <3>3 DEF TypeOK
    <3>6. QED
      BY <3>2, <3>4, <3>5 DEF TypeOK
  <2>4. CASE StartDeny(r)
    BY <2>4 DEF StartDeny, approval_status, approval_context
  <2>5. CASE NotAwaiting(r)
    BY <2>5 DEF NotAwaiting
  <2>6. CASE Plan(r)
    BY <2>6 DEF Plan
  <2>7. CASE Launch(r)
    BY <2>7 DEF Launch
  <2>8. CASE CreativeAnswers(r)
    BY <2>8 DEF CreativeAnswers
  <2>9. CASE Close(r)
    BY <2>9 DEF Close
  <2>10. CASE CreativeFails(r)
    BY <2>10 DEF CreativeFails
  <2>11. CASE ChatAnswers(r)
    BY <2>11 DEF ChatAnswers
  <2>12. CASE ChatFails(r)
    BY <2>12 DEF ChatFails
  <2>13. CASE SkipCompleted(r)
    BY <2>13 DEF SkipCompleted
  <2>14. CASE Supervise(r)
    BY <2>14 DEF Supervise
  <2>15. CASE GateOpens(r)
    BY <2>15 DEF GateOpens
  <2>16. CASE GateWaits(r)
    BY <2>16 DEF GateWaits
  <2>17. CASE GateFails(r)
    BY <2>17 DEF GateFails
  <2>18. CASE ExecSucceeds(r)
    BY <2>18 DEF ExecSucceeds
  <2>19. CASE ExecFails(r)
    BY <2>19 DEF ExecFails
  <2>20. CASE CognitionLost(r)
    BY <2>20 DEF CognitionLost
  <2>21. CASE Retry(r)
    BY <2>21 DEF Retry
  <2>22. CASE RetryEnds(r)
    BY <2>22 DEF RetryEnds
  <2>23. CASE Finish(r)
    BY <2>23 DEF Finish
  <2>24. CASE Stored(r) \/ StoringCancelled(r)
    BY <2>24 DEF Stored, StoringCancelled
  <2>25. CASE Abort(r)
    BY <2>25 DEF Abort, Interruptible
  <2>26. CASE Return(r)
    BY <2>26 DEF Return, complete, paused, completes
  <2>27. ASSUME NEW refused \in BOOLEAN, NEW other \in BOOLEAN,
               \/ ChatRefused(r, refused, other)
               \/ ChatTries(r, refused, other)
               \/ Prepare(r, refused, other)
       PROVE TypeOK'
    BY <2>27 DEF ChatRefused, ChatTries, Prepare, aligned
  <2>28. QED
    BY <1>2, <2>1, <2>2, <2>3, <2>4, <2>5, <2>6, <2>7, <2>8, <2>9, <2>10, <2>11, <2>12, <2>13, <2>14, <2>15, <2>16, <2>17, <2>18, <2>19, <2>20, <2>21, <2>22, <2>23, <2>24, <2>25, <2>26, <2>27 DEF Step, Start
<1>3. CASE Crash
  BY <1>3 DEF Crash, Closed, Pcs, Contexts
<1>4. CASE Boot /\ Recover
  <2>1. \A ms : failing(ms) \in Tables
    BY DEF failing, Tables, MissionStatus
  <2>2. saved \in Tables
    BY DEF Tables
  <2>3. record' \in Tables /\ saved' \in Tables /\ failures' \in 0..MaxFailures
    <3> HIDE DEF TypeOK
    <3> QED
      BY <1>4, <2>1, <2>2, WriteTyping DEF Recover
  <2> QED
    BY <1>4, <2>3 DEF Boot, Recover, MissionStatus, Contexts, Tables
<1>5. CASE Boot /\ Unrecovered
  BY <1>5 DEF Boot, Unrecovered
<1>6. CASE UNCHANGED vars
  BY <1>6 DEF vars
<1>7. QED
  BY <1>1, <1>2, <1>3, <1>4, <1>5, <1>6 DEF Next, Boot

\* A step of one coroutine leaves the others where they are, and does not touch
\* the context of one that is under way: StartGrant and StartDeny write another
\* run's context, but only one that awaits approval, and StoringCancelled one that
\* has been resumed.
Elsewhere(r2) ==
  /\ pc'[r2] = pc[r2] /\ job'[r2] = job[r2] /\ of'[r2] = of[r2]
  /\ forced'[r2] = forced[r2] /\ resumed'[r2] = resumed[r2]
  /\ active(r2) => status'[r2] = status[r2]
  /\ pc[r2] \in { "idle", "queued" } => status'[r2] = status[r2]
  /\ UNCHANGED << goals, granted >>

LEMMA StepIsLocal ==
  ASSUME TypeOK, NoRefusedTransition, FreshIsEmpty, ResumedIsOver,
         NEW r \in Runs, Step(r), NEW r2 \in Runs, r2 # r
  PROVE  Elsewhere(r2)
<1> USE LifecycleAssumption, NoneAssumption
    DEF TypeOK, NoRefusedTransition, expected_status, Elsewhere, active, Awaits,
        FreshIsEmpty, ResumedIsOver, MissionStatus, goals, task, At, Goto, Leave, Transition, Contexts, Succeed, Fail
<1>1. CASE StartSubmitted(r)
  BY <1>1 DEF StartSubmitted, Begin
<1>2. CASE StartResume(r)
  BY <1>2 DEF StartResume, Begin
<1>3. CASE StartGrant(r)
  BY <1>3 DEF StartGrant, Reopen, Begin, approval_status, approval_context
<1>4. CASE StartDeny(r)
  BY <1>4 DEF StartDeny, approval_status, approval_context
<1>5. CASE NotAwaiting(r)
  BY <1>5 DEF NotAwaiting
<1>6. CASE Plan(r)
  BY <1>6 DEF Plan
<1>7. CASE Launch(r)
  BY <1>7 DEF Launch
<1>8. CASE CreativeAnswers(r)
  BY <1>8 DEF CreativeAnswers
<1>9. CASE Close(r)
  BY <1>9 DEF Close
<1>10. CASE CreativeFails(r)
  BY <1>10 DEF CreativeFails
<1>11. CASE ChatAnswers(r)
  BY <1>11 DEF ChatAnswers
<1>12. CASE ChatFails(r)
  BY <1>12 DEF ChatFails
<1>13. CASE SkipCompleted(r)
  BY <1>13 DEF SkipCompleted
<1>14. CASE Supervise(r)
  BY <1>14 DEF Supervise
<1>15. CASE GateOpens(r)
  BY <1>15 DEF GateOpens
<1>16. CASE GateWaits(r)
  BY <1>16 DEF GateWaits
<1>17. CASE GateFails(r)
  BY <1>17 DEF GateFails
<1>18. CASE ExecSucceeds(r)
  BY <1>18 DEF ExecSucceeds
<1>19. CASE ExecFails(r)
  BY <1>19 DEF ExecFails
<1>20. CASE CognitionLost(r)
  BY <1>20 DEF CognitionLost
<1>21. CASE Retry(r)
  BY <1>21 DEF Retry
<1>22. CASE RetryEnds(r)
  BY <1>22 DEF RetryEnds
<1>23. CASE Finish(r)
  BY <1>23 DEF Finish
<1>24. CASE Stored(r) \/ StoringCancelled(r)
  BY <1>24 DEF Stored, StoringCancelled
<1>25. CASE Abort(r)
  BY <1>25 DEF Abort
<1>26. CASE Return(r)
  BY <1>26 DEF Return
<1>27. ASSUME NEW refused \in BOOLEAN, NEW other \in BOOLEAN,
            \/ ChatRefused(r, refused, other)
            \/ ChatTries(r, refused, other)
            \/ Prepare(r, refused, other)
     PROVE Elsewhere(r2)
  BY <1>27 DEF ChatRefused, ChatTries, Prepare, aligned
<1>28. QED
  BY <1>1, <1>2, <1>3, <1>4, <1>5, <1>6, <1>7, <1>8, <1>9, <1>10,
     <1>11, <1>12, <1>13, <1>14, <1>15, <1>16, <1>17, <1>18, <1>19,
     <1>20, <1>21, <1>22, <1>23, <1>24, <1>25, <1>26, <1>27
  DEF Step, Start

\* What the invariant says of one coroutine, in the next state
Fine(r) ==
  /\ pc'[r] \notin { "idle", "over" } => of'[r] \in Missions
  /\ forced'[r] => of'[r] \in granted'
  /\ pc'[r] \notin { "idle", "queued" } /\ server' = "up"
  /\ pc'[r] = "exec" /\ risk'[of'[r]] = "high" => of'[r] \in granted'
  /\ pc'[r] \in Awaits => status'[r] = expected_status(pc'[r])
  /\ resumed'[r] \in Runs =>
       resumed'[r] # r /\ pc[resumed'[r]] \in { "return", "over" }

\* once run_mission has returned the coroutine can only end
LEMMA ReturnsOnly ==
  ASSUME TypeOK, NEW r \in Runs, Step(r), pc[r] \in { "return", "over" }
  PROVE  pc'[r] = "over"
<1>1. CASE Return(r)
  BY <1>1 DEF Return, Leave, Goto, TypeOK
<1> QED
  BY <1>1
  DEF Step, Start, StartSubmitted, StartResume, StartGrant, StartDeny, NotAwaiting,
      Plan, Launch, CreativeAnswers, Close, CreativeFails, ChatRefused, ChatTries,
      Prepare, ChatAnswers, ChatFails, SkipCompleted, Supervise, GateOpens,
      GateWaits, GateFails, ExecSucceeds, ExecFails, CognitionLost, Retry,
      RetryEnds, Finish, Stored, StoringCancelled, Abort, Interruptible, At

LEMMA StepIsFine ==
  ASSUME Inv, NEW r \in Runs, Step(r)
  PROVE  Fine(r)
<1> USE LifecycleAssumption, NoneAssumption
    DEF Inv, TypeOK, HasMission, ForcedIsGranted, HighRiskNeedsGrant,
        NoRefusedTransition, FreshIsEmpty, ResumedIsOver, expected_status, Fine,
        active, Awaits, goals, task, At, Goto, Leave, Transition, Contexts, Succeed, Fail
<1>1. CASE StartSubmitted(r)
  BY <1>1 DEF StartSubmitted, Begin
<1>2. CASE StartResume(r)
  BY <1>2 DEF StartResume, Begin
<1>3. CASE StartGrant(r)
  BY <1>3 DEF StartGrant, Reopen, Begin, approval_status, approval_context
<1>4. CASE StartDeny(r)
  BY <1>4 DEF StartDeny, approval_status, approval_context
<1>5. CASE NotAwaiting(r)
  BY <1>5 DEF NotAwaiting
<1>6. CASE Plan(r)
  BY <1>6 DEF Plan
<1>7. CASE Launch(r)
  BY <1>7 DEF Launch
<1>8. CASE CreativeAnswers(r)
  BY <1>8 DEF CreativeAnswers
<1>9. CASE Close(r)
  BY <1>9 DEF Close
<1>10. CASE CreativeFails(r)
  BY <1>10 DEF CreativeFails
<1>11. CASE ChatAnswers(r)
  BY <1>11 DEF ChatAnswers
<1>12. CASE ChatFails(r)
  BY <1>12 DEF ChatFails
<1>13. CASE SkipCompleted(r)
  BY <1>13 DEF SkipCompleted
<1>14. CASE Supervise(r)
  BY <1>14 DEF Supervise, gated, needs_approval
<1>15. CASE GateOpens(r)
  BY <1>15 DEF GateOpens, gate_risk
<1>16. CASE GateWaits(r)
  BY <1>16 DEF GateWaits
<1>17. CASE GateFails(r)
  BY <1>17 DEF GateFails
<1>18. CASE ExecSucceeds(r)
  BY <1>18 DEF ExecSucceeds
<1>19. CASE ExecFails(r)
  BY <1>19 DEF ExecFails
<1>20. CASE CognitionLost(r)
  BY <1>20 DEF CognitionLost
<1>21. CASE Retry(r)
  BY <1>21 DEF Retry
<1>22. CASE RetryEnds(r)
  BY <1>22 DEF RetryEnds
<1>23. CASE Finish(r)
  BY <1>23 DEF Finish
<1>24. CASE Stored(r) \/ StoringCancelled(r)
  BY <1>24 DEF Stored, StoringCancelled
<1>25. CASE Abort(r)
  BY <1>25 DEF Abort, Interruptible
<1>26. CASE Return(r)
  BY <1>26 DEF Return
<1>27. ASSUME NEW refused \in BOOLEAN, NEW other \in BOOLEAN,
            \/ ChatRefused(r, refused, other)
            \/ ChatTries(r, refused, other)
            \/ Prepare(r, refused, other)
     PROVE Fine(r)
  BY <1>27 DEF ChatRefused, ChatTries, Prepare, aligned
<1>28. QED
  BY <1>1, <1>2, <1>3, <1>4, <1>5, <1>6, <1>7, <1>8, <1>9, <1>10,
     <1>11, <1>12, <1>13, <1>14, <1>15, <1>16, <1>17, <1>18, <1>19,
     <1>20, <1>21, <1>22, <1>23, <1>24, <1>25, <1>26, <1>27
  DEF Step, Start

\* the file falls behind only by a write that fails
LEMMA SavedStep ==
  ASSUME Inv, [Next]_vars
  PROVE  SavedIsCurrent'
<1>1. \/ UNCHANGED recordVars
      \/ record' = saved /\ UNCHANGED << saved, failures >>
      \/ \E table, earlier : Write(table, earlier)
  <2>1. ASSUME NEW m \in Missions, Decide(m) PROVE UNCHANGED recordVars
    BY <2>1 DEF Decide, Submit, ApproveV2, ApproveV3, Reject, ResolveRoute
  <2>2. ASSUME NEW r \in Runs, Step(r)
        PROVE  UNCHANGED recordVars \/ \E table, earlier : Write(table, earlier)
    <3> USE DEF Transition, Persist, Succeed, Fail
    <3>1. CASE Start(r)
      BY <3>1 DEF Start, StartSubmitted, StartResume, StartGrant, StartDeny, NotAwaiting,
                  Reopen, Begin
    <3>2. CASE Plan(r) \/ Launch(r) \/ CreativeAnswers(r) \/ Close(r)
                 \/ CreativeFails(r)
      BY <3>2 DEF Plan, Launch, CreativeAnswers, Close, CreativeFails
    <3>3. CASE \E refused, other \in BOOLEAN : \/ ChatRefused(r, refused, other)
                                               \/ ChatTries(r, refused, other)
                                               \/ Prepare(r, refused, other)
      BY <3>3 DEF ChatRefused, ChatTries, Prepare
    <3>4. CASE ChatAnswers(r) \/ ChatFails(r) \/ SkipCompleted(r) \/ Supervise(r)
      BY <3>4 DEF ChatAnswers, ChatFails, SkipCompleted, Supervise
    <3>5. CASE GateOpens(r) \/ GateWaits(r) \/ GateFails(r)
      BY <3>5 DEF GateOpens, GateWaits, GateFails
    <3>6. CASE ExecSucceeds(r) \/ ExecFails(r) \/ CognitionLost(r)
      BY <3>6 DEF ExecSucceeds, ExecFails, CognitionLost
    <3>7. CASE Retry(r) \/ RetryEnds(r) \/ Finish(r) \/ Stored(r)
                 \/ StoringCancelled(r) \/ Abort(r)
      BY <3>7 DEF Retry, RetryEnds, Finish, Stored, StoringCancelled, Abort, recordVars
    <3>8. CASE Return(r)
      BY <3>8 DEF Return
    <3> QED
      BY <2>2, <3>1, <3>2, <3>3, <3>4, <3>5, <3>6, <3>7, <3>8 DEF Step
  <2>3. CASE Crash
    BY <2>3 DEF Crash
  <2>4. CASE Boot
    BY <2>4 DEF Boot, Recover, Unrecovered
  <2>5. CASE UNCHANGED vars
    BY <2>5 DEF vars
  <2> QED
    BY <2>1, <2>2, <2>3, <2>4, <2>5 DEF Next
<1> QED
  BY <1>1 DEF Write, recordVars, SavedIsCurrent, Inv, TypeOK

LEMMA InvStep == Inv /\ [Next]_vars => Inv'
<1> SUFFICES ASSUME Inv, [Next]_vars PROVE Inv'
  OBVIOUS
<1> USE DEF HasMission, ForcedIsGranted, HighRiskNeedsGrant,
            NoRefusedTransition, DownIsIdle, FreshIsEmpty, ResumedIsOver
<1>1. TypeOK' /\ SavedIsCurrent'
  BY TypingStep, SavedStep DEF Inv
<1>2. ASSUME NEW m \in Missions, Decide(m) PROVE Inv'
  <2> USE <1>1 DEF Inv, goals, runVars, task, At, Schedule, active, Awaits
  <2>1. ASSUME NEW r \in Runs, \/ Submit(m, r, "v2submit")
                               \/ Submit(m, r, "v3submit")
        PROVE Inv'
    BY <2>1 DEF Submit, TypeOK
  <2>2. ASSUME NEW r \in Runs, ApproveV3(m, r) PROVE Inv'
    BY <2>2 DEF ApproveV3, TypeOK
  <2>3. ASSUME NEW r \in Runs, Reject(m, r) PROVE Inv'
    BY <2>3 DEF Reject, TypeOK
  <2>4. ASSUME NEW r \in Runs, \/ ResolveRoute(m, r, "grant")
                               \/ ResolveRoute(m, r, "deny")
        PROVE Inv'
    BY <2>4 DEF ResolveRoute, TypeOK
  <2>5. ASSUME NEW r1 \in Runs, NEW r2 \in Runs, ApproveV2(m, r1, r2)
        PROVE Inv'
    BY <2>5 DEF ApproveV2, TypeOK
  <2>6. QED
    BY <1>2, <2>1, <2>2, <2>3, <2>4, <2>5 DEF Decide
<1>3. ASSUME NEW r \in Runs, Step(r) PROVE Inv'
  <2>1. Fine(r)
    BY <1>3, StepIsFine
  <2>2. \A r2 \in Runs : r2 # r => Elsewhere(r2)
    BY <1>3, StepIsLocal DEF Inv
  <2> USE <2>1, <2>2 DEF Fine, Elsewhere, Inv, goals
  <2>3. HasMission'
    OBVIOUS
  <2>4. ForcedIsGranted'
    OBVIOUS
  <2>5. HighRiskNeedsGrant'
    OBVIOUS
  <2>6. NoRefusedTransition'
    BY DEF active
  <2>7. FreshIsEmpty'
    OBVIOUS
  <2>8. ResumedIsOver'
    <3>1. \A c \in Runs : pc[c] \in { "return", "over" } =>
                              pc'[c] \in { "return", "over" }
      <4>1. pc[r] \in { "return", "over" } => pc'[r] = "over"
        BY <1>3, ReturnsOnly DEF TypeOK
      <4> QED
        BY <4>1
    <3> QED
      BY <3>1
  <2>9. QED
    BY <1>1, <2>1, <2>3, <2>4, <2>5, <2>6, <2>7, <2>8
<1>4. CASE Crash
  BY <1>1, <1>4, LifecycleAssumption DEF Inv, Crash, goals, active, Awaits, Contexts
<1>5. CASE Boot
  <2>1. UNCHANGED << goals, runVars, granted >>
    BY <1>5 DEF Boot, Recover, Unrecovered
  <2>2. HasMission' /\ ForcedIsGranted' /\ HighRiskNeedsGrant'
    BY <2>1 DEF Inv, goals, runVars, task
  <2>3. server = "down" /\ server' = "up"
    BY <1>5 DEF Boot, Recover, Unrecovered
  <2>4. NoRefusedTransition' /\ DownIsIdle'
    BY <2>1, <2>3 DEF Inv, runVars, active, Awaits, DownIsIdle
  <2>5. ResumedIsOver'
    BY <2>1 DEF Inv, runVars, task
  <2>6. FreshIsEmpty'
    BY <1>5, LifecycleAssumption
    DEF Inv, Boot, Recover, Unrecovered, recover_non_terminal, runVars, task, Contexts
  <2>7. QED
    BY <1>1, <2>2, <2>4, <2>5, <2>6 DEF Inv
<1>6. CASE UNCHANGED vars
  BY <1>1, <1>6 DEF Inv, vars, goals, runVars, task, active
<1>7. QED
  BY <1>2, <1>3, <1>4, <1>5, <1>6 DEF Next

-----------------------------------------------------------------------------
(* The theorems *)

LEMMA Invariance == Spec => []Inv
<1>1. QED
  BY InitInv, InvStep, PTL DEF Spec

\* The types of the three records of a mission and of its coroutines, through
\* every route, retry and restart (core/meta_orchestrator.py and its mixins).
THEOREM TypeCorrect == Spec => []TypeOK
<1>1. Inv => TypeOK
  BY DEF Inv
<1>2. QED
  BY <1>1, Invariance, PTL

\* The crew works on a high-risk goal only behind a human's approval: the gate of
\* supervise (core/orchestration/execution_supervisor.py) cannot be passed
\* without one, by any route and any interleaving of the runs of a mission.
THEOREM HighRiskSafe == Spec => []HighRiskNeedsGrant
<1>1. Inv => HighRiskNeedsGrant
  BY DEF Inv
<1>2. QED
  BY <1>1, Invariance, PTL

\* The status of a run's context is the one its program point expects, so
\* MissionStateMachine.apply (kernel/state/mission_state.py) never refuses a
\* transition in the middle of a run, whatever the other runs of the mission do.
THEOREM NoRefused == Spec => []NoRefusedTransition
<1>1. Inv => NoRefusedTransition
  BY DEF Inv
<1>2. QED
  BY <1>1, Invariance, PTL

-----------------------------------------------------------------------------
(* Decisions about a legacy record that waits *)

\* what PendingNeedsDecision says of a step
Decided(m) ==
  legacy[m] \in LegacyPending /\ legacy'[m] \notin LegacyPending =>
    \/ legacy'[m] = "APPROVED" /\ m \in granted'
    \/ legacy'[m] = "REJECTED"
    \/ server' = "down"

LEMMA StepsDecideNothing ==
  ASSUME Inv, NEW r \in Runs, Step(r)
  PROVE  \A m \in Missions : Decided(m)
<1> USE DEF Inv, TypeOK, Decided, LegacyPending, legacyVars
<1>1. CASE UNCHANGED legacy
  BY <1>1
<1>2. CASE legacy' = [legacy EXCEPT ![of[r]] = "PENDING_VALIDATION"]
  BY <1>2
<1>3. CASE complete(of[r])
  BY <1>3 DEF complete, SetLegacy
<1>4. UNCHANGED legacy \/ legacy' = [legacy EXCEPT ![of[r]] = "PENDING_VALIDATION"]
        \/ complete(of[r])
  <2> USE DEF At
  <2>1. CASE Start(r)
    BY <2>1 DEF Start, StartSubmitted, StartResume, StartGrant, StartDeny, NotAwaiting,
                Reopen
  <2>2. CASE Plan(r) \/ Launch(r) \/ CreativeAnswers(r) \/ Close(r) \/ CreativeFails(r)
    BY <2>2 DEF Plan, Launch, CreativeAnswers, Close, CreativeFails
  <2>3. CASE \E refused, other \in BOOLEAN : \/ ChatRefused(r, refused, other)
                                             \/ ChatTries(r, refused, other)
                                             \/ Prepare(r, refused, other)
    BY <2>3 DEF ChatRefused, ChatTries, Prepare
  <2>4. CASE ChatAnswers(r) \/ ChatFails(r) \/ SkipCompleted(r) \/ Supervise(r)
    BY <2>4 DEF ChatAnswers, ChatFails, SkipCompleted, Supervise
  <2>5. CASE GateOpens(r) \/ GateWaits(r) \/ GateFails(r)
    BY <2>5 DEF GateOpens, GateWaits, GateFails
  <2>6. CASE ExecSucceeds(r) \/ ExecFails(r) \/ CognitionLost(r)
    BY <2>6 DEF ExecSucceeds, ExecFails, CognitionLost
  <2>7. CASE Retry(r) \/ RetryEnds(r) \/ Finish(r) \/ Stored(r)
               \/ StoringCancelled(r) \/ Abort(r)
    BY <2>7 DEF Retry, RetryEnds, Finish, Stored, StoringCancelled, Abort
  <2>8. CASE Return(r)
    BY <2>8 DEF Return
  <2> QED
    BY <2>1, <2>2, <2>3, <2>4, <2>5, <2>6, <2>7, <2>8 DEF Step
<1> QED
  BY <1>1, <1>2, <1>3, <1>4

\* A legacy record that waits for a decision leaves that state by one: no route,
\* no outcome of a run and no late `complete` moves it (core/mission_system.py).
THEOREM PendingIsDecided == Spec => PendingNeedsDecision
<1>1. ASSUME Inv, [Next]_vars PROVE [\A m \in Missions : Decided(m)]_vars
  <2>1. ASSUME NEW n \in Missions, Decide(n) PROVE \A m \in Missions : Decided(m)
    <3> USE <1>1, NoneAssumption
        DEF Inv, TypeOK, Decided, ms_approve, ms_reject, SetLegacy, legacyVars,
            LegacyPending, LegacyStatus
    <3>1. ASSUME NEW r \in Runs, NEW j, Submit(n, r, j)
          PROVE  \A m \in Missions : Decided(m)
      BY <3>1 DEF Submit
    <3>2. ASSUME NEW r \in Runs, ApproveV3(n, r)
          PROVE  \A m \in Missions : Decided(m)
      BY <3>2 DEF ApproveV3
    <3>3. ASSUME NEW r1 \in Runs, NEW r2 \in Runs, ApproveV2(n, r1, r2)
          PROVE  \A m \in Missions : Decided(m)
      BY <3>3 DEF ApproveV2
    <3>4. ASSUME NEW r \in Runs, Reject(n, r)
          PROVE  \A m \in Missions : Decided(m)
      BY <3>4 DEF Reject
    <3>5. ASSUME NEW r \in Runs, NEW v, ResolveRoute(n, r, v)
          PROVE  \A m \in Missions : Decided(m)
      BY <3>5 DEF ResolveRoute
    <3> HIDE DEF Decided
    <3> QED
      BY <2>1, <3>1, <3>2, <3>3, <3>4, <3>5 DEF Decide
  <2>2. ASSUME NEW r \in Runs, Step(r) PROVE \A m \in Missions : Decided(m)
    BY <1>1, <2>2, StepsDecideNothing
  <2>3. CASE Crash
    BY <2>3 DEF Crash, Decided
  <2>4. CASE Boot
    BY <2>4 DEF Boot, Recover, Unrecovered, legacyVars, Decided
  <2> QED
    BY <1>1, <2>1, <2>2, <2>3, <2>4 DEF Next
<1> QED
  BY <1>1, Invariance, PTL DEF Spec, PendingNeedsDecision, Decided

-----------------------------------------------------------------------------
(* Records that say a mission is under way *)

OpenRecord == { "PLANNED", "RUNNING", "REVIEW" }

\* a run before its last transition; one that is storing has made it
unfinished(r) == active(r) /\ pc[r] # "storing"

NoGhosts ==
  server = "up" =>
    \A m \in Missions :
      record[m] \in OpenRecord => \E r \in Runs : of[r] = m /\ unfinished(r)

\* A step leaves an open record to its own run, or as it found it when that run
\* was not the one behind it.
Accounted(r) ==
  /\ \A m \in Missions : m # of[r] => record'[m] = record[m]
  /\ of[r] \in Missions
  /\ record'[of[r]] \in OpenRecord =>
       \/ unfinished(r)' /\ of'[r] = of[r]
       \/ ~unfinished(r) /\ record' = record

LEMMA StepIsAccounted ==
  ASSUME Inv, NEW r \in Runs, Step(r)
  PROVE  Accounted(r)
<1> USE DEF Inv, TypeOK, HasMission, Accounted, unfinished, active, Awaits, OpenRecord,
            At, Goto, task, recordVars, Transition, Persist, Write
<1>1. CASE Start(r)
  BY <1>1 DEF Start, StartSubmitted, StartResume, StartGrant, StartDeny, NotAwaiting,
              Reopen, Begin, Leave
<1>2. CASE Plan(r) \/ Launch(r) \/ CreativeAnswers(r) \/ Close(r) \/ CreativeFails(r)
  BY <1>2 DEF Plan, Launch, CreativeAnswers, Close, CreativeFails
<1>3. CASE \E refused, other \in BOOLEAN : \/ ChatRefused(r, refused, other)
                                           \/ ChatTries(r, refused, other)
                                           \/ Prepare(r, refused, other)
  BY <1>3 DEF ChatRefused, ChatTries, Prepare
<1>4. CASE ChatAnswers(r) \/ ChatFails(r) \/ SkipCompleted(r) \/ Supervise(r)
  BY <1>4 DEF ChatAnswers, ChatFails, SkipCompleted, Supervise, Succeed
<1>5. CASE GateOpens(r) \/ GateWaits(r) \/ GateFails(r)
  BY <1>5 DEF GateOpens, GateWaits, GateFails, Fail
<1>6. CASE ExecSucceeds(r) \/ ExecFails(r) \/ CognitionLost(r)
  BY <1>6 DEF ExecSucceeds, ExecFails, CognitionLost, Succeed, Fail
<1>7. CASE Retry(r) \/ RetryEnds(r) \/ Finish(r) \/ Stored(r) \/ StoringCancelled(r)
  BY <1>7 DEF Retry, RetryEnds, Finish, Stored, StoringCancelled
<1>8. CASE Abort(r)
  BY <1>8 DEF Abort, Interruptible
<1>9. CASE Return(r)
  BY <1>9 DEF Return, Leave
<1> QED
  BY <1>1, <1>2, <1>3, <1>4, <1>5, <1>6, <1>7, <1>8, <1>9 DEF Step

LEMMA GhostStep ==
  ASSUME ~RecoveryMayFail, Inv, NoGhosts, [Next]_vars
  PROVE  NoGhosts'
<1>1. ASSUME NEW m \in Missions, Decide(m) PROVE NoGhosts'
  <2>1. UNCHANGED << record, server >> /\ server = "up"
        /\ \A r \in Runs : \/ pc'[r] = pc[r] /\ of'[r] = of[r]
                           \/ pc[r] = "idle"
    BY <1>1
    DEF Decide, Submit, ApproveV2, ApproveV3, Reject, ResolveRoute, At,
        Schedule, runVars, task, recordVars, Inv, TypeOK
  <2> QED
    BY <2>1 DEF NoGhosts, unfinished, active, Awaits
<1>2. ASSUME NEW r \in Runs, Step(r) PROVE NoGhosts'
  <2>1. Accounted(r)
    BY <1>2, StepIsAccounted
  <2>2. \A r2 \in Runs : r2 # r => pc'[r2] = pc[r2] /\ of'[r2] = of[r2]
    BY <1>2, StepIsLocal DEF Inv, Elsewhere
  <2>3. server = "up"
    BY <1>2
    DEF Step, Start, StartSubmitted, StartResume, StartGrant, StartDeny, NotAwaiting,
        Plan, Launch, CreativeAnswers, Close, CreativeFails, ChatRefused, ChatTries,
        Prepare, ChatAnswers, ChatFails, SkipCompleted, Supervise, GateOpens,
        GateWaits, GateFails, ExecSucceeds, ExecFails, CognitionLost, Retry,
        RetryEnds, Finish, Stored, StoringCancelled, Abort, Return, Reopen, At
  <2> SUFFICES ASSUME NEW m \in Missions, record'[m] \in OpenRecord
               PROVE  \E r2 \in Runs : of'[r2] = m /\ unfinished(r2)'
    BY DEF NoGhosts
  <2>4. CASE m = of[r] /\ unfinished(r)' /\ of'[r] = of[r]
    BY <2>4
  <2>5. CASE m # of[r] \/ ~(unfinished(r)' /\ of'[r] = of[r])
    <3>1. record[m] \in OpenRecord /\ (of[r] = m => ~unfinished(r))
      BY <2>1, <2>5 DEF Accounted
    <3>2. PICK r2 \in Runs : of[r2] = m /\ unfinished(r2)
      BY <2>3, <3>1 DEF NoGhosts
    <3>3. r2 # r
      BY <3>1, <3>2
    <3> QED
      BY <2>2, <3>2, <3>3 DEF unfinished, active
  <2> QED
    BY <2>4, <2>5
<1>3. CASE Crash
  BY <1>3 DEF Crash, NoGhosts
\* the recovery fails what was under way
<1>4. CASE Boot /\ Recover
  BY <1>4 DEF Boot, Recover, failing, Write, NoGhosts, recover_non_terminal, OpenRecord, Inv,
              TypeOK
<1>5. CASE Boot /\ Unrecovered
  BY <1>5 DEF Boot, Unrecovered
<1>6. CASE UNCHANGED vars
  BY <1>6 DEF vars, runVars, task, recordVars, NoGhosts, unfinished, active
<1> QED
  BY <1>1, <1>2, <1>3, <1>4, <1>5, <1>6 DEF Next, Boot

\* A record that says a mission is under way has a coroutine behind it, whatever
\* routes are used, the approval of v2 with its second run included: provided the
\* recovery at startup does not fail (recover_from_persistence, api/lifespan.py).
THEOREM NoGhostRecords ==
  ASSUME ~RecoveryMayFail
  PROVE  Spec => []NoGhostRecord
<1>1. Init => NoGhosts
  BY NoneAssumption DEF Init, NoGhosts, OpenRecord, MissionStatus
<1>2. Inv /\ NoGhosts /\ [Next]_vars => NoGhosts'
  BY GhostStep
<1>3. NoGhosts => NoGhostRecord
  BY DEF NoGhosts, NoGhostRecord, OpenRecord, unfinished
<1> QED
  BY <1>1, <1>2, <1>3, Invariance, PTL DEF Spec

-----------------------------------------------------------------------------
(* PART 2.  Without the approval route of v2                                 *)

Submits == { "v2submit", "v3submit" }

-----------------------------------------------------------------------------
(* The inductive invariant                                                   *)

\* a mission without a legacy record has not been seen anywhere
LegacyComesFirst ==
  \A m \in Missions :
    /\ legacy[m] = None <=> legacyDisk[m] = None
    /\ legacy[m] = None =>
         /\ registry[m] = None /\ record[m] = None /\ saved[m] = None
         /\ \A r \in Runs : of[r] # m

\* a submission that waits for its turn is the first run of its mission
SubmittedIsFirst ==
  \A r \in Runs :
    pc[r] = "queued" /\ job[r] \in Submits =>
      /\ registry[of[r]] = None /\ record[of[r]] = None
      /\ \A r2 \in Runs : pc[r2] = "queued" /\ job[r2] \in Submits
                            /\ of[r2] = of[r] => r2 = r

\* no run is scheduled by the route that is left out
NoResume == \A r \in Runs : job[r] # "resume"

\* a run under way is the one that its mission's context belongs to
ActiveIsRegistered == \A r \in Runs : active(r) => registry[of[r]] = r

\* a registered context belongs to its mission, and to no other
RegisteredIsOwn ==
  /\ \A m \in Missions :
       /\ registry[m] \in Missions => registry[m] = m
       /\ registry[m] \in Runs =>
            /\ pc[registry[m]] \notin { "idle", "queued" }
            /\ pc[registry[m]] # "over" => of[registry[m]] = m
  /\ \A m, n \in Missions : registry[m] # None /\ registry[m] = registry[n] => m = n

\* the context that a decision resumed is registered for its mission or for none
ResumedIsOwn ==
  \A r \in Runs :
    /\ resumed[r] \in Missions => resumed[r] = of[r]
    /\ resumed[r] \in Runs =>
         \A n \in Missions : registry[n] = resumed[r] => n = of[r]

\* nothing is registered while the process is down
DownIsEmpty == server = "down" => \A m \in Missions : registry[m] = None

\* the record is what the context says, or what it was when the context was made;
\* a cancelled resumption may have failed it after it was done
RecordIsCurrent ==
  \A m \in Missions :
    /\ record[m] # "CREATED" /\ saved[m] # "CREATED"
    /\ registry[m] # None =>
         IF status[registry[m]] = "CREATED"
         THEN record[m] \in { None, "RUNNING" }
         ELSE \/ record[m] = status[registry[m]]
              \/ status[registry[m]] = "DONE" /\ record[m] = "FAILED"

DirectInv ==
  /\ LegacyComesFirst
  /\ SubmittedIsFirst
  /\ NoResume
  /\ ActiveIsRegistered
  /\ RegisteredIsOwn
  /\ ResumedIsOwn
  /\ DownIsEmpty
  /\ RecordIsCurrent

LEMMA DirectInit == Init => DirectInv
<1> SUFFICES ASSUME Init PROVE DirectInv
  OBVIOUS
<1> USE LifecycleAssumption, NoneAssumption DEF Init
<1>1. LegacyComesFirst
  BY DEF LegacyComesFirst
<1>2. SubmittedIsFirst
  BY DEF SubmittedIsFirst
<1>3. NoResume
  BY DEF NoResume, Jobs
<1>4. ActiveIsRegistered
  BY DEF ActiveIsRegistered, active, Awaits
<1>5. RegisteredIsOwn /\ ResumedIsOwn /\ DownIsEmpty
  BY DEF RegisteredIsOwn, ResumedIsOwn, DownIsEmpty
<1>6. RecordIsCurrent
  BY DEF RecordIsCurrent, MissionStatus
<1> QED
  BY <1>1, <1>2, <1>3, <1>4, <1>5, <1>6 DEF DirectInv

\* What the steps of a run between its start and its return have in common.
Proceeds(r) ==
  /\ server = "up" /\ active(r)
  /\ UNCHANGED << goals, job, of, resumed, forced, registry, legacyDisk, server,
                  crashes, granted >>
  /\ legacy' \in { legacy, [legacy EXCEPT ![of[r]] = "PENDING_VALIDATION"] }
  /\ \E p \in Awaits \cup { "return" } : pc' = [pc EXCEPT ![r] = p]
  /\ \/ UNCHANGED << status, record, saved >>
     \/ /\ saved' \in { saved, record' }
        /\ \/ \E s \in MissionStatus \ { "CREATED" } :
                /\ status' = [status EXCEPT ![r] = s]
                /\ record' = [record EXCEPT ![of[r]] = s]
           \/ /\ pc[r] = "storing"
              /\ status' = [status EXCEPT ![resumed[r]] = "FAILED"]
              /\ record' = [record EXCEPT ![of[r]] = "FAILED"]

Middle(r) ==
  \/ Plan(r) \/ Launch(r)
  \/ CreativeAnswers(r) \/ Close(r) \/ CreativeFails(r)
  \/ \E refused, other \in BOOLEAN : \/ ChatRefused(r, refused, other)
                                     \/ ChatTries(r, refused, other)
                                     \/ Prepare(r, refused, other)
  \/ ChatAnswers(r) \/ ChatFails(r)
  \/ SkipCompleted(r) \/ Supervise(r)
  \/ GateOpens(r) \/ GateWaits(r) \/ GateFails(r)
  \/ ExecSucceeds(r) \/ ExecFails(r) \/ CognitionLost(r)
  \/ Retry(r) \/ RetryEnds(r) \/ Finish(r)
  \/ Stored(r) \/ StoringCancelled(r) \/ Abort(r)

LEMMA MiddleRuns ==
  ASSUME TypeOK, NEW r \in Runs, Middle(r)
  PROVE  Proceeds(r)
<1> USE DEF Proceeds, active, Awaits, goals, task, recordVars, legacyVars, At, Goto,
            Transition, Persist, Write, Succeed, Fail, MissionStatus
<1>1. CASE Plan(r) \/ Launch(r) \/ CreativeAnswers(r) \/ Close(r) \/ CreativeFails(r)
  BY <1>1 DEF Plan, Launch, CreativeAnswers, Close, CreativeFails
<1>2. CASE \E refused, other \in BOOLEAN : \/ ChatRefused(r, refused, other)
                                           \/ ChatTries(r, refused, other)
                                           \/ Prepare(r, refused, other)
  BY <1>2 DEF ChatRefused, ChatTries, Prepare
<1>3. CASE ChatAnswers(r) \/ ChatFails(r)
  BY <1>3 DEF ChatAnswers, ChatFails
<1>4. CASE SkipCompleted(r) \/ Supervise(r)
  BY <1>4 DEF SkipCompleted, Supervise
<1>5. CASE GateOpens(r) \/ GateWaits(r) \/ GateFails(r)
  BY <1>5 DEF GateOpens, GateWaits, GateFails
<1>6. CASE ExecSucceeds(r) \/ ExecFails(r) \/ CognitionLost(r)
  BY <1>6 DEF ExecSucceeds, ExecFails, CognitionLost
<1>7. CASE Retry(r) \/ RetryEnds(r) \/ Finish(r) \/ Stored(r) \/ StoringCancelled(r)
  BY <1>7 DEF Retry, RetryEnds, Finish, Stored, StoringCancelled
<1>8. CASE Abort(r)
  BY <1>8 DEF Abort, Interruptible
<1> QED
  BY <1>1, <1>2, <1>3, <1>4, <1>5, <1>6, <1>7, <1>8 DEF Middle

LEMMA StepKinds ==
  ASSUME NEW r \in Runs, Step(r)
  PROVE  Start(r) \/ Middle(r) \/ Return(r)
  BY DEF Step, Middle

LEMMA MiddleKeeps ==
  ASSUME Inv, DirectInv, NEW r \in Runs, Proceeds(r)
  PROVE  DirectInv'
<1> USE LifecycleAssumption, NoneAssumption DEF Inv, DirectInv, TypeOK, Contexts
<1>1. of[r] \in Missions /\ registry[of[r]] = r /\ legacy[of[r]] # None
  BY DEF Proceeds, active, Awaits, HasMission, ActiveIsRegistered, LegacyComesFirst
<1>11. /\ \A n \in Missions : n # of[r] => record'[n] = record[n]
       /\ saved' \in { saved, record' }
  BY <1>1 DEF Proceeds
<1>2. LegacyComesFirst'
  BY <1>1, <1>11 DEF Proceeds, LegacyComesFirst, LegacyStatus
<1>3. SubmittedIsFirst' /\ NoResume'
  <2>1. PICK p \in Awaits \cup { "return" } : pc' = [pc EXCEPT ![r] = p]
    BY DEF Proceeds
  <2>2. /\ UNCHANGED << job, of, registry >>
        /\ \A m \in Missions : m # of[r] => record'[m] = record[m]
    BY DEF Proceeds
  <2>3. \A r2 \in Runs : pc'[r2] = "queued" => pc[r2] = "queued" /\ r2 # r
    BY <2>1 DEF Awaits
  <2>4. ASSUME NEW r2 \in Runs, pc'[r2] = "queued", job'[r2] \in Submits
        PROVE  of[r2] \in Missions /\ of[r2] # of[r]
    BY <1>1, <2>2, <2>3, <2>4 DEF SubmittedIsFirst, HasMission
  <2> QED
    BY <2>2, <2>3, <2>4 DEF SubmittedIsFirst, NoResume
<1>4. ActiveIsRegistered'
  BY <1>1 DEF Proceeds, ActiveIsRegistered, active
<1>5. RegisteredIsOwn' /\ ResumedIsOwn' /\ DownIsEmpty'
  BY <1>1 DEF Proceeds, RegisteredIsOwn, ResumedIsOwn, DownIsEmpty, Awaits, active
<1>6. RecordIsCurrent'
  <2>1. \A m \in Missions : registry[m] = r => m = of[r]
    BY <1>1 DEF RegisteredIsOwn
  <2>2. CASE UNCHANGED << status, record, saved >>
    BY <1>1, <2>2 DEF Proceeds, RecordIsCurrent
  <2>3. ASSUME NEW s \in MissionStatus \ { "CREATED" }, saved' \in { saved, record' },
               status' = [status EXCEPT ![r] = s],
               record' = [record EXCEPT ![of[r]] = s]
        PROVE  RecordIsCurrent'
    BY <1>1, <2>1, <2>3 DEF Proceeds, RecordIsCurrent, MissionStatus
  <2>4. ASSUME pc[r] = "storing", saved' \in { saved, record' },
               status' = [status EXCEPT ![resumed[r]] = "FAILED"],
               record' = [record EXCEPT ![of[r]] = "FAILED"]
        PROVE  RecordIsCurrent'
    <3>1. status[r] = "DONE" /\ resumed[r] # r
      BY <2>4 DEF NoRefusedTransition, expected_status, active, Awaits, ResumedIsOver
    <3>2. \A n \in Missions : n # of[r] /\ registry[n] # None =>
                                 registry[n] # resumed[r]
      BY DEF RegisteredIsOwn, ResumedIsOwn
    <3>3. status'[r] = "DONE" /\ record'[of[r]] = "FAILED"
      BY <1>1, <2>4, <3>1
    <3>4. \A n \in Missions : n # of[r] =>
            /\ record'[n] = record[n]
            /\ registry[n] # None => status'[registry[n]] = status[registry[n]]
      BY <2>4, <3>2
    <3> QED
      BY <1>1, <2>4, <3>3, <3>4 DEF Proceeds, RecordIsCurrent
  <2> QED
    BY <2>2, <2>3, <2>4 DEF Proceeds
<1> QED
  BY <1>2, <1>3, <1>4, <1>5, <1>6

-----------------------------------------------------------------------------
(* The routes *)

LEMMA DecideKeeps ==
  ASSUME "v2approve" \notin Routes, Inv, DirectInv, NEW m \in Missions, Decide(m)
  PROVE  DirectInv'
<1> USE LifecycleAssumption, NoneAssumption
    DEF Inv, TypeOK, HasMission, goals, runVars, recordVars, legacyVars, At
<1>1. ASSUME NEW r \in Runs, NEW j \in Submits, Submit(m, r, j) PROVE DirectInv'
  <2> USE <1>1 DEF Submit, DirectInv, Submits, SetLegacy, Schedule
  <2>1. /\ registry[m] = None /\ record[m] = None
        /\ \A r2 \in Runs : of[r2] # m
    BY DEF LegacyComesFirst
  <2>2. LegacyComesFirst'
    BY <2>1 DEF LegacyComesFirst, LegacyStatus
  <2>3. SubmittedIsFirst' /\ NoResume'
    BY <2>1 DEF SubmittedIsFirst, NoResume
  <2>4. ActiveIsRegistered' /\ DownIsEmpty' /\ RecordIsCurrent'
    BY DEF ActiveIsRegistered, DownIsEmpty, RecordIsCurrent, active, Awaits
  <2>5. RegisteredIsOwn' /\ ResumedIsOwn'
    BY DEF RegisteredIsOwn, ResumedIsOwn, FreshIsEmpty
  <2> QED
    BY <2>2, <2>3, <2>4, <2>5
\* a decision is queued, and the legacy record written or not
<1>2. ASSUME NEW r \in Runs, NEW j \in { "grant", "deny" },
             At(r, "idle"), legacy[m] # None, Schedule(r, m, j),
             \/ UNCHANGED legacyVars
             \/ \E s \in LegacyStatus : SetLegacy(m, s),
             UNCHANGED << registry, recordVars, status, server, resumed >>
      PROVE  DirectInv'
  <2> USE <1>2 DEF DirectInv, Submits, SetLegacy, Schedule
  <2>1. LegacyComesFirst'
    BY DEF LegacyComesFirst
  <2>2. SubmittedIsFirst' /\ NoResume'
    BY DEF SubmittedIsFirst, NoResume
  <2>3. ActiveIsRegistered' /\ DownIsEmpty' /\ RecordIsCurrent'
    BY DEF ActiveIsRegistered, DownIsEmpty, RecordIsCurrent, active, Awaits
  <2>4. RegisteredIsOwn' /\ ResumedIsOwn'
    BY DEF RegisteredIsOwn, ResumedIsOwn, FreshIsEmpty
  <2> QED
    BY <2>1, <2>2, <2>3, <2>4
<1>3. ASSUME NEW r \in Runs, ApproveV3(m, r) PROVE DirectInv'
  BY <1>2, <1>3 DEF ApproveV3, ms_approve, LegacyStatus
<1>4. ASSUME NEW r \in Runs, Reject(m, r) PROVE DirectInv'
  BY <1>2, <1>4 DEF Reject, ms_reject, LegacyStatus
<1>5. ASSUME NEW r \in Runs, NEW v \in { "grant", "deny" }, ResolveRoute(m, r, v)
      PROVE  DirectInv'
  BY <1>2, <1>5 DEF ResolveRoute
<1> QED
  BY <1>1, <1>3, <1>4, <1>5 DEF Decide, ApproveV2, Submits

-----------------------------------------------------------------------------
(* The first segment of a run, its return, and the process *)

\* the mission of a coroutine that may begin is not being run by another one,
\* and the statuses that Begin is given differ from the current ones there only
MayBegin(r, st, rec) ==
  /\ At(r, "queued")
  /\ \A r2 \in Runs : active(r2) => of[r2] # of[r]
  /\ \A r2 \in Runs : pc[r2] = "queued" /\ job[r2] \in Submits
                       /\ of[r2] = of[r] => r2 = r
  /\ \A n \in Missions : n # of[r] /\ registry[n] # None =>
                           st[registry[n]] = status[registry[n]]
  /\ rec[of[r]] \in { None, "RUNNING" }
  /\ \A n \in Missions : n # of[r] => rec[n] = record[n]

\* what it resumes belongs to that mission
ResumesOwn(r) ==
  /\ \A r2 \in Runs : r2 # r => resumed'[r2] = resumed[r2]
  /\ resumed'[r] \in Missions => resumed'[r] = of[r]
  /\ resumed'[r] \in Runs =>
       \A n \in Missions : n # of[r] => registry[n] # resumed'[r]

LEMMA BeginKeeps ==
  ASSUME Inv, DirectInv, NEW r \in Runs, NEW b \in BOOLEAN,
         NEW st \in [Contexts -> MissionStatus \cup {None}],
         NEW rec \in Tables,
         MayBegin(r, st, rec), ResumesOwn(r), Begin(r, of[r], b, st, rec),
         UNCHANGED << job, of, legacyVars, server >>
  PROVE  DirectInv'
<1> USE LifecycleAssumption, NoneAssumption
    DEF MayBegin, Inv, TypeOK, Tables, HasMission, DirectInv, At, Goto, legacyVars, Contexts
<1>1. of[r] \in Missions /\ legacy[of[r]] # None /\ server = "up"
  BY DEF LegacyComesFirst
<1>2. /\ registry' = [registry EXCEPT ![of[r]] = r]
      /\ \/ /\ status' = [st EXCEPT ![r] = "FAILED"]
            /\ record' = [rec EXCEPT ![of[r]] = "FAILED"]
            /\ pc' = [pc EXCEPT ![r] = "return"]
         \/ /\ status' = [st EXCEPT ![r] = "CREATED"]
            /\ record' = rec
            /\ pc' = [pc EXCEPT ![r] = "planning"]
      /\ saved' \in { saved, rec, record' }
  BY DEF Begin, Persist, Write, recordVars
<1>3. \A n \in Missions : registry[n] # r
  BY <1>1 DEF RegisteredIsOwn
<1>4. LegacyComesFirst'
  BY <1>1, <1>2 DEF LegacyComesFirst
<1>5. SubmittedIsFirst' /\ NoResume'
  <2>1. \A r2 \in Runs : pc'[r2] = "queued" => pc[r2] = "queued" /\ r2 # r
    BY <1>2
  <2>2. \A r2 \in Runs : pc'[r2] = "queued" /\ job'[r2] \in Submits =>
                            of[r2] # of[r] /\ of[r2] \in Missions
    BY <2>1
  <2>3. \A n \in Missions : n # of[r] =>
                               record'[n] = record[n] /\ registry'[n] = registry[n]
    BY <1>1, <1>2
  <2> QED
    BY <2>1, <2>2, <2>3 DEF SubmittedIsFirst, NoResume
<1>6. ActiveIsRegistered' /\ DownIsEmpty'
  BY <1>1, <1>2 DEF ActiveIsRegistered, DownIsEmpty, active, Awaits
<1>7. RegisteredIsOwn' /\ ResumedIsOwn'
  <2>1. RegisteredIsOwn'
    BY <1>1, <1>2, <1>3 DEF RegisteredIsOwn
  <2>2. \A r2 \in Runs : resumed[r2] # r
    BY DEF ResumedIsOver
  <2>3. \A n \in Missions : n # of[r] => registry'[n] = registry[n]
    BY <1>1, <1>2
  <2>4. registry'[of[r]] = r
    BY <1>1, <1>2
  <2>5. ASSUME NEW r2 \in Runs
        PROVE  /\ resumed'[r2] \in Missions => resumed'[r2] = of[r2]
               /\ resumed'[r2] \in Runs =>
                    \A n \in Missions : registry'[n] = resumed'[r2] => n = of[r2]
    <3>1. CASE r2 = r
      BY <2>3, <3>1 DEF ResumesOwn
    <3>2. CASE r2 # r
      BY <2>2, <2>3, <2>4, <3>2 DEF ResumesOwn, ResumedIsOwn
    <3> QED
      BY <3>1, <3>2
  <2> QED
    BY <2>1, <2>5 DEF ResumedIsOwn
<1>8. RecordIsCurrent'
  BY <1>1, <1>2, <1>3 DEF RecordIsCurrent, MissionStatus
<1> QED
  BY <1>4, <1>5, <1>6, <1>7, <1>8

LEMMA LeaveKeeps ==
  ASSUME Inv, DirectInv, NEW r \in Runs, server = "up",
         pc[r] \in { "queued", "return" }, Leave(r), UNCHANGED server,
         \A m \in Missions : /\ legacy'[m] = None <=> legacy[m] = None
                             /\ legacyDisk'[m] = None <=> legacyDisk[m] = None,
         UNCHANGED << status, registry, recordVars >>
  PROVE  DirectInv'
<1> USE LifecycleAssumption, NoneAssumption
    DEF Inv, TypeOK, DirectInv, Goto, Leave, Contexts, recordVars
<1>1. LegacyComesFirst'
  BY DEF LegacyComesFirst
<1>2. SubmittedIsFirst' /\ NoResume'
  BY DEF SubmittedIsFirst, NoResume, Submits, Jobs
<1>3. ActiveIsRegistered' /\ DownIsEmpty' /\ RecordIsCurrent'
  BY DEF ActiveIsRegistered, DownIsEmpty, RecordIsCurrent, active, Awaits
<1>4. RegisteredIsOwn' /\ ResumedIsOwn'
  BY DEF RegisteredIsOwn, ResumedIsOwn
<1> QED
  BY <1>1, <1>2, <1>3, <1>4

LEMMA StartKeeps ==
  ASSUME Inv, DirectInv, NEW r \in Runs, Start(r)
  PROVE  DirectInv'
<1> USE LifecycleAssumption, NoneAssumption DEF Inv, TypeOK, HasMission, At, Contexts
<1>0. /\ server = "up" /\ pc[r] = "queued" /\ of[r] \in Missions
      /\ job[r] # "resume"
  BY DEF Start, StartSubmitted, StartResume, StartGrant, StartDeny, NotAwaiting,
         DirectInv, NoResume
<1>1. CASE StartSubmitted(r)
  <2>1. registry[of[r]] = None /\ record[of[r]] = None
    BY <1>0, <1>1 DEF StartSubmitted, DirectInv, SubmittedIsFirst, Submits
  <2>2. \A r2 \in Runs : active(r2) => of[r2] # of[r]
    BY <2>1 DEF DirectInv, ActiveIsRegistered, active, Awaits
  <2>3. \A r2 \in Runs : pc[r2] = "queued" /\ job[r2] \in Submits
                            /\ of[r2] = of[r] => r2 = r
    BY <1>0, <1>1 DEF StartSubmitted, DirectInv, SubmittedIsFirst, Submits
  <2>4. /\ Begin(r, of[r], FALSE, status, record)
        /\ UNCHANGED << job, of, legacyVars, server >>
    BY <1>1 DEF StartSubmitted, task
  <2>5. MayBegin(r, status, record)
    BY <1>0, <2>1, <2>2, <2>3 DEF MayBegin
  <2>6. record \in Tables
    BY DEF Tables
  <2>7. resumed' = resumed /\ resumed[r] = None
    BY <1>0, <1>1 DEF StartSubmitted, task, FreshIsEmpty
  <2>8. ResumesOwn(r)
    BY <2>7 DEF ResumesOwn
  <2> HIDE DEF Inv
  <2> QED
    BY <2>4, <2>5, <2>6, <2>8, BeginKeeps DEF Inv, TypeOK
\* who decides about a paused mission finds its context, or rebuilds it
<1>2. ASSUME approval_status(of[r]) = "AWAITING_APPROVAL"
      PROVE  /\ \A r2 \in Runs : active(r2) => of[r2] # of[r]
             /\ \A r2 \in Runs : ~(/\ pc[r2] = "queued" /\ job[r2] \in Submits
                                    /\ of[r2] = of[r])
             /\ approval_context(of[r]) \in Contexts
             /\ \A n \in Missions : n # of[r] => registry[n] # approval_context(of[r])
             /\ registry[of[r]] = None => approval_context(of[r]) = of[r]
             /\ registry[of[r]] # None => approval_context(of[r]) = registry[of[r]]
             /\ approval_context(of[r]) \in Missions => approval_context(of[r]) = of[r]
  <2> USE <1>0, <1>2 DEF approval_status, approval_context, DirectInv
  <2>1. \A r2 \in Runs : active(r2) => of[r2] # of[r]
    BY DEF ActiveIsRegistered, NoRefusedTransition, expected_status, active, Awaits
  <2>2. \A r2 \in Runs : ~(/\ pc[r2] = "queued" /\ job[r2] \in Submits
                           /\ of[r2] = of[r])
    BY DEF SubmittedIsFirst, MissionStatus
  <2>3. /\ approval_context(of[r]) \in Contexts
        /\ registry[of[r]] = None => approval_context(of[r]) = of[r]
        /\ registry[of[r]] # None => approval_context(of[r]) = registry[of[r]]
    OBVIOUS
  <2>4. \A n \in Missions : n # of[r] => registry[n] # approval_context(of[r])
    BY <2>3 DEF RegisteredIsOwn
  <2>5. approval_context(of[r]) \in Missions => approval_context(of[r]) = of[r]
    BY <2>3 DEF RegisteredIsOwn
  <2> QED
    BY <2>1, <2>2, <2>3, <2>4, <2>5
<1>3. CASE StartGrant(r)
  <2> DEFINE c == approval_context(of[r])
             st == [status EXCEPT ![c] = "RUNNING"]
             rec == [record EXCEPT ![of[r]] = "RUNNING"]
  <2>1. approval_status(of[r]) = "AWAITING_APPROVAL"
    BY <1>3 DEF StartGrant
  <2>2. /\ st \in [Contexts -> MissionStatus \cup {None}]
        /\ rec \in Tables
    BY DEF MissionStatus, Tables
  <2>3. \A n \in Missions : n # of[r] /\ registry[n] # None =>
                              st[registry[n]] = status[registry[n]]
    BY <1>2, <2>1
  <2>4. /\ rec[of[r]] \in { None, "RUNNING" }
        /\ \A n \in Missions : n # of[r] => rec[n] = record[n]
    BY <1>0
  <2>5. /\ Begin(r, of[r], TRUE, st, rec)
        /\ UNCHANGED << job, of, legacyVars, server >>
        /\ resumed' = [resumed EXCEPT ![r] = c]
    BY <1>3 DEF StartGrant, Reopen
  <2>6. MayBegin(r, st, rec)
    <3> HIDE DEF st, rec
    <3> QED
      BY <1>0, <1>2, <2>1, <2>3, <2>4 DEF MayBegin
  <2>7. ResumesOwn(r)
    BY <1>2, <2>1, <2>5 DEF ResumesOwn
  <2> HIDE DEF st, rec, Inv
  <2> QED
    BY <2>2, <2>5, <2>6, <2>7, BeginKeeps
<1>4. CASE StartDeny(r)
  <2> DEFINE c == approval_context(of[r])
  <2>1. approval_status(of[r]) = "AWAITING_APPROVAL"
    BY <1>4 DEF StartDeny
  <2>2. /\ status' = [status EXCEPT ![c] = "FAILED"]
        /\ registry' = [registry EXCEPT ![of[r]] = c]
        /\ record' = [record EXCEPT ![of[r]] = "FAILED"]
        /\ saved' \in { saved, record' }
        /\ Leave(r)
        /\ UNCHANGED << legacyVars, server >>
    BY <1>4 DEF StartDeny, Persist, Write
  <2>3. /\ c \in Contexts
        /\ \A r2 \in Runs : active(r2) => of[r2] # of[r]
        /\ \A n \in Missions : n # of[r] => registry[n] # c
        /\ registry[of[r]] = None => c = of[r]
        /\ registry[of[r]] # None => c = registry[of[r]]
    BY <1>2, <2>1
  <2>4. legacy[of[r]] # None
    BY <1>0 DEF DirectInv, LegacyComesFirst
  <2>5. /\ \A r2 \in Runs : r2 # r =>
              pc'[r2] = pc[r2] /\ of'[r2] = of[r2] /\ job'[r2] = job[r2]
        /\ pc'[r] = "over" /\ of'[r] = None /\ job'[r] = None
        /\ resumed'[r] = None
        /\ \A r2 \in Runs : r2 # r => resumed'[r2] = resumed[r2]
    BY <2>2 DEF Leave, Goto
  <2>6. \A n \in Missions : n # of[r] =>
          registry'[n] = registry[n] /\ record'[n] = record[n]
    BY <2>2
  <2>61. registry'[of[r]] = c /\ record'[of[r]] = "FAILED" /\ status'[c] = "FAILED"
    BY <1>0, <2>2, <2>3
  <2>62. \A n \in Missions : n # of[r] /\ registry[n] # None =>
          status'[registry[n]] = status[registry[n]]
    BY <2>2, <2>3
  <2> HIDE DEF c
  <2> USE DEF DirectInv
  <2>7. LegacyComesFirst'
    BY <2>2, <2>4, <2>5, <2>6 DEF LegacyComesFirst, legacyVars
  <2>8. SubmittedIsFirst' /\ NoResume'
    <3>1. \A r2 \in Runs : pc'[r2] = "queued" /\ job'[r2] \in Submits =>
             r2 # r /\ of[r2] # of[r] /\ of[r2] \in Missions
      BY <1>2, <2>1, <2>5
    <3> QED
      BY <2>5, <2>6, <3>1, NoneAssumption DEF SubmittedIsFirst, NoResume, Jobs
  <2>9. ActiveIsRegistered' /\ DownIsEmpty'
    BY <1>0, <2>2, <2>3, <2>5, <2>6 DEF ActiveIsRegistered, DownIsEmpty, active, Awaits
  <2>10. RegisteredIsOwn' /\ ResumedIsOwn'
    <3>1. RegisteredIsOwn'
      BY <1>0, <2>3, <2>5, <2>6, <2>61 DEF RegisteredIsOwn
    <3>2. ResumedIsOwn'
      BY <1>0, <2>3, <2>5, <2>6, <2>61 DEF ResumedIsOwn
    <3> QED
      BY <3>1, <3>2
  <2>11. RecordIsCurrent'
    BY <2>2, <2>3, <2>6, <2>61, <2>62 DEF RecordIsCurrent
  <2> QED
    BY <2>7, <2>8, <2>9, <2>10, <2>11
<1>5. CASE NotAwaiting(r)
  BY <1>0, <1>5, LeaveKeeps DEF NotAwaiting, legacyVars
<1> QED
  BY <1>0, <1>1, <1>3, <1>4, <1>5 DEF Start, StartResume

LEMMA ReturnKeeps ==
  ASSUME Inv, DirectInv, NEW r \in Runs, Return(r)
  PROVE  DirectInv'
<1> USE LifecycleAssumption, NoneAssumption
<1>1. /\ server = "up" /\ pc[r] = "return" /\ Leave(r)
      /\ UNCHANGED << status, registry, recordVars, server >>
  BY DEF Return, At
<1>2. of[r] \in Missions /\ legacy[of[r]] # None /\ legacyDisk[of[r]] # None
  BY <1>1 DEF Inv, HasMission, DirectInv, LegacyComesFirst
<1>3. \A m \in Missions : /\ legacy'[m] = None <=> legacy[m] = None
                          /\ legacyDisk'[m] = None <=> legacyDisk[m] = None
  BY <1>2 DEF Return, complete, SetLegacy, legacyVars, Inv, TypeOK, LegacyStatus
<1> QED
  BY <1>1, <1>3, LeaveKeeps

LEMMA ProcessKeeps ==
  ASSUME Inv, DirectInv, Crash \/ Boot
  PROVE  DirectInv'
<1> USE LifecycleAssumption, NoneAssumption
    DEF Inv, TypeOK, DirectInv, Contexts, runVars, task, recordVars, legacyVars, Submits,
        active, Awaits
<1>1. CASE Crash
  <2> USE <1>1 DEF Crash
  <2>1. LegacyComesFirst'
    BY DEF LegacyComesFirst
  <2>2. SubmittedIsFirst' /\ NoResume' /\ ActiveIsRegistered' /\ DownIsEmpty'
    BY DEF SubmittedIsFirst, NoResume, ActiveIsRegistered, DownIsEmpty, Jobs
  <2>3. RegisteredIsOwn' /\ ResumedIsOwn' /\ RecordIsCurrent'
    BY DEF RegisteredIsOwn, ResumedIsOwn, RecordIsCurrent
  <2> QED
    BY <2>1, <2>2, <2>3
<1>2. CASE Boot /\ Recover
  <2>1. /\ server = "down" /\ server' = "up"
        /\ UNCHANGED << runVars, legacyVars >>
        /\ \A m \in Missions :
             IF record[m] = "AWAITING_APPROVAL"
             THEN /\ registry'[m] = m /\ status'[m] = "AWAITING_APPROVAL"
                  /\ record'[m] = record[m]
             ELSE /\ registry'[m] = None
                  /\ record'[m] \in { record[m], "FAILED" }
                  /\ record[m] = None => record'[m] = None
        /\ \A m \in Missions :
             \/ saved'[m] = record'[m]
             \/ record[m] # None /\ saved'[m] \in { record[m], "FAILED" }
             \/ saved'[m] = record[m]
    BY <1>2 DEF Boot, Recover, Write, failing, recover_non_terminal, MissionStatus
  <2>2. \A r \in Runs : pc[r] = "idle"
    BY <2>1 DEF DownIsIdle
  <2>3. LegacyComesFirst'
    BY <2>1 DEF LegacyComesFirst, MissionStatus
  <2>4. SubmittedIsFirst' /\ NoResume' /\ ActiveIsRegistered' /\ DownIsEmpty'
    BY <2>1, <2>2 DEF SubmittedIsFirst, NoResume, ActiveIsRegistered, DownIsEmpty
  <2>5. RegisteredIsOwn' /\ ResumedIsOwn'
    BY <2>1 DEF RegisteredIsOwn, ResumedIsOwn
  <2>6. RecordIsCurrent'
    BY <2>1 DEF RecordIsCurrent
  <2> QED
    BY <2>3, <2>4, <2>5, <2>6
<1>3. CASE Boot /\ Unrecovered
  <2> USE <1>3 DEF Boot, Unrecovered
  <2>1. LegacyComesFirst' /\ SubmittedIsFirst' /\ NoResume' /\ ActiveIsRegistered'
          /\ DownIsEmpty' /\ RegisteredIsOwn' /\ ResumedIsOwn' /\ RecordIsCurrent'
    BY DEF LegacyComesFirst, SubmittedIsFirst, NoResume, ActiveIsRegistered,
           DownIsEmpty, RegisteredIsOwn, ResumedIsOwn, RecordIsCurrent
  <2> QED
    BY <2>1
<1> QED
  BY <1>1, <1>2, <1>3 DEF Boot

LEMMA DirectStep ==
  ASSUME "v2approve" \notin Routes, Inv, DirectInv, [Next]_vars
  PROVE  DirectInv'
<1>1. ASSUME NEW m \in Missions, Decide(m) PROVE DirectInv'
  BY <1>1, DecideKeeps
<1>2. ASSUME NEW r \in Runs, Step(r) PROVE DirectInv'
  <2>1. CASE Start(r)
    BY <2>1, StartKeeps
  <2>2. CASE Middle(r)
    BY <2>2, MiddleRuns, MiddleKeeps DEF Inv
  <2>3. CASE Return(r)
    BY <2>3, ReturnKeeps
  <2> QED
    BY <1>2, <2>1, <2>2, <2>3, StepKinds
<1>3. CASE Crash \/ Boot
  BY <1>3, ProcessKeeps
<1>4. CASE UNCHANGED vars
  BY <1>4
  DEF vars, goals, runVars, task, recordVars, legacyVars, DirectInv, LegacyComesFirst,
      SubmittedIsFirst, NoResume, ActiveIsRegistered, RegisteredIsOwn, ResumedIsOwn,
      DownIsEmpty, RecordIsCurrent, active
<1> QED
  BY <1>1, <1>2, <1>3, <1>4 DEF Next

-----------------------------------------------------------------------------
(* The theorems *)

LEMMA DirectInvariance ==
  ASSUME "v2approve" \notin Routes
  PROVE  Spec => [](Inv /\ DirectInv)
<1>1. Init => Inv /\ DirectInv
  BY InitInv, DirectInit
<1>2. Inv /\ DirectInv /\ [Next]_vars => (Inv /\ DirectInv)'
  BY InvStep, DirectStep
<1> QED
  BY <1>1, <1>2, PTL DEF Spec

\* At most one coroutine runs a mission, whatever the other routes do and however
\* often the process is killed (api/routes/missions.py, _running_missions): a
\* registered context is never replaced while its coroutine is under way.
THEOREM OneCrew ==
  ASSUME "v2approve" \notin Routes
  PROVE  Spec => []OneCrewPerMission
<1>1. Inv /\ DirectInv => OneCrewPerMission
  BY DEF DirectInv, ActiveIsRegistered, OneCrewPerMission
<1> QED
  BY <1>1, DirectInvariance, PTL

\* The record says what the registered context says, from the first transition of
\* the run on, whether the writes of its file succeed or fail; but where a
\* resumption was cancelled after it was done, and resolve_approval failed its
\* record (core/mission_persistence.py, core/meta_orchestrator.py).
THEOREM RecordAgrees ==
  ASSUME "v2approve" \notin Routes
  PROVE  Spec => []RecordFollowsContext
<1>1. Inv /\ DirectInv => RecordFollowsContext
  BY DEF DirectInv, RecordIsCurrent, RecordFollowsContext
<1> QED
  BY <1>1, DirectInvariance, PTL

\* A mission whose record awaits approval can be granted or denied: the context
\* that resolve_approval finds or rebuilds awaits it too, after a restart and
\* after a recovery that failed.
THEOREM AwaitingIsGrantable ==
  ASSUME "v2approve" \notin Routes
  PROVE  Spec => []AwaitingCanBeGranted
<1>1. Inv /\ DirectInv => AwaitingCanBeGranted
  BY NoneAssumption
  DEF DirectInv, RecordIsCurrent, AwaitingCanBeGranted, approval_status, MissionStatus
<1> QED
  BY <1>1, DirectInvariance, PTL

-----------------------------------------------------------------------------
(* PART 3.  The contract: every step, seen through the record on disk and    *)
(* the crews at work, is a step of MissionContract or changes nothing in it  *)

\* what a table of statuses says in the words of the contract
phases(table) == [m \in Missions |-> phase_of(table[m])]

LEMMA Phases ==
  /\ recorded_phase = phases(record) /\ recorded_phase' = phases(record')
  /\ saved_phase = phases(saved) /\ saved_phase' = phases(saved')
  BY DEF recorded_phase, saved_phase, phases

LEMMA PhaseOf ==
  ASSUME NEW s \in (MissionStatus \ { "CREATED" }) \cup {None}
  PROVE  phase_of(s) = IF s = None THEN "new"
                       ELSE IF s = "AWAITING_APPROVAL" THEN "waiting"
                       ELSE IF s \in OpenRecord THEN "open" ELSE "closed"
  BY NoneAssumption DEF phase_of, TerminalStatus, MissionStatus, OpenRecord

\* the file keeps what it said or takes what the store says
LEMMA SavedPhase ==
  ASSUME saved' \in { saved, record' }
  PROVE  saved_phase' \in { saved_phase, recorded_phase' }
  BY Phases

LEMMA ContractInit == Init => Contract!Init
<1> SUFFICES ASSUME Init PROVE Contract!Init
  OBVIOUS
<1>1. recorded_phase = [m \in Missions |-> "new"] /\ saved_phase = recorded_phase
  BY Phases, PhaseOf, NoneAssumption DEF Init, phases
<1>2. at_work = {} /\ granted = {}
  BY DEF Init, at_work
<1> QED
  BY <1>1, <1>2 DEF Contract!Init

-----------------------------------------------------------------------------
(* The steps of a run under way *)

\* How such a step moves the record of its mission: a crew works before and after
\* it only on an open record, and a pause begins when no crew works.
Arc(r) ==
  LET m == of[r]
      from == record[m]
      to == record'[m]
  IN /\ saved' \in { saved, record' }
     /\ pc[r] # "exec" /\ pc'[r] = "exec" => saved' = saved
     /\ \/ /\ from \in OpenRecord \cup { None }
           /\ to \in OpenRecord \cup { from, "AWAITING_APPROVAL", "DONE", "FAILED" }
           /\ pc[r] = "exec" => from \in OpenRecord
           /\ pc'[r] = "exec" => from \in OpenRecord /\ to \in OpenRecord
           /\ to = "AWAITING_APPROVAL" => from \in OpenRecord /\ pc[r] # "exec"
        \/ /\ from \in { "DONE", "FAILED" } /\ to \in { "DONE", "FAILED" }
           /\ pc[r] # "exec" /\ pc'[r] # "exec"

LEMMA MiddleIsArc ==
  ASSUME Inv, DirectInv, NEW r \in Runs, Middle(r)
  PROVE  Arc(r)
<1>1. /\ active(r) /\ of[r] \in Missions
      /\ status[r] = expected_status(pc[r])
      /\ pc[r] = "planning" => record[of[r]] \in { None, "RUNNING" }
      /\ pc[r] = "storing" => record[of[r]] \in { "DONE", "FAILED" }
      /\ pc[r] \notin { "planning", "storing" } => record[of[r]] = status[r]
  <2>1. active(r) /\ registry[of[r]] = r /\ of[r] \in Missions
    BY MiddleRuns
    DEF Inv, Proceeds, active, Awaits, HasMission, DirectInv, ActiveIsRegistered
  <2>2. status[r] = expected_status(pc[r])
    BY <2>1 DEF Inv, NoRefusedTransition
  <2> QED
    BY <2>1, <2>2, LifecycleAssumption
    DEF DirectInv, RecordIsCurrent, expected_status
<1> USE <1>1 DEF Inv, TypeOK, Arc, OpenRecord, At, Goto, Transition, Persist, Write,
                 recordVars, expected_status, active, Awaits, Succeed, Fail
<1>2. CASE Plan(r) \/ Launch(r) \/ CreativeAnswers(r) \/ Close(r) \/ CreativeFails(r)
  BY <1>2 DEF Plan, Launch, CreativeAnswers, Close, CreativeFails
<1>3. CASE \E refused, other \in BOOLEAN : \/ ChatRefused(r, refused, other)
                                           \/ ChatTries(r, refused, other)
                                           \/ Prepare(r, refused, other)
  BY <1>3 DEF ChatRefused, ChatTries, Prepare
<1>4. CASE ChatAnswers(r) \/ ChatFails(r) \/ SkipCompleted(r) \/ Supervise(r)
  BY <1>4 DEF ChatAnswers, ChatFails, SkipCompleted, Supervise
<1>5. CASE GateOpens(r) \/ GateWaits(r) \/ GateFails(r)
  BY <1>5 DEF GateOpens, GateWaits, GateFails
<1>6. CASE ExecSucceeds(r) \/ ExecFails(r) \/ CognitionLost(r)
  BY <1>6 DEF ExecSucceeds, ExecFails, CognitionLost
<1>7. CASE Retry(r) \/ RetryEnds(r) \/ Finish(r) \/ Stored(r) \/ StoringCancelled(r)
  BY <1>7 DEF Retry, RetryEnds, Finish, Stored, StoringCancelled
<1>8. CASE Abort(r)
  BY <1>8 DEF Abort, Interruptible
<1> QED
  BY <1>2, <1>3, <1>4, <1>5, <1>6, <1>7, <1>8 DEF Middle

\* a step that leaves what the record says: at most the file catches up
LEMMA SameIsStep ==
  ASSUME saved_phase' \in { saved_phase, recorded_phase' }, recorded_phase' = recorded_phase,
         at_work' = at_work, granted' = granted
  PROVE  [Contract!Advance]_(Contract!vars)
  BY DEF Contract!Advance, Contract!Rewrite, Contract!vars

LEMMA ArcIsStep ==
  ASSUME Inv, DirectInv, NEW r \in Runs, Proceeds(r), Arc(r)
  PROVE  [Contract!Advance]_(Contract!vars)
<1> DEFINE m == of[r]
           p == recorded_phase[m]
           q == recorded_phase'[m]
<1>1. /\ m \in Missions /\ granted' = granted
      /\ \A n \in Missions : n # m => record'[n] = record[n]
      /\ of' = of /\ \A r2 \in Runs : r2 # r => pc'[r2] = pc[r2]
  BY DEF Proceeds, Inv, HasMission, TypeOK, active, Awaits, goals
<1>2. recorded_phase' = [recorded_phase EXCEPT ![m] = q]
  BY <1>1, Phases DEF phases
<1>21. /\ saved_phase' \in { saved_phase, recorded_phase' }
       /\ pc[r] # "exec" /\ pc'[r] = "exec" => saved_phase' = saved_phase
  BY SavedPhase, Phases DEF Arc
<1>3. \A r2 \in Runs : pc[r2] = "exec" /\ of[r2] = m => r2 = r
  BY <1>1 DEF DirectInv, ActiveIsRegistered, Proceeds, active, Awaits
<1>4. /\ m \in at_work <=> pc[r] = "exec"
      /\ at_work' = IF pc'[r] = "exec" THEN at_work \cup {m} ELSE at_work \ {m}
  BY <1>1, <1>3 DEF at_work
<1>6. /\ record[m] = None => p = "new"
      /\ record[m] \in OpenRecord => p = "open"
      /\ record[m] \in { "DONE", "FAILED" } => p = "closed"
      /\ record'[m] = None => q = "new"
      /\ record'[m] \in OpenRecord => q = "open"
      /\ record'[m] = "AWAITING_APPROVAL" => q = "waiting"
      /\ record'[m] \in { "DONE", "FAILED" } => q = "closed"
  <2>1. p = phase_of(record[m]) /\ q = phase_of(record'[m])
    BY <1>1, Phases DEF phases
  <2> QED
    BY <2>1, PhaseOf, NoneAssumption DEF OpenRecord, MissionStatus
<1> HIDE DEF p, q
<1>7. CASE q = p /\ (pc[r] = "exec" <=> pc'[r] = "exec")
  <2>1. recorded_phase' = recorded_phase
    BY <1>1, <1>2, <1>7, Phases DEF p, phases
  <2>2. at_work' = at_work
    BY <1>4, <1>7
  <2> QED
    BY <1>1, <1>21, <2>1, <2>2, SameIsStep
<1>8. CASE q = "open" /\ p = "open" /\ pc[r] # "exec" /\ pc'[r] = "exec"
  <2>1. recorded_phase' = recorded_phase
    BY <1>1, <1>2, <1>8, Phases DEF p, phases
  <2>2. Contract!Work(m)
    BY <1>1, <1>21, <1>4, <1>8, <2>1 DEF p, Contract!Work
  <2> QED
    BY <1>1, <2>2 DEF Contract!Advance
<1>81. CASE q = "open" /\ p = "open" /\ pc[r] = "exec" /\ pc'[r] # "exec"
  BY <1>1, <1>2, <1>21, <1>4, <1>81
  DEF p, Contract!Advance, Contract!Rest, Contract!Move
<1>9. CASE p = "new" /\ q \in { "open", "closed" } /\ pc[r] # "exec" /\ pc'[r] # "exec"
  BY <1>1, <1>2, <1>21, <1>4, <1>9 DEF p, Contract!Advance, Contract!TakeUp, Contract!Move
<1>10. CASE p = "open" /\ q = "waiting" /\ pc[r] # "exec" /\ pc'[r] # "exec"
  BY <1>1, <1>2, <1>21, <1>4, <1>10 DEF p, Contract!Advance, Contract!Pause, Contract!Move
<1>11. CASE p = "open" /\ q = "closed" /\ pc'[r] # "exec"
  BY <1>1, <1>2, <1>21, <1>4, <1>11
  DEF p, Contract!Advance, Contract!CloseMission, Contract!Move
<1> QED
  BY <1>6, <1>7, <1>8, <1>81, <1>9, <1>10, <1>11, NoneAssumption
  DEF Arc, OpenRecord, MissionStatus

-----------------------------------------------------------------------------
(* The other steps *)

\* the work of the crews is untouched by a step that moves no run to or from "exec"
LEMMA SameWork ==
  ASSUME \A r \in Runs : \/ pc'[r] = pc[r] /\ of'[r] = of[r]
                         \/ pc[r] # "exec" /\ pc'[r] # "exec"
  PROVE  at_work' = at_work
  BY DEF at_work

LEMMA StartIsStep ==
  ASSUME Inv, DirectInv, NEW r \in Runs, Start(r)
  PROVE  [Contract!Advance]_(Contract!vars)
<1> DEFINE m == of[r]
           reopened == [record EXCEPT ![m] = "RUNNING"]
<1>1. /\ pc[r] = "queued" /\ m \in Missions /\ granted' = granted
      /\ job[r] \in Submits \cup { "grant", "deny" }
      /\ \A n \in Missions : n # m => record'[n] = record[n]
      /\ record' = [record EXCEPT ![m] = record'[m]]
  BY DEF Start, StartSubmitted, StartResume, StartGrant, StartDeny, NotAwaiting, Reopen,
         Begin, At, Inv, HasMission, TypeOK, DirectInv, NoResume, Submits, Persist, Write,
         recordVars
<1>2. at_work' = at_work
  <2>1. pc'[r] \in { "planning", "return", "over" }
    BY <1>1 DEF Start, StartSubmitted, StartResume, StartGrant, StartDeny, NotAwaiting,
                Reopen, Begin, Leave, Goto, Inv, TypeOK
  <2>2. \A r2 \in Runs : r2 # r => pc'[r2] = pc[r2] /\ of'[r2] = of[r2]
    BY StepIsLocal DEF Step, Inv, Elsewhere
  <2> QED
    BY <1>1, <2>1, <2>2, SameWork
<1>3. recorded_phase' = [recorded_phase EXCEPT ![m] = phase_of(record'[m])]
  BY <1>1, Phases DEF phases
<1>4. recorded_phase[m] = phase_of(record[m])
  BY <1>1, Phases DEF phases
<1>5. /\ phase_of(None) = "new" /\ phase_of("AWAITING_APPROVAL") = "waiting"
      /\ phase_of("RUNNING") = "open" /\ phase_of("FAILED") = "closed"
  BY PhaseOf, NoneAssumption DEF MissionStatus, OpenRecord
<1>51. phases(reopened) = [recorded_phase EXCEPT ![m] = "open"]
  BY <1>1, <1>5, Phases DEF phases, Inv, TypeOK
<1>6. ASSUME approval_status(m) = "AWAITING_APPROVAL"
      PROVE  record[m] = "AWAITING_APPROVAL" /\ m \notin at_work
  <2>1. record[m] = "AWAITING_APPROVAL"
    BY <1>1, <1>6 DEF approval_status, DirectInv, RecordIsCurrent
  <2>2. \A r2 \in Runs : of[r2] = m => pc[r2] # "exec"
    <3> SUFFICES ASSUME NEW r2 \in Runs, of[r2] = m, pc[r2] = "exec" PROVE FALSE
      OBVIOUS
    <3>1. status[r2] = "RUNNING" /\ registry[m] = r2
      BY DEF DirectInv, ActiveIsRegistered, active, Awaits, Inv, NoRefusedTransition,
             expected_status
    <3> QED
      BY <1>6, <3>1, LifecycleAssumption DEF approval_status
  <2> QED
    BY <2>1, <2>2 DEF at_work
<1> HIDE DEF reopened
<1>7. CASE StartSubmitted(r)
  <2>1. record[m] = None
    BY <1>1, <1>7 DEF StartSubmitted, DirectInv, SubmittedIsFirst, Submits
  <2>2. record'[m] \in { record[m], "FAILED" } /\ saved' \in { saved, record' }
    BY <1>1, <1>7 DEF StartSubmitted, Begin, Persist, Write, recordVars, Inv, TypeOK
  <2>3. saved_phase' \in { saved_phase, recorded_phase' }
    BY <2>2, SavedPhase
  <2>4. CASE record'[m] = record[m]
    <3>1. recorded_phase' = recorded_phase
      BY <1>1, <1>3, <1>4, <2>4, Phases DEF phases
    <3> QED
      BY <1>1, <1>2, <2>3, <3>1, SameIsStep
  <2>5. CASE record'[m] = "FAILED"
    BY <1>1, <1>2, <1>3, <1>4, <1>5, <2>1, <2>3, <2>5
    DEF Contract!Advance, Contract!TakeUp, Contract!Move
  <2> QED
    BY <2>2, <2>4, <2>5
<1>8. CASE StartGrant(r)
  <2>1. record[m] = "AWAITING_APPROVAL" /\ m \notin at_work
    BY <1>6, <1>8 DEF StartGrant
  <2>2. /\ m \in granted
        /\ \/ record'[m] = "RUNNING" /\ saved' \in { saved, record' }
           \/ record'[m] = "FAILED" /\ saved' \in { saved, reopened, record' }
    <3>1. m \in granted
      BY <1>1, <1>8 DEF StartGrant, Inv, ForcedIsGranted
    <3>2. \/ Write([reopened EXCEPT ![m] = "FAILED"],
                   IF reopened = record THEN {saved} ELSE { saved, reopened })
          \/ UNCHANGED recordVars /\ reopened = record
          \/ Write(reopened, {saved})
      BY <1>8 DEF StartGrant, Reopen, Begin, Persist, reopened
    <3>3. /\ reopened[m] = "RUNNING"
          /\ [reopened EXCEPT ![m] = "FAILED"][m] = "FAILED"
      BY <1>1 DEF Inv, TypeOK, reopened
    <3> QED
      BY <3>1, <3>2, <3>3 DEF Write, recordVars
  <2>3. CASE record'[m] = "RUNNING" /\ saved' \in { saved, record' }
    <3>1. saved_phase' \in { saved_phase, recorded_phase' }
      BY <2>3, SavedPhase
    <3> QED
      BY <1>1, <1>2, <1>3, <1>4, <1>5, <2>1, <2>2, <2>3, <3>1
      DEF Contract!Advance, Contract!Resume, Contract!Move
  <2>4. CASE record'[m] = "FAILED" /\ saved' \in { saved, reopened, record' }
    <3>1. saved_phase' \in { saved_phase, [recorded_phase EXCEPT ![m] = "open"],
                             recorded_phase' }
      BY <1>51, <2>4, Phases
    <3> QED
      BY <1>1, <1>2, <1>3, <1>4, <1>5, <2>1, <2>2, <2>4, <3>1
      DEF Contract!Advance, Contract!Refuse
  <2> QED
    BY <2>2, <2>3, <2>4
<1>9. CASE StartDeny(r)
  <2>1. record[m] = "AWAITING_APPROVAL" /\ m \notin at_work
    BY <1>6, <1>9 DEF StartDeny
  <2>2. record'[m] = "FAILED" /\ saved' \in { saved, record' }
    BY <1>1, <1>9 DEF StartDeny, Persist, Write, Inv, TypeOK
  <2>3. saved_phase' \in { saved_phase, recorded_phase' }
    BY <2>2, SavedPhase
  <2> QED
    BY <1>1, <1>2, <1>3, <1>4, <1>5, <2>1, <2>2, <2>3
    DEF Contract!Advance, Contract!CloseMission, Contract!Move
<1>10. CASE NotAwaiting(r)
  <2>1. recorded_phase' = recorded_phase /\ saved_phase' = saved_phase
    BY <1>10, Phases DEF NotAwaiting, recordVars
  <2> QED
    BY <1>1, <1>2, <2>1, SameIsStep
<1> QED
  BY <1>1, <1>7, <1>8, <1>9, <1>10 DEF Start, StartResume, Submits

LEMMA DecideIsStep ==
  ASSUME "v2approve" \notin Routes, Inv, NEW m \in Missions, Decide(m)
  PROVE  [Contract!Advance]_(Contract!vars)
<1>1. record' = record /\ saved' = saved /\ granted' \in { granted, granted \cup {m} }
  BY DEF Decide, Submit, ApproveV2, ApproveV3, Reject, ResolveRoute, recordVars
<1>2. \A r \in Runs : \/ pc'[r] = pc[r] /\ of'[r] = of[r]
                      \/ pc[r] # "exec" /\ pc'[r] # "exec"
  BY DEF Decide, Submit, ApproveV2, ApproveV3, Reject, ResolveRoute,
         Schedule, At, Inv, TypeOK
<1>3. recorded_phase' = recorded_phase /\ saved_phase' = saved_phase /\ at_work' = at_work
  BY <1>1, <1>2, SameWork, Phases
<1> QED
  BY <1>1, <1>3 DEF Contract!Advance, Contract!Grant, Contract!vars

LEMMA ReturnIsStep ==
  ASSUME Inv, NEW r \in Runs, Return(r)
  PROVE  UNCHANGED Contract!vars
<1>1. /\ record' = record /\ saved' = saved /\ granted' = granted
      /\ pc[r] = "return" /\ pc'[r] = "over"
      /\ \A r2 \in Runs : r2 # r => pc'[r2] = pc[r2] /\ of'[r2] = of[r2]
  BY DEF Return, Leave, Goto, At, Inv, TypeOK, recordVars
<1>2. recorded_phase' = recorded_phase /\ saved_phase' = saved_phase /\ at_work' = at_work
  BY <1>1, SameWork, Phases
<1> QED
  BY <1>1, <1>2 DEF Contract!vars

\* a kill takes the store back to the file
LEMMA CrashIsStep ==
  ASSUME Crash
  PROVE  Contract!Halt
<1>1. record' = saved /\ saved' = saved /\ granted' = granted
        /\ \A r \in Runs : pc'[r] = "idle"
  BY DEF Crash
<1>2. recorded_phase' = saved_phase /\ saved_phase' = saved_phase /\ at_work' = {}
  BY <1>1, Phases DEF at_work
<1> QED
  BY <1>1, <1>2 DEF Contract!Halt

LEMMA BootIsStep ==
  ASSUME Inv, DirectInv, Boot
  PROVE  [Contract!Advance]_(Contract!vars)
<1>1. /\ server = "down" /\ granted' = granted /\ UNCHANGED << pc, of >>
  BY DEF Boot, Recover, Unrecovered, runVars, task
<1>2. at_work = {} /\ at_work' = at_work
  BY <1>1, SameWork DEF Inv, DownIsIdle, at_work
<1>3. CASE Recover
  <2> DEFINE open == { m \in Missions : recorded_phase[m] = "open" }
             closing(ms) == [m \in Missions |->
                               IF m \in ms THEN "closed" ELSE recorded_phase[m]]
  <2>1. PICK broken \in SUBSET Missions :
          /\ broken = { m \in Missions : record[m] \in OpenRecord }
          /\ record' = failing(broken)
          /\ \E ms \in SUBSET broken : saved' = failing(ms)
    <3> DEFINE b == { m \in Missions : record[m] \in OpenRecord }
    <3>1. b = recover_non_terminal \ { m \in recover_non_terminal :
                                         record[m] = "AWAITING_APPROVAL" }
      BY DEF recover_non_terminal, OpenRecord
    <3>2. Write(failing(b), { failing(ms) : ms \in SUBSET b })
      BY <1>3, <3>1 DEF Recover
    <3> HIDE DEF b
    <3>3. /\ record' = failing(b)
          /\ \E ms \in SUBSET b : saved' = failing(ms)
      BY <3>2 DEF Write
    <3> QED
      BY <3>3 DEF b
  <2>2. \A m \in Missions : record[m] \in (MissionStatus \ { "CREATED" }) \cup {None}
    BY DEF Inv, TypeOK, DirectInv, RecordIsCurrent
  <2>3. broken = open
    <3> SUFFICES ASSUME NEW m \in Missions
                 PROVE  record[m] \in OpenRecord <=> recorded_phase[m] = "open"
      BY <2>1
    <3>1. recorded_phase[m] = phase_of(record[m])
      BY Phases DEF phases
    <3> QED
      BY <2>2, <3>1, PhaseOf, NoneAssumption DEF OpenRecord, MissionStatus
  <2>4. \A ms \in SUBSET Missions : phases(failing(ms)) = closing(ms)
    <3>1. phase_of("FAILED") = "closed"
      BY PhaseOf, NoneAssumption DEF MissionStatus, OpenRecord
    <3> QED
      BY <3>1, Phases DEF phases, failing
  <2>5. recorded_phase' = closing(open) /\ \E ms \in SUBSET open : saved_phase' = closing(ms)
    <3>1. recorded_phase' = closing(open)
      BY <2>1, <2>3, <2>4, Phases
    <3>2. PICK ms \in SUBSET broken : saved' = failing(ms)
      BY <2>1
    <3>3. saved_phase' = closing(ms) /\ ms \in SUBSET open
      BY <2>3, <2>4, <3>2, Phases
    <3> QED
      BY <3>1, <3>3
  <2> QED
    BY <1>1, <1>2, <2>5 DEF Contract!Advance, Contract!Sweep
<1>4. CASE Unrecovered
  <2>1. recorded_phase' = recorded_phase /\ saved_phase' = saved_phase
    BY <1>4, Phases DEF Unrecovered, recordVars
  <2> QED
    BY <1>1, <1>2, <2>1, SameIsStep
<1> QED
  BY <1>3, <1>4 DEF Boot

\* a step is a kill, or one of the contract other than Halt
LEMMA AdvanceStep ==
  ASSUME "v2approve" \notin Routes, Inv, DirectInv, [Next]_vars
  PROVE  Crash \/ [Contract!Advance]_(Contract!vars)
<1>1. ASSUME NEW m \in Missions, Decide(m) PROVE [Contract!Advance]_(Contract!vars)
  BY <1>1, DecideIsStep
<1>2. ASSUME NEW r \in Runs, Step(r) PROVE [Contract!Advance]_(Contract!vars)
  <2>1. CASE Start(r)
    BY <2>1, StartIsStep
  <2>2. CASE Middle(r)
    BY <2>2, MiddleRuns, MiddleIsArc, ArcIsStep DEF Inv
  <2>3. CASE Return(r)
    BY <2>3, ReturnIsStep
  <2> QED
    BY <1>2, <2>1, <2>2, <2>3, StepKinds
<1>3. CASE Boot
  BY <1>3, BootIsStep
<1>4. CASE UNCHANGED vars
  <2>1. record' = record /\ saved' = saved /\ granted' = granted /\ UNCHANGED << pc, of >>
    BY <1>4 DEF vars, runVars, task, recordVars
  <2>2. recorded_phase' = recorded_phase /\ saved_phase' = saved_phase
          /\ at_work' = at_work
    BY <2>1, SameWork, Phases
  <2> QED
    BY <2>1, <2>2 DEF Contract!vars
<1> QED
  BY <1>1, <1>2, <1>3, <1>4 DEF Next

LEMMA ContractStep ==
  ASSUME "v2approve" \notin Routes, Inv, DirectInv, [Next]_vars
  PROVE  [Contract!Next]_(Contract!vars)
  BY AdvanceStep, CrashIsStep DEF Contract!Next

-----------------------------------------------------------------------------

\* Seen through its record, a mission keeps the contract: taken up once, paused
\* when no crew works, resumed with a grant only, closed for good, and worked on
\* only while it is open, through failing saves, crashes and restarts
\* (core/meta_orchestrator.py, core/orchestration/execution_supervisor.py,
\* core/mission_persistence.py).
THEOREM KeepsContract ==
  ASSUME "v2approve" \notin Routes
  PROVE  Spec => ContractSpec
<1>1. Init => Contract!Init
  BY ContractInit
<1>2. Inv /\ DirectInv /\ [Next]_vars => [Contract!Next]_(Contract!vars)
  BY ContractStep
<1> QED
  BY <1>1, <1>2, DirectInvariance, PTL DEF Spec, ContractSpec, Contract!Spec

-----------------------------------------------------------------------------
(* What the contract promises, and so the lifecycle keeps *)

ContractMove == [Contract!Advance]_(Contract!vars)

LEMMA PhasesAreFunctions ==
  /\ recorded_phase = [m \in Missions |-> recorded_phase[m]]
  /\ recorded_phase' = [m \in Missions |-> recorded_phase'[m]]
  BY DEF recorded_phase

CrewsAreSeen == \A m \in at_work : m \in Missions /\ recorded_phase[m] = "open"

LEMMA MoveKeepsCrews == CrewsAreSeen /\ ContractMove => CrewsAreSeen'
<1> SUFFICES ASSUME CrewsAreSeen, ContractMove PROVE CrewsAreSeen'
  OBVIOUS
<1> USE PhasesAreFunctions DEF CrewsAreSeen
<1>1. CASE UNCHANGED Contract!vars
  BY <1>1 DEF Contract!vars
<1>2. ASSUME NEW m \in Missions,
             \/ Contract!Grant(m) \/ Contract!TakeUp(m) \/ Contract!Work(m)
             \/ Contract!Rest(m) \/ Contract!Pause(m) \/ Contract!Resume(m)
             \/ Contract!Refuse(m) \/ Contract!CloseMission(m)
      PROVE  CrewsAreSeen'
  <2>1. CASE Contract!Refuse(m)
    BY <2>1 DEF Contract!Refuse
  <2> QED
    BY <1>2, <2>1
    DEF Contract!Grant, Contract!TakeUp, Contract!Work, Contract!Rest, Contract!Pause,
        Contract!Resume, Contract!CloseMission, Contract!Move
<1>3. CASE Contract!Rewrite \/ Contract!Sweep
  BY <1>3 DEF Contract!Rewrite, Contract!Sweep
<1>4. QED
  BY <1>1, <1>2, <1>3 DEF ContractMove, Contract!Advance

\* While a crew is at work on a mission its record says that the mission is under
\* way, neither awaiting approval nor closed: what the lists of
\* api/routes/mission_persistence.py show agrees with what is done.
THEOREM CrewsShow == "v2approve" \notin Routes => (Spec => []CrewsAreSeen)
<1> SUFFICES ASSUME "v2approve" \notin Routes PROVE Spec => []CrewsAreSeen
  OBVIOUS
<1>1. Contract!Init => CrewsAreSeen
  BY DEF Contract!Init, CrewsAreSeen
<1>2. Contract!Halt => CrewsAreSeen'
  BY DEF Contract!Halt, CrewsAreSeen
<1>3. CrewsAreSeen /\ [Contract!Next]_(Contract!vars) => CrewsAreSeen'
  BY <1>2, MoveKeepsCrews DEF ContractMove, Contract!Next
<1>4. QED
  BY <1>1, <1>3, KeepsContract, PTL DEF ContractSpec, Contract!Spec

\* What has been closed stays closed, and what awaits approval goes on by a grant.
\* A kill may undo it only when a write of the file has failed before.
RecordIsLatched ==
  server' = "up" \/ failures = 0 =>
    \A m \in Missions :
      /\ recorded_phase[m] = "closed" => recorded_phase'[m] = "closed"
      /\ recorded_phase[m] = "waiting" =>
           \/ recorded_phase'[m] \in { "waiting", "closed" }
           \/ m \in granted

LEMMA MoveIsLatched == ContractMove => RecordIsLatched
<1> SUFFICES ASSUME ContractMove PROVE RecordIsLatched
  OBVIOUS
<1> USE PhasesAreFunctions DEF RecordIsLatched
<1>1. CASE UNCHANGED Contract!vars
  BY <1>1 DEF Contract!vars
<1>2. ASSUME NEW m \in Missions,
             \/ Contract!Grant(m) \/ Contract!TakeUp(m) \/ Contract!Work(m)
             \/ Contract!Rest(m) \/ Contract!Pause(m) \/ Contract!Resume(m)
             \/ Contract!Refuse(m) \/ Contract!CloseMission(m)
      PROVE  RecordIsLatched
  <2>1. CASE Contract!Refuse(m)
    BY <2>1 DEF Contract!Refuse
  <2> QED
    BY <1>2, <2>1
    DEF Contract!Grant, Contract!TakeUp, Contract!Work, Contract!Rest, Contract!Pause,
        Contract!Resume, Contract!CloseMission, Contract!Move
<1>3. CASE Contract!Rewrite \/ Contract!Sweep
  BY <1>3 DEF Contract!Rewrite, Contract!Sweep
<1>4. QED
  BY <1>1, <1>2, <1>3 DEF ContractMove, Contract!Advance

LEMMA CrashIsLatched ==
  ASSUME Inv, Crash
  PROVE  RecordIsLatched
<1>1. server' = "down" /\ record' = saved
  BY DEF Crash
<1>2. failures = 0 => recorded_phase' = recorded_phase
  BY <1>1, Phases DEF Inv, SavedIsCurrent
<1> QED
  BY <1>1, <1>2 DEF RecordIsLatched

\* A record that says DONE, FAILED, CANCELLED or REJECTED says so for good, and one
\* that says AWAITING_APPROVAL is opened only for a mission that a human approved,
\* whatever runs, returns or is recovered meanwhile, and across a kill as well when
\* every write of the file before it has succeeded (core/mission_persistence.py).
THEOREM RecordsLatch ==
  "v2approve" \notin Routes => (Spec => [][RecordIsLatched]_vars)
<1> SUFFICES ASSUME "v2approve" \notin Routes
             PROVE  Spec => [][RecordIsLatched]_vars
  OBVIOUS
<1>1. Inv /\ DirectInv /\ [Next]_vars => [RecordIsLatched]_vars
  BY AdvanceStep, MoveIsLatched, CrashIsLatched DEF ContractMove
<1>2. QED
  BY <1>1, DirectInvariance, PTL DEF Spec

=============================================================================
