-------------------------- MODULE ToolExecutorProofs --------------------------
(***************************************************************************)
(* Theorems about ToolExecutor, its circuit breaker and the sessions of the  *)
(* policy engine, for every number of calls, tools and missions and every    *)
(* limit.                                                                   *)
(***************************************************************************)
EXTENDS ToolExecutor, FiniteSetTheorems, TLAPS

-----------------------------------------------------------------------------
(* The circuit breaker *)

BreakerInv == BreakerTypeOK /\ CircuitCounts

LEMMA BreakerInitInv == BreakerInit => BreakerInv
  BY BreakerAssumption
  DEF BreakerInit, BreakerInv, BreakerTypeOK, CircuitCounts, CircuitStates

LEMMA BreakerStepInv ==
  ASSUME BreakerInv, NEW t \in Tools,
         Cool(t) \/ LetThrough(t) \/ record_success(t) \/ record_failure(t)
  PROVE  BreakerInv'
<1> USE BreakerAssumption DEF BreakerInv, BreakerTypeOK, CircuitCounts, CircuitStates
<1>1. CASE Cool(t)
  BY <1>1 DEF Cool
<1>2. CASE LetThrough(t)
  BY <1>2 DEF LetThrough
<1>3. CASE record_success(t)
  BY <1>3 DEF record_success
<1>4. CASE record_failure(t)
  BY <1>4 DEF record_failure
<1>5. QED
  BY <1>1, <1>2, <1>3, <1>4

-----------------------------------------------------------------------------
(* The calls *)

Stages == { "execute", "asking", "circuit", "policy", "checks" } \cup Running
            \cup Ended

FailedOf(t) == { c \in Calls : tool[c] = t /\ stage[c] = "failed" }

\* each failure that the breaker counts has been reported to a caller
FailuresAreReported ==
  \A t \in Tools : consecutive_failures[t] <= Cardinality(FailedOf(t))

\* a call that has left a thread to itself starts no other
StrayIsLast ==
  \A c \in Calls :
    /\ strays[c] \in Nat /\ strays[c] <= 1
    /\ strays[c] > 0 => stage[c] \in { "feedback_failed", "failed" }

CallsInv ==
  /\ tool \in [Calls -> Tools]
  /\ stage \in [Calls -> Stages]
  /\ strays \in [Calls -> Nat]
  /\ BreakerInv
  /\ FailuresAreReported
  /\ StrayIsLast

LEMMA FailedIsFinite ==
  ASSUME NEW t PROVE IsFiniteSet(FailedOf(t)) /\ Cardinality(FailedOf(t)) \in Nat
<1>1. FailedOf(t) \subseteq Calls
  BY DEF FailedOf
<1>2. QED
  BY <1>1, SessionsAssumption, FS_Subset, FS_CardinalityType

LEMMA CallsInitInv == Init => CallsInv
<1> SUFFICES ASSUME Init PROVE CallsInv
  OBVIOUS
<1>1. BreakerInv
  BY BreakerInitInv DEF Init
<1>2. FailuresAreReported
  BY FailedIsFinite DEF Init, BreakerInit, FailuresAreReported
<1>3. QED
  BY <1>1, <1>2 DEF Init, CallsInv, StrayIsLast, Stages

\* The end of a call tells the breaker of a success or of a failure; after a
\* failure the call is one more of those that were reported.
LEMMA FeedbackInv ==
  ASSUME CallsInv, NEW c \in Calls, Feedback(c) PROVE CallsInv'
<1> USE DEF CallsInv
<1>1. tool[c] \in Tools /\ UNCHANGED << tool, strays >>
  BY DEF Feedback
<1>2. BreakerInv'
  BY <1>1, BreakerStepInv DEF Feedback
<1>3. CASE stage[c] = "feedback_ok"
  <2>1. /\ stage' = [stage EXCEPT ![c] = "ok"]
        /\ record_success(tool[c])
    BY <1>3 DEF Feedback, Goto
  <2>2. \A t \in Tools : FailedOf(t)' = FailedOf(t)
    BY <1>1, <1>3, <2>1 DEF FailedOf
  <2>3. FailuresAreReported'
    BY <2>1, <2>2, FailedIsFinite
    DEF record_success, FailuresAreReported, BreakerInv, BreakerTypeOK
  <2>4. StrayIsLast'
    BY <1>1, <1>3, <2>1 DEF StrayIsLast
  <2>5. QED
    BY <1>1, <1>2, <2>1, <2>3, <2>4 DEF Stages, Ended
<1>4. CASE stage[c] = "feedback_failed"
  <2>1. /\ stage' = [stage EXCEPT ![c] = "failed"]
        /\ record_failure(tool[c])
    BY <1>4 DEF Feedback, Goto
  <2>2. /\ FailedOf(tool[c])' = FailedOf(tool[c]) \cup { c }
        /\ c \notin FailedOf(tool[c])
        /\ \A t \in Tools \ { tool[c] } : FailedOf(t)' = FailedOf(t)
    BY <1>1, <1>4, <2>1 DEF FailedOf
  <2>3. Cardinality(FailedOf(tool[c])') = Cardinality(FailedOf(tool[c])) + 1
    BY <2>2, FailedIsFinite, FS_AddElement
  <2>4. /\ consecutive_failures \in [Tools -> Nat]
        /\ consecutive_failures' = [consecutive_failures EXCEPT ![tool[c]] = @ + 1]
    BY <2>1 DEF record_failure, BreakerInv, BreakerTypeOK
  <2>5. FailuresAreReported'
    <3> SUFFICES ASSUME NEW t \in Tools
                 PROVE  consecutive_failures'[t] <= Cardinality(FailedOf(t)')
      BY DEF FailuresAreReported
    <3>1. consecutive_failures[t] <= Cardinality(FailedOf(t))
      BY DEF FailuresAreReported
    <3>2. CASE t = tool[c]
      BY <1>1, <2>3, <2>4, <3>1, <3>2, FailedIsFinite
    <3>3. CASE t # tool[c]
      BY <2>2, <2>4, <3>1, <3>3
    <3>4. QED
      BY <3>2, <3>3
  <2>6. StrayIsLast'
    BY <1>1, <1>4, <2>1 DEF StrayIsLast
  <2>7. QED
    BY <1>1, <1>2, <2>1, <2>5, <2>6 DEF Stages, Ended
<1>5. QED
  BY <1>3, <1>4 DEF Feedback

\* Any other step of a call moves it between stages that are not the end of a
\* failure, and starts no thread beside a stray one.
LEMMA StepInv ==
  ASSUME CallsInv, NEW c \in Calls, Step(c) \/ ThreadAnswers(c) \/ GateFails(c)
  PROVE  CallsInv'
<1> USE DEF Goto, Stages, Running, Ended
<1>1. ASSUME NEW there \in Stages \ { "failed" }, stage[c] \notin { "failed", "feedback_failed" },
             stage' = [stage EXCEPT ![c] = there],
             UNCHANGED << tool, consecutive_failures >>, BreakerInv',
             \/ strays' = strays
             \/ stage[c] = "join" /\ there = "feedback_failed"
                  /\ strays' = [strays EXCEPT ![c] = @ + 1]
      PROVE  CallsInv'
  <2>1. \A t \in Tools : FailedOf(t)' = FailedOf(t)
    BY <1>1 DEF FailedOf, CallsInv
  <2>2. FailuresAreReported'
    BY <1>1, <2>1 DEF FailuresAreReported, CallsInv
  <2>3. StrayIsLast' /\ strays' \in [Calls -> Nat]
    BY <1>1 DEF StrayIsLast, CallsInv
  <2>4. QED
    BY <1>1, <2>2, <2>3 DEF CallsInv
<1>2. (UNCHANGED breakerVars) => BreakerInv' /\ UNCHANGED consecutive_failures
  BY DEF breakerVars, CallsInv, BreakerInv, BreakerTypeOK, CircuitCounts
<1>3. CASE Refuse(c)
  BY <1>1, <1>2, <1>3 DEF Refuse
<1>4. CASE Permit(c)
  BY <1>1, <1>2, <1>4 DEF Permit
<1>5. CASE CheckGated(c)
  BY <1>1, <1>2, <1>5 DEF CheckGated
<1>6. CASE FileRequest(c)
  BY <1>1, <1>2, <1>6 DEF FileRequest
<1>7. CASE AskCircuit(c)
  <2>1. UNCHANGED consecutive_failures /\ BreakerInv'
    BY <1>2, <1>7, BreakerStepInv DEF AskCircuit, LetThrough, CallsInv
  <2>2. PICK there \in { "policy", "circuit_open" } :
          stage' = [stage EXCEPT ![c] = there]
    BY <1>7 DEF AskCircuit
  <2>3. QED
    BY <1>1, <1>7, <2>1, <2>2 DEF AskCircuit
<1>8. CASE DenyOutright(c)
  BY <1>1, <1>2, <1>8 DEF DenyOutright
<1>9. CASE AskPolicy(c)
  <2>1. UNCHANGED << tool, stage, strays, consecutive_failures >> /\ BreakerInv'
    BY <1>2, <1>9 DEF AskPolicy, callVars, CallsInv
  <2>2. \A t \in Tools : FailedOf(t)' = FailedOf(t)
    BY <2>1 DEF FailedOf, CallsInv
  <2>3. QED
    BY <2>1, <2>2 DEF CallsInv, FailuresAreReported, StrayIsLast
<1>10. CASE PolicyAnswers(c)
  <2>1. PICK there \in { "checks", "policy_blocked" } :
          stage' = [stage EXCEPT ![c] = there]
    BY <1>10 DEF PolicyAnswers
  <2>2. QED
    BY <1>1, <1>2, <1>10, <2>1 DEF PolicyAnswers
<1>11. CASE LateBlock(c)
  BY <1>1, <1>2, <1>11 DEF LateBlock
<1>12. CASE StartAttempt(c)
  BY <1>1, <1>2, <1>12 DEF StartAttempt
<1>13. CASE ThreadAnswers(c)
  <2>1. PICK there \in { "feedback_ok", "pause", "feedback_failed", "raised" } :
          stage' = [stage EXCEPT ![c] = there]
    BY <1>13 DEF ThreadAnswers
  <2>2. QED
    BY <1>1, <1>2, <1>13, <2>1 DEF ThreadAnswers
<1>14. CASE JoinTimesOut(c)
  BY <1>1, <1>2, <1>14 DEF JoinTimesOut
<1>15. CASE Feedback(c)
  BY <1>15, FeedbackInv
<1>16. CASE GateFails(c)
  <2>1. PICK there \in { "circuit", "policy", "checks", "policy_blocked" } :
          stage' = [stage EXCEPT ![c] = there]
    BY <1>16 DEF GateFails, CheckFails, CircuitFails, PolicyFails
  <2>2. QED
    BY <1>1, <1>2, <1>16, <2>1 DEF GateFails, CheckFails, CircuitFails, PolicyFails
<1>17. QED
  BY <1>3, <1>4, <1>5, <1>6, <1>7, <1>8, <1>9, <1>10, <1>11, <1>12, <1>13, <1>14,
     <1>15, <1>16 DEF Step

LEMMA CallsNextInv == CallsInv /\ [Next]_vars => CallsInv'
<1> SUFFICES ASSUME CallsInv, [Next]_vars PROVE CallsInv'
  OBVIOUS
<1>1. ASSUME UNCHANGED << tool, stage, consecutive_failures >>, BreakerInv',
             \A c \in Calls : strays'[c] \in Nat /\ strays'[c] <= strays[c],
             strays' \in [Calls -> Nat]
      PROVE  CallsInv'
  <2>1. \A t \in Tools : FailedOf(t)' = FailedOf(t)
    BY <1>1 DEF FailedOf
  <2>2. QED
    BY <1>1, <2>1 DEF CallsInv, FailuresAreReported, StrayIsLast
<1>2. (UNCHANGED breakerVars) => BreakerInv' /\ UNCHANGED consecutive_failures
  BY DEF CallsInv, breakerVars, BreakerInv, BreakerTypeOK, CircuitCounts
<1>3. (UNCHANGED strays) => /\ \A c \in Calls : strays'[c] \in Nat
                                                  /\ strays'[c] <= strays[c]
                            /\ strays' \in [Calls -> Nat]
  BY DEF CallsInv
<1>4. ASSUME NEW c \in Calls, Step(c) \/ ThreadAnswers(c) \/ GateFails(c)
      PROVE  CallsInv'
  BY <1>4, StepInv
<1>5. ASSUME NEW c \in Calls, StrayEnds(c) PROVE CallsInv'
  <2>1. /\ strays' \in [Calls -> Nat]
        /\ \A d \in Calls : strays'[d] \in Nat /\ strays'[d] <= strays[d]
    BY <1>5 DEF StrayEnds, CallsInv
  <2>2. QED
    BY <1>1, <1>2, <1>5, <2>1 DEF StrayEnds
<1>6. ASSUME NEW i \in DOMAIN requests,
             Lapse(i) \/ Decide(i, "approved") \/ Decide(i, "denied")
      PROVE  CallsInv'
  BY <1>1, <1>2, <1>3, <1>6 DEF Lapse, Decide
<1>7. ASSUME NEW t \in Tools, Cool(t) /\ UNCHANGED << sessionVars, callVars >>
      PROVE  CallsInv'
  BY <1>1, <1>3, <1>7, BreakerStepInv DEF CallsInv, Cool, callVars
<1>8. CASE UNCHANGED << breakerVars, callVars >>
  BY <1>1, <1>2, <1>3, <1>8 DEF callVars
<1>9. QED
  BY <1>4, <1>5, <1>6, <1>7, <1>8 DEF Next, Environment, vars

-----------------------------------------------------------------------------
(* The sessions, in the memory store *)

SessionsTyped ==
  /\ sessions \in [Missions -> Trackers \cup { None }]
  /\ tracker \in [Trackers -> [actions_done : Nat, started_at : Nat]]
  /\ born \in Nat
  /\ mission \in [Calls -> Missions]
  /\ asked \in [Calls -> { "idle", "expired", "overflow", "new", "record", "save",
                           "allowed", "denied", "raised" }]
  /\ doomed \in [Calls -> SUBSET Missions]
  /\ held \in [Calls -> Trackers \cup { None }]
  /\ gaps \subseteq Missions

\* a tracker made for a mission is the tracker of no other
TrackersAreOwn ==
  /\ \A m \in Missions : sessions[m] \in Calls \cup { m, None }
  /\ \A c \in Calls : held[c] \in Calls \cup { mission[c], None }

\* a mission without a gap has its first tracker, and so have its calls
FirstTracker ==
  /\ \A m \in Missions \ gaps : sessions[m] = m
  /\ \A c \in Calls : mission[c] \notin gaps =>
       /\ asked[c] # "new"
       /\ asked[c] \in { "record", "save" } => held[c] = mission[c]

\* ... which has counted every action that was allowed
ActionsAreCounted ==
  \A m \in Missions \ gaps :
    /\ Cardinality(Allowed(m)) <= tracker[m].actions_done
    /\ tracker[m].actions_done <= max_actions_per_session

SessionsInv ==
  SessionsTyped /\ TrackersAreOwn /\ FirstTracker /\ ActionsAreCounted

LEMMA AllowedIsFinite ==
  ASSUME NEW m PROVE IsFiniteSet(Allowed(m)) /\ Cardinality(Allowed(m)) \in Nat
<1>1. Allowed(m) \subseteq Calls
  BY DEF Allowed
<1>2. QED
  BY <1>1, SessionsAssumption, FS_Subset, FS_CardinalityType

\* a step that allows nothing, and no other tracker, keeps the count
LEMMA CountKept ==
  ASSUME SessionsInv, mission' = mission, gaps \subseteq gaps',
         \A m \in Missions \ gaps' : tracker'[m] = tracker[m],
         \A c \in Calls : asked'[c] \in { "save", "allowed" }
                            <=> asked[c] \in { "save", "allowed" }
  PROVE  ActionsAreCounted'
<1>1. \A m \in Missions : Allowed(m)' = Allowed(m)
  BY DEF Allowed
<1>2. QED
  BY <1>1 DEF SessionsInv, ActionsAreCounted

LEMMA SessionsInitInv == Init => SessionsInv
<1> SUFFICES ASSUME Init PROVE SessionsInv
  OBVIOUS
<1> USE SessionsAssumption DEF Init, SessionsInit
<1>0. IsFiniteSet({}) /\ Cardinality({}) = 0
  BY FS_EmptySet
<1>1. \A m \in Missions : Allowed(m) = {}
  BY DEF Allowed
<1>2. PICK order \in [Missions -> 1..born] :
        tracker = [t \in Trackers |->
                     [actions_done |-> 0,
                      started_at |-> IF t \in Missions THEN order[t] ELSE 0]]
  OBVIOUS
<1>3. PICK ensured \in SUBSET Missions :
        /\ sessions = [m \in Missions |-> IF m \in ensured THEN m ELSE None]
        /\ gaps = Missions \ ensured
  OBVIOUS
<1>4. SessionsTyped
  <2>1. born \in Nat
    BY FS_CardinalityType
  <2>2. tracker \in [Trackers -> [actions_done : Nat, started_at : Nat]]
    BY <1>2, <2>1
  <2>3. QED
    BY <1>3, <2>1, <2>2 DEF SessionsTyped, Trackers
<1>5. TrackersAreOwn /\ FirstTracker
  BY <1>3 DEF TrackersAreOwn, FirstTracker
<1>6. ActionsAreCounted
  <2>1. \A m \in Missions : tracker[m].actions_done = 0
    BY <1>2 DEF Trackers
  <2>2. ASSUME NEW m \in Missions PROVE Cardinality(Allowed(m)) = 0
    <3>1. Allowed(m) = {}
      BY <1>1
    <3>2. QED
      BY <1>0, <3>1, Zenon
  <2>3. 0 <= max_actions_per_session
    OBVIOUS
  <2> HIDE DEF Init, SessionsInit
  <2>4. QED
    BY <2>1, <2>2, <2>3 DEF ActionsAreCounted
<1>7. QED
  BY <1>4, <1>5, <1>6 DEF SessionsInv

LEMMA EvaluateToolInv ==
  ASSUME SessionsInv, ~ Redis, NEW c \in Calls, evaluate_tool(c)
  PROVE  SessionsInv'
<1> USE SessionsAssumption DEF SessionsInv, SessionsTyped, Trackers
<1>1. CASE Cleanup(c)
  <2>1. ActionsAreCounted'
    BY <1>1, CountKept DEF Cleanup
  <2>2. QED
    BY <1>1, <2>1 DEF Cleanup, Stored, TrackersAreOwn, FirstTracker
<1>2. CASE Delete(c)
  <2>1. ActionsAreCounted'
    BY <1>2, CountKept DEF Delete
  <2>2. QED
    BY <1>2, <2>1 DEF Delete, TrackersAreOwn, FirstTracker
<1>3. CASE Cap(c)
  <2>1. ActionsAreCounted'
    BY <1>3, CountKept DEF Cap
  <2>2. QED
    BY <1>3, <2>1 DEF Cap, Stored, TrackersAreOwn, FirstTracker
<1>4. CASE Lookup(c)
  <2>1. ActionsAreCounted'
    BY <1>4, CountKept DEF Lookup, Fetch
  <2>2. /\ UNCHANGED << sessions, tracker, born, mission, doomed, gaps >>
        /\ \/ /\ sessions[mission[c]] # None
              /\ held' = [held EXCEPT ![c] = sessions[mission[c]]]
              /\ asked' = [asked EXCEPT ![c] = "record"]
           \/ /\ sessions[mission[c]] = None
              /\ held' = held
              /\ asked' = [asked EXCEPT ![c] = "new"]
    BY <1>4 DEF Lookup, Fetch
  <2>3. SessionsTyped'
    BY <2>2
  <2>4. TrackersAreOwn'
    BY <2>2 DEF TrackersAreOwn
  <2>5. FirstTracker'
    BY <2>2 DEF FirstTracker
  <2>6. QED
    BY <2>1, <2>3, <2>4, <2>5
<1>5. CASE new_session(c)
  <2>1. mission[c] \in gaps
    BY <1>5 DEF new_session, FirstTracker
  <2>2. ActionsAreCounted'
    BY <1>5, CountKept DEF new_session, Put
  <2>3. QED
    BY <1>5, <2>1, <2>2 DEF new_session, Put, TrackersAreOwn, FirstTracker
<1>6. CASE check_and_record(c)
  <2>1. CASE check_limits(held[c])
    <3>1. /\ asked[c] = "record"
          /\ asked' = [asked EXCEPT ![c] = "save"]
          /\ tracker' = [tracker EXCEPT ![held[c]].actions_done = @ + 1]
          /\ UNCHANGED << sessions, born, aged, mission, doomed, held, gaps >>
      BY <1>6, <2>1 DEF check_and_record
    <3>2. SessionsTyped'
      <4>1. /\ DOMAIN tracker' = Trackers
            /\ \A t \in Trackers :
                 tracker'[t] = IF t = held[c]
                               THEN [tracker[t] EXCEPT !.actions_done = @ + 1]
                               ELSE tracker[t]
        BY <3>1
      <4>2. ASSUME NEW t \in Trackers
            PROVE  tracker'[t] \in [actions_done : Nat, started_at : Nat]
        <5>1. tracker[t] \in [actions_done : Nat, started_at : Nat]
          OBVIOUS
        <5>2. tracker[t].actions_done + 1 \in Nat
          BY <5>1
        <5>3. [tracker[t] EXCEPT !.actions_done = @ + 1]
                \in [actions_done : Nat, started_at : Nat]
          BY <5>1, <5>2
        <5>4. QED
          BY <4>1, <5>1, <5>3
      <4>3. tracker' \in [Trackers -> [actions_done : Nat, started_at : Nat]]
        BY <3>1, <4>1, <4>2
      <4>4. QED
        BY <3>1, <4>3
    <3>5. TrackersAreOwn' /\ FirstTracker'
      BY <3>1 DEF TrackersAreOwn, FirstTracker
    <3>3. ASSUME NEW m \in Missions \ gaps
          PROVE  /\ Cardinality(Allowed(m)') <= tracker'[m].actions_done
                 /\ tracker'[m].actions_done <= max_actions_per_session
      <4>0. /\ Cardinality(Allowed(m)) <= tracker[m].actions_done
            /\ tracker[m].actions_done <= max_actions_per_session
            /\ tracker[m].actions_done \in Nat
        BY DEF ActionsAreCounted
      <4>1. CASE mission[c] = m
        <5>1. held[c] = m
          BY <3>1, <4>1 DEF FirstTracker
        <5>2. tracker'[m].actions_done = tracker[m].actions_done + 1
          BY <3>1, <5>1
        <5>3. tracker[m].actions_done < max_actions_per_session
          BY <2>1, <5>1 DEF check_limits
        <5>4. Allowed(m)' = Allowed(m) \cup { c } /\ c \notin Allowed(m)
          BY <3>1, <4>1 DEF Allowed
        <5>5. Cardinality(Allowed(m)') = Cardinality(Allowed(m)) + 1
          BY <5>4, AllowedIsFinite, FS_AddElement
        <5>6. QED
          BY <4>0, <5>2, <5>3, <5>5, AllowedIsFinite
      <4>2. CASE mission[c] # m
        <5>1. held[c] # m
          BY <4>2 DEF TrackersAreOwn
        <5>2. tracker'[m] = tracker[m]
          BY <3>1, <5>1
        <5>3. Allowed(m)' = Allowed(m)
          BY <3>1, <4>2 DEF Allowed
        <5>4. QED
          BY <4>0, <5>2, <5>3
      <4>3. QED
        BY <4>1, <4>2
    <3>4. QED
      BY <3>1, <3>2, <3>3, <3>5 DEF ActionsAreCounted
  <2>2. CASE ~ check_limits(held[c])
    <3>1. ActionsAreCounted'
      BY <1>6, <2>2, CountKept DEF check_and_record
    <3>2. QED
      BY <1>6, <2>2, <3>1 DEF check_and_record, TrackersAreOwn, FirstTracker
  <2>3. QED
    BY <2>1, <2>2
<1>7. CASE Save(c)
  <2>1. /\ tracker' \in [Trackers -> [actions_done : Nat, started_at : Nat]]
        /\ \A t \in Trackers : tracker'[t] = tracker[t]
    BY <1>7 DEF Save, Put
  <2>2. ActionsAreCounted'
    BY <1>7, <2>1, CountKept DEF Save
  <2>3. /\ asked[c] = "save"
        /\ asked' = [asked EXCEPT ![c] = "allowed"]
        /\ sessions' = [sessions EXCEPT ![mission[c]] = held[c]]
        /\ UNCHANGED << born, mission, doomed, held, gaps >>
    BY <1>7 DEF Save, Put
  <2>4. TrackersAreOwn' /\ FirstTracker'
    BY <2>3 DEF TrackersAreOwn, FirstTracker
  <2>5. SessionsTyped'
    BY <2>1, <2>3
  <2>6. QED
    BY <2>2, <2>4, <2>5
<1>8. QED
  BY <1>1, <1>2, <1>3, <1>4, <1>5, <1>6, <1>7 DEF evaluate_tool

LEMMA RaisesInv ==
  ASSUME SessionsInv, NEW c \in Calls, evaluate_tool_raises(c) PROVE SessionsInv'
<1>1. ActionsAreCounted'
  BY CountKept DEF evaluate_tool_raises, SessionsInv, SessionsTyped
<1>2. SessionsTyped'
  BY DEF evaluate_tool_raises, SessionsInv, SessionsTyped
<1>3. TrackersAreOwn' /\ FirstTracker'
  BY DEF evaluate_tool_raises, SessionsInv, SessionsTyped, TrackersAreOwn, FirstTracker
<1>4. QED
  BY <1>1, <1>2, <1>3 DEF SessionsInv

LEMMA SessionsNextInv == ~ Redis /\ SessionsInv /\ [Next]_vars => SessionsInv'
<1> SUFFICES ASSUME ~ Redis, SessionsInv, [Next]_vars PROVE SessionsInv'
  OBVIOUS
<1>1. ASSUME UNCHANGED << sessions, tracker, born, mission, asked, doomed, held, gaps >>
      PROVE  SessionsInv'
  BY <1>1 DEF SessionsInv, SessionsTyped, TrackersAreOwn, FirstTracker,
              ActionsAreCounted, Allowed
<1>2. ASSUME NEW c \in Calls, AskPolicy(c) PROVE SessionsInv'
  BY <1>2, EvaluateToolInv DEF AskPolicy
<1>3. ASSUME NEW k \in 1..born, GrowOld(k) PROVE SessionsInv'
  BY <1>1, <1>3 DEF GrowOld
<1>4. CASE UNCHANGED sessionVars
  BY <1>1, <1>4 DEF sessionVars
<1>5. ASSUME NEW c \in Calls, Step(c), ~ AskPolicy(c) PROVE UNCHANGED sessionVars
  BY <1>5 DEF Step, Refuse, Permit, CheckGated, FileRequest, AskCircuit, DenyOutright,
              PolicyAnswers, LateBlock, StartAttempt, JoinTimesOut, Feedback
<1>6. CASE \/ \E c \in Calls : ThreadAnswers(c) \/ StrayEnds(c)
           \/ \E i \in DOMAIN requests :
                Lapse(i) \/ Decide(i, "approved") \/ Decide(i, "denied")
           \/ \E t \in Tools : Cool(t) /\ UNCHANGED << sessionVars, callVars >>
  BY <1>4, <1>6 DEF ThreadAnswers, StrayEnds, Lapse, Decide
<1>7. CASE UNCHANGED vars
  BY <1>4, <1>7 DEF vars
<1>8. ASSUME NEW c \in Calls, GateFails(c) PROVE SessionsInv'
  <2>1. CASE PolicyFails(c)
    BY <2>1, RaisesInv DEF PolicyFails
  <2>2. CASE CheckFails(c) \/ CircuitFails(c)
    BY <1>4, <2>2 DEF CheckFails, CircuitFails
  <2>3. QED
    BY <1>8, <2>1, <2>2 DEF GateFails
<1>9. QED
  BY <1>2, <1>3, <1>4, <1>5, <1>6, <1>7, <1>8 DEF Next, Environment

-----------------------------------------------------------------------------
(* The theorems *)

\* A circuit lets calls through freely exactly as long as its tool has failed
\* fewer than failure_threshold times in a row (core/resilience/_base.py).
THEOREM CircuitsCount == Spec => []CircuitCounts
<1>1. CallsInv => CircuitCounts
  BY DEF CallsInv, BreakerInv
<1>2. QED
  BY <1>1, CallsInitInv, CallsNextInv, PTL DEF Spec

\* A call has one thread in its tool at a time
\* (core/tool_executor.py: _execute_with_retry).
THEOREM OneThread == Spec => []OneThreadPerCall
<1>1. CallsInv => OneThreadPerCall
  BY DEF CallsInv, StrayIsLast, OneThreadPerCall
<1>2. QED
  BY <1>1, CallsInitInv, CallsNextInv, PTL DEF Spec

\* A tool is taken out of service only after failure_threshold of its calls have
\* been reported as failed (core/tool_executor.py, core/resilience/_base.py).
THEOREM OpensByFailures == Spec => []OpenedByFailures
<1>1. CallsInv => OpenedByFailures
  <2> SUFFICES ASSUME CallsInv, NEW t \in Tools, circuit[t] # "CLOSED"
               PROVE  Cardinality(FailedOf(t)) >= failure_threshold
    BY DEF OpenedByFailures, FailedOf
  <2>1. consecutive_failures[t] >= failure_threshold /\ consecutive_failures[t] \in Nat
    BY BreakerAssumption DEF CallsInv, BreakerInv, BreakerTypeOK, CircuitCounts
  <2>2. consecutive_failures[t] <= Cardinality(FailedOf(t))
    BY DEF CallsInv, FailuresAreReported
  <2>3. QED
    BY <2>1, <2>2, FailedIsFinite, BreakerAssumption
<1>2. QED
  BY <1>1, CallsInitInv, CallsNextInv, PTL DEF Spec

\* With the memory store, a mission whose tracker has been in the store all the
\* time is allowed no more than max_actions_per_session actions, however its calls
\* interleave (core/policy_engine.py: evaluate_tool).  With Redis it is not so.
THEOREM MemoryKeepsLimit == ~ Redis => (Spec => []LimitHolds)
<1>1. SessionsInv => LimitHolds
  <2> SUFFICES ASSUME SessionsInv, NEW m \in Missions \ gaps
               PROVE  Cardinality(Allowed(m)) <= max_actions_per_session
    BY DEF LimitHolds
  <2>1. tracker[m].actions_done \in Nat
    BY DEF SessionsInv, SessionsTyped, Trackers
  <2>2. QED
    BY <2>1, AllowedIsFinite, SessionsAssumption DEF SessionsInv, ActionsAreCounted
<1>2. CASE ~ Redis
  <2>1. SessionsInv /\ [Next]_vars => SessionsInv'
    BY <1>2, SessionsNextInv
  <2>2. QED
    BY <1>1, <2>1, SessionsInitInv, PTL DEF Spec
<1>3. QED
  BY <1>2

=============================================================================
