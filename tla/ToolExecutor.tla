---------------------------- MODULE ToolExecutor ----------------------------
(***************************************************************************)
(* core/tool_executor.py: ToolExecutor.execute and _execute_with_retry, with *)
(* core/tool_permissions.py, on top of the circuit breaker of the tools and  *)
(* of the sessions of the policy engine.  Calls are made by threads of the   *)
(* API and of missions and share all three singletons.                       *)
(***************************************************************************)
EXTENDS ToolBreaker, PolicySessions

CONSTANTS
  GatedTools,    \* the tools of _DEFAULT_GATED_TOOLS
  ReadTools,     \* those of a low or medium risk that do not execute anything
  Seconds,       \* readings of the clock in the names of permission requests
  max_retries,
  MaxFailures    \* a bound for TLC: exceptions of the gates

ASSUME ExecutorAssumption ==
  /\ GatedTools \subseteq Tools /\ ReadTools \subseteq Tools
  /\ max_retries \in Nat /\ MaxFailures \in Nat

VARIABLES
  tool,        \* of each call
  stage,       \* how far it is, or how it ended
  attempt,
  strays,      \* its threads that outlived their join
  requests,    \* the permission requests: the call and the status of each id
  request_id,  \* the id a call has made up for its request
  failures     \* exceptions of the gates so far

callVars == << tool, stage, attempt, strays, requests, request_id, failures >>

vars == << breakerVars, sessionVars, callVars >>

Ended == { "refused", "gated", "circuit_open", "policy_blocked", "ok", "failed",
           "raised" }
Running == { "join", "pause", "feedback_ok", "feedback_failed" }
Ids == Seconds \X (0..Cardinality(Calls))

TypeOK ==
  /\ BreakerTypeOK
  /\ SessionsTypeOK
  /\ tool \in [Calls -> Tools]
  /\ stage \in [Calls -> { "execute", "asking", "circuit", "policy", "checks" }
                           \cup Running \cup Ended]
  /\ attempt \in [Calls -> 0..max_retries + 1]
  /\ strays \in [Calls -> Nat]
  /\ DOMAIN requests \subseteq Ids
  /\ \A i \in DOMAIN requests :
       requests[i] \in [call : Calls, status : { "pending", "approved", "denied" },
                        late : BOOLEAN]
  /\ request_id \in [Calls -> Ids \cup { None }]
  /\ failures \in 0..MaxFailures

Init ==
  /\ BreakerInit
  /\ SessionsInit
  /\ tool \in [Calls -> Tools]
  /\ stage = [c \in Calls |-> "execute"]
  /\ attempt = [c \in Calls |-> 0]
  /\ strays = [c \in Calls |-> 0]
  /\ requests = << >>
  /\ request_id = [c \in Calls |-> None]
  /\ failures = 0

Goto(c, s) == stage' = [stage EXCEPT ![c] = s]

-----------------------------------------------------------------------------
(* Permission requests *)

\* check of a gated tool: the id is the second and the number of requests
CheckGated(c) ==
  /\ stage[c] = "execute"
  /\ tool[c] \in GatedTools
  /\ \E s \in Seconds :
       request_id' = [request_id EXCEPT
                        ![c] = << s, Cardinality(DOMAIN requests) >>]
  /\ Goto(c, "asking")
  /\ UNCHANGED << breakerVars, sessionVars, tool, attempt, strays,
                  requests, failures >>

\* under the lock the request is filed, in place of another of the same name
FileRequest(c) ==
  /\ stage[c] = "asking"
  /\ requests' = [i \in DOMAIN requests \cup { request_id[c] } |->
                    IF i = request_id[c]
                    THEN [call |-> c, status |-> "pending", late |-> FALSE]
                    ELSE requests[i]]
  /\ Goto(c, "gated")
  /\ UNCHANGED << breakerVars, sessionVars, tool, attempt, strays,
                  request_id, failures >>

\* approve or deny of a request that is pending and has not expired
Decide(i, status) ==
  /\ requests[i].status = "pending"
  /\ ~ requests[i].late
  /\ requests' = [requests EXCEPT ![i].status = status]
  /\ UNCHANGED << breakerVars, sessionVars, tool, stage, attempt, strays,
                  request_id, failures >>

\* five minutes go by
Lapse(i) ==
  /\ requests[i].status = "pending"
  /\ ~ requests[i].late
  /\ requests' = [requests EXCEPT ![i].late = TRUE]
  /\ UNCHANGED << breakerVars, sessionVars, tool, stage, attempt, strays,
                  request_id, failures >>

-----------------------------------------------------------------------------
(* The gates of execute *)

\* an unknown tool, a missing parameter or a capability that is denied
Refuse(c) ==
  /\ stage[c] = "execute"
  /\ Goto(c, "refused")
  /\ UNCHANGED << breakerVars, sessionVars, tool, attempt, strays, requests,
                  request_id, failures >>

\* the tool needs no permission
Permit(c) ==
  /\ stage[c] = "execute"
  /\ tool[c] \notin GatedTools
  /\ Goto(c, "circuit")
  /\ UNCHANGED << breakerVars, sessionVars, tool, attempt, strays, requests,
                  request_id, failures >>

AskCircuit(c) ==
  /\ stage[c] = "circuit"
  /\ IF can_execute(tool[c])
     THEN /\ LetThrough(tool[c])
          /\ Goto(c, "policy")
     ELSE /\ Goto(c, "circuit_open")
          /\ UNCHANGED breakerVars
  /\ UNCHANGED << sessionVars, tool, attempt, strays, requests,
                  request_id, failures >>

\* evaluate_tool denies a high risk, and a call without a mission, at once
DenyOutright(c) ==
  /\ stage[c] = "policy"
  /\ asked[c] = "idle"
  /\ Goto(c, "policy_blocked")
  /\ UNCHANGED << breakerVars, sessionVars, tool, attempt, strays, requests,
                  request_id, failures >>

AskPolicy(c) ==
  /\ stage[c] = "policy"
  /\ evaluate_tool(c)
  /\ UNCHANGED << breakerVars, callVars >>

PolicyAnswers(c) ==
  /\ stage[c] = "policy"
  /\ asked[c] \in { "allowed", "denied" }
  /\ Goto(c, IF asked[c] = "allowed" THEN "checks" ELSE "policy_blocked")
  /\ UNCHANGED << breakerVars, sessionVars, tool, attempt, strays, requests,
                  request_id, failures >>

\* the kill switch or the ExecutionPolicy, after the action has been counted
LateBlock(c) ==
  /\ stage[c] = "checks"
  /\ Goto(c, "policy_blocked")
  /\ UNCHANGED << breakerVars, sessionVars, tool, attempt, strays, requests,
                  request_id, failures >>

-----------------------------------------------------------------------------
(* What an exception does to the gates: each is caught where it is asked *)

\* of the permission check, before a request is filed: a gated tool goes on, as any
\* other does
CheckFails(c) ==
  /\ stage[c] \in { "execute", "asking" }
  /\ tool[c] \in GatedTools
  /\ Goto(c, "circuit")
  /\ UNCHANGED << breakerVars, sessionVars, tool, attempt, strays, requests,
                  request_id >>

\* of the circuit breaker, which hears nothing of the call: it goes on, as it does
\* when the circuit is closed
CircuitFails(c) ==
  /\ stage[c] = "circuit"
  /\ circuit[tool[c]] # "CLOSED"
  /\ Goto(c, "policy")
  /\ UNCHANGED << breakerVars, sessionVars, tool, attempt, strays, requests,
                  request_id >>

\* of evaluate_tool, wherever it is: only a tool that reads goes on
PolicyFails(c) ==
  /\ stage[c] = "policy"
  /\ evaluate_tool_raises(c)
  /\ Goto(c, IF tool[c] \in ReadTools THEN "checks" ELSE "policy_blocked")
  /\ UNCHANGED << breakerVars, tool, attempt, strays, requests, request_id >>

GateFails(c) ==
  /\ failures < MaxFailures
  /\ failures' = failures + 1
  /\ CheckFails(c) \/ CircuitFails(c) \/ PolicyFails(c)

-----------------------------------------------------------------------------
(* _execute_with_retry *)

\* a thread is started for the attempt, and joined
StartAttempt(c) ==
  /\ stage[c] \in { "checks", "pause" }
  /\ attempt' = [attempt EXCEPT ![c] = @ + 1]
  /\ Goto(c, "join")
  /\ UNCHANGED << breakerVars, sessionVars, tool, strays, requests,
                  request_id, failures >>

\* the thread ends within its time: a success, a result that is not ok, an
\* exception, which leaves the circuit breaker without a word
ThreadAnswers(c) ==
  /\ stage[c] = "join"
  /\ \/ Goto(c, "feedback_ok")
     \/ Goto(c, IF attempt[c] <= max_retries THEN "pause" ELSE "feedback_failed")
     \/ Goto(c, "raised")
  /\ UNCHANGED << breakerVars, sessionVars, tool, attempt, strays, requests,
                  request_id, failures >>

\* mutant of JoinTimesOut: a timeout is retried like any other failure
JoinTimesOut_Retries(c) ==
  /\ stage[c] = "join"
  /\ strays' = [strays EXCEPT ![c] = @ + 1]
  /\ Goto(c, IF attempt[c] <= max_retries THEN "pause" ELSE "feedback_failed")
  /\ UNCHANGED << breakerVars, sessionVars, tool, attempt, requests,
                  request_id, failures >>

\* mutant of JoinTimesOut: the thread is joined without a time limit
JoinTimesOut_Never(c) == FALSE /\ UNCHANGED vars

\* the thread is still alive after its time: it is left to itself
JoinTimesOut(c) ==
  /\ stage[c] = "join"
  /\ strays' = [strays EXCEPT ![c] = @ + 1]
  /\ Goto(c, "feedback_failed")
  /\ UNCHANGED << breakerVars, sessionVars, tool, attempt, requests,
                  request_id, failures >>

\* such a thread ends, and nobody looks at what it did
StrayEnds(c) ==
  /\ strays[c] > 0
  /\ strays' = [strays EXCEPT ![c] = @ - 1]
  /\ UNCHANGED << breakerVars, sessionVars, tool, stage, attempt, requests,
                  request_id, failures >>

Feedback(c) ==
  /\ \/ /\ stage[c] = "feedback_ok"
        /\ record_success(tool[c])
        /\ Goto(c, "ok")
     \/ /\ stage[c] = "feedback_failed"
        /\ record_failure(tool[c])
        /\ Goto(c, "failed")
  /\ UNCHANGED << sessionVars, tool, attempt, strays, requests,
                  request_id, failures >>

-----------------------------------------------------------------------------

\* what the thread of a call does by itself
Step(c) ==
  \/ Refuse(c) \/ Permit(c) \/ CheckGated(c) \/ FileRequest(c)
  \/ AskCircuit(c) \/ DenyOutright(c) \/ AskPolicy(c) \/ PolicyAnswers(c)
  \/ LateBlock(c) \/ StartAttempt(c) \/ JoinTimesOut(c) \/ Feedback(c)

Environment ==
  \/ \E c \in Calls : ThreadAnswers(c) \/ StrayEnds(c) \/ GateFails(c)
  \/ \E i \in DOMAIN requests :
       Lapse(i) \/ Decide(i, "approved") \/ Decide(i, "denied")
  \/ \E t \in Tools : Cool(t) /\ UNCHANGED << sessionVars, callVars >>
  \/ \E k \in 1..born : GrowOld(k) /\ UNCHANGED << breakerVars, callVars >>

Next == Environment \/ \E c \in Calls : Step(c)

Spec == Init /\ [][Next]_vars

\* A call's own steps go on; a tool need never return, and no thread that was left
\* to itself has to end.
Fairness == \A c \in Calls : WF_vars(Step(c))

FairSpec == Spec /\ Fairness

-----------------------------------------------------------------------------
(* Properties *)

\* A call has one thread in its tool at a time: an attempt that has run out of
\* time is not followed by another while the first may still be at work.
OneThreadPerCall ==
  \A c \in Calls :
    strays[c] + (IF stage[c] = "join" THEN 1 ELSE 0) <= 1

\* A tool is taken out of service only after failure_threshold calls of it have
\* been reported as failed to their callers.
OpenedByFailures ==
  \A t \in Tools :
    circuit[t] # "CLOSED" =>
      Cardinality({ c \in Calls : tool[c] = t /\ stage[c] = "failed" })
        >= failure_threshold

\* A tool that hangs, and a circuit that opens meanwhile, keep no call for ever.
EveryCallEnds == \A c \in Calls : <>(stage[c] \in Ended)

\* "For a single-worker beta deployment this is sufficient"
\* (core/session_store.py): with Redis too the threads of one process keep a
\* mission whose tracker is in the store to its limit (refuted by TLC: README,
\* divergences).
SingleWorkerIsEnough == LimitHolds

\* "allows a single test call (HALF_OPEN)" (core/resilience/_base.py): once a call
\* has been let through to test a tool, no other is until the circuit has closed
\* or opened again (refuted by TLC: README, divergences).
OneTestCall ==
  [][\A c \in Calls :
       stage[c] = "circuit" /\ stage'[c] = "policy"
         => circuit[tool[c]] # "HALF_OPEN"]_vars

=============================================================================
