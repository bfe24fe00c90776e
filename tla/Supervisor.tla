----------------------------- MODULE Supervisor -----------------------------
(***************************************************************************)
(* core/orchestration/execution_supervisor.py: supervise, a coroutine that   *)
(* submits its mission to the approval queue, in a thread that it awaits for *)
(* ten seconds, and executes it with retries, a fallback and a time limit    *)
(* per attempt.  An action is what a call does between two awaits.  Times    *)
(* are in half seconds; `spent` bounds the time since the call from above.   *)
(***************************************************************************)
EXTENDS ApprovalQueue

CONSTANTS
  Requests,    \* arguments of supervise: risk, flagged (requires_approval) and
               \* skip (skip_approval)
  Goals,
  _MAX_RETRIES,
  _ATTEMPT_TIMEOUT_S,
  _APPROVAL_SUBMIT_TIMEOUT_S,
  _LONG_MODE_TIMEOUT          \* the deadline that run_execution sets

Risks == { "low", "medium", "high", "critical" }

ASSUME SupervisorAssumption ==
  /\ Requests \subseteq [risk : Risks, flagged : BOOLEAN, skip : BOOLEAN]
  /\ Keys = Goals \X { "write_low", "infra", "deploy" }
  /\ AutoKeys = Goals \X { "write_low" }
  /\ _MAX_RETRIES \in Nat
  /\ _ATTEMPT_TIMEOUT_S \in Nat
  /\ _APPROVAL_SUBMIT_TIMEOUT_S \in Nat
  /\ _LONG_MODE_TIMEOUT \in Nat

Calls == Submitters

VARIABLES
  request,   \* what each call was asked
  goal,
  stage,     \* the await at which each call stands, or how it ended
  attempt,
  runs,      \* how often it has called execute_fn
  real,      \* would _check_session_outcome accept the session it took?
  spent

callVars == << request, goal, stage, attempt, runs, real, spent >>

vars == << queueVars, callVars >>

Ended == { "skipped", "succeeded", "fellback", "failed", "awaiting", "denied",
           "cancelled", "raised" }

TypeOK ==
  /\ QueueTypeOK
  /\ request \in [Calls -> Requests]
  /\ goal \in [Calls -> Goals]
  /\ stage \in [Calls -> { "supervise", "gate", "attempt", "executing",
                           "backoff", "backoffInTry", "fallback" } \cup Ended]
  /\ attempt \in [Calls -> 0.._MAX_RETRIES]
  /\ runs \in [Calls -> Nat]
  /\ real \in [Calls -> BOOLEAN]
  /\ spent \in [Calls -> Nat]

Init ==
  /\ QueueInit
  /\ request \in [Calls -> Requests]
  /\ goal \in [Calls -> Goals]
  /\ stage = [c \in Calls |-> "supervise"]
  /\ attempt = [c \in Calls |-> 0]
  /\ runs = [c \in Calls |-> 0]
  /\ real = [c \in Calls |-> FALSE]
  /\ spent = [c \in Calls |-> 0]

-----------------------------------------------------------------------------
(* Decisions *)

risk(c) == request[c].risk

_APPROVAL_RISK_THRESHOLD == { "medium", "high", "critical" }

_needs_approval(c) ==
  request[c].flagged \/ risk(c) \in _APPROVAL_RISK_THRESHOLD

gate_risk(c) ==
  IF risk(c) \in _APPROVAL_RISK_THRESHOLD THEN risk(c) ELSE "medium"

HighRisk == { "high", "critical" }

risk_map(r) ==
  CASE r = "high" -> "infra" [] r = "critical" -> "deploy"
    [] OTHER -> "write_low"

\* error classes; of those that are treated alike, one
RefusalClasses == { "all_agents_failed", "execution_failure" }
ExceptionClasses == { "permission_denied", "timeout", "llm_error",
                      "execution_error" }
PermanentErrors == { "all_agents_failed", "permission_denied" }

\* mutant of _decide_recovery: a transient error is retried whatever the risk
_decide_recovery_AnyRisk(e, n, r) ==
  CASE e \in PermanentErrors -> "ABORT"
    [] e = "timeout" /\ n < _MAX_RETRIES -> "RETRY"
    [] r \in HighRisk -> "ESCALATE"
    [] OTHER -> "FALLBACK"

_decide_recovery(e, n, r) ==
  LET retries == CASE e \in { "timeout", "execution_failure" } -> _MAX_RETRIES
                   [] OTHER -> 1
  IN CASE r \in HighRisk -> "ESCALATE"
       [] e \in PermanentErrors -> "ABORT"
       [] OTHER -> IF n < retries THEN "RETRY" ELSE "FALLBACK"

\* mutant of _RETRY_BACKOFF_BASE: a minute
_RETRY_BACKOFF_BASE_Minute == 120

_RETRY_BACKOFF_BASE == 3

backoff(c) == _RETRY_BACKOFF_BASE * (attempt[c] + 1)

Goto(c, here, there) ==
  /\ stage[c] = here
  /\ stage' = [stage EXCEPT ![c] = there]

Spend(c, t) == spent' = [spent EXCEPT ![c] = @ + t]

-----------------------------------------------------------------------------
(* The approval gate: _request_approval *)

SkipCompleted(c) ==
  /\ Goto(c, "supervise", "skipped")
  /\ UNCHANGED << queueVars, request, goal, attempt, runs, real, spent >>

Supervise(c) ==
  /\ UNCHANGED << request, goal, attempt, runs, real, spent >>
  /\ IF ~request[c].skip /\ _needs_approval(c)
     THEN /\ Goto(c, "supervise", "gate")
          /\ Ask(c, << goal[c], risk_map(gate_risk(c)) >>)
     ELSE /\ Goto(c, "supervise", "attempt")
          /\ UNCHANGED queueVars

GateTo(c, there) ==
  /\ Goto(c, "gate", there)
  /\ Spend(c, _APPROVAL_SUBMIT_TIMEOUT_S)
  /\ UNCHANGED << request, goal, attempt, runs, real >>

\* mutant of GateAnswered: an answer of the queue is taken for a grant
GateAnswered_Any(c) ==
  /\ answer[c] # None
  /\ GateTo(c, "attempt")
  /\ UNCHANGED queueVars

GateAnswered(c) ==
  /\ answer[c] # None
  /\ GateTo(c, IF answer[c] = "auto" THEN "attempt" ELSE "awaiting")
  /\ UNCHANGED queueVars

\* the thread of a submission that has not begun is never started; one that has
\* goes on
Abandon(c) ==
  /\ op' = [op EXCEPT ![c] = IF @ = "asked" THEN "over" ELSE @]
  /\ UNCHANGED << fileVars, key, held, answer, approvals, rejections,
                  decisions >>

\* mutant of GateFails: fail-open
GateFails_Open(c) ==
  /\ GateTo(c, "attempt")
  /\ Abandon(c)

\* mutant of GateFails: the gate waits for the thread
GateFails_NoTimeout(c) ==
  /\ op[c] = "over"
  /\ GateTo(c, IF gate_risk(c) \in HighRisk THEN "denied" ELSE "attempt")
  /\ Abandon(c)

\* TimeoutError, or an exception: fail-closed for a high risk, else open
GateFails(c) ==
  /\ GateTo(c, IF gate_risk(c) \in HighRisk THEN "denied" ELSE "attempt")
  /\ Abandon(c)

-----------------------------------------------------------------------------
(* The attempts *)

AttemptStarts(c) ==
  /\ Goto(c, "attempt", "executing")
  /\ runs' = [runs EXCEPT ![c] = @ + 1]
  /\ UNCHANGED << queueVars, request, goal, attempt, real, spent >>

AttemptEnds(c, there) ==
  /\ Goto(c, "executing", there)
  /\ Spend(c, _ATTEMPT_TIMEOUT_S)
  /\ UNCHANGED << queueVars, request, goal, attempt >>

Succeeds(c) ==
  /\ AttemptEnds(c, "succeeded")
  /\ real' = [real EXCEPT ![c] = TRUE]
  /\ UNCHANGED runs

\* execute_fn returned a session that _check_session_outcome refuses: whatever
\* is decided but a retry leaves the loop, a fallback too
Refused(c) ==
  \E e \in RefusalClasses :
    /\ AttemptEnds(c,
         IF /\ e \notin PermanentErrors
            /\ _decide_recovery(e, attempt[c], risk(c)) = "RETRY"
            /\ attempt[c] < _MAX_RETRIES
         THEN "backoffInTry" ELSE "failed")
    /\ UNCHANGED << runs, real >>

\* execute_fn raised, or ran into the limit of the attempt.  A fallback executes
\* the simplified goal at once, without a limit of its own.
Raises(c) ==
  \E e \in ExceptionClasses :
    LET action == _decide_recovery(e, attempt[c], risk(c)) IN
    /\ AttemptEnds(c, CASE action = "RETRY" -> "backoff"
                         [] action = "FALLBACK" -> "fallback"
                         [] OTHER -> "failed")
    /\ runs' = IF action = "FALLBACK" THEN [runs EXCEPT ![c] = @ + 1] ELSE runs
    /\ UNCHANGED real

\* the loop ends when its attempts are used up, which _decide_recovery sees first
Wakes(c) ==
  /\ stage[c] \in { "backoff", "backoffInTry" }
  /\ Spend(c, backoff(c))
  /\ IF attempt[c] < _MAX_RETRIES
     THEN /\ stage' = [stage EXCEPT ![c] = "attempt"]
          /\ attempt' = [attempt EXCEPT ![c] = @ + 1]
     ELSE /\ stage' = [stage EXCEPT ![c] = "failed"]
          /\ UNCHANGED attempt
  /\ UNCHANGED << queueVars, request, goal, runs, real >>

\* the session of the fallback is not looked at
FallbackEnds(c) ==
  /\ \/ /\ Goto(c, "fallback", "fellback")
        /\ \E ok \in BOOLEAN : real' = [real EXCEPT ![c] = ok]
     \/ /\ Goto(c, "fallback", "failed")
        /\ UNCHANGED real
  /\ UNCHANGED << queueVars, request, goal, attempt, runs, spent >>

-----------------------------------------------------------------------------
(* Cancellation: the deadline of run_execution, a timeout of the route, the   *)
(* end of the server                                                          *)

\* within the try of an attempt it is turned into an outcome
Absorbed(c) ==
  /\ stage[c] \in { "executing", "backoffInTry" }
  /\ stage' = [stage EXCEPT ![c] = "cancelled"]
  /\ UNCHANGED << queueVars, request, goal, attempt, runs, real, spent >>

Interrupted(c) ==
  /\ stage[c] \in { "gate", "attempt", "backoff", "fallback" }
  /\ stage' = [stage EXCEPT ![c] = "raised"]
  /\ IF stage[c] = "gate" THEN Abandon(c) ELSE UNCHANGED queueVars
  /\ UNCHANGED << request, goal, attempt, runs, real, spent >>

-----------------------------------------------------------------------------

CallStep(c) ==
  \/ SkipCompleted(c) \/ Supervise(c)
  \/ GateAnswered(c) \/ GateFails(c)
  \/ AttemptStarts(c) \/ Succeeds(c) \/ Refused(c) \/ Raises(c) \/ Wakes(c)
  \/ FallbackEnds(c)

Next ==
  \/ /\ QueueStep
     /\ UNCHANGED callVars
  \/ \E c \in Calls : CallStep(c) \/ Absorbed(c) \/ Interrupted(c)

Spec == Init /\ [][Next]_vars

\* The event loop runs, and each await of supervise has a limit: the one around
\* the fallback is the deadline of its caller.  Nothing is assumed of the
\* threads of the queue or of the humans.
Fairness ==
  \A c \in Calls :
    WF_vars(CallStep(c) \/ (stage[c] = "fallback" /\ Interrupted(c)))

FairSpec == Spec /\ Fairness

-----------------------------------------------------------------------------
(* Safety *)

\* An operation of a high or a critical risk is executed at most once: neither a
\* retry nor the fallback repeats it ("Never retry high-risk operations").
HighRiskRunsOnce == \A c \in Calls : risk(c) \in HighRisk => runs[c] <= 1

\* Nothing of a high risk is executed by a call that has to pass the gate, even
\* when the submission fails, times out or is answered late: only a call that
\* skips the gate, because a human has approved, executes it.
HighRiskStaysGated ==
  \A c \in Calls :
    risk(c) \in HighRisk /\ runs[c] > 0 => request[c].skip

\* Every attempt that starts can use its whole time before the deadline of the
\* long modes (execution_supervisor.py: "the retry budget is reachable before
\* the outer deadline"), the gate and the waits included.
RetryBudgetFits ==
  \A c \in Calls :
    stage[c] = "executing" => spent[c] + _ATTEMPT_TIMEOUT_S <= _LONG_MODE_TIMEOUT

\* a call as its caller sees it
phase_of(c) ==
  CASE stage[c] \in { "attempt", "executing", "backoff", "backoffInTry",
                      "fallback" } -> "exec"
    [] stage[c] \in { "skipped", "fellback" } -> "succeeded"
    [] stage[c] \in { "cancelled", "denied" } -> "failed"
    [] stage[c] = "raised" -> "interrupted"
    [] OTHER -> stage[c]

Contract == INSTANCE SuperviseContract WITH
  phase <- [c \in Calls |-> phase_of(c)],
  worked <- runs,
  gated <- { c \in Calls : ~request[c].skip /\ _needs_approval(c) },
  risky <- { c \in Calls : gate_risk(c) \in HighRisk },
  once <- { c \in Calls : risk(c) \in HighRisk }

\* supervise does what the gate and exec steps of MissionLifecycle take it to
\* do, whatever the queue's threads do at the same time.
ContractSpec == Contract!Spec

-----------------------------------------------------------------------------
(* Liveness *)

\* Every call of supervise ends, although the queue's threads may hang and the
\* fallback has no limit of its own.
EventuallyEnds == \A c \in Calls : <>(stage[c] \in Ended)

-----------------------------------------------------------------------------
(* What a comment says and TLC refutes (README, divergences)                 *)

\* What is reported as a success passes _check_session_outcome ("absence of
\* exception is NOT sufficient to declare success").
NoGhostSuccess ==
  \A c \in Calls : stage[c] \in { "succeeded", "fellback" } => real[c]

=============================================================================
