--------------------------- MODULE SupervisorProofs ---------------------------
(***************************************************************************)
(* Theorems about Supervisor and its approval queue, for every number of     *)
(* calls, every goal, every time limit and every number of decisions.        *)
(***************************************************************************)
EXTENDS Supervisor, TLAPS

-----------------------------------------------------------------------------
(* The invariant of the queue *)

\* an item is written as approved only after a decision on it, however the file
\* and its temporary twin are truncated, torn or renamed
Decided(text) == \A i \in Submitters : text[i] = "approved" => i \in approvals

WritesAreDecided ==
  /\ file \notin Unreadable => Decided(file)
  /\ tmp \notin Unreadable => Decided(tmp)
  /\ \A t \in Writers : Decided(held[t])

\* a submission is answered "auto" exactly if its level is approved by itself
AnswersFollowLevels ==
  \A s \in Submitters :
    /\ op[s] = "none" => answer[s] = None
    /\ op[s] \in { "append", "open", "write", "rename" } => key[s] \notin AutoKeys
    /\ answer[s] # None => (answer[s] = "auto" <=> key[s] \in AutoKeys)

QueueInv == QueueTypeOK /\ WritesAreDecided /\ AnswersFollowLevels

LEMMA QueueInitInv == QueueInit => QueueInv
  BY QueueAssumption
  DEF QueueInit, QueueInv, QueueTypeOK, WritesAreDecided, AnswersFollowLevels,
      Decided, Items, NoItems, Unreadable, Handles

LEMMA LoadedIsDecided ==
  ASSUME QueueInv PROVE loaded \in Items /\ Decided(loaded)
  BY DEF QueueInv, QueueTypeOK, WritesAreDecided, Decided, loaded, Items, NoItems,
         Unreadable

\* What a thread writes is its own text or a torn one, and a rename moves a text.
LEMMA SaveStep ==
  ASSUME QueueInv, NEW t \in Writers, Save(t)
  PROVE  QueueInv'
<1> USE QueueAssumption DEF QueueInv, QueueTypeOK, OpAt
<1>1. CASE OpenTmp(t)
  BY <1>1 DEF OpenTmp, Truncate, WritesAreDecided, AnswersFollowLevels, Decided,
              Unreadable, Handles
<1>2. CASE WriteTmp(t)
  <2>1. /\ op' = [op EXCEPT ![t] = "rename"] /\ op[t] = "write"
        /\ writesTo' = [writesTo EXCEPT ![t] = "none"]
        /\ UNCHANGED << key, held, answer, approvals, rejections, decisions >>
        /\ file' \in { file, held[t], Torn }
        /\ tmp' \in { tmp, held[t], Torn }
    BY <1>2 DEF WriteTmp, Write, overwritten
  <2>2. QueueTypeOK' /\ WritesAreDecided'
    BY <2>1 DEF WritesAreDecided, Decided, Unreadable, Handles
  <2>3. AnswersFollowLevels'
    BY <2>1 DEF AnswersFollowLevels
  <2>4. QED
    BY <2>2, <2>3
<1>3. CASE ReplaceFile(t)
  <2>1. /\ op' = [op EXCEPT ![t] = IF t = Loop THEN "none" ELSE "over"]
        /\ op[t] = "rename"
        /\ held' = [held EXCEPT ![t] = NoItems]
        /\ answer' = IF t = Loop THEN answer ELSE [answer EXCEPT ![t] = t]
        /\ UNCHANGED << key, approvals, rejections, decisions >>
        /\ file' \in { file, tmp } /\ tmp' \in { tmp, None }
        /\ writesTo' \in { writesTo, renamed }
    BY <1>3 DEF ReplaceFile, Replace, fileVars
  <2>2. renamed \in Handles
    BY DEF renamed, Handles
  <2>3. QueueTypeOK'
    BY <2>1, <2>2 DEF Unreadable, Items, NoItems
  <2>4. WritesAreDecided'
    BY <2>1 DEF WritesAreDecided, Decided, NoItems, Unreadable
  <2>5. AnswersFollowLevels'
    BY <2>1 DEF AnswersFollowLevels
  <2>6. QED
    BY <2>3, <2>4, <2>5
<1>4. QED
  BY <1>1, <1>2, <1>3 DEF Save

LEMMA QueueStepInv == QueueInv /\ QueueStep => QueueInv'
<1> SUFFICES ASSUME QueueInv, QueueStep PROVE QueueInv'
  OBVIOUS
<1> USE QueueAssumption DEF QueueInv, QueueTypeOK, OpAt, fileVars
<1>1. ASSUME NEW s \in Submitters, SubmitThread(s) PROVE QueueInv'
  <2>1. CASE AutoApprove(s)
    BY <2>1 DEF AutoApprove, WritesAreDecided, AnswersFollowLevels, Decided
  <2>2. CASE Duplicate(s)
    BY <2>2 DEF Duplicate, duplicates, WritesAreDecided, AnswersFollowLevels, Decided
  <2>3. CASE NoDuplicate(s)
    BY <2>3 DEF NoDuplicate, WritesAreDecided, AnswersFollowLevels, Decided
  <2>4. CASE AppendItem(s)
    BY <2>4, LoadedIsDecided
    DEF AppendItem, WritesAreDecided, AnswersFollowLevels, Decided, Items
  <2>5. CASE Save(s)
    BY <2>5, SaveStep
  <2>6. QED
    BY <1>1, <2>1, <2>2, <2>3, <2>4, <2>5 DEF SubmitThread
<1>2. ASSUME NEW i \in Submitters, Approve(i) PROVE QueueInv'
  BY <1>2, LoadedIsDecided
  DEF Approve, Decide, WritesAreDecided, AnswersFollowLevels, Decided, Items
<1>3. ASSUME NEW i \in Submitters, Reject(i) PROVE QueueInv'
  BY <1>3, LoadedIsDecided
  DEF Reject, Decide, WritesAreDecided, AnswersFollowLevels, Decided, Items
<1>4. CASE Save(Loop)
  BY <1>4, SaveStep
<1>5. QED
  BY <1>1, <1>2, <1>3, <1>4 DEF QueueStep, DecideRoute

-----------------------------------------------------------------------------
(* The invariant of the calls *)

High(c) == risk(c) \in HighRisk

\* what a call has executed at each stage, and how it got there
CallsAreGated ==
  \A c \in Calls :
    /\ stage[c] = "gate" =>
         /\ ~request[c].skip
         /\ key[c] = << goal[c], risk_map(gate_risk(c)) >>
    /\ stage[c] \in { "executing", "backoff", "backoffInTry", "fallback" }
         => runs[c] > 0
    /\ High(c) =>
         /\ stage[c] \notin { "backoff", "backoffInTry", "fallback" }
         /\ stage[c] \in { "supervise", "gate", "attempt" } => runs[c] = 0
         /\ runs[c] <= 1
         /\ ~request[c].skip =>
              /\ runs[c] = 0
              /\ stage[c] \notin { "attempt", "executing" }

Inv == TypeOK /\ QueueInv /\ CallsAreGated

\* a high or critical risk is shown the gate as such, and is never approved by
\* the queue itself; all else is
LEMMA GateLevels ==
  ASSUME TypeOK, NEW c \in Calls
  PROVE  /\ gate_risk(c) \in { "medium", "high", "critical" }
         /\ gate_risk(c) \in HighRisk <=> High(c)
         /\ risk_map(gate_risk(c)) \in { "write_low", "infra", "deploy" }
         /\ << goal[c], risk_map(gate_risk(c)) >> \in Keys
         /\ << goal[c], risk_map(gate_risk(c)) >> \in AutoKeys <=> ~ High(c)
         /\ High(c) => _needs_approval(c)
<1> USE SupervisorAssumption
    DEF TypeOK, Calls, gate_risk, HighRisk, High, risk, _APPROVAL_RISK_THRESHOLD
<1>1. /\ gate_risk(c) \in { "medium", "high", "critical" }
      /\ gate_risk(c) \in HighRisk <=> High(c)
      /\ High(c) => _needs_approval(c)
  BY DEF _needs_approval
<1>2. /\ risk_map("medium") = "write_low"
      /\ risk_map("high") = "infra"
      /\ risk_map("critical") = "deploy"
  BY DEF risk_map
<1>3. /\ risk_map(gate_risk(c)) \in { "write_low", "infra", "deploy" }
      /\ risk_map(gate_risk(c)) = "write_low" <=> ~ High(c)
  BY <1>1, <1>2
<1>4. goal[c] \in Goals
  OBVIOUS
<1> HIDE DEF gate_risk, High, TypeOK
<1>5. QED
  BY <1>1, <1>3, <1>4

\* neither a retry nor the fallback is decided for a high risk
LEMMA HighRiskEscalates ==
  ASSUME NEW e, NEW n, NEW r \in HighRisk
  PROVE  _decide_recovery(e, n, r) \notin { "RETRY", "FALLBACK" }
  BY DEF _decide_recovery

LEMMA CallInitInv == Init => Inv
<1> SUFFICES ASSUME Init PROVE Inv
  OBVIOUS
<1>1. QueueInv
  BY QueueInitInv DEF Init
<1>2. TypeOK
  BY <1>1, SupervisorAssumption DEF Init, TypeOK, QueueInv, Calls, Ended
<1>3. CallsAreGated
  BY DEF Init, CallsAreGated
<1>4. QED
  BY <1>1, <1>2, <1>3 DEF Inv

\* what a call does to the queue: nothing, a question, or to give up waiting
LEMMA QueueKept ==
  ASSUME QueueInv, UNCHANGED queueVars PROVE QueueInv'
  BY DEF queueVars, fileVars, QueueInv, QueueTypeOK, WritesAreDecided,
         AnswersFollowLevels, Decided

LEMMA AskInv ==
  ASSUME QueueInv, NEW c \in Submitters, NEW k \in Keys, Ask(c, k)
  PROVE  QueueInv' /\ key' = [key EXCEPT ![c] = k]
  BY QueueAssumption
  DEF Ask, OpAt, fileVars, QueueInv, QueueTypeOK, WritesAreDecided,
      AnswersFollowLevels, Decided

LEMMA AbandonInv ==
  ASSUME QueueInv, NEW c \in Submitters, Abandon(c)
  PROVE  QueueInv' /\ key' = key
  BY QueueAssumption
  DEF Abandon, fileVars, QueueInv, QueueTypeOK, WritesAreDecided,
      AnswersFollowLevels, Decided

\* what one call does leaves the invariant of the queue, and of the other calls
LEMMA CallStepInv ==
  ASSUME Inv, NEW c \in Calls, CallStep(c) \/ Absorbed(c) \/ Interrupted(c)
  PROVE  Inv'
<1> USE DEF Calls, Goto, Spend
<1>0. TypeOK /\ QueueInv /\ CallsAreGated
  BY DEF Inv
\* the requests and the decisions made from them do not change
<1>1. ASSUME request' = request
      PROVE  \A d \in Calls : /\ risk(d)' = risk(d)
                              /\ gate_risk(d)' = gate_risk(d)
                              /\ High(d)' = High(d)
  BY <1>1 DEF risk, gate_risk, High
<1>2. ASSUME UNCHANGED queueVars
      PROVE  QueueInv' /\ QueueTypeOK' /\ key' = key
  BY <1>0, <1>2, QueueKept DEF queueVars, QueueInv
<1> USE <1>0 DEF Inv, TypeOK
<1>3. CASE SkipCompleted(c)
  BY <1>1, <1>2, <1>3 DEF SkipCompleted, CallsAreGated, Ended
<1>4. CASE Supervise(c)
  <2>1. CASE ~request[c].skip /\ _needs_approval(c)
    <3>1. /\ stage[c] = "supervise"
          /\ stage' = [stage EXCEPT ![c] = "gate"]
          /\ Ask(c, << goal[c], risk_map(gate_risk(c)) >>)
          /\ UNCHANGED << request, goal, attempt, runs, real, spent >>
      BY <1>4, <2>1 DEF Supervise
    <3>2. << goal[c], risk_map(gate_risk(c)) >> \in Keys
      BY GateLevels
    <3>3. /\ QueueInv'
          /\ key' = [key EXCEPT ![c] = << goal[c], risk_map(gate_risk(c)) >>]
      BY <3>1, <3>2, AskInv
    <3>4. key \in [Calls -> Keys \cup { None }]
      BY DEF QueueTypeOK
    <3>5. TypeOK'
      BY <3>1, <3>3 DEF QueueInv
    <3>6. CallsAreGated'
      BY <1>1, <2>1, <3>1, <3>3, <3>4 DEF CallsAreGated
    <3>7. QED
      BY <3>3, <3>5, <3>6
  <2>2. CASE ~(~request[c].skip /\ _needs_approval(c))
    <3>1. High(c) => request[c].skip
      BY <2>2, GateLevels
    <3>2. /\ stage[c] = "supervise"
          /\ stage' = [stage EXCEPT ![c] = "attempt"]
          /\ UNCHANGED << request, goal, attempt, runs, real, spent >>
          /\ UNCHANGED queueVars
      BY <1>4, <2>2 DEF Supervise
    <3>3. QED
      BY <1>1, <1>2, <3>1, <3>2 DEF CallsAreGated
  <2>3. QED
    BY <2>1, <2>2
<1>5. CASE GateAnswered(c)
  <2>1. answer[c] = "auto" => ~ High(c)
    BY <1>5, GateLevels
    DEF GateAnswered, GateTo, CallsAreGated, QueueInv, AnswersFollowLevels
  <2>2. QED
    BY <1>1, <1>2, <1>5, <2>1,
       SupervisorAssumption
    DEF GateAnswered, GateTo, CallsAreGated, Ended
<1>6. CASE GateFails(c)
  <2>1. gate_risk(c) \notin HighRisk => ~ High(c)
    BY GateLevels
  <2>2. QueueInv' /\ key' = key
    BY <1>6, AbandonInv DEF GateFails
  <2>3. QED
    BY <1>1, <1>6, <2>1, <2>2, SupervisorAssumption
    DEF GateFails, GateTo, CallsAreGated, Ended, QueueInv
<1>7. CASE AttemptStarts(c)
  BY <1>1, <1>2, <1>7 DEF AttemptStarts, CallsAreGated
<1>8. CASE Succeeds(c)
  BY <1>1, <1>2, <1>8, SupervisorAssumption
  DEF Succeeds, AttemptEnds, CallsAreGated, Ended
<1>9. CASE Refused(c)
  <2>1. PICK there \in { "backoffInTry", "failed" } :
          /\ AttemptEnds(c, there)
          /\ High(c) => there = "failed"
          /\ UNCHANGED << runs, real >>
    BY <1>9, HighRiskEscalates DEF Refused, High
  <2>2. QED
    BY <1>1, <1>2, <2>1, SupervisorAssumption DEF AttemptEnds, CallsAreGated, Ended
<1>10. CASE Raises(c)
  <2>1. PICK there \in { "backoff", "fallback", "failed" } :
          /\ AttemptEnds(c, there)
          /\ High(c) => there = "failed" /\ runs' = runs
          /\ runs' \in { runs, [runs EXCEPT ![c] = @ + 1] }
          /\ UNCHANGED real
    BY <1>10, HighRiskEscalates DEF Raises, High
  <2>2. QED
    BY <1>1, <1>2, <2>1, SupervisorAssumption DEF AttemptEnds, CallsAreGated, Ended
<1>11. CASE Wakes(c)
  BY <1>1, <1>2, <1>11, SupervisorAssumption
  DEF Wakes, backoff, _RETRY_BACKOFF_BASE, CallsAreGated, Ended
<1>12. CASE FallbackEnds(c)
  BY <1>1, <1>2, <1>12 DEF FallbackEnds, CallsAreGated, Ended
<1>13. CASE Absorbed(c)
  BY <1>1, <1>2, <1>13 DEF Absorbed, CallsAreGated, Ended
<1>14. CASE Interrupted(c)
  <2>1. QueueInv' /\ key' = key
    BY <1>2, <1>14, AbandonInv DEF Interrupted
  <2>2. QED
    BY <1>1, <1>14, <2>1 DEF Interrupted, CallsAreGated, Ended, QueueInv
<1>15. QED
  BY <1>3, <1>4, <1>5, <1>6, <1>7, <1>8, <1>9, <1>10, <1>11, <1>12, <1>13, <1>14
  DEF CallStep

LEMMA InvStep == Inv /\ [Next]_vars => Inv'
<1> SUFFICES ASSUME Inv, [Next]_vars PROVE Inv'
  OBVIOUS
<1>1. ASSUME QueueInv', UNCHANGED << callVars >>,
             \A c \in Calls : stage[c] = "gate" => key'[c] = key[c]
      PROVE  Inv'
  BY <1>1 DEF Inv, TypeOK, QueueInv, callVars, CallsAreGated, High, risk, gate_risk
<1>2. CASE QueueStep /\ UNCHANGED callVars
  <2>1. QueueInv'
    BY <1>2, QueueStepInv DEF Inv
  <2>2. key' = key
    BY <1>2 DEF QueueStep, SubmitThread, DecideRoute, AutoApprove, Duplicate,
                NoDuplicate, AppendItem, Approve, Reject, Save, OpenTmp, WriteTmp,
                ReplaceFile
  <2>3. QED
    BY <1>1, <1>2, <2>1, <2>2
<1>3. ASSUME NEW c \in Calls, CallStep(c) \/ Absorbed(c) \/ Interrupted(c) PROVE Inv'
  BY <1>3, CallStepInv
<1>4. CASE UNCHANGED vars
  BY <1>1, <1>4, QueueKept DEF vars, Inv, queueVars
<1>5. QED
  BY <1>2, <1>3, <1>4 DEF Next

-----------------------------------------------------------------------------
(* The theorems *)

\* The invariant holds of every behaviour, its types among the rest.
THEOREM Invariance == Spec => []Inv
  BY CallInitInv, InvStep, PTL DEF Spec

\* Whatever overlaps, and however often the file is torn, an item is found
\* approved only if approve was called on it (core/approval_queue.py).
THEOREM ApprovalsAreReal == Spec => []ApprovedWasDecided
<1>1. Inv => ApprovedWasDecided
  BY LoadedIsDecided DEF Inv, ApprovedWasDecided, is_approved, Decided
<1>2. QED
  BY <1>1, Invariance, PTL

\* An operation of a high or a critical risk is executed at most once
\* (core/orchestration/execution_supervisor.py: _decide_recovery, supervise).
THEOREM HighRiskIsNotRepeated == Spec => []HighRiskRunsOnce
<1>1. Inv => HighRiskRunsOnce
  BY DEF Inv, CallsAreGated, High, HighRiskRunsOnce
<1>2. QED
  BY <1>1, Invariance, PTL

\* Nothing of a high risk is executed by a call that has to pass the gate, however
\* the submission ends (execution_supervisor.py: _request_approval).
THEOREM HighRiskIsGated == Spec => []HighRiskStaysGated
<1>1. Inv => HighRiskStaysGated
  BY DEF Inv, TypeOK, CallsAreGated, High, HighRiskStaysGated, Calls
<1>2. QED
  BY <1>1, Invariance, PTL

-----------------------------------------------------------------------------
(* The retry budget *)

\* twice the time that may have passed when the n-th retry begins: the gate, an
\* attempt and a wait for each retry, the k-th wait being k times the base
Before(n) ==
  2 * _APPROVAL_SUBMIT_TIMEOUT_S + 2 * (_ATTEMPT_TIMEOUT_S * n)
    + _RETRY_BACKOFF_BASE * (n * (n + 1))

WithinBudget ==
  \A c \in Calls :
    /\ stage[c] \in { "supervise", "gate" } => attempt[c] = 0 /\ spent[c] = 0
    /\ stage[c] \in { "attempt", "executing" } => 2 * spent[c] <= Before(attempt[c])
    /\ stage[c] \in { "backoff", "backoffInTry" }
         => 2 * spent[c] <= Before(attempt[c]) + 2 * _ATTEMPT_TIMEOUT_S

\* the last attempt may take all of its time
BudgetSuffices ==
  Before(_MAX_RETRIES) + 2 * _ATTEMPT_TIMEOUT_S <= 2 * _LONG_MODE_TIMEOUT

LEMMA FirstAttempt == Before(0) = 2 * _APPROVAL_SUBMIT_TIMEOUT_S
  BY SupervisorAssumption DEF Before, _RETRY_BACKOFF_BASE

LEMMA NextAttempt ==
  ASSUME NEW n \in Nat
  PROVE  /\ Before(n) \in Nat
         /\ Before(n + 1) = Before(n) + 2 * _ATTEMPT_TIMEOUT_S
                              + 2 * (_RETRY_BACKOFF_BASE * (n + 1))
<1> DEFINE A == _ATTEMPT_TIMEOUT_S
<1>1. A \in Nat /\ _APPROVAL_SUBMIT_TIMEOUT_S \in Nat
  BY SupervisorAssumption
<1>2. A * n \in Nat /\ n * (n + 1) \in Nat
  BY <1>1
<1>3. A * (n + 1) = A * n + A /\ (n + 1) * (n + 2) = n * (n + 1) + 2 * (n + 1)
  BY <1>1
<1>4. QED
  BY <1>1, <1>2, <1>3 DEF Before, _RETRY_BACKOFF_BASE

LEMMA EarlierAttempts ==
  ASSUME NEW n \in 0.._MAX_RETRIES PROVE Before(n) <= Before(_MAX_RETRIES)
<1> DEFINE A == _ATTEMPT_TIMEOUT_S
<1>1. A \in Nat /\ _APPROVAL_SUBMIT_TIMEOUT_S \in Nat /\ _MAX_RETRIES \in Nat
  BY SupervisorAssumption
<1>2. PICK d \in Nat : _MAX_RETRIES = n + d
  <2>1. _MAX_RETRIES - n \in Nat /\ _MAX_RETRIES = n + (_MAX_RETRIES - n)
    BY <1>1
  <2>2. QED
    BY <2>1
<1>3. /\ A * (n + d) = A * n + A * d
      /\ (n + d) * (n + d + 1) = n * (n + 1) + d * (n + n + d + 1)
  BY <1>1
<1>4. /\ A * n \in Nat /\ A * d \in Nat /\ n * (n + 1) \in Nat
      /\ d * (n + n + d + 1) \in Nat
  BY <1>1
<1>5. QED
  BY <1>1, <1>2, <1>3, <1>4 DEF Before, _RETRY_BACKOFF_BASE

LEMMA BudgetStep == Inv /\ WithinBudget /\ [Next]_vars => WithinBudget'
<1> SUFFICES ASSUME Inv, WithinBudget, [Next]_vars PROVE WithinBudget'
  OBVIOUS
<1>1. CASE UNCHANGED callVars
  BY <1>1 DEF WithinBudget, callVars
<1>2. ASSUME NEW c \in Calls, CallStep(c) \/ Absorbed(c) \/ Interrupted(c)
      PROVE  WithinBudget'
  <2> USE SupervisorAssumption DEF Goto, Spend
  <2>0. /\ stage \in [Calls -> { "supervise", "gate", "attempt", "executing",
                                 "backoff", "backoffInTry", "fallback" } \cup Ended]
        /\ attempt \in [Calls -> 0.._MAX_RETRIES] /\ spent \in [Calls -> Nat]
    BY DEF Inv, TypeOK
  <2>1. \A n \in 0.._MAX_RETRIES : Before(n) \in Nat
    BY NextAttempt
  <2>2. CASE Supervise(c)
    BY <2>0, <2>1, <2>2, FirstAttempt DEF Supervise, WithinBudget
  <2>3. CASE GateAnswered(c) \/ GateFails(c)
    BY <2>0, <2>1, <2>3, FirstAttempt
    DEF GateAnswered, GateFails, GateTo, WithinBudget
  <2>4. CASE AttemptStarts(c)
    BY <2>0, <2>4 DEF AttemptStarts, WithinBudget
  <2>5. CASE Succeeds(c) \/ Refused(c) \/ Raises(c)
    <3>1. PICK there \in { "succeeded", "backoffInTry", "backoff", "fallback",
                            "failed" } :
            AttemptEnds(c, there)
      BY <2>5 DEF Succeeds, Refused, Raises
    <3>2. QED
      BY <2>0, <2>1, <3>1 DEF AttemptEnds, WithinBudget
  <2>6. CASE Wakes(c)
    <3>1. /\ stage[c] \in { "backoff", "backoffInTry" }
          /\ spent' = [spent EXCEPT ![c] = @ + _RETRY_BACKOFF_BASE * (attempt[c] + 1)]
      BY <2>6 DEF Wakes, backoff
    <3>2. 2 * spent[c] <= Before(attempt[c]) + 2 * _ATTEMPT_TIMEOUT_S
      BY <3>1 DEF WithinBudget
    <3>3. CASE attempt[c] < _MAX_RETRIES
      <4>1. /\ stage' = [stage EXCEPT ![c] = "attempt"]
            /\ attempt' = [attempt EXCEPT ![c] = @ + 1]
        BY <2>6, <3>3 DEF Wakes
      <4>2. 2 * spent'[c] <= Before(attempt[c] + 1)
        BY <2>0, <3>1, <3>2, NextAttempt DEF _RETRY_BACKOFF_BASE
      <4>3. QED
        BY <2>0, <3>1, <4>1, <4>2 DEF WithinBudget
    <3>4. CASE ~(attempt[c] < _MAX_RETRIES)
      BY <2>0, <2>6, <3>1, <3>4 DEF Wakes, WithinBudget
    <3>5. QED
      BY <3>3, <3>4
  <2>7. CASE SkipCompleted(c) \/ FallbackEnds(c) \/ Absorbed(c) \/ Interrupted(c)
    BY <2>0, <2>7
    DEF SkipCompleted, FallbackEnds, Absorbed, Interrupted, WithinBudget
  <2>8. QED
    BY <1>2, <2>2, <2>3, <2>4, <2>5, <2>6, <2>7 DEF CallStep
<1>3. QED
  BY <1>1, <1>2 DEF Next, vars

LEMMA Budget == Spec => []WithinBudget
<1>1. Init => WithinBudget
  BY DEF Init, WithinBudget
<1>2. QED
  BY <1>1, BudgetStep, Invariance, PTL DEF Spec

\* Every attempt that starts can use its whole time before the deadline of the
\* long modes (execution_supervisor.py: the comment on _ATTEMPT_TIMEOUT_S),
\* for all the limits, and numbers of retries, that add up to it.
THEOREM RetriesFit == BudgetSuffices => (Spec => []RetryBudgetFits)
<1> SUFFICES ASSUME BudgetSuffices PROVE Spec => []RetryBudgetFits
  OBVIOUS
<1>1. Inv /\ WithinBudget => RetryBudgetFits
  <2> SUFFICES ASSUME Inv, WithinBudget, NEW c \in Calls, stage[c] = "executing"
               PROVE  spent[c] + _ATTEMPT_TIMEOUT_S <= _LONG_MODE_TIMEOUT
    BY DEF RetryBudgetFits
  <2>1. attempt[c] \in 0.._MAX_RETRIES /\ spent[c] \in Nat
    BY DEF Inv, TypeOK
  <2>2. /\ 2 * spent[c] <= Before(attempt[c]) /\ Before(attempt[c]) \in Nat
        /\ Before(attempt[c]) <= Before(_MAX_RETRIES) /\ Before(_MAX_RETRIES) \in Nat
    BY <2>1, SupervisorAssumption, NextAttempt, EarlierAttempts DEF WithinBudget
  <2>3. QED
    BY <2>1, <2>2, SupervisorAssumption DEF BudgetSuffices
<1>2. QED
  BY <1>1, Invariance, Budget, PTL

\* The values of the code add up to it: two retries, attempts of three minutes, ten
\* seconds for the gate and a deadline of ten minutes (in half seconds).
THEOREM DefaultsSuffice ==
  ASSUME _MAX_RETRIES = 2, _ATTEMPT_TIMEOUT_S = 360,
         _APPROVAL_SUBMIT_TIMEOUT_S = 20, _LONG_MODE_TIMEOUT = 1200
  PROVE  BudgetSuffices
  BY DEF BudgetSuffices, Before, _RETRY_BACKOFF_BASE

-----------------------------------------------------------------------------
(* How often a goal is executed *)

\* each attempt has executed it once, and a fallback once more
RunsAreCounted ==
  \A c \in Calls :
    /\ stage[c] \in { "supervise", "gate" } => attempt[c] = 0
    /\ stage[c] \in { "supervise", "gate", "attempt" } => runs[c] = attempt[c]
    /\ stage[c] \in { "executing", "backoff", "backoffInTry" }
         => runs[c] = attempt[c] + 1
    /\ runs[c] <= attempt[c] + 2

LEMMA RunsStep == Inv /\ RunsAreCounted /\ [Next]_vars => RunsAreCounted'
<1> SUFFICES ASSUME Inv, RunsAreCounted, [Next]_vars PROVE RunsAreCounted'
  OBVIOUS
<1>1. CASE UNCHANGED callVars
  BY <1>1 DEF RunsAreCounted, callVars
<1>2. ASSUME NEW c \in Calls, CallStep(c) \/ Absorbed(c) \/ Interrupted(c)
      PROVE  RunsAreCounted'
  <2> USE SupervisorAssumption DEF Goto
  <2>0. /\ stage \in [Calls -> { "supervise", "gate", "attempt", "executing",
                                 "backoff", "backoffInTry", "fallback" } \cup Ended]
        /\ attempt \in [Calls -> 0.._MAX_RETRIES] /\ runs \in [Calls -> Nat]
    BY DEF Inv, TypeOK
  <2>1. CASE Supervise(c) \/ GateAnswered(c) \/ GateFails(c)
    BY <2>0, <2>1
    DEF Supervise, GateAnswered, GateFails, GateTo, RunsAreCounted, Ended
  <2>2. CASE AttemptStarts(c)
    BY <2>0, <2>2 DEF AttemptStarts, RunsAreCounted, Ended
  <2>3. CASE Succeeds(c) \/ Refused(c) \/ Raises(c)
    <3>1. PICK there \in { "succeeded", "backoffInTry", "backoff", "fallback",
                            "failed" } :
            /\ AttemptEnds(c, there)
            /\ \/ runs' = runs
               \/ there = "fallback" /\ runs' = [runs EXCEPT ![c] = @ + 1]
      BY <2>3 DEF Succeeds, Refused, Raises
    <3>2. QED
      BY <2>0, <3>1 DEF AttemptEnds, RunsAreCounted, Ended
  <2>4. CASE Wakes(c)
    BY <2>0, <2>4 DEF Wakes, RunsAreCounted, Ended
  <2>5. CASE SkipCompleted(c) \/ FallbackEnds(c) \/ Absorbed(c) \/ Interrupted(c)
    BY <2>0, <2>5
    DEF SkipCompleted, FallbackEnds, Absorbed, Interrupted, RunsAreCounted, Ended
  <2>6. QED
    BY <1>2, <2>1, <2>2, <2>3, <2>4, <2>5 DEF CallStep
<1>3. QED
  BY <1>1, <1>2 DEF Next, vars

ExecutionsBounded == \A c \in Calls : runs[c] <= _MAX_RETRIES + 2

\* A call executes its goal at most once for each attempt and once for the
\* fallback, whether attempts raise, are refused or run out of time
\* (execution_supervisor.py: supervise).
THEOREM ExecutionsAreBounded == Spec => []ExecutionsBounded
<1>1. Init => RunsAreCounted
  BY DEF Init, RunsAreCounted
<1>2. Inv /\ RunsAreCounted => ExecutionsBounded
  BY SupervisorAssumption DEF Inv, TypeOK, RunsAreCounted, ExecutionsBounded
<1>3. QED
  BY <1>1, <1>2, RunsStep, Invariance, PTL DEF Spec

-----------------------------------------------------------------------------
(* The refinement *)

\* the stages of a call and what its caller sees of them, before and after a step
LEMMA Phases ==
  ASSUME NEW c \in Calls
  PROVE  /\ stage[c] \in { "attempt", "executing", "backoff", "backoffInTry",
                           "fallback" } => phase_of(c) = "exec"
         /\ stage[c] \in { "skipped", "fellback" } => phase_of(c) = "succeeded"
         /\ stage[c] \in { "cancelled", "denied" } => phase_of(c) = "failed"
         /\ stage[c] = "raised" => phase_of(c) = "interrupted"
         /\ stage[c] \in { "supervise", "gate", "succeeded", "failed", "awaiting" }
              => phase_of(c) = stage[c]
  BY DEF phase_of

\* a step that moves one call from a stage to another moves it in the contract, or
\* leaves the contract as it is
LEMMA Moves ==
  ASSUME TypeOK, NEW c \in Calls, NEW there,
         stage' = [stage EXCEPT ![c] = there], request' = request, runs' = runs
  PROVE  /\ Contract!Move(c, phase_of(c), phase_of(c)')
         /\ phase_of(c)' = phase_of(c) => UNCHANGED Contract!vars
<1>1. \A d \in Calls : d # c => phase_of(d)' = phase_of(d)
  BY DEF TypeOK, phase_of
<1>2. \A d \in Calls : /\ risk(d)' = risk(d)
                       /\ gate_risk(d)' = gate_risk(d)
                       /\ _needs_approval(d)' = _needs_approval(d)
  BY DEF risk, gate_risk, _needs_approval
<1>3. UNCHANGED Contract!arguments
  BY <1>2 DEF Contract!arguments
<1>4. QED
  BY <1>1, <1>3 DEF Contract!Move, Contract!vars, Contract!arguments

\* a step that executes the goal of a call is one of Work
LEMMA Works ==
  ASSUME TypeOK, NEW c \in Calls, NEW there,
         stage' = [stage EXCEPT ![c] = there], request' = request,
         runs' = [runs EXCEPT ![c] = @ + 1],
         phase_of(c) = "exec", phase_of(c)' = "exec",
         High(c) => runs[c] = 0
  PROVE  Contract!Work(c)
<1>1. \A d \in Calls : phase_of(d)' = phase_of(d)
  BY DEF TypeOK, phase_of
<1>2. \A d \in Calls : /\ risk(d)' = risk(d)
                       /\ gate_risk(d)' = gate_risk(d)
                       /\ _needs_approval(d)' = _needs_approval(d)
  BY DEF risk, gate_risk, _needs_approval
<1>3. UNCHANGED Contract!arguments
  BY <1>2 DEF Contract!arguments
<1>4. QED
  BY <1>1, <1>3 DEF Contract!Work, Contract!arguments, High

LEMMA ContractInit == Init => Contract!Init
  BY DEF Init, Contract!Init, phase_of

LEMMA ContractCallStep ==
  ASSUME Inv, NEW c \in Calls, CallStep(c) \/ Absorbed(c) \/ Interrupted(c)
  PROVE  [Contract!Next]_(Contract!vars)
<1> USE DEF Inv, Goto
<1>0. stage \in [Calls -> { "supervise", "gate", "attempt", "executing", "backoff",
                            "backoffInTry", "fallback" } \cup Ended]
  BY DEF TypeOK
<1>1. CASE SkipCompleted(c)
  <2>1. phase_of(c) = "supervise" /\ phase_of(c)' = "succeeded"
    BY <1>0, <1>1 DEF SkipCompleted, phase_of
  <2>2. Contract!SkipCompleted(c)
    BY <1>1, <2>1, Moves DEF SkipCompleted, Contract!SkipCompleted
  <2>3. QED
    BY <2>2 DEF Contract!Next
<1>2. CASE Supervise(c)
  <2>1. PICK there \in { "gate", "attempt" } :
          /\ stage' = [stage EXCEPT ![c] = there]
          /\ there = "gate" <=> ~request[c].skip /\ _needs_approval(c)
    BY <1>2 DEF Supervise
  <2>2. /\ phase_of(c) = "supervise"
        /\ phase_of(c)' = IF there = "gate" THEN "gate" ELSE "exec"
    BY <1>0, <1>2, <2>1 DEF Supervise, phase_of
  <2>3. Contract!Supervise(c)
    BY <1>2, <2>1, <2>2, Moves DEF Supervise, Contract!Supervise
  <2>4. QED
    BY <2>3 DEF Contract!Next
<1>3. CASE GateAnswered(c)
  <2>1. answer[c] = "auto" <=> ~ High(c)
    BY <1>3, GateLevels
    DEF GateAnswered, GateTo, CallsAreGated, QueueInv, AnswersFollowLevels, Calls
  <2>2. /\ phase_of(c) = "gate"
        /\ phase_of(c)' = IF answer[c] = "auto" THEN "exec" ELSE "awaiting"
    BY <1>0, <1>3 DEF GateAnswered, GateTo, phase_of
  <2>3. Contract!Move(c, phase_of(c), phase_of(c)')
    BY <1>3, Moves DEF GateAnswered, GateTo
  <2>4. Contract!GateOpens(c) \/ Contract!GateWaits(c)
    BY <2>1, <2>2, <2>3, GateLevels DEF Contract!GateOpens, Contract!GateWaits
  <2>5. QED
    BY <2>4 DEF Contract!Next
<1>4. CASE GateFails(c)
  <2>1. /\ phase_of(c) = "gate"
        /\ phase_of(c)' = IF gate_risk(c) \in HighRisk THEN "failed" ELSE "exec"
    BY <1>0, <1>4 DEF GateFails, GateTo, phase_of
  <2>2. Contract!Move(c, phase_of(c), phase_of(c)')
    BY <1>4, Moves DEF GateFails, GateTo
  <2>3. Contract!GateOpens(c) \/ Contract!GateFails(c)
    BY <2>1, <2>2 DEF Contract!GateOpens, Contract!GateFails
  <2>4. QED
    BY <2>3 DEF Contract!Next
<1>5. CASE AttemptStarts(c)
  <2>1. phase_of(c) = "exec" /\ phase_of(c)' = "exec"
    BY <1>0, <1>5 DEF AttemptStarts, phase_of
  <2>2. Contract!Work(c)
    BY <1>5, <2>1, Works DEF AttemptStarts, CallsAreGated
  <2>3. QED
    BY <2>2 DEF Contract!Next
\* an attempt that has begun, a wait or a fallback ends
<1>6. ASSUME NEW there \in { "succeeded", "fellback", "failed", "cancelled" },
             stage[c] \in { "executing", "backoff", "backoffInTry", "fallback" },
             stage' = [stage EXCEPT ![c] = there],
             request' = request, runs' = runs
      PROVE  Contract!ExecEnds(c)
  <2>1. phase_of(c) = "exec" /\ phase_of(c)' \in { "succeeded", "failed" }
    BY <1>0, <1>6 DEF phase_of
  <2>2. runs[c] > 0
    BY <1>6 DEF CallsAreGated
  <2>3. QED
    BY <1>6, <2>1, <2>2, Moves DEF Contract!ExecEnds
\* ... or gives way to another stage of the execution
<1>7. ASSUME NEW there \in { "attempt", "backoff", "backoffInTry", "fallback" },
             stage[c] \in { "executing", "backoff", "backoffInTry" },
             stage' = [stage EXCEPT ![c] = there],
             request' = request, runs' = runs
      PROVE  UNCHANGED Contract!vars
  <2>1. phase_of(c) = "exec" /\ phase_of(c)' = "exec"
    BY <1>0, <1>7 DEF phase_of
  <2>2. QED
    BY <1>7, <2>1, Moves
<1>8. CASE Succeeds(c)
  BY <1>6, <1>8 DEF Succeeds, AttemptEnds, Contract!Next
<1>9. CASE Refused(c)
  <2>1. PICK there \in { "backoffInTry", "failed" } : AttemptEnds(c, there)
    BY <1>9 DEF Refused
  <2>2. QED
    BY <1>6, <1>7, <1>9, <2>1 DEF Refused, AttemptEnds, Contract!Next
<1>10. CASE Raises(c)
  <2>1. PICK there \in { "backoff", "fallback", "failed" } :
          /\ AttemptEnds(c, there)
          /\ there = "fallback" => /\ ~ High(c)
                                   /\ runs' = [runs EXCEPT ![c] = @ + 1]
          /\ there # "fallback" => runs' = runs
    BY <1>10, HighRiskEscalates DEF Raises, High
  <2>2. CASE there = "fallback"
    <3>1. phase_of(c) = "exec" /\ phase_of(c)' = "exec"
      BY <1>0, <2>1, <2>2 DEF AttemptEnds, phase_of
    <3>2. Contract!Work(c)
      BY <2>1, <2>2, <3>1, Works DEF AttemptEnds
    <3>3. QED
      BY <3>2 DEF Contract!Next
  <2>3. CASE there # "fallback"
    BY <1>6, <1>7, <2>1, <2>3 DEF AttemptEnds, Contract!Next
  <2>4. QED
    BY <2>2, <2>3
<1>11. CASE Wakes(c)
  BY <1>6, <1>7, <1>11 DEF Wakes, Contract!Next
<1>12. CASE FallbackEnds(c)
  BY <1>6, <1>12 DEF FallbackEnds, Contract!Next
<1>13. CASE Absorbed(c)
  BY <1>6, <1>13 DEF Absorbed, Contract!Next
<1>14. CASE Interrupted(c)
  <2>1. phase_of(c) \in { "gate", "exec" } /\ phase_of(c)' = "interrupted"
    BY <1>0, <1>14 DEF Interrupted, phase_of
  <2>2. Contract!Interrupted(c)
    BY <1>14, <2>1, Moves DEF Interrupted, Contract!Interrupted
  <2>3. QED
    BY <2>2 DEF Contract!Next
<1>15. QED
  BY <1>1, <1>2, <1>3, <1>4, <1>5, <1>8, <1>9, <1>10, <1>11, <1>12, <1>13, <1>14
  DEF CallStep

\* A step of a call is one of the contract, and one of the queue is none.
LEMMA ContractStep == Inv /\ [Next]_vars => [Contract!Next]_(Contract!vars)
<1> SUFFICES ASSUME Inv, [Next]_vars PROVE [Contract!Next]_(Contract!vars)
  OBVIOUS
<1>1. ASSUME UNCHANGED callVars PROVE UNCHANGED Contract!vars
  BY <1>1 DEF callVars, Contract!vars, phase_of, gate_risk, risk, _needs_approval
<1>2. CASE QueueStep /\ UNCHANGED callVars
  BY <1>1, <1>2
<1>3. ASSUME NEW c \in Calls, CallStep(c) \/ Absorbed(c) \/ Interrupted(c)
      PROVE  [Contract!Next]_(Contract!vars)
  BY <1>3, ContractCallStep
<1>4. CASE UNCHANGED vars
  BY <1>1, <1>4 DEF vars
<1>5. QED
  BY <1>2, <1>3, <1>4 DEF Next

\* supervise is what run_execution and the gate of MissionLifecycle take it to be
\* (core/orchestration/execution_supervised_runner.py).
THEOREM Implementation == Spec => ContractSpec
  BY ContractInit, ContractStep, Invariance, PTL DEF Spec, ContractSpec, Contract!Spec

=============================================================================
