---------------------------- MODULE ApprovalQueue ----------------------------
(***************************************************************************)
(* core/approval_queue.py: one JSON file that every operation reads, changes *)
(* and writes back, without a lock.  submit_for_approval runs in threads of  *)
(* the default executor; approve and reject run on the event loop, one at a  *)
(* time.  TempFile says how a save overlaps with another; that the write of  *)
(* one may fail, which the code swallows as well, is left out here.          *)
(***************************************************************************)
EXTENDS Naturals, TempFile

CONSTANTS
  Submitters,    \* calls of submit_for_approval; each makes at most one item,
                 \* which bears its name
  Loop,          \* the event loop, where the routes decide
  Keys,          \* pairs of an action and a risk level
  AutoKeys,      \* those whose level is in AUTO_APPROVE_LEVELS
  MaxDecisions   \* bound: calls of approve and reject

ASSUME QueueAssumption ==
  /\ Loop \notin Submitters
  /\ Writers = Submitters \cup {Loop}
  /\ None \notin Submitters \cup Keys
  /\ "auto" \notin Submitters
  /\ AutoKeys \subseteq Keys
  /\ MaxDecisions \in Nat

VARIABLES
  key,        \* what each submission asks for; None before it is made
  op,         \* where each thread, a Writer, stands
  held,       \* the items a saver is about to write
  answer,     \* what submit_for_approval returned, None before that
  approvals,  \* items on which approve was called,
  rejections, \* ... and reject
  decisions   \* how many such calls there were

queueVars == << fileVars, key, op, held, answer, approvals, rejections,
                decisions >>

Items == [Submitters -> { "absent", "pending", "approved", "rejected" }]

NoItems == [s \in Submitters |-> "absent"]

QueueTypeOK ==
  /\ key \in [Submitters -> Keys \cup {None}]
  /\ { file, tmp } \subseteq Items \cup Unreadable
  /\ writesTo \in Handles
  /\ op \in [Writers -> { "none", "asked", "append", "open", "write",
                          "rename", "over" }]
  /\ held \in [Writers -> Items]
  /\ answer \in [Submitters -> Submitters \cup { None, "auto" }]
  /\ approvals \subseteq Submitters
  /\ rejections \subseteq Submitters
  /\ decisions \in 0..MaxDecisions

QueueInit ==
  /\ key = [s \in Submitters |-> None]
  /\ file = None
  /\ tmp = None
  /\ writesTo = [t \in Writers |-> "none"]
  /\ op = [t \in Writers |-> "none"]
  /\ held = [t \in Writers |-> NoItems]
  /\ answer = [s \in Submitters |-> None]
  /\ approvals = {}
  /\ rejections = {}
  /\ decisions = 0

\* _load: a file that is missing or cannot be parsed is an empty queue
loaded == IF file \in Unreadable THEN NoItems ELSE file

OpAt(t, here, there) ==
  /\ op[t] = here
  /\ op' = [op EXCEPT ![t] = there]

-----------------------------------------------------------------------------
(* submit_for_approval *)

Ask(s, k) ==
  /\ OpAt(s, "none", "asked")
  /\ key' = [key EXCEPT ![s] = k]
  /\ UNCHANGED << fileVars, held, answer, approvals, rejections, decisions >>

\* a low level is approved without a look at the file
AutoApprove(s) ==
  /\ key[s] \in AutoKeys
  /\ OpAt(s, "asked", "over")
  /\ answer' = [answer EXCEPT ![s] = "auto"]
  /\ UNCHANGED << fileVars, key, held, approvals, rejections, decisions >>

\* the pending items of the same action and level
duplicates(s) ==
  { d \in Submitters : loaded[d] = "pending" /\ key[d] = key[s] }

Duplicate(s) ==
  /\ key[s] \notin AutoKeys
  /\ OpAt(s, "asked", "over")
  /\ \E d \in duplicates(s) : answer' = [answer EXCEPT ![s] = d]
  /\ UNCHANGED << fileVars, key, held, approvals, rejections, decisions >>

NoDuplicate(s) ==
  /\ key[s] \notin AutoKeys /\ duplicates(s) = {}
  /\ OpAt(s, "asked", "append")
  /\ UNCHANGED << fileVars, key, held, answer, approvals, rejections,
                  decisions >>

\* the file is loaded a second time
AppendItem(s) ==
  /\ OpAt(s, "append", "open")
  /\ held' = [held EXCEPT ![s] = [loaded EXCEPT ![s] = "pending"]]
  /\ UNCHANGED << fileVars, key, answer, approvals, rejections, decisions >>

-----------------------------------------------------------------------------
(* approve and reject: the item's status is not looked at *)

Decide(i, verdict) ==
  /\ decisions < MaxDecisions
  /\ loaded[i] # "absent"
  /\ OpAt(Loop, "none", "open")
  /\ held' = [held EXCEPT ![Loop] = [loaded EXCEPT ![i] = verdict]]
  /\ decisions' = decisions + 1

\* mutant of Approve: the item is looked up by what it asks for
Approve_ByKey(i) ==
  /\ decisions < MaxDecisions
  /\ loaded[i] # "absent"
  /\ OpAt(Loop, "none", "open")
  /\ held' = [held EXCEPT ![Loop] =
                [j \in Submitters |->
                   IF loaded[j] # "absent" /\ key[j] = key[i]
                   THEN "approved" ELSE loaded[j]]]
  /\ decisions' = decisions + 1
  /\ approvals' = approvals \cup {i}
  /\ UNCHANGED << fileVars, key, answer, rejections >>

Approve(i) ==
  /\ Decide(i, "approved")
  /\ approvals' = approvals \cup {i}
  /\ UNCHANGED << fileVars, key, answer, rejections >>

Reject(i) ==
  /\ Decide(i, "rejected")
  /\ rejections' = rejections \cup {i}
  /\ UNCHANGED << fileVars, key, answer, approvals >>

-----------------------------------------------------------------------------
(* _save *)

OpenTmp(t) ==
  /\ OpAt(t, "open", "write")
  /\ Truncate(t)
  /\ UNCHANGED << key, held, answer, approvals, rejections, decisions >>

WriteTmp(t) ==
  /\ OpAt(t, "write", "rename")
  /\ Write(t, held[t])
  /\ UNCHANGED << key, held, answer, approvals, rejections, decisions >>

\* the submission answers, whatever has become of the file
ReplaceFile(t) ==
  /\ OpAt(t, "rename", IF t = Loop THEN "none" ELSE "over")
  /\ Replace
  /\ answer' = IF t = Loop THEN answer ELSE [answer EXCEPT ![t] = t]
  /\ held' = [held EXCEPT ![t] = NoItems]
  /\ UNCHANGED << key, approvals, rejections, decisions >>

Save(t) == OpenTmp(t) \/ WriteTmp(t) \/ ReplaceFile(t)

-----------------------------------------------------------------------------

SubmitThread(s) ==
  \/ AutoApprove(s) \/ Duplicate(s) \/ NoDuplicate(s) \/ AppendItem(s)
  \/ Save(s)

DecideRoute == \E i \in Submitters : Approve(i) \/ Reject(i)

QueueStep ==
  \/ \E s \in Submitters : SubmitThread(s)
  \/ DecideRoute
  \/ Save(Loop)

-----------------------------------------------------------------------------
(* Safety *)

is_approved(i) == loaded[i] = "approved"

\* Whatever overlaps, and however often the file is torn, an item is found
\* approved only if approve was called on that very item.
ApprovedWasDecided == \A i \in Submitters : is_approved(i) => i \in approvals

\* What a test says and TLC refutes (README, divergences):
\* once a submission has answered with its item and nobody is writing, the item
\* is in the file (tests/test_approval_queue.py: test_persistence_across_calls).
AnsweredIsKept ==
  (\A t \in Writers : op[t] \in { "none", "asked", "over" }) =>
    \A s \in Submitters :
      answer[s] = s => loaded[s] # "absent"

=============================================================================
