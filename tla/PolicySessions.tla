--------------------------- MODULE PolicySessions ---------------------------
(***************************************************************************)
(* core/policy_engine.py and core/session_store.py: the trackers that bound  *)
(* the actions of a mission.  Each call of the store is a step under the     *)
(* store's lock and check_and_record one under its tracker's; evaluate_tool  *)
(* is a sequence of them.  A tracker is named after the call that created or *)
(* fetched it, or after the mission for which run_mission ensured it.        *)
(***************************************************************************)
EXTENDS Integers, FiniteSets

CONSTANTS
  None,
  Calls,
  Missions,
  max_actions_per_session,
  _MAX_SESSIONS,
  Redis               \* POLICY_SESSION_STORE = redis

ASSUME SessionsAssumption ==
  /\ IsFiniteSet(Calls) /\ IsFiniteSet(Missions)
  /\ max_actions_per_session \in Nat
  /\ _MAX_SESSIONS \in Nat
  /\ Redis \in BOOLEAN
  /\ Calls \cap Missions = {}
  /\ None \notin Calls \cup Missions

Trackers == Calls \cup Missions

VARIABLES
  sessions,    \* the store: the tracker of each mission, None when it has none
  tracker,     \* of each tracker its actions_done and its place in time
  born,        \* the trackers created so far
  aged,        \* the births that are session_timeout_s ago
  mission,     \* the mission_id of each call
  asked,       \* how far each call is in evaluate_tool
  doomed,      \* the keys it has still to delete
  held,        \* the tracker it has got
  gaps         \* history: the missions that have been without a tracker

sessionVars ==
  << sessions, tracker, born, aged, mission, asked, doomed, held, gaps >>

Stored == { m \in Missions : sessions[m] # None }

SessionsTypeOK ==
  /\ sessions \in [Missions -> Trackers \cup { None }]
  /\ tracker \in [Trackers -> [actions_done : Nat, started_at : Nat]]
  /\ born \in Nat
  /\ aged \subseteq 1..born
  /\ mission \in [Calls -> Missions]
  /\ asked \in [Calls -> { "idle", "expired", "overflow", "new", "record", "save",
                           "allowed", "denied", "raised" }]
  /\ doomed \in [Calls -> SUBSET Missions]
  /\ held \in [Calls -> Trackers \cup { None }]
  /\ gaps \subseteq Missions

\* run_mission has ensured the session of some of the missions
SessionsInit ==
  /\ born = Cardinality(Missions)
  /\ \E order \in [Missions -> 1..born] :
       /\ \A m, n \in Missions : m # n => order[m] # order[n]
       /\ tracker = [t \in Trackers |->
            [actions_done |-> 0,
             started_at |-> IF t \in Missions THEN order[t] ELSE 0]]
  /\ \E ensured \in SUBSET Missions :
       /\ sessions = [m \in Missions |-> IF m \in ensured THEN m ELSE None]
       /\ gaps = Missions \ ensured
  /\ aged = {}
  /\ mission \in [Calls -> Missions]
  /\ asked = [c \in Calls |-> "idle"]
  /\ doomed = [c \in Calls |-> {}]
  /\ held = [c \in Calls |-> None]

-----------------------------------------------------------------------------
(* The store *)

started_at(m) == tracker[sessions[m]].started_at

\* session_timeout_s goes by; its length depends on the mode of the session
GrowOld(k) ==
  /\ k \in (1..born) \ aged
  /\ aged' = aged \cup { k }
  /\ UNCHANGED << sessions, tracker, born, mission, asked, doomed, held, gaps >>

\* mutant of Fetch: a memory store that hands out copies
Fetch_Copies(c) ==
  LET t == sessions[mission[c]]
  IN /\ held' = [held EXCEPT ![c] = c]
     /\ tracker' = [tracker EXCEPT ![c] = tracker[t]]

\* The memory store hands out its tracker.  Redis reads and writes copies: the
\* one it keeps has the name of the mission.
Fetch(c) ==
  LET t == sessions[mission[c]]
  IN IF Redis
     THEN /\ held' = [held EXCEPT ![c] = c]
          /\ tracker' = [tracker EXCEPT ![c] = tracker[t]]
     ELSE /\ held' = [held EXCEPT ![c] = t]
          /\ UNCHANGED tracker

\* the mission of call c is given tracker t, worth v
Put(c, t, v) ==
  LET kept == IF Redis THEN mission[c] ELSE t
  IN /\ sessions' = [sessions EXCEPT ![mission[c]] = kept]
     /\ tracker' = [tracker EXCEPT ![t] = v, ![kept] = v]

-----------------------------------------------------------------------------
(* evaluate_tool *)

\* _cleanup_expired_sessions: the expired keys are those of a snapshot
Cleanup(c) ==
  /\ asked[c] = "idle"
  /\ doomed' = [doomed EXCEPT ![c] =
                  { m \in Stored : started_at(m) \in aged }]
  /\ asked' = [asked EXCEPT ![c] = "expired"]
  /\ UNCHANGED << sessions, tracker, born, aged, mission, held, gaps >>

\* the next key of either list is deleted, whatever it holds by now
Delete(c) ==
  /\ asked[c] \in { "expired", "overflow" }
  /\ \E m \in doomed[c] :
       /\ doomed' = [doomed EXCEPT ![c] = @ \ { m }]
       /\ sessions' = [sessions EXCEPT ![m] = None]
       /\ gaps' = gaps \cup { m }
  /\ UNCHANGED << tracker, born, aged, mission, asked, held >>

\* the expired keys are gone: the oldest of a store over its cap are next
Cap(c) ==
  /\ asked[c] = "expired"
  /\ doomed[c] = {}
  /\ \E keys \in SUBSET Stored :
       /\ Cardinality(keys) = IF Cardinality(Stored) > _MAX_SESSIONS
                              THEN Cardinality(Stored) - _MAX_SESSIONS ELSE 0
       /\ \A m \in keys, n \in Stored \ keys : started_at(m) <= started_at(n)
       /\ doomed' = [doomed EXCEPT ![c] = keys]
  /\ asked' = [asked EXCEPT ![c] = "overflow"]
  /\ UNCHANGED << sessions, tracker, born, aged, mission, held, gaps >>

\* ensure_session looks for a tracker
Lookup(c) ==
  /\ asked[c] = "overflow"
  /\ doomed[c] = {}
  /\ IF sessions[mission[c]] # None
     THEN /\ Fetch(c)
          /\ asked' = [asked EXCEPT ![c] = "record"]
     ELSE /\ asked' = [asked EXCEPT ![c] = "new"]
          /\ UNCHANGED << tracker, held >>
  /\ UNCHANGED << sessions, born, aged, mission, doomed, gaps >>

\* new_session, in place of a tracker that was not there when it was looked for
new_session(c) ==
  /\ asked[c] = "new"
  /\ born' = born + 1
  /\ Put(c, c, [actions_done |-> 0, started_at |-> born + 1])
  /\ held' = [held EXCEPT ![c] = c]
  /\ asked' = [asked EXCEPT ![c] = "record"]
  /\ UNCHANGED << aged, mission, doomed, gaps >>

check_limits(t) ==
  /\ tracker[t].actions_done < max_actions_per_session
  /\ tracker[t].started_at \notin aged

check_and_record(c) ==
  /\ asked[c] = "record"
  /\ IF check_limits(held[c])
     THEN /\ tracker' = [tracker EXCEPT ![held[c]].actions_done = @ + 1]
          /\ asked' = [asked EXCEPT ![c] = "save"]
     ELSE /\ asked' = [asked EXCEPT ![c] = "denied"]
          /\ UNCHANGED tracker
  /\ UNCHANGED << sessions, born, aged, mission, doomed, held, gaps >>

\* the tracker is written back, also over one that has taken its place
Save(c) ==
  /\ asked[c] = "save"
  /\ Put(c, held[c], tracker[held[c]])
  /\ asked' = [asked EXCEPT ![c] = "allowed"]
  /\ UNCHANGED << born, aged, mission, doomed, held, gaps >>

evaluate_tool(c) ==
  \/ Cleanup(c) \/ Delete(c) \/ Cap(c) \/ Lookup(c) \/ new_session(c)
  \/ check_and_record(c) \/ Save(c)

\* an exception out of it, which leaves nothing but what is stored; an action that
\* check_and_record has counted stays counted
evaluate_tool_raises(c) ==
  /\ asked[c] \notin { "allowed", "denied" }
  /\ asked' = [asked EXCEPT ![c] = IF @ = "save" THEN "allowed" ELSE "raised"]
  /\ doomed' = [doomed EXCEPT ![c] = {}]
  /\ held' = [held EXCEPT ![c] = None]
  /\ UNCHANGED << sessions, tracker, born, aged, mission, gaps >>

-----------------------------------------------------------------------------
(* Properties *)

Allowed(m) == { c \in Calls : mission[c] = m /\ asked[c] \in { "save", "allowed" } }

\* A mission whose tracker has been in the store all the time is allowed no more
\* than max_actions_per_session actions, however its calls interleave with each
\* other, with the clean-up of other sessions and with the writing back.  What a
\* tool does although evaluate_tool has raised is not among them.
LimitHolds ==
  \A m \in Missions \ gaps : Cardinality(Allowed(m)) <= max_actions_per_session

=============================================================================
