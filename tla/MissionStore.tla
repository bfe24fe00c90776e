---------------------------- MODULE MissionStore ----------------------------
(***************************************************************************)
(* core/mission_persistence.py: MissionPersistenceStore, the records behind  *)
(* `record` of MissionLifecycle.  Each call changes the records under the    *)
(* lock, takes a snapshot of them under the lock again, and writes it to the *)
(* file without it.  A save may fail at any of its steps: that is logged, and *)
(* the records of the process are ahead of the file until a later save.  The *)
(* calls are made by the threads that run missions: the event loop, and the  *)
(* thread of the autonomy daemon, which has an event loop of its own.        *)
(***************************************************************************)
EXTENDS Integers, FiniteSets, TempFile

CONSTANTS
  Ids,
  Loop,          \* the thread of the server's event loop
  _MAX_MISSIONS,
  MaxCalls,      \* bound: calls of the store
  MaxFailures,   \* bound: saves that fail
  MaxCrashes     \* bound: kills of the process

\* is_awaiting_approval and is_terminal are all that the store asks of a status
Statuses == { "active", "awaiting", "terminal" }

Records == [status : Statuses, updated_at : Nat]

Stores == [Ids -> Records \cup {None}]

ASSUME StoreAssumption ==
  /\ None \notin Writers \cup Records
  /\ Loop \in Writers
  /\ Unreadable \cap Stores = {}
  /\ { _MAX_MISSIONS, MaxCalls, MaxFailures, MaxCrashes } \subseteq Nat

VARIABLES
  _missions,   \* the record of each mission, None if there is none
  lock,
  pc,          \* where each thread is in its call
  data,        \* the snapshot it is about to write
  calls,       \* how many were made, which is the time too
  failures,    \* how many saves failed,
  behind,      \* ... and whether one did since the last that succeeded
  crashes

saveVars == << failures, behind >>

vars == << fileVars, _missions, lock, pc, data, calls, saveVars, crashes >>

TypeOK ==
  /\ _missions \in Stores
  /\ { file, tmp } \subseteq Unreadable \cup Stores
  /\ writesTo \in Handles
  /\ lock \in Writers \cup { None }
  /\ pc \in [Writers -> { "idle", "snapshot", "open", "write", "replace" }]
  /\ data \in [Writers -> Stores]
  /\ calls \in 0..MaxCalls
  /\ failures \in 0..MaxFailures
  /\ behind \in BOOLEAN
  /\ crashes \in 0..MaxCrashes

NoMissions == [m \in Ids |-> None]

\* _load: a file that is missing or cannot be parsed is an empty store
loaded == IF file \in Unreadable THEN NoMissions ELSE file

Init ==
  /\ file = None
  /\ tmp = None
  /\ writesTo = [w \in Writers |-> "none"]
  /\ _missions = NoMissions
  /\ lock = None
  /\ pc = [w \in Writers |-> "idle"]
  /\ data = [w \in Writers |-> NoMissions]
  /\ calls = 0
  /\ failures = 0
  /\ behind = FALSE
  /\ crashes = 0

-----------------------------------------------------------------------------
(* The records *)

ids(store) == { m \in Ids : store[m] # None }

without(store, ms) == [m \in Ids |-> IF m \in ms THEN None ELSE store[m]]

touched(m, status) ==
  [_missions EXCEPT ![m] = [status |-> status, updated_at |-> calls + 1]]

oldest(n, ms, store) ==
  { m \in ms :
      Cardinality({ k \in ms : store[k].updated_at <= store[m].updated_at }) <= n }

\* mutant of evicted: the oldest missions, whatever their status
evicted_Oldest(store) ==
  oldest(Cardinality(ids(store)) - _MAX_MISSIONS, ids(store), store)

\* _evict_if_needed: the oldest terminal missions, as many as there are too many
evicted(store) ==
  oldest(Cardinality(ids(store)) - _MAX_MISSIONS,
         { m \in ids(store) : store[m].status = "terminal" }, store)

-----------------------------------------------------------------------------
(* The calls *)

\* under the lock the records become `store`, and the thread goes on to _save
Change(w, store) ==
  /\ calls < MaxCalls
  /\ pc[w] = "idle"
  /\ lock = None
  /\ _missions' = store
  /\ pc' = [pc EXCEPT ![w] = "snapshot"]
  /\ calls' = calls + 1
  /\ UNCHANGED << fileVars, data, saveVars, crashes >>

\* a transition persists its context, in any status (MissionLifecycle says when);
\* the mission itself may be the one that is evicted
persist(w, m, status) ==
  LET store == touched(m, status) IN
  /\ Change(w, without(store, evicted(store)))
  /\ UNCHANGED lock

\* of the recovery, which closes what was interrupted; nothing is evicted
update_status(w, m, status) ==
  /\ m \in ids(_missions)
  /\ Change(w, touched(m, status))
  /\ UNCHANGED lock

resolve_approval(w, m, granted) ==
  /\ m \in ids(_missions) /\ _missions[m].status = "awaiting"
  /\ Change(w, touched(m, IF granted THEN "active" ELSE "terminal"))
  /\ UNCHANGED lock

\* the one call that holds the lock until it has saved
delete(w, m) ==
  /\ m \in ids(_missions)
  /\ Change(w, without(_missions, {m}))
  /\ lock' = w

-----------------------------------------------------------------------------
(* _save *)

At(w, here, there) ==
  /\ pc[w] = here
  /\ pc' = [pc EXCEPT ![w] = there]

\* the way out of a call, which for a delete is that out of the lock
Leave(w) ==
  /\ lock' = IF lock = w THEN None ELSE lock
  /\ data' = [data EXCEPT ![w] = NoMissions]

Snapshot(w) ==
  /\ At(w, "snapshot", "open")
  /\ lock \in { None, w }
  /\ data' = [data EXCEPT ![w] = _missions]
  /\ UNCHANGED << fileVars, _missions, lock, calls, saveVars, crashes >>

\* mutant of OpenTmp: the file is written where it is
OpenTmp_InPlace(w) ==
  /\ At(w, "open", "write")
  /\ file' = Empty
  /\ writesTo' = [writesTo EXCEPT ![w] = "file"]
  /\ UNCHANGED << tmp, _missions, lock, data, calls, saveVars, crashes >>

OpenTmp(w) ==
  /\ At(w, "open", "write")
  /\ Truncate(w)
  /\ UNCHANGED << _missions, lock, data, calls, saveVars, crashes >>

WriteTmp(w) ==
  /\ At(w, "write", "replace")
  /\ Write(w, data[w])
  /\ UNCHANGED << _missions, lock, data, calls, saveVars, crashes >>

ReplaceFile(w) ==
  /\ At(w, "replace", "idle")
  /\ Replace
  /\ Leave(w)
  /\ behind' = FALSE
  /\ UNCHANGED << _missions, calls, failures, crashes >>

\* the directory cannot be made, the file opened, written or renamed: the
\* exception is logged, and the caller goes on as if all were well
SaveFails(w) ==
  /\ failures < MaxFailures
  /\ pc[w] # "idle"
  /\ pc' = [pc EXCEPT ![w] = "idle"]
  /\ IF pc[w] = "write" THEN WriteFails(w) ELSE UNCHANGED fileVars
  /\ Leave(w)
  /\ failures' = failures + 1
  /\ behind' = TRUE
  /\ UNCHANGED << _missions, calls, crashes >>

\* the process is killed, and the next one loads the file
Crash ==
  /\ crashes < MaxCrashes
  /\ crashes' = crashes + 1
  /\ behind' = FALSE
  /\ _missions' = loaded
  /\ lock' = None
  /\ pc' = [w \in Writers |-> "idle"]
  /\ data' = [w \in Writers |-> NoMissions]
  /\ writesTo' = [w \in Writers |-> "none"]
  /\ UNCHANGED << file, tmp, calls, failures >>

-----------------------------------------------------------------------------

\* any thread runs missions; recovery, decisions and deletions are the server's
Call(w) ==
  \E m \in Ids :
    \/ \E status \in Statuses : persist(w, m, status)
    \/ /\ w = Loop
       /\ \/ \E status \in Statuses : update_status(w, m, status)
          \/ \E granted \in BOOLEAN : resolve_approval(w, m, granted)
          \/ delete(w, m)

_save(w) ==
  Snapshot(w) \/ OpenTmp(w) \/ WriteTmp(w) \/ ReplaceFile(w) \/ SaveFails(w)

Next == Crash \/ \E w \in Writers : Call(w) \/ _save(w)

Spec == Init /\ [][Next]_vars

-----------------------------------------------------------------------------
(* Properties *)

Durable == INSTANCE DurableRecords WITH
  mem <- _missions,
  disk <- loaded,
  Ended <- { rec \in Records : rec.status = "terminal" }

\* A restart, wherever in _save the kill falls, finds the records of the process
\* whole, as they are or as they were before the call under way; when saves have
\* failed, as they were when one last succeeded.  A call touches one mission.  This
\* is what MissionLifecycle assumes of `record` and `saved`.  With one thread only
\* (run mission_store).
DurableSpec == Durable!Spec

\* A mission that is not terminal is dropped by a delete, by a kill when no save
\* has put it in the file, or by the very call that ends it (a store over its cap
\* keeps no more of it), and never by what becomes of other missions.
OpenIsKept ==
  [][\A m \in ids(_missions) \ ids(_missions') :
       _missions[m].status # "terminal" =>
         \/ crashes' # crashes /\ m \notin ids(loaded)
         \/ delete(Loop, m)
         \/ \E w \in Writers : persist(w, m, "terminal")]_vars

\* "Thread-safe JSON-backed mission state store"
\* (core/mission_persistence.py:140): when no call is under way the file holds
\* the records (violated with two threads: run claims_store_threads).
ThreadSafe == (\A w \in Writers : pc[w] = "idle") => loaded = _missions

=============================================================================
