-------------------------- MODULE MissionStoreProofs --------------------------
(***************************************************************************)
(* Theorems about MissionStore, for every set of missions, every cap, every  *)
(* number of calls and of kills: of its types and of what is evicted, and    *)
(* what not, for every set of threads, and of what a restart finds for one.  *)
(***************************************************************************)
EXTENDS MissionStore, FiniteSetTheorems, WellFoundedInduction, TLAPS

-----------------------------------------------------------------------------
(* The operators on the records *)

LEMMA RemovalIsStore ==
  ASSUME NEW store \in Stores, NEW ms
  PROVE  /\ without(store, ms) \in Stores
         /\ ids(without(store, ms)) = ids(store) \ ms
  BY DEF without, ids, Stores

LEMMA TouchIsStore ==
  ASSUME TypeOK, NEW m \in Ids, NEW status \in Statuses
  PROVE  /\ touched(m, status) \in Stores
         /\ ids(touched(m, status)) = ids(_missions) \cup { m }
         /\ touched(m, status)[m].status = status
         /\ \A n \in Ids \ { m } : touched(m, status)[n] = _missions[n]
<1>1. calls + 1 \in Nat
  BY StoreAssumption DEF TypeOK
<1>2. [status |-> status, updated_at |-> calls + 1] \in Records
  BY <1>1 DEF Records
<1>3. None \notin Records
  BY StoreAssumption
<1>4. _missions \in Stores
  BY DEF TypeOK
<1>5. QED
  BY <1>2, <1>3, <1>4 DEF touched, ids, Stores

\* only missions that have ended are evicted (core/mission_persistence.py:
\* _evict_if_needed), however many there are too many
LEMMA EvictedAreTerminal ==
  ASSUME NEW store, NEW m \in evicted(store)
  PROVE  store[m].status = "terminal"
  BY DEF evicted, oldest

-----------------------------------------------------------------------------
(* Types *)

LEMMA LoadedIsStore == TypeOK => loaded \in Stores
  BY DEF TypeOK, loaded, NoMissions, Stores

\* the four calls, as the records they leave
LEMMA CallsChange ==
  ASSUME TypeOK, NEW w \in Writers, Call(w)
  PROVE  /\ _missions' \in Stores
         /\ calls < MaxCalls /\ calls' = calls + 1
         /\ pc[w] = "idle" /\ pc' = [pc EXCEPT ![w] = "snapshot"]
         /\ lock' \in { lock, w }
         /\ UNCHANGED << fileVars, data, saveVars, crashes >>
<1> DEFINE Result == /\ _missions' \in Stores
                     /\ calls < MaxCalls /\ calls' = calls + 1
                     /\ pc[w] = "idle" /\ pc' = [pc EXCEPT ![w] = "snapshot"]
                     /\ UNCHANGED << fileVars, data, saveVars, crashes >>
<1>1. ASSUME NEW store \in Stores, Change(w, store) PROVE Result
  BY <1>1 DEF Change
<1>2. ASSUME NEW m \in Ids, NEW status \in Statuses, persist(w, m, status)
      PROVE  Result /\ lock' = lock
  BY <1>1, <1>2, TouchIsStore, RemovalIsStore DEF persist
<1>3. ASSUME NEW m \in Ids, NEW status \in Statuses, update_status(w, m, status)
      PROVE  Result /\ lock' = lock
  BY <1>1, <1>3, TouchIsStore DEF update_status
<1>4. ASSUME NEW m \in Ids, NEW granted \in BOOLEAN, resolve_approval(w, m, granted)
      PROVE  Result /\ lock' = lock
  <2>1. (IF granted THEN "active" ELSE "terminal") \in Statuses
    BY DEF Statuses
  <2>2. QED
    BY <1>1, <1>4, <2>1, TouchIsStore DEF resolve_approval
<1>5. ASSUME NEW m \in Ids, delete(w, m) PROVE Result /\ lock' = w
  <2>1. _missions \in Stores
    BY DEF TypeOK
  <2>2. QED
    BY <1>1, <1>5, <2>1, RemovalIsStore DEF delete
<1>6. QED
  BY <1>2, <1>3, <1>4, <1>5 DEF Call

LEMMA TypeStep == TypeOK /\ [Next]_vars => TypeOK'
<1> SUFFICES ASSUME TypeOK, [Next]_vars PROVE TypeOK'
  OBVIOUS
<1> USE StoreAssumption
<1>1. CASE Crash
  <2>1. loaded \in Stores /\ NoMissions \in Stores
    BY LoadedIsStore DEF NoMissions, Stores
  <2>2. crashes' \in 0..MaxCrashes /\ UNCHANGED << file, tmp, calls, failures >>
    BY <1>1 DEF Crash, TypeOK
  <2>5. behind' \in BOOLEAN
    BY <1>1 DEF Crash
  <2>3. /\ lock' \in Writers \cup { None } /\ writesTo' \in Handles
        /\ pc' \in [Writers -> { "idle", "snapshot", "open", "write", "replace" }]
    BY <1>1 DEF Crash, Handles
  <2>4. _missions' \in Stores /\ data' \in [Writers -> Stores]
    BY <1>1, <2>1 DEF Crash
  <2>6. QED
    BY <2>2, <2>3, <2>4, <2>5 DEF TypeOK
<1>2. ASSUME NEW w \in Writers, Call(w) PROVE TypeOK'
  BY <1>2, CallsChange DEF TypeOK, fileVars, saveVars
<1>3. ASSUME NEW w \in Writers, Snapshot(w) PROVE TypeOK'
  BY <1>3 DEF Snapshot, At, TypeOK, fileVars, saveVars
<1>4. ASSUME NEW w \in Writers, OpenTmp(w) PROVE TypeOK'
  BY <1>4 DEF OpenTmp, Truncate, At, TypeOK, Handles, Unreadable, saveVars
<1>5. ASSUME NEW w \in Writers, WriteTmp(w) PROVE TypeOK'
  <2>1. overwritten(tmp, data[w]) \subseteq Unreadable \cup Stores
        /\ overwritten(file, data[w]) \subseteq Unreadable \cup Stores
    BY DEF TypeOK, overwritten, Unreadable
  <2>2. /\ tmp' \in Unreadable \cup Stores /\ file' \in Unreadable \cup Stores
        /\ writesTo' = [writesTo EXCEPT ![w] = "none"]
    BY <1>5, <2>1 DEF WriteTmp, Write, TypeOK
  <2>3. QED
    BY <1>5, <2>2 DEF WriteTmp, At, TypeOK, Handles, saveVars
<1>6. ASSUME NEW w \in Writers, ReplaceFile(w) PROVE TypeOK'
  <2>1. NoMissions \in Stores
    BY DEF NoMissions, Stores
  <2>2. renamed \in Handles
    BY DEF TypeOK, renamed, Handles
  <2>3. /\ { file', tmp' } \subseteq Unreadable \cup Stores
        /\ writesTo' \in Handles
    BY <1>6, <2>2 DEF ReplaceFile, Replace, fileVars, TypeOK, Unreadable
  <2>4. lock' \in Writers \cup { None }
    BY <1>6 DEF ReplaceFile, Leave, TypeOK
  <2>5. QED
    BY <1>6, <2>1, <2>3, <2>4 DEF ReplaceFile, Leave, At, TypeOK
<1>7. ASSUME NEW w \in Writers, SaveFails(w) PROVE TypeOK'
  <2>1. NoMissions \in Stores
    BY DEF NoMissions, Stores
  <2>2. /\ { file', tmp' } \subseteq Unreadable \cup Stores
        /\ writesTo' \in Handles
    BY <1>7 DEF SaveFails, WriteFails, fileVars, TypeOK, Unreadable, Handles
  <2>3. lock' \in Writers \cup { None }
    BY <1>7 DEF SaveFails, Leave, TypeOK
  <2>4. failures' \in 0..MaxFailures
    BY <1>7 DEF SaveFails, TypeOK
  <2>5. QED
    BY <1>7, <2>1, <2>2, <2>3, <2>4 DEF SaveFails, Leave, TypeOK
<1>8. CASE UNCHANGED vars
  BY <1>8 DEF vars, fileVars, saveVars, TypeOK
<1>9. QED
  BY <1>1, <1>2, <1>3, <1>4, <1>5, <1>6, <1>7, <1>8 DEF Next, _save

\* The records, the snapshots and the texts of the two files keep their types,
\* whatever the threads write over each other.
THEOREM TypeCorrect == Spec => []TypeOK
<1>1. Init => TypeOK
  <2> SUFFICES ASSUME Init PROVE TypeOK
    OBVIOUS
  <2>1. NoMissions \in Stores
    BY DEF NoMissions, Stores
  <2>2. _missions \in Stores /\ data \in [Writers -> Stores]
    BY <2>1 DEF Init
  <2>3. { file, tmp } \subseteq Unreadable \cup Stores /\ writesTo \in Handles
    BY DEF Init, Handles, Unreadable
  <2>4. /\ calls \in 0..MaxCalls /\ failures \in 0..MaxFailures
        /\ crashes \in 0..MaxCrashes
    BY StoreAssumption DEF Init
  <2>6. behind \in BOOLEAN
    BY DEF Init
  <2>5. /\ lock \in Writers \cup { None }
        /\ pc \in [Writers -> { "idle", "snapshot", "open", "write", "replace" }]
    BY DEF Init
  <2>7. QED
    BY <2>2, <2>3, <2>4, <2>5, <2>6 DEF TypeOK
<1>2. QED
  BY <1>1, TypeStep, PTL DEF Spec

-----------------------------------------------------------------------------
(* What is dropped *)

LEMMA OpenStep ==
  ASSUME TypeOK, [Next]_vars,
         NEW m \in ids(_missions), m \notin ids(_missions'),
         _missions[m].status # "terminal"
  PROVE  \/ crashes' # crashes /\ m \notin ids(loaded)
         \/ delete(Loop, m)
         \/ \E w \in Writers : persist(w, m, "terminal")
<1>0. m \in Ids /\ _missions \in Stores
  BY DEF ids, TypeOK
<1>1. CASE Crash
  BY <1>1, StoreAssumption DEF Crash, TypeOK
<1>2. ASSUME NEW w \in Writers, NEW n \in Ids, NEW status \in Statuses,
             persist(w, n, status)
      PROVE  n = m /\ status = "terminal"
  <2> DEFINE store == touched(n, status)
  <2>1. /\ store \in Stores /\ m \in ids(store)
        /\ store[m] = IF m = n THEN store[n] ELSE _missions[m]
        /\ store[n].status = status
    BY <1>0, TouchIsStore
  <2>2. _missions' = without(store, evicted(store))
    BY <1>2 DEF persist, Change
  <2> HIDE DEF store
  <2>3. m \in evicted(store)
    BY <2>1, <2>2, RemovalIsStore
  <2>4. store[m].status = "terminal"
    BY <2>3, EvictedAreTerminal
  <2>5. QED
    BY <2>1, <2>4
<1>3. ASSUME NEW n \in Ids, NEW status \in Statuses, update_status(Loop, n, status)
      PROVE  FALSE
  BY <1>3, TouchIsStore DEF update_status, Change
<1>4. ASSUME NEW n \in Ids, NEW granted \in BOOLEAN,
             resolve_approval(Loop, n, granted)
      PROVE  FALSE
  <2>1. (IF granted THEN "active" ELSE "terminal") \in Statuses
    BY DEF Statuses
  <2>2. QED
    BY <1>4, <2>1, TouchIsStore DEF resolve_approval, Change
<1>5. ASSUME NEW n \in Ids, delete(Loop, n) PROVE n = m
  BY <1>0, <1>5, RemovalIsStore DEF delete, Change
<1>6. ASSUME NEW w \in Writers, Call(w)
      PROVE  delete(Loop, m) \/ \E v \in Writers : persist(v, m, "terminal")
  BY <1>2, <1>3, <1>4, <1>5, <1>6 DEF Call
<1>7. ASSUME NEW w \in Writers, _save(w) PROVE FALSE
  BY <1>7 DEF _save, Snapshot, OpenTmp, WriteTmp, ReplaceFile, SaveFails
<1>8. CASE UNCHANGED vars
  BY <1>8 DEF vars
<1>9. QED
  BY <1>1, <1>6, <1>7, <1>8 DEF Next

\* A mission that has not ended is dropped only by a delete, by a kill when the file
\* has no record of it, or by the call that ends it, and never to make place for others
\* (core/mission_persistence.py: _evict_if_needed).
THEOREM OpenIsNotEvicted == Spec => OpenIsKept
<1>1. TypeOK /\ [Next]_vars =>
        [\A m \in ids(_missions) \ ids(_missions') :
           _missions[m].status # "terminal" =>
             \/ crashes' # crashes /\ m \notin ids(loaded)
             \/ delete(Loop, m)
             \/ \E w \in Writers : persist(w, m, "terminal")]_vars
  BY OpenStep
<1>2. QED
  BY <1>1, TypeCorrect, PTL DEF Spec, OpenIsKept

-----------------------------------------------------------------------------
(* What is evicted *)

LEMMA LeastElement ==
  ASSUME NEW T, T \subseteq Nat, T # {}
  PROVE  \E x \in T : \A y \in T : x <= y
<1> DEFINE R == OpToRel(<, Nat)
<1>1. IsWellFoundedOn(R, Nat)
  BY NatLessThanWellFounded
<1>2. \A y, x \in Nat : y < x => << y, x >> \in R
  BY DEF OpToRel
<1> HIDE DEF R
<1>3. PICK x \in T : \A y \in T : << y, x >> \notin R
  BY <1>1, WFMin
<1>4. ASSUME NEW y \in T PROVE x <= y
  <2>1. x \in Nat /\ y \in Nat /\ ~ (y < x)
    BY <1>2, <1>3
  <2>2. QED
    BY <2>1
<1>5. QED
  BY <1>4

\* the records are finite in number, and no two are of the same time
Distinct(store) ==
  /\ IsFiniteSet(ids(store))
  /\ \A m, n \in ids(store) :
       store[m].updated_at = store[n].updated_at => m = n

\* as many as were asked for, or all there are
LEMMA OldestAreEnough ==
  ASSUME NEW store \in Stores, Distinct(store), NEW ms \in SUBSET ids(store),
         NEW n \in Int, oldest(n, ms, store) # ms
  PROVE  Cardinality(oldest(n, ms, store)) >= n
<1> DEFINE old == oldest(n, ms, store)
           time(m) == store[m].updated_at
           until(m) == { k \in ms : time(k) <= time(m) }
           times == { time(m) : m \in ms \ old }
<1>1. \A m \in ms : m \in ids(store) /\ store[m] \in Records /\ time(m) \in Nat
  BY DEF ids, Stores, Records
<1>2. old \subseteq ms /\ \A m \in ms : m \in old <=> Cardinality(until(m)) <= n
  BY DEF oldest
<1>3. PICK m \in ms \ old : \A k \in ms \ old : time(m) <= time(k)
  <2>1. times \subseteq Nat /\ times # {}
    BY <1>1, <1>2
  <2>2. PICK x \in times : \A y \in times : x <= y
    BY <2>1, LeastElement
  <2>3. QED
    BY <2>2
<1>4. IsFiniteSet(ms)
  BY FS_Subset DEF Distinct
<1>5. IsFiniteSet(until(m)) /\ Cardinality(until(m)) \in Nat
  BY <1>4, FS_Subset, FS_CardinalityType
<1>6. Cardinality(until(m)) > n
  BY <1>2, <1>3, <1>5
<1>7. until(m) \ { m } \subseteq old
  <2>1. ASSUME NEW k \in until(m), k # m, k \notin old PROVE FALSE
    <3>1. time(k) = time(m)
      BY <1>1, <1>3, <2>1
    <3>2. QED
      BY <1>1, <1>3, <2>1, <3>1 DEF Distinct
  <2>2. QED
    BY <2>1
<1>8. Cardinality(until(m) \ { m }) = Cardinality(until(m)) - 1
  <2>1. m \in until(m)
    BY <1>1, <1>3
  <2>2. QED
    BY <1>5, <2>1, FS_RemoveElement
<1>9. IsFiniteSet(old) /\ Cardinality(old) \in Nat
      /\ Cardinality(until(m) \ { m }) <= Cardinality(old)
  BY <1>2, <1>4, <1>7, FS_Subset, FS_CardinalityType
<1>10. QED
  BY <1>5, <1>6, <1>8, <1>9

LEMMA EvictedAreEnough ==
  ASSUME NEW store \in Stores, Distinct(store),
         NEW left, left = without(store, evicted(store))
  PROVE  \/ Cardinality(ids(left)) <= _MAX_MISSIONS
         \/ \A m \in ids(left) : left[m].status # "terminal"
<1> DEFINE ended == { m \in ids(store) : store[m].status = "terminal" }
           n == Cardinality(ids(store)) - _MAX_MISSIONS
<1>1. Cardinality(ids(store)) \in Nat /\ _MAX_MISSIONS \in Nat /\ n \in Int
  BY FS_CardinalityType, StoreAssumption DEF Distinct
<1>2. evicted(store) = oldest(n, ended, store)
  BY DEF evicted
<1>3. evicted(store) \subseteq ids(store)
  BY <1>2 DEF oldest
<1>4. /\ left \in Stores /\ ids(left) = ids(store) \ evicted(store)
      /\ \A m \in ids(left) : left[m] = store[m]
  BY RemovalIsStore DEF without, ids
<1>5. CASE evicted(store) = ended
  BY <1>4, <1>5
<1>6. CASE evicted(store) # ended
  <2>1. Cardinality(evicted(store)) >= n
    BY <1>1, <1>2, <1>6, OldestAreEnough
  <2>2. Cardinality(ids(left)) = Cardinality(ids(store)) - Cardinality(evicted(store))
    <3> DEFINE S == ids(store)
               T == evicted(store)
    <3>1. S \cap T = T /\ IsFiniteSet(S) /\ ids(left) = S \ T
      BY <1>3, <1>4 DEF Distinct
    <3> HIDE DEF S, T
    <3>2. Cardinality(S \ T) = Cardinality(S) - Cardinality(S \cap T)
      BY <3>1, FS_Difference
    <3>3. Cardinality(ids(left)) = Cardinality(S) - Cardinality(T)
      BY <3>1, <3>2
    <3>4. QED
      BY <3>3 DEF S, T
  <2>3. Cardinality(evicted(store)) \in Nat
    BY <1>3, FS_Subset, FS_CardinalityType DEF Distinct
  <2>4. QED
    BY <1>1, <2>1, <2>2, <2>3
<1>7. QED
  BY <1>5, <1>6

\* ... and all are of the past, in every text of the store
Dated(store) ==
  /\ Distinct(store)
  /\ \A m \in ids(store) : store[m].updated_at <= calls

TextsAreDated ==
  /\ Dated(_missions)
  /\ \A text \in { file, tmp } : text \in Stores => Dated(text)
  /\ \A w \in Writers : Dated(data[w])

LEMMA NoMissionsAreDated ==
  ASSUME NEW none, none = NoMissions
  PROVE  none \in Stores /\ Dated(none) /\ Dated(none)'
<1>1. ids(none) = {}
  BY DEF ids, NoMissions
<1>2. QED
  BY <1>1, FS_EmptySet DEF Dated, Distinct, NoMissions, Stores

LEMMA LaterIsDated ==
  ASSUME NEW store \in Stores, Dated(store), calls \in Nat,
         calls' \in { calls, calls + 1 }
  PROVE  Dated(store)'
<1>1. \A m \in ids(store) : store[m].updated_at \in Nat
  BY DEF ids, Stores, Records
<1>2. QED
  BY <1>1 DEF Dated

LEMMA RemovalIsDated ==
  ASSUME NEW store \in Stores, NEW ms, NEW left, left = without(store, ms)
  PROVE  Dated(store)' => Dated(left)'
<1>1. ids(left) \subseteq ids(store)
  BY RemovalIsStore
<1>2. \A m \in ids(left) : left[m] = store[m]
  BY DEF without, ids
<1>3. IsFiniteSet(ids(store)) => IsFiniteSet(ids(left))
  BY <1>1, FS_Subset
<1>4. QED
  BY <1>1, <1>2, <1>3 DEF Dated, Distinct

\* the time of the call under way is later than all
LEMMA TouchIsDated ==
  ASSUME TypeOK, Dated(_missions), calls' = calls + 1,
         NEW m \in Ids, NEW status \in Statuses, NEW store,
         store = touched(m, status)
  PROVE  store \in Stores /\ Dated(store)'
<1>1. _missions \in Stores /\ calls \in Nat
  BY StoreAssumption DEF TypeOK
<1>2. /\ store \in Stores /\ ids(store) = ids(_missions) \cup { m }
      /\ \A n \in Ids \ { m } : store[n] = _missions[n]
  BY TouchIsStore
<1>3. store[m].updated_at = calls + 1
  BY <1>1 DEF touched, Stores
<1>4. IsFiniteSet(ids(store))
  BY <1>2, FS_AddElement DEF Dated, Distinct
<1>5. \A n \in ids(store) : n # m =>
        /\ n \in ids(_missions) /\ store[n] = _missions[n]
        /\ store[n].updated_at \in Nat /\ store[n].updated_at <= calls
  BY <1>1, <1>2 DEF Dated, ids, Stores, Records
<1>6. QED
  BY <1>1, <1>2, <1>3, <1>4, <1>5 DEF Dated, Distinct

LEMMA CallIsDated ==
  ASSUME TypeOK, TextsAreDated, NEW w \in Writers, Call(w)
  PROVE  Dated(_missions)'
<1>0. /\ calls' = calls + 1 /\ calls \in Nat /\ _missions \in Stores
      /\ Dated(_missions)
  BY CallsChange, StoreAssumption DEF TypeOK, TextsAreDated
<1>1. PICK new : new = _missions'
  OBVIOUS
<1>2. SUFFICES Dated(new)'
  BY <1>1 DEF Dated
<1>3. ASSUME NEW m \in Ids, NEW status \in Statuses, persist(w, m, status)
      PROVE  Dated(new)'
  <2>1. PICK store : store = touched(m, status)
    OBVIOUS
  <2>2. store \in Stores /\ Dated(store)'
    BY <1>0, <2>1, TouchIsDated
  <2>3. new = without(store, evicted(store))
    BY <1>1, <1>3, <2>1 DEF persist, Change
  <2>4. QED
    BY <2>2, <2>3, RemovalIsDated
<1>4. ASSUME NEW m \in Ids, NEW status \in Statuses, new = touched(m, status)
      PROVE  Dated(new)'
  BY <1>0, <1>4, TouchIsDated
<1>5. ASSUME NEW m \in Ids, NEW status \in Statuses, update_status(w, m, status)
      PROVE  Dated(new)'
  BY <1>1, <1>4, <1>5 DEF update_status, Change
<1>6. ASSUME NEW m \in Ids, NEW granted \in BOOLEAN, resolve_approval(w, m, granted)
      PROVE  Dated(new)'
  <2>1. (IF granted THEN "active" ELSE "terminal") \in Statuses
    BY DEF Statuses
  <2>2. QED
    BY <1>1, <1>4, <1>6, <2>1 DEF resolve_approval, Change
<1>7. ASSUME NEW m \in Ids, delete(w, m) PROVE Dated(new)'
  <2>1. PICK store : store = _missions
    OBVIOUS
  <2>2. store \in Stores /\ Dated(store)'
    BY <1>0, <2>1, LaterIsDated
  <2>3. new = without(store, { m })
    BY <1>1, <1>7, <2>1 DEF delete, Change
  <2>4. QED
    BY <2>2, <2>3, RemovalIsDated
<1>8. QED
  BY <1>3, <1>5, <1>6, <1>7 DEF Call

LEMMA DatedStep == TypeOK /\ TextsAreDated /\ [Next]_vars => TextsAreDated'
<1> SUFFICES ASSUME TypeOK, TextsAreDated, [Next]_vars PROVE TextsAreDated'
  OBVIOUS
<1>1. /\ _missions \in Stores /\ \A w \in Writers : data[w] \in Stores
      /\ calls \in Nat /\ { file, tmp } \subseteq Unreadable \cup Stores
  BY StoreAssumption DEF TypeOK
<1>2. None \notin Stores /\ Empty \notin Stores /\ Torn \notin Stores
  BY StoreAssumption DEF Unreadable
\* what is a text of the store afterwards was one before
<1>3. ASSUME calls' = calls,
             _missions' \in { _missions, loaded },
             \A text \in { file', tmp' } : text \in Stores =>
               \/ text \in { file, tmp }
               \/ \E w \in Writers : text = data[w],
             \A w \in Writers : data'[w] \in { data[w], _missions, NoMissions }
      PROVE  TextsAreDated'
  <2>1. ASSUME NEW text, text \in Stores,
               \/ text \in { _missions, file, tmp, NoMissions }
               \/ \E w \in Writers : text = data[w]
        PROVE  Dated(text)'
    BY <1>3, <2>1, NoMissionsAreDated DEF TextsAreDated, Dated
  <2>2. loaded \in Stores /\ loaded \in { file, NoMissions }
    BY LoadedIsStore DEF loaded
  <2>3. PICK new : new = _missions'
    OBVIOUS
  <2>4. Dated(new)'
    BY <1>1, <1>3, <2>1, <2>2, <2>3
  <2>5. Dated(_missions)'
    BY <2>3, <2>4 DEF Dated
  <2>6. ASSUME NEW text \in { file', tmp' }, text \in Stores PROVE Dated(text)'
    BY <1>3, <2>1, <2>6
  <2>7. ASSUME NEW w \in Writers PROVE Dated(data[w])'
    <3>1. PICK text : text = data'[w]
      OBVIOUS
    <3>2. text \in Stores
      BY <1>1, <1>3, <3>1, NoMissionsAreDated
    <3>3. Dated(text)'
      BY <1>3, <2>1, <3>1, <3>2
    <3>4. QED
      BY <3>1, <3>3 DEF Dated
  <2>8. QED
    BY <2>5, <2>6, <2>7 DEF TextsAreDated
<1>4. CASE Crash
  BY <1>3, <1>4 DEF Crash
<1>5. ASSUME NEW w \in Writers, Call(w) PROVE TextsAreDated'
  <2>1. Dated(_missions)'
    BY <1>5, CallIsDated
  <2>2. /\ UNCHANGED << file, tmp, data >> /\ calls' = calls + 1
    BY <1>5, CallsChange DEF fileVars
  <2>3. ASSUME NEW text \in Stores, Dated(text) PROVE Dated(text)'
    BY <1>1, <2>2, <2>3, LaterIsDated
  <2>4. ASSUME NEW text \in { file, tmp }, text \in Stores PROVE Dated(text)'
    BY <2>3, <2>4 DEF TextsAreDated
  <2>5. ASSUME NEW v \in Writers PROVE Dated(data[v])'
    <3>1. PICK text : text = data[v]
      OBVIOUS
    <3>2. Dated(text)'
      BY <1>1, <2>3, <3>1 DEF TextsAreDated
    <3>3. QED
      BY <2>2, <3>1, <3>2 DEF Dated
  <2>6. QED
    BY <2>1, <2>2, <2>4, <2>5 DEF TextsAreDated
<1>6. ASSUME NEW w \in Writers, Snapshot(w) PROVE TextsAreDated'
  BY <1>3, <1>6 DEF Snapshot, fileVars, TypeOK
<1>7. ASSUME NEW w \in Writers, OpenTmp(w) PROVE TextsAreDated'
  BY <1>2, <1>3, <1>7 DEF OpenTmp, Truncate
<1>8. ASSUME NEW w \in Writers, WriteTmp(w) PROVE TextsAreDated'
  BY <1>2, <1>3, <1>8 DEF WriteTmp, Write, overwritten
<1>9. ASSUME NEW w \in Writers, ReplaceFile(w) PROVE TextsAreDated'
  BY <1>2, <1>3, <1>9 DEF ReplaceFile, Replace, Leave, fileVars, TypeOK
<1>10. ASSUME NEW w \in Writers, SaveFails(w) PROVE TextsAreDated'
  BY <1>2, <1>3, <1>10 DEF SaveFails, WriteFails, Leave, fileVars, TypeOK
<1>11. CASE UNCHANGED vars
  BY <1>3, <1>11 DEF vars, fileVars
<1>12. QED
  BY <1>4, <1>5, <1>6, <1>7, <1>8, <1>9, <1>10, <1>11 DEF Next, _save

\* No more is kept than the cap, unless no record that is kept has ended.
CapIsKept ==
  [][\A w \in Writers, m \in Ids, status \in Statuses :
       persist(w, m, status) =>
         \/ Cardinality(ids(_missions')) <= _MAX_MISSIONS
         \/ \A n \in ids(_missions') : _missions'[n].status # "terminal"]_vars

LEMMA CapStep ==
  ASSUME TypeOK, TextsAreDated, NEW w \in Writers, NEW m \in Ids,
         NEW status \in Statuses, persist(w, m, status)
  PROVE  \/ Cardinality(ids(_missions')) <= _MAX_MISSIONS
         \/ \A n \in ids(_missions') : _missions'[n].status # "terminal"
<1>1. PICK store : store = touched(m, status)
  OBVIOUS
<1>2. _missions' = without(store, evicted(store)) /\ calls' = calls + 1
  BY <1>1 DEF persist, Change
<1>3. store \in Stores /\ Distinct(store)
  BY <1>1, <1>2, TouchIsDated DEF TextsAreDated, Dated
<1>4. QED
  BY <1>2, <1>3, EvictedAreEnough

\* Eviction is as thorough as it may be (core/mission_persistence.py:
\* _evict_if_needed): after a persist the store is within its cap, or all that it
\* keeps is open; so is it after kills, and with threads that write over each other.
THEOREM CapHolds == Spec => CapIsKept
<1>1. Init => TextsAreDated
  BY NoMissionsAreDated, StoreAssumption DEF Init, TextsAreDated, Unreadable
<1>2. TypeOK /\ TextsAreDated /\ [Next]_vars =>
        [\A w \in Writers, m \in Ids, status \in Statuses :
           persist(w, m, status) =>
             \/ Cardinality(ids(_missions')) <= _MAX_MISSIONS
             \/ \A n \in ids(_missions') : _missions'[n].status # "terminal"]_vars
  BY CapStep
<1>3. QED
  BY <1>1, <1>2, DatedStep, TypeCorrect, PTL DEF Spec, CapIsKept

-----------------------------------------------------------------------------
(* What a restart finds *)

\* where the one thread stands, what it has snapshot and what the files hold
SaveInv ==
  /\ pc[Loop] = "idle" => loaded = _missions \/ behind
  /\ pc[Loop] \in { "open", "write", "replace" } => data[Loop] = _missions
  /\ pc[Loop] = "write" => tmp = Empty /\ writesTo[Loop] = "tmp"
  /\ pc[Loop] = "replace" => tmp = data[Loop]

\* of the records that a call does not touch, it drops those of ended missions
LEMMA CallTouchesOne ==
  ASSUME TypeOK, NEW w \in Writers, Call(w)
  PROVE  \E m \in Ids : \A n \in Ids \ { m } :
           \/ _missions'[n] = _missions[n]
           \/ /\ _missions[n] \in { rec \in Records : rec.status = "terminal" }
              /\ _missions'[n] = None
<1> DEFINE Spared(n) == _missions'[n] = _missions[n]
           Dropped(n) == /\ _missions[n] \in { rec \in Records : rec.status = "terminal" }
                         /\ _missions'[n] = None
<1> SUFFICES ASSUME NEW m \in Ids,
                    \/ \E status \in Statuses :
                         persist(w, m, status) \/ update_status(w, m, status)
                    \/ \E granted \in BOOLEAN : resolve_approval(w, m, granted)
                    \/ delete(w, m)
             PROVE  \A n \in Ids \ { m } : Spared(n) \/ Dropped(n)
  BY DEF Call
<1>1. ASSUME NEW status \in Statuses, _missions' = touched(m, status)
      PROVE  \A n \in Ids \ { m } : Spared(n)
  BY <1>1, TouchIsStore
<1>2. ASSUME NEW status \in Statuses, persist(w, m, status)
      PROVE  \A n \in Ids \ { m } : Spared(n) \/ Dropped(n)
  <2> SUFFICES ASSUME NEW n \in Ids \ { m } PROVE Spared(n) \/ Dropped(n)
    OBVIOUS
  <2> DEFINE store == touched(m, status)
  <2>1. store[n] = _missions[n]
    BY TouchIsStore
  <2>2. _missions' = without(store, evicted(store))
    BY <1>2 DEF persist, Change
  <2> HIDE DEF store
  <2>3. CASE n \in evicted(store)
    <3>1. /\ _missions[n].status = "terminal" /\ _missions'[n] = None
          /\ n \in ids(store)
      BY <2>1, <2>2, <2>3, EvictedAreTerminal DEF without, evicted, oldest
    <3>2. _missions[n] \in Records
      BY <2>1, <3>1 DEF ids, TypeOK, Stores
    <3>3. QED
      BY <3>1, <3>2
  <2>4. CASE n \notin evicted(store)
    BY <2>1, <2>2, <2>4 DEF without
  <2>5. QED
    BY <2>3, <2>4
<1>3. ASSUME NEW status \in Statuses, update_status(w, m, status)
      PROVE  \A n \in Ids \ { m } : Spared(n)
  BY <1>1, <1>3 DEF update_status, Change
<1>4. ASSUME NEW granted \in BOOLEAN, resolve_approval(w, m, granted)
      PROVE  \A n \in Ids \ { m } : Spared(n)
  <2>1. (IF granted THEN "active" ELSE "terminal") \in Statuses
    BY DEF Statuses
  <2>2. QED
    BY <1>1, <1>4, <2>1 DEF resolve_approval, Change
<1>5. ASSUME delete(w, m) PROVE \A n \in Ids \ { m } : Spared(n)
  BY <1>5 DEF delete, Change, without
<1>6. QED
  BY <1>2, <1>3, <1>4, <1>5

\* a step keeps the invariant, and is one of the abstract store or changes nothing
LEMMA DurableStep ==
  ASSUME Writers = { Loop }, TypeOK, SaveInv, [Next]_vars
  PROVE  SaveInv' /\ [Durable!Next]_(Durable!vars)
<1> USE DEF At, TypeOK
<1>1. CASE Crash
  <2>1. loaded' = loaded /\ _missions' = loaded /\ behind' = FALSE
    BY <1>1 DEF Crash, loaded
  <2>2. SaveInv'
    BY <1>1, <2>1 DEF Crash, SaveInv
  <2>3. Durable!Restart
    BY <2>1 DEF Durable!Restart
  <2>4. QED
    BY <2>2, <2>3 DEF Durable!Next
<1>2. CASE Call(Loop)
  <2>1. /\ _missions' \in Stores /\ UNCHANGED << loaded, behind >> /\ pc[Loop] = "idle"
        /\ pc' = [pc EXCEPT ![Loop] = "snapshot"]
    BY <1>2, CallsChange DEF fileVars, saveVars, loaded
  <2>2. SaveInv' /\ (loaded = _missions \/ behind)
    BY <2>1 DEF SaveInv
  <2>3. PICK m \in Ids : \A n \in Ids \ { m } :
          \/ _missions'[n] = _missions[n]
          \/ /\ _missions[n] \in { rec \in Records : rec.status = "terminal" }
             /\ _missions'[n] = None
    BY <1>2, CallTouchesOne
  <2>4. Durable!Change(m)
    BY <2>1, <2>2, <2>3 DEF Durable!Change, Stores
  <2>5. QED
    BY <2>2, <2>4 DEF Durable!Next
<1>3. CASE Snapshot(Loop)
  BY <1>3 DEF SaveInv, Snapshot, fileVars, saveVars, loaded, Durable!vars
<1>4. CASE OpenTmp(Loop)
  BY <1>4 DEF SaveInv, OpenTmp, Truncate, saveVars, loaded, Handles, Durable!vars
<1>5. CASE WriteTmp(Loop)
  BY <1>5 DEF SaveInv, WriteTmp, Write, overwritten, saveVars, loaded, Durable!vars
<1>6. CASE ReplaceFile(Loop)
  <2>1. tmp = _missions /\ tmp \notin Unreadable /\ tmp # None
    BY <1>6, StoreAssumption DEF SaveInv, ReplaceFile, Unreadable
  <2>2. file' = _missions /\ loaded' = _missions
    BY <1>6, <2>1 DEF ReplaceFile, Replace, loaded
  <2>3. SaveInv'
    BY <1>6, <2>2 DEF SaveInv, ReplaceFile
  <2>4. Durable!Save
    BY <1>6, <2>2 DEF ReplaceFile, Durable!Save
  <2>5. QED
    BY <2>3, <2>4 DEF Durable!Next
<1>7. CASE SaveFails(Loop)
  <2>1. UNCHANGED << loaded, _missions >> /\ behind' = TRUE
    BY <1>7 DEF SaveInv, SaveFails, WriteFails, fileVars, loaded
  <2>2. SaveInv'
    BY <1>7, <2>1 DEF SaveInv, SaveFails
  <2>3. Durable!Fail
    BY <2>1 DEF Durable!Fail
  <2>4. QED
    BY <2>2, <2>3 DEF Durable!Next
<1>8. CASE UNCHANGED vars
  BY <1>8 DEF SaveInv, vars, fileVars, saveVars, loaded, Durable!vars
<1>9. QED
  BY <1>1, <1>2, <1>3, <1>4, <1>5, <1>6, <1>7, <1>8 DEF Next, _save

\* With one thread a restart finds the records whole: as they are, or as they were
\* before the call under way, wherever in _save the kill falls and whatever an
\* earlier kill or failure has left in the temporary file; and if saves have failed
\* (core/mission_persistence.py:310), as they were when one last succeeded.
THEOREM StoreIsDurable == Writers = { Loop } => (Spec => DurableSpec)
<1> SUFFICES ASSUME Writers = { Loop } PROVE Spec => DurableSpec
  OBVIOUS
<1>1. Init => SaveInv /\ Durable!Init
  BY StoreAssumption
  DEF Init, SaveInv, loaded, Unreadable, Durable!Init, NoMissions
<1>2. TypeOK /\ SaveInv /\ [Next]_vars => SaveInv' /\ [Durable!Next]_(Durable!vars)
  BY DurableStep
<1>3. QED
  BY <1>1, <1>2, TypeCorrect, PTL DEF Spec, DurableSpec, Durable!Spec

=============================================================================
