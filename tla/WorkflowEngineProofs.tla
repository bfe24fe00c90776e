------------------------ MODULE WorkflowEngineProofs ------------------------
(***************************************************************************)
(* Theorems about WorkflowEngine, for every number of threads and of         *)
(* workflows, every plan and every limit, with runs that overlap, loads that *)
(* come late, saves that fail and any number of restarts.                    *)
(***************************************************************************)
EXTENDS WorkflowEngine, FiniteSetTheorems, TLAPS

Sets(t) == \E status \in Setting : SetStatus(t, status)

\* where create_workflow has an execution that is not stored yet
Creating == { "make_room", "choose", "evict", "insert" }

Places ==
  { "idle", "load", "put", "next", "begin", "open", "snapshot", "write" }
    \cup Creating \cup Holding

ThreadsTyped ==
  /\ pc \in [Threads -> Places]
  /\ on \in [Threads -> Ids \cup { None }]
  /\ at \in [Threads -> Nat]
  /\ created \in 0..MaxCreated

\* a thread in a call has an execution
HasTarget ==
  \A t \in Threads : pc[t] \notin { "idle", "load", "put" } => on[t] \in Ids

\* the types of what the invariants read
EngineTyped ==
  /\ ThreadsTyped
  /\ HasTarget
  /\ IsStore(_executions)
  /\ IsStore(loaded)
  /\ DOMAIN data = Threads /\ \A t \in Threads : IsStore(data[t])
  /\ DOMAIN reached = Ids
  /\ brought \in Nat

-----------------------------------------------------------------------------
(* What each write makes of an execution *)

\* The new status, and the new step, of an execution.
LEMMA StatusSet ==
  ASSUME NEW execution, IsExecution(execution), NEW status \in Active \cup Ended
  PROVE  LET now == [execution EXCEPT !.status = status] IN
         /\ IsExecution(now)
         /\ now.status = status
         /\ now.plan = execution.plan /\ now.steps = execution.steps
  BY DEF IsExecution

\* What is written when a step begins.
LEMMA BegunExecution ==
  ASSUME NEW execution, IsExecution(execution), NEW i \in Nat
  PROVE  LET now == begun(execution, i) IN
         /\ IsExecution(now)
         /\ now.status = "running"
         /\ now.plan = execution.plan
         /\ DOMAIN now.steps = DOMAIN execution.steps
         /\ \A j \in DOMAIN execution.steps :
              now.steps[j].status =
                IF j = i THEN "running" ELSE execution.steps[j].status
<1>1. /\ "running" \in Active \cup Ended
      /\ \A step \in Steps : [step EXCEPT !.status = "running"] \in Steps
      /\ \A step \in Steps : [step EXCEPT !.status = "running"].status = "running"
  BY DEF Active, Steps, StepStatus
<1> QED
  BY <1>1 DEF IsExecution, begun

\* What an attempt makes of a step.
LEMMA EndedStep ==
  ASSUME NEW step \in Steps, NEW max_retries, NEW success \in BOOLEAN
  PROVE  ended(step, max_retries, success) \in Steps
  BY DEF ended, Steps, StepStatus

LEMMA AttemptedExecution ==
  ASSUME NEW execution, IsExecution(execution), NEW i \in Nat,
         NEW success \in BOOLEAN
  PROVE  LET now == attempted(execution, i, success) IN
         /\ IsExecution(now)
         /\ now.status = execution.status
         /\ now.plan = execution.plan
         /\ DOMAIN now.steps = DOMAIN execution.steps
         /\ \A j \in DOMAIN execution.steps :
              j # i => now.steps[j].status = execution.steps[j].status
<1>1. ASSUME i \in DOMAIN execution.steps
      PROVE  ended(execution.steps[i], execution.plan[i].max_retries, success)
               \in Steps
  <2>1. execution.steps[i] \in Steps
    BY <1>1 DEF IsExecution
  <2> QED
    BY <2>1, EndedStep
<1> QED
  BY <1>1 DEF IsExecution, attempted

NewExecution(plan) ==
  [status |-> "created", plan |-> plan,
   steps |-> [i \in DOMAIN plan |-> [status |-> "pending", retries |-> 0]]]

LEMMA NewIsExecution ==
  ASSUME NEW plan \in Plans
  PROVE  IsExecution(NewExecution(plan))
  BY DEF NewExecution, IsExecution, Active, Steps, StepStatus

\* A write to an execution leaves the other ones as they are.
LEMMA PutStore ==
  ASSUME IsStore(_executions), NEW t \in Threads, NEW execution,
         Mine(t) => IsExecution(execution), Put(t, execution)
  PROVE  IsStore(_executions') /\ DOMAIN _executions' = DOMAIN _executions
  BY DEF Put, Mine, IsStore, stored

-----------------------------------------------------------------------------
(* Types *)

LEMMA EmptyStore == IsStore(NoStore)
  BY DEF IsStore, NoStore

LEMMA InitTyped == Init => EngineTyped
  BY EngineAssumption, EmptyStore
  DEF Init, EngineTyped, ThreadsTyped, HasTarget, loaded, Ids, Places, IsStore, NoStore

\* what a thread has read or is about to write is part of a text there was
Part(x, y) == DOMAIN x \subseteq DOMAIN y /\ \A e \in DOMAIN x : x[e] = y[e]

LEMMA TextsStep ==
  ASSUME EngineTyped, NEW t \in Threads, Step(t)
  PROVE  /\ loaded' \in { loaded, NoStore, data[t] }
         /\ DOMAIN data' = Threads
         /\ \A u \in Threads :
              \E text \in { data[u], _executions, loaded, NoStore } :
                Part(data'[u], text)
<1>0. DOMAIN data = Threads
  BY DEF EngineTyped
<1>1. CASE OpenFile(t)
  BY <1>0, <1>1 DEF OpenFile, loaded, Part
<1>2. CASE Snapshot(t)
  BY <1>0, <1>2 DEF Snapshot, loaded, Part
<1>3. CASE WriteFile(t)
  BY <1>0, <1>3 DEF WriteFile, Leaves, loaded, Part
<1>4. CASE SaveFails(t)
  BY <1>0, <1>4 DEF SaveFails, Leaves, loaded, Part
<1>5. CASE ReadFile(t)
  BY <1>0, <1>5 DEF ReadFile, loaded, Part
<1>6. CASE PutExecution(t)
  <2>1. PICK e \in DOMAIN data[t] :
          data' = [data EXCEPT ![t] = [f \in DOMAIN @ \ { e } |-> @[f]]]
    BY <1>6 DEF PutExecution
  <2>2. Part(data'[t], data[t]) /\ \A u \in Threads : u # t => data'[u] = data[u]
    BY <1>0, <2>1 DEF Part
  <2>3. \A u \in Threads : Part(data'[u], data[u])
    BY <2>2 DEF Part
  <2> QED
    BY <1>0, <1>6, <2>1, <2>3 DEF PutExecution, loaded
<1>7. CASE Loaded(t)
  BY <1>0, <1>7 DEF Loaded, loaded, Part
<1>8. CASE UNCHANGED << file, data >>
  BY <1>0, <1>8 DEF loaded, Part
<1> QED
  BY <1>1, <1>2, <1>3, <1>4, <1>5, <1>6, <1>7, <1>8
  DEF Step, Call, create_workflow, pause, resume, cancel, run_all, Asks, Creates,
      LookForRoom, ChooseOldest, Evict, CreateRaises, Insert, SetStatus, Runs,
      run_next_step, run_all_ends, CheckStep, StepRefused, MarkStep, StepEnds, Judge,
      Saves, Loads, MustLoad

LEMMA PartOfStore ==
  ASSUME NEW x, NEW y, IsStore(y), Part(x, y)
  PROVE  IsStore(x)
  BY DEF Part, IsStore

\* the executions in memory
LEMMA ExecutionsTyped ==
  ASSUME EngineTyped, NEW t \in Threads, Step(t)
  PROVE  IsStore(_executions')
<1>0. IsStore(_executions) /\ at[t] \in Nat
  BY DEF EngineTyped, ThreadsTyped
<1>1. ASSUME NEW plan \in Plans, Insert(t, plan) PROVE IsStore(_executions')
  <2>1. on[t] \in Ids
    BY <1>1 DEF EngineTyped, HasTarget, Insert, Goes
  <2>2. _executions' = [e \in stored \cup { on[t] } |->
                          IF e = on[t] THEN NewExecution(plan) ELSE _executions[e]]
    BY <1>1 DEF Insert, NewExecution
  <2> QED
    BY <1>0, <2>1, <2>2, NewIsExecution DEF IsStore, stored
<1>2. CASE Sets(t)
  <2>1. PICK status \in Setting : SetStatus(t, status)
    BY <1>2 DEF Sets
  <2>2. Mine(t) => IsExecution([_executions[on[t]] EXCEPT !.status = status])
    BY <1>0, StatusSet DEF Mine, IsStore, stored, Setting, Active, Ended
  <2> QED
    BY <1>0, <2>1, <2>2, PutStore DEF SetStatus
<1>3. CASE MarkStep(t)
  <2>1. Mine(t) => IsExecution(begun(_executions[on[t]], at[t]))
    BY <1>0, BegunExecution DEF Mine, IsStore, stored
  <2> QED
    BY <1>0, <1>3, <2>1, PutStore DEF MarkStep
<1>4. ASSUME NEW success \in BOOLEAN, StepEnds(t, success)
      PROVE  IsStore(_executions')
  <2>1. Mine(t) => IsExecution(attempted(_executions[on[t]], at[t], success))
    BY <1>0, AttemptedExecution DEF Mine, IsStore, stored
  <2> QED
    BY <1>0, <1>4, <2>1, PutStore DEF StepEnds
<1>5. CASE Evict(t)
  BY <1>0, <1>5 DEF Evict, IsStore, stored
<1>6. CASE PutExecution(t)
  <2>1. PICK e \in DOMAIN data[t] :
          _executions' = [f \in stored \cup { e } |->
                            IF f = e THEN data[t][e] ELSE _executions[f]]
    BY <1>6 DEF PutExecution
  <2>2. IsStore(data[t])
    BY DEF EngineTyped
  <2> QED
    BY <1>0, <2>1, <2>2 DEF IsStore, stored
<1>7. CASE UNCHANGED _executions
  BY <1>0, <1>7
<1> QED
  BY <1>1, <1>2, <1>3, <1>4, <1>5, <1>6, <1>7
  DEF Step, Call, create_workflow, pause, resume, cancel, run_all, Asks, Creates,
      LookForRoom, ChooseOldest, CreateRaises, Sets, Runs, run_next_step, run_all_ends,
      CheckStep, StepRefused, Judge, Saves, OpenFile, Snapshot, WriteFile, SaveFails,
      Leaves, Loads, MustLoad, ReadFile, Loaded

\* where the threads are, and what their calls are about
LEMMA ThreadsStep ==
  ASSUME EngineTyped, NEW t \in Threads, Step(t)
  PROVE  ThreadsTyped' /\ HasTarget'
<1>0. /\ ThreadsTyped /\ HasTarget
      /\ MaxCreated \in Nat /\ stored \subseteq Ids
  BY EngineAssumption DEF EngineTyped, IsStore, stored
<1> USE DEF HasTarget, ThreadsTyped, Goes, Calls, Asks
<1>1. CASE create_workflow(t)
  BY <1>0, <1>1 DEF create_workflow, Ids, Places, Creating
<1>2. ASSUME NEW e \in stored,
             pause(t, e) \/ resume(t, e) \/ cancel(t, e) \/ run_all(t, e)
      PROVE  ThreadsTyped' /\ HasTarget'
  <2>1. e \in Ids
    BY <1>0, <1>2
  <2>2. CASE pause(t, e) \/ resume(t, e) \/ cancel(t, e)
    BY <1>0, <2>1, <2>2 DEF pause, resume, cancel, Places, Holding, Setting
  <2>3. CASE run_all(t, e)
    BY <1>0, <2>1, <2>3 DEF run_all, Places
  <2> QED
    BY <1>2, <2>2, <2>3
<1>3. CASE LookForRoom(t) \/ Evict(t) \/ CreateRaises(t)
  BY <1>0, <1>3 DEF LookForRoom, Evict, CreateRaises, Places, Creating
<1>4. CASE ChooseOldest(t)
  <2>1. PICK oldest \in stored : at' = [at EXCEPT ![t] = oldest]
    BY <1>4 DEF ChooseOldest
  <2>2. oldest \in Nat
    BY <1>0, <2>1 DEF Ids
  <2> QED
    BY <1>0, <1>4, <2>1, <2>2 DEF ChooseOldest, Places, Creating
<1>5. ASSUME NEW plan \in Plans, Insert(t, plan) PROVE ThreadsTyped' /\ HasTarget'
  BY <1>0, <1>5 DEF Insert, Places
<1>6. CASE Sets(t)
  BY <1>0, <1>6 DEF Sets, SetStatus, Setting, Places
<1>7. ASSUME NEW success \in BOOLEAN, StepEnds(t, success)
      PROVE  ThreadsTyped' /\ HasTarget'
  BY <1>0, <1>7 DEF StepEnds, Places, Holding
<1>8. CASE run_next_step(t)
  <2>1. PICK i \in toRun(_executions[on[t]]) : at' = [at EXCEPT ![t] = i]
    BY <1>8 DEF run_next_step
  <2>2. on[t] \in stored /\ IsStore(_executions)
    BY <1>8 DEF run_next_step, goesOn, EngineTyped
  <2>3. i \in DOMAIN _executions[on[t]].plan /\ _executions[on[t]].plan \in Plans
    BY <2>1, <2>2 DEF toRun, IsStore, IsExecution, stored
  <2>4. i \in Nat
    BY <2>3, EngineAssumption
  <2> QED
    BY <1>0, <1>8, <2>1, <2>4 DEF run_next_step, Places
<1>9. CASE run_all_ends(t) \/ CheckStep(t) \/ StepRefused(t) \/ MarkStep(t)
  BY <1>0, <1>9
  DEF run_all_ends, CheckStep, StepRefused, MarkStep, Places, Holding
<1>10. CASE Judge(t)
  <2>1. (IF Mine(t) THEN verdict(_executions[on[t]]) ELSE "open") \in Places
    BY DEF verdict, Places, Holding, Setting
  <2> QED
    BY <1>0, <1>10, <2>1 DEF Judge
<1>11. CASE OpenFile(t) \/ Snapshot(t)
  BY <1>0, <1>11 DEF OpenFile, Snapshot, Places
<1>12. ASSUME NEW here \in { "open", "snapshot", "write" }, Leaves(t, here)
       PROVE  ThreadsTyped' /\ HasTarget'
  <2>1. CASE left[t] = 0
    BY <1>0, <1>12, <2>1 DEF Leaves, Places
  <2>2. CASE left[t] # 0
    BY <1>0, <1>12, <2>2 DEF Leaves, Places
  <2> QED
    BY <2>1, <2>2
<1>13. CASE Loads(t)
  BY <1>0, <1>13 DEF Loads, MustLoad, ReadFile, PutExecution, Loaded, Places
<1> HIDE DEF HasTarget, ThreadsTyped, Goes, Calls, Asks
<1> QED
  BY <1>1, <1>2, <1>3, <1>4, <1>5, <1>6, <1>7, <1>8, <1>9, <1>10, <1>11, <1>12, <1>13
  DEF Step, Call, Creates, Sets, Runs, Saves, WriteFile, SaveFails

\* the two histories
LEMMA HistoriesTyped ==
  ASSUME EngineTyped, NEW t \in Threads, Step(t)
  PROVE  DOMAIN reached' = Ids /\ brought' \in Nat
<1>0. DOMAIN reached = Ids /\ brought \in Nat
  BY DEF EngineTyped
<1>1. ASSUME NEW success \in BOOLEAN, StepEnds(t, success)
      PROVE  DOMAIN reached' = Ids /\ brought' \in Nat
  BY <1>0, <1>1 DEF StepEnds
<1>2. CASE PutExecution(t)
  <2>1. PICK e \in DOMAIN data[t] :
          brought' = Cardinality(stored \cup { e }) + Cardinality(Inserting)
    BY <1>2 DEF PutExecution
  <2>2. stored \cup { e } \in SUBSET Ids /\ IsFiniteSet(Ids)
    <3>1. stored \subseteq Ids /\ e \in Ids
      BY <2>1 DEF EngineTyped, IsStore, stored
    <3>2. MaxCreated \in Int
      BY EngineAssumption
    <3>3. IsFiniteSet(1..MaxCreated)
      BY <3>2, FS_Interval
    <3> QED
      BY <3>1, <3>3 DEF Ids
  <2>3. Cardinality(stored \cup { e }) \in Nat
    BY <2>2, FS_Subset, FS_CardinalityType
  <2>4. Inserting \in SUBSET Threads /\ IsFiniteSet(Threads)
    BY EngineAssumption DEF Inserting
  <2>5. Cardinality(Inserting) \in Nat
    BY <2>4, FS_Subset, FS_CardinalityType
  <2> QED
    BY <1>0, <1>2, <2>1, <2>3, <2>5 DEF PutExecution
<1>3. CASE UNCHANGED history
  BY <1>0, <1>3 DEF history
<1> QED
  BY <1>1, <1>2, <1>3
  DEF Step, Call, create_workflow, pause, resume, cancel, run_all, Asks, Creates,
      LookForRoom, ChooseOldest, Evict, CreateRaises, Insert, SetStatus, Runs,
      run_next_step, run_all_ends, CheckStep, StepRefused, MarkStep, Judge, Saves,
      OpenFile, Snapshot, WriteFile, SaveFails, Leaves, Loads, MustLoad, ReadFile, Loaded

LEMMA RestartTyped ==
  ASSUME EngineTyped, Restart
  PROVE  EngineTyped'
<1>1. IsStore(_executions') /\ \A t \in Threads : IsStore(data'[t])
  BY EmptyStore DEF Restart, IsStore, NoStore
<1>2. loaded' = loaded
  BY DEF Restart, loaded
<1>3. IsStore(loaded')
  BY <1>2 DEF EngineTyped
<1> QED
  BY <1>1, <1>2, <1>3
  DEF EngineTyped, ThreadsTyped, HasTarget, Restart, Places, IsStore

LEMMA StepTyped == EngineTyped /\ [Next]_vars => EngineTyped'
<1> SUFFICES ASSUME EngineTyped, [Next]_vars PROVE EngineTyped'
  OBVIOUS
<1>1. ASSUME NEW t \in Threads, Step(t) PROVE EngineTyped'
  <2>1. IsStore(loaded')
    BY <1>1, TextsStep, EmptyStore DEF EngineTyped
  <2>2. ASSUME NEW u \in Threads PROVE IsStore(data'[u])
    BY <1>1, TextsStep, EmptyStore, PartOfStore DEF EngineTyped
  <2>3. IsStore(_executions') /\ ThreadsTyped' /\ HasTarget'
    BY <1>1, ExecutionsTyped, ThreadsStep
  <2>4. DOMAIN data' = Threads /\ DOMAIN reached' = Ids /\ brought' \in Nat
    BY <1>1, TextsStep, HistoriesTyped
  <2> HIDE DEF EngineTyped
  <2> QED
    BY <2>1, <2>2, <2>3, <2>4 DEF EngineTyped, IsStore
<1>2. CASE UNCHANGED vars
  BY <1>2
  DEF vars, threadVars, history, bounds, EngineTyped, ThreadsTyped, HasTarget, IsStore,
      loaded
<1> QED
  BY <1>1, <1>2, RestartTyped DEF Next

-----------------------------------------------------------------------------
(* The history *)

Together == MAX_WORKFLOW_HISTORY + Cardinality(Threads) - 1

Limit == IF brought > Together THEN brought ELSE Together

\* What is stored and what is about to be do not exceed the limit together.
HistoryInv == Cardinality(stored) + Cardinality(Inserting) <= Limit

LEMMA Sizes ==
  ASSUME EngineTyped
  PROVE  /\ IsFiniteSet(stored) /\ Cardinality(stored) \in Nat
         /\ IsFiniteSet(Inserting) /\ Cardinality(Inserting) \in Nat
         /\ Together \in Nat /\ Limit \in Nat /\ brought \in Nat
<1>1. stored \in SUBSET Ids /\ IsFiniteSet(Ids)
  <2>1. stored \in SUBSET Ids
    BY DEF EngineTyped, IsStore, stored
  <2>2. MaxCreated \in Int
    BY EngineAssumption
  <2>3. IsFiniteSet(1..MaxCreated)
    BY <2>2, FS_Interval
  <2> QED
    BY <2>1, <2>3 DEF Ids
<1>2. Inserting \in SUBSET Threads /\ IsFiniteSet(Threads)
  BY EngineAssumption DEF Inserting
<1>3. IsFiniteSet(stored) /\ IsFiniteSet(Inserting)
  BY <1>1, <1>2, FS_Subset
<1>4. Cardinality(Threads) \in Nat \ {0}
  BY EngineAssumption, FS_CardinalityType, FS_EmptySet
<1>5. brought \in Nat
  BY DEF EngineTyped
<1> QED
  BY <1>3, <1>4, <1>5, EngineAssumption, FS_CardinalityType DEF Limit, Together

LEMMA InitHistory == Init => HistoryInv
<1> SUFFICES ASSUME Init PROVE HistoryInv
  OBVIOUS
<1>1. stored = {} /\ Inserting = {}
  BY DEF Init, stored, NoStore, Inserting
<1>2. Limit \in Nat
  BY InitTyped, Sizes
<1> QED
  BY <1>1, <1>2, FS_EmptySet DEF HistoryInv

\* A thread that finds room finds less than the limit, and the other ones are fewer
\* than the threads.
LEMMA RoomIsFound ==
  ASSUME EngineTyped, HistoryInv, NEW t \in Threads, LookForRoom(t)
  PROVE  HistoryInv'
<1> USE Sizes
<1>1. stored' = stored /\ Limit' = Limit
  BY DEF LookForRoom, history, stored, Limit
<1>2. CASE full
  <2>1. Inserting' = Inserting
    BY <1>2 DEF LookForRoom, Goes, Inserting, EngineTyped, ThreadsTyped
  <2> QED
    BY <1>1, <2>1 DEF HistoryInv
<1>3. CASE ~ full
  <2>1. Cardinality(stored) <= MAX_WORKFLOW_HISTORY - 1
    BY <1>3, EngineAssumption DEF full
  <2>2. Inserting' \in SUBSET Threads /\ IsFiniteSet(Threads)
    BY EngineAssumption DEF Inserting
  <2>3. Cardinality(Inserting') <= Cardinality(Threads) /\ Cardinality(Inserting') \in Nat
    BY <2>2, FS_Subset, FS_CardinalityType
  <2>4. Cardinality(Threads) \in Nat
    BY <2>2, FS_CardinalityType
  <2>5. Cardinality(stored) + Cardinality(Inserting') <= Together
    BY <2>1, <2>3, <2>4, EngineAssumption DEF Together
  <2> QED
    BY <1>1, <2>3, <2>5 DEF HistoryInv, Limit
<1> QED
  BY <1>2, <1>3

\* The thread that evicts is one that was not about to insert.
LEMMA RoomIsMade ==
  ASSUME EngineTyped, HistoryInv, NEW t \in Threads, Evict(t)
  PROVE  HistoryInv'
<1> USE Sizes
<1>1. t \notin Inserting /\ Inserting' = Inserting \cup { t }
  BY DEF Evict, Goes, Inserting, EngineTyped, ThreadsTyped
<1>2. Cardinality(Inserting') = Cardinality(Inserting) + 1
  BY <1>1, FS_AddElement
<1>3. stored' = stored \ { at[t] } /\ at[t] \in stored /\ Limit' = Limit
  BY DEF Evict, stored, history, Limit
<1>4. Cardinality(stored') = Cardinality(stored) - 1
  BY <1>3, FS_RemoveElement
<1> QED
  BY <1>2, <1>3, <1>4 DEF HistoryInv

LEMMA InsertFits ==
  ASSUME EngineTyped, HistoryInv, NEW t \in Threads, NEW plan \in Plans,
         Insert(t, plan)
  PROVE  HistoryInv'
<1> USE Sizes
<1>1. t \in Inserting /\ Inserting' = Inserting \ { t }
  BY DEF Insert, Goes, Inserting, EngineTyped, ThreadsTyped
<1>2. stored' = stored \cup { on[t] } /\ Limit' = Limit
  BY DEF Insert, stored, history, Limit
<1>3. Cardinality(Inserting') = Cardinality(Inserting) - 1
  BY <1>1, FS_RemoveElement
<1>4. Cardinality(stored') <= Cardinality(stored) + 1 /\ Cardinality(stored') \in Nat
  <2>1. IsFiniteSet(stored)
    OBVIOUS
  <2>2. /\ IsFiniteSet(stored')
        /\ Cardinality(stored') =
             IF on[t] \in stored THEN Cardinality(stored) ELSE Cardinality(stored) + 1
    BY <1>2, <2>1, FS_AddElement
  <2>3. Cardinality(stored) \in Nat
    OBVIOUS
  <2> QED
    BY <2>2, <2>3
<1> QED
  BY <1>2, <1>3, <1>4 DEF HistoryInv

\* A load is counted as it puts an execution back.
LEMMA PutFits ==
  ASSUME EngineTyped, NEW t \in Threads, PutExecution(t)
  PROVE  HistoryInv'
<1>1. PICK e \in DOMAIN data[t] :
        /\ stored' = stored \cup { e }
        /\ brought' = Cardinality(stored \cup { e }) + Cardinality(Inserting)
  BY DEF PutExecution, stored
<1>2. Inserting' = Inserting
  BY DEF PutExecution, Goes, Inserting, EngineTyped, ThreadsTyped
<1>3. brought' = Cardinality(stored') + Cardinality(Inserting')
  BY <1>1, <1>2
<1>4. brought' \in Nat /\ Together' = Together /\ Together \in Nat
  BY StepTyped, Sizes DEF Next, Step, Loads, EngineTyped, Together
<1> QED
  BY <1>3, <1>4 DEF HistoryInv, Limit

\* no other step adds to the history, or is about to
LEMMA HistoryKept ==
  ASSUME EngineTyped, HistoryInv, NEW t \in Threads, Step(t),
         ~ LookForRoom(t), ~ Evict(t), ~ PutExecution(t),
         \A plan \in Plans : ~ Insert(t, plan)
  PROVE  HistoryInv'
<1>1. stored' = stored
  <2>1. ASSUME NEW execution, Put(t, execution) PROVE stored' = stored
    BY <2>1 DEF Put, stored
  <2> QED
    BY <2>1
    DEF Step, Call, create_workflow, pause, resume, cancel, run_all, Asks, Creates,
        ChooseOldest, CreateRaises, SetStatus, Runs, run_next_step, run_all_ends,
        CheckStep, StepRefused, MarkStep, StepEnds, Judge, Saves, OpenFile, Snapshot,
        WriteFile, SaveFails, Leaves, Loads, MustLoad, ReadFile, Loaded, stored
<1>2. brought' = brought
  BY DEF Step, Call, create_workflow, pause, resume, cancel, run_all, Asks, Creates,
     ChooseOldest, CreateRaises, SetStatus, Runs, run_next_step, run_all_ends,
     CheckStep, StepRefused, MarkStep, StepEnds, Judge, Saves, OpenFile, Snapshot,
     WriteFile, SaveFails, Leaves, Loads, MustLoad, ReadFile, Loaded, history
<1>3. \E there \in Places \ { "insert" } : pc' = [pc EXCEPT ![t] = there] /\ pc[t] # "insert"
  <2>1. \A execution : verdict(execution) \in { "completed", "failed", "open" }
    BY DEF verdict
  <2> QED
    BY <2>1
    DEF Step, Call, create_workflow, pause, resume, cancel, run_all, Asks, Calls, Goes,
        Creates, ChooseOldest, CreateRaises, SetStatus, Runs, run_next_step,
        run_all_ends, CheckStep, StepRefused, MarkStep, StepEnds, Judge, Saves,
        OpenFile, Snapshot, WriteFile, SaveFails, Leaves, Loads, MustLoad, ReadFile,
        Loaded, Places, Creating, Holding, Setting
<1>4. Inserting' = Inserting
  BY <1>3 DEF Inserting, EngineTyped, ThreadsTyped
<1> QED
  BY <1>1, <1>2, <1>4 DEF HistoryInv, Limit

LEMMA StepHistory == EngineTyped /\ HistoryInv /\ [Next]_vars => HistoryInv'
<1> SUFFICES ASSUME EngineTyped, HistoryInv, [Next]_vars PROVE HistoryInv'
  OBVIOUS
<1>1. ASSUME NEW t \in Threads, Step(t) PROVE HistoryInv'
  BY <1>1, RoomIsFound, RoomIsMade, InsertFits, PutFits, HistoryKept
<1>2. CASE Restart
  <2>1. stored' = {} /\ Inserting' = {}
    BY <1>2 DEF Restart, stored, NoStore, Inserting
  <2>2. Limit' \in Nat
    <3>1. EngineTyped'
      BY <1>2, RestartTyped
    <3>2. brought' \in Nat /\ Together \in Nat
      BY <3>1, Sizes DEF EngineTyped
    <3> QED
      BY <3>2 DEF Limit
  <2> QED
    BY <2>1, <2>2, FS_EmptySet DEF HistoryInv
<1>3. CASE UNCHANGED vars
  BY <1>3 DEF vars, threadVars, history, HistoryInv, Inserting, stored, Limit
<1> QED
  BY <1>1, <1>2, <1>3 DEF Next

\* The requests bring the history over its maximum by fewer than there are threads,
\* whatever they create together, and never over what a load has left: not when the
\* load ends after another, on what the requests have evicted since it read the file.
THEOREM HistoryHolds == Spec => []HistoryBounded
<1>1. Init => EngineTyped /\ HistoryInv
  BY InitTyped, InitHistory
<1>2. EngineTyped /\ HistoryInv /\ [Next]_vars => EngineTyped' /\ HistoryInv'
  BY StepTyped, StepHistory
<1>3. EngineTyped /\ HistoryInv => HistoryBounded
  BY Sizes DEF HistoryInv, HistoryBounded, Limit, Together
<1> QED
  BY <1>1, <1>2, <1>3, PTL DEF Spec

-----------------------------------------------------------------------------
(* What an execution says is what its steps have come to *)

\* the dependencies of a step have all been completed, once
Met(outcomes, plan, i) ==
  /\ i \in DOMAIN plan
  /\ \A d \in plan[i].depends_on \cap DOMAIN plan : << d, "completed" >> \in outcomes

AllDone(outcomes, plan) == \A i \in DOMAIN plan : << i, "completed" >> \in outcomes

OneFailed(outcomes, plan) == \E i \in DOMAIN plan : << i, "failed" >> \in outcomes

\* The outcomes only grow, so nothing that is written later, by whatever run, makes
\* what an old text or an old object says untrue.
Sound(outcomes, execution) ==
  /\ \A i \in DOMAIN execution.plan :
       /\ execution.steps[i].status # "pending" => Met(outcomes, execution.plan, i)
       /\ execution.steps[i].status \in { "completed", "failed" } =>
            << i, execution.steps[i].status >> \in outcomes
  /\ execution.status = "completed" => AllDone(outcomes, execution.plan)
  /\ execution.status = "failed" => OneFailed(outcomes, execution.plan)

LEMMA SoundGrows ==
  ASSUME NEW old, NEW new, old \subseteq new, NEW execution, Sound(old, execution)
  PROVE  Sound(new, execution)
  BY DEF Sound, Met, AllDone, OneFailed

LEMMA NewIsSound ==
  ASSUME NEW plan \in Plans, NEW outcomes
  PROVE  Sound(outcomes, NewExecution(plan))
  BY DEF Sound, NewExecution

\* A step whose dependencies are met may be marked, by whichever run.
LEMMA BegunIsSound ==
  ASSUME NEW execution, IsExecution(execution), NEW outcomes,
         Sound(outcomes, execution), NEW i \in Nat, Met(outcomes, execution.plan, i)
  PROVE  Sound(outcomes, begun(execution, i))
<1> DEFINE now == begun(execution, i)
<1>1. /\ now.status = "running" /\ now.plan = execution.plan
      /\ \A j \in DOMAIN execution.steps :
           now.steps[j].status = IF j = i THEN "running" ELSE execution.steps[j].status
  BY BegunExecution
<1>2. DOMAIN execution.steps = DOMAIN execution.plan
  BY DEF IsExecution
<1> HIDE DEF now
<1>3. Sound(outcomes, now)
  BY <1>1, <1>2 DEF Sound
<1> QED
  BY <1>3 DEF now

LEMMA AttemptedIsSound ==
  ASSUME NEW execution, IsExecution(execution), NEW outcomes,
         Sound(outcomes, execution), NEW i \in Nat, Met(outcomes, execution.plan, i),
         NEW success \in BOOLEAN
  PROVE  LET now == attempted(execution, i, success)
         IN Sound(outcomes \cup { << i, now.steps[i].status >> }, now)
<1> DEFINE now == attempted(execution, i, success)
<1>1. /\ now.status = execution.status /\ now.plan = execution.plan
      /\ \A j \in DOMAIN execution.steps :
           j # i => now.steps[j].status = execution.steps[j].status
  BY AttemptedExecution
<1>2. DOMAIN execution.steps = DOMAIN execution.plan
  BY DEF IsExecution
<1> HIDE DEF now
<1>3. Sound(outcomes \cup { << i, now.steps[i].status >> }, now)
  BY <1>1, <1>2 DEF Sound, Met, AllDone, OneFailed
<1> QED
  BY <1>3 DEF now

LEMMA SetIsSound ==
  ASSUME NEW execution, IsExecution(execution), NEW outcomes,
         Sound(outcomes, execution), NEW status \in Setting,
         status = "completed" => AllDone(outcomes, execution.plan),
         status = "failed" => OneFailed(outcomes, execution.plan)
  PROVE  Sound(outcomes, [execution EXCEPT !.status = status])
<1> DEFINE now == [execution EXCEPT !.status = status]
<1>1. now.status = status /\ now.plan = execution.plan /\ now.steps = execution.steps
  BY StatusSet DEF Setting, Active, Ended
<1> HIDE DEF now
<1>2. Sound(outcomes, now)
  BY <1>1 DEF Sound
<1> QED
  BY <1>2 DEF now

LEMMA VerdictIsSound ==
  ASSUME NEW execution, IsExecution(execution), NEW outcomes,
         Sound(outcomes, execution)
  PROVE  /\ verdict(execution) = "completed" => AllDone(outcomes, execution.plan)
         /\ verdict(execution) = "failed" => OneFailed(outcomes, execution.plan)
<1>1. DOMAIN execution.steps = DOMAIN execution.plan
  BY DEF IsExecution
<1>2. ASSUME verdict(execution) = "completed" PROVE AllDone(outcomes, execution.plan)
  <2>1. \A i \in DOMAIN execution.steps : execution.steps[i].status = "completed"
    BY <1>2 DEF verdict
  <2> QED
    BY <1>1, <2>1 DEF Sound, AllDone
<1>3. ASSUME verdict(execution) = "failed" PROVE OneFailed(outcomes, execution.plan)
  <2>1. \E i \in DOMAIN execution.steps : execution.steps[i].status = "failed"
    BY <1>3 DEF verdict
  <2> QED
    BY <1>1, <2>1 DEF Sound, OneFailed
<1> QED
  BY <1>2, <1>3

-----------------------------------------------------------------------------
(* Texts and objects *)

\* a text of executions that have been created, that are nobody's new one, and that
\* say what their steps have come to
GoodText(x) ==
  /\ DOMAIN x \subseteq 1..created
  /\ \A t \in Threads : pc[t] \in Creating => on[t] \notin DOMAIN x
  /\ \A e \in DOMAIN x : Sound(reached[e], x[e])

\* a new execution is one thread's
Distinct ==
  \A t, u \in Threads :
    /\ on[t] \in (1..created) \cup { None }
    /\ pc[t] \in Creating /\ u # t => on[u] # on[t]

\* what a thread has found out about the object it holds
HoldsOf(t) ==
  Mine(t) =>
    LET plan == _executions[on[t]].plan IN
    /\ pc[t] \in { "mark", "step" } => Met(reached[on[t]], plan, at[t])
    /\ pc[t] = "completed" => AllDone(reached[on[t]], plan)
    /\ pc[t] = "failed" => OneFailed(reached[on[t]], plan)

RunInv ==
  /\ GoodText(_executions)
  /\ GoodText(loaded)
  /\ \A t \in Threads : GoodText(data[t])
  /\ Distinct
  /\ \A t \in Threads : HoldsOf(t)

LEMMA EmptyIsGood == GoodText(NoStore) /\ GoodText(NoStore)'
  BY DEF GoodText, NoStore

LEMMA InitRun == Init => RunInv
<1> SUFFICES ASSUME Init PROVE RunInv
  OBVIOUS
<1>1. loaded = NoStore
  BY DEF Init, loaded
<1> QED
  BY <1>1, EmptyIsGood
  DEF Init, RunInv, Distinct, HoldsOf, Mine, stored, Creating, NoStore

\* the outcomes of each execution grow
LEMMA Grows ==
  ASSUME EngineTyped, NEW t \in Threads, Step(t)
  PROVE  /\ \A e \in Ids : reached[e] \subseteq reached'[e]
         /\ 1..created \subseteq 1..(created') /\ created' \in Nat
<1>0. DOMAIN reached = Ids /\ created \in Nat
  BY EngineAssumption DEF EngineTyped, ThreadsTyped
<1>1. ASSUME NEW success \in BOOLEAN, StepEnds(t, success)
      PROVE  /\ \A e \in Ids : reached[e] \subseteq reached'[e]
             /\ created' = created
  BY <1>0, <1>1 DEF StepEnds
<1>2. CASE create_workflow(t)
  BY <1>0, <1>2 DEF create_workflow, history
<1>3. CASE UNCHANGED << reached, created >>
  BY <1>0, <1>3
<1> QED
  BY <1>0, <1>1, <1>2, <1>3
  DEF Step, Call, pause, resume, cancel, run_all, Asks, Creates,
      LookForRoom, ChooseOldest, Evict, CreateRaises, Insert, SetStatus, Runs,
      run_next_step, run_all_ends, CheckStep, StepRefused, MarkStep, Judge, Saves,
      OpenFile, Snapshot, WriteFile, SaveFails, Leaves, Loads, MustLoad, ReadFile,
      PutExecution, Loaded, history

\* the other threads stay where they are
LEMMA OthersStay ==
  ASSUME EngineTyped, NEW t \in Threads, Step(t), NEW u \in Threads, u # t
  PROVE  pc'[u] = pc[u] /\ on'[u] = on[u] /\ at'[u] = at[u]
  BY DEF EngineTyped, ThreadsTyped, Step, Call, create_workflow, pause, resume, cancel,
     run_all, Asks, Calls, Goes, Creates, LookForRoom, ChooseOldest, Evict,
     CreateRaises, Insert, SetStatus, Runs, run_next_step, run_all_ends, CheckStep,
     StepRefused, MarkStep, StepEnds, Judge, Saves, OpenFile, Snapshot, WriteFile,
     SaveFails, Leaves, Loads, MustLoad, ReadFile, PutExecution, Loaded

\* the thread that takes the step: a new execution, one that there is, or the same
LEMMA OwnTarget ==
  ASSUME EngineTyped, NEW t \in Threads, Step(t)
  PROVE  \/ /\ created' = created + 1 /\ created' \in Ids
            /\ on'[t] = created' /\ pc'[t] = "make_room"
         \/ /\ created' = created /\ pc'[t] \notin Creating
            /\ on'[t] \in stored \cup { None, on[t] }
         \/ /\ created' = created /\ pc[t] \in Creating
            /\ on'[t] = on[t]
<1>0. /\ pc \in [Threads -> Places] /\ DOMAIN on = Threads
      /\ created \in 0..MaxCreated /\ MaxCreated \in Nat
  BY EngineAssumption DEF EngineTyped, ThreadsTyped
<1>1. CASE create_workflow(t)
  BY <1>0, <1>1 DEF create_workflow, Calls, Ids
<1>2. ASSUME NEW e \in stored,
             pause(t, e) \/ resume(t, e) \/ cancel(t, e) \/ run_all(t, e)
      PROVE  /\ created' = created /\ pc'[t] \notin Creating
             /\ on'[t] = e
  BY <1>0, <1>2
  DEF pause, resume, cancel, run_all, Asks, Calls, Creating
<1>3. CASE LookForRoom(t) \/ ChooseOldest(t) \/ Evict(t)
  BY <1>0, <1>3 DEF LookForRoom, ChooseOldest, Evict, Goes, Creating
<1>4. CASE CreateRaises(t)
  BY <1>0, <1>4 DEF CreateRaises, Goes, Creating
<1>5. ASSUME NEW plan \in Plans, Insert(t, plan)
      PROVE  created' = created /\ pc'[t] \notin Creating /\ on'[t] = on[t]
  BY <1>0, <1>5 DEF Insert, Goes, Creating
<1>6. CASE Sets(t)
  BY <1>0, <1>6 DEF Sets, SetStatus, Goes, Creating
<1>7. CASE Runs(t)
  <2>1. \A execution : verdict(execution) \in { "completed", "failed", "open" }
    BY DEF verdict
  <2> QED
    BY <1>0, <1>7, <2>1
    DEF Runs, run_next_step, run_all_ends, CheckStep, StepRefused, MarkStep, StepEnds,
        Judge, Goes, Creating
<1>8. CASE Saves(t)
  BY <1>0, <1>8
  DEF Saves, OpenFile, Snapshot, WriteFile, SaveFails, Leaves, Goes, Creating
<1>9. CASE Loads(t)
  BY <1>0, <1>9 DEF Loads, MustLoad, ReadFile, PutExecution, Loaded, Goes, Creating
<1> QED
  BY <1>1, <1>2, <1>3, <1>4, <1>5, <1>6, <1>7, <1>8, <1>9 DEF Step, Call, Creates, Sets

\* A good text stays one, whoever holds it.
LEMMA TextLasts ==
  ASSUME EngineTyped, RunInv, NEW t \in Threads, Step(t), NEW x, GoodText(x)
  PROVE  /\ DOMAIN x \subseteq 1..(created')
         /\ \A u \in Threads : pc'[u] \in Creating => on'[u] \notin DOMAIN x
         /\ \A e \in DOMAIN x : Sound(reached'[e], x[e])
<1>0. created \in Nat /\ MaxCreated \in Nat /\ 1..created \subseteq Ids
  BY EngineAssumption DEF EngineTyped, ThreadsTyped, Ids
<1>1. DOMAIN x \subseteq 1..(created')
  BY Grows DEF GoodText
<1>2. ASSUME NEW e \in DOMAIN x PROVE Sound(reached'[e], x[e])
  <2>1. e \in Ids
    BY <1>0, <1>2 DEF GoodText
  <2>2. reached[e] \subseteq reached'[e]
    BY <2>1, Grows
  <2> QED
    BY <1>2, <2>2, SoundGrows DEF GoodText
<1>3. ASSUME NEW u \in Threads, pc'[u] \in Creating PROVE on'[u] \notin DOMAIN x
  <2>1. CASE u # t
    BY <1>3, <2>1, OthersStay DEF GoodText
  <2>2. CASE u = t
    <3>1. CASE created' = created + 1 /\ on'[t] = created'
      <4>1. created' \notin 1..created
        BY <1>0, <3>1
      <4> QED
        BY <2>2, <3>1, <4>1 DEF GoodText
    <3>2. CASE pc[t] \in Creating /\ on'[t] = on[t]
      BY <2>2, <3>2 DEF GoodText
    <3> QED
      BY <1>3, <2>2, <3>1, <3>2, OwnTarget
  <2> QED
    BY <2>1, <2>2
<1> QED
  BY <1>1, <1>2, <1>3

LEMMA DistinctStep ==
  ASSUME EngineTyped, RunInv, NEW t \in Threads, Step(t)
  PROVE  Distinct'
<1>0. /\ created \in Nat /\ None \notin Ids /\ 1..created \subseteq Ids
      /\ stored \subseteq 1..created
      /\ 1..created \subseteq 1..(created')
  BY EngineAssumption, Grows
  DEF EngineTyped, ThreadsTyped, Ids, RunInv, GoodText, stored
<1>1. \A u \in Threads : on[u] \in (1..created) \cup { None }
  BY DEF RunInv, Distinct
<1>2. \A u \in Threads : pc[u] \in Creating => on[u] \in Ids /\ on[u] \notin stored
  BY DEF EngineTyped, HasTarget, Creating, RunInv, GoodText, stored
<1>3. \A u, v \in Threads : pc[u] \in Creating /\ v # u => on[v] # on[u]
  BY DEF RunInv, Distinct
<1>4. \A u \in Threads : u # t => pc'[u] = pc[u] /\ on'[u] = on[u]
  BY OthersStay
<1>5. CASE /\ created' = created + 1 /\ created' \in Ids
           /\ on'[t] = created' /\ pc'[t] = "make_room"
  <2>1. created' \notin 1..created /\ created' # None /\ created' \in 1..(created')
    BY <1>0, <1>5
  <2> QED
    BY <1>0, <1>1, <1>3, <1>4, <1>5, <2>1 DEF Distinct
<1>6. CASE /\ created' = created /\ pc'[t] \notin Creating
           /\ on'[t] \in stored \cup { None, on[t] }
  BY <1>0, <1>1, <1>2, <1>3, <1>4, <1>6 DEF Distinct
<1>7. CASE /\ created' = created /\ pc[t] \in Creating
           /\ on'[t] = on[t]
  BY <1>0, <1>1, <1>3, <1>4, <1>7 DEF Distinct
<1> QED
  BY <1>5, <1>6, <1>7, OwnTarget

\* What is put in the place of an execution has its plan.
LEMMA PutPlans ==
  ASSUME EngineTyped, NEW t \in Threads, NEW execution, Put(t, execution),
         Mine(t) => execution.plan = _executions[on[t]].plan
  PROVE  /\ DOMAIN _executions' = stored
         /\ \A e \in stored : _executions'[e].plan = _executions[e].plan
  BY DEF Put, Mine, stored

\* Nothing but the object a thread holds comes to be the stored one again.
LEMMA ObjectKept ==
  ASSUME EngineTyped, RunInv, NEW t \in Threads, Step(t),
         NEW u \in Threads, pc[u] \in Holding, pc'[u] \in Holding, Mine(u)'
  PROVE  /\ Mine(u) /\ on'[u] = on[u]
         /\ _executions'[on[u]].plan = _executions[on[u]].plan
<1>0. /\ IsStore(_executions) /\ at[t] \in Nat /\ DOMAIN pc = Threads
      /\ pc \in [Threads -> Places] /\ DOMAIN on = Threads
  BY DEF EngineTyped, ThreadsTyped
<1>1. on'[u] = on[u]
  <2>1. CASE u # t
    BY <2>1, OthersStay
  <2>2. CASE u = t
    <3>1. Sets(t) \/ Runs(t)
      BY <1>0, <2>2
      DEF Step, Call, create_workflow, pause, resume, cancel, run_all, Asks, Calls,
          Goes, Creates, LookForRoom, ChooseOldest, Evict, CreateRaises, Insert, Saves,
          OpenFile, Snapshot, WriteFile, SaveFails, Leaves, Loads, MustLoad, ReadFile,
          PutExecution, Loaded, Sets, Holding, Setting
    <3>2. MarkStep(t) \/ Judge(t) \/ (\E success \in BOOLEAN : StepEnds(t, success))
      BY <1>0, <2>2, <3>1
      DEF Sets, SetStatus, Runs, run_next_step, run_all_ends, CheckStep, StepRefused,
          Goes, Holding, Setting
    <3> QED
      BY <2>2, <3>2 DEF MarkStep, Judge, StepEnds
  <2> QED
    BY <2>1, <2>2
<1> DEFINE Same == /\ Mine(u)
                   /\ _executions'[on[u]].plan = _executions[on[u]].plan
<1>2. on[u] \in DOMAIN _executions' /\ u \notin stale'
  BY <1>1 DEF Mine, stored
<1>3. ASSUME NEW plan \in Plans, Insert(t, plan) PROVE Same
  <2>1. pc[t] = "insert" /\ u # t
    BY <1>0, <1>3 DEF Insert, Goes, Holding, Setting
  <2>2. on[u] # on[t]
    BY <2>1 DEF RunInv, Distinct, Creating
  <2> QED
    BY <1>2, <1>3, <2>2 DEF Insert, Mine, stored
<1>4. CASE Sets(t)
  <2>1. PICK status \in Setting : SetStatus(t, status)
    BY <1>4 DEF Sets
  <2>2. Mine(t) => [_executions[on[t]] EXCEPT !.status = status].plan
                     = _executions[on[t]].plan
    BY <1>0, StatusSet DEF Mine, IsStore, stored, Setting, Active, Ended
  <2>3. /\ DOMAIN _executions' = stored
        /\ \A e \in stored : _executions'[e].plan = _executions[e].plan
    BY <2>1, <2>2, PutPlans DEF SetStatus
  <2>4. u # t /\ stale' = stale \ { t }
    BY <1>0, <2>1 DEF SetStatus, Goes, Holding, Setting
  <2> QED
    BY <1>1, <1>2, <2>3, <2>4 DEF Mine
<1>5. CASE MarkStep(t)
  <2>1. Mine(t) => begun(_executions[on[t]], at[t]).plan = _executions[on[t]].plan
    BY <1>0, BegunExecution DEF Mine, IsStore, stored
  <2>2. /\ DOMAIN _executions' = stored
        /\ \A e \in stored : _executions'[e].plan = _executions[e].plan
    BY <1>5, <2>1, PutPlans DEF MarkStep
  <2> QED
    BY <1>1, <1>2, <1>5, <2>2 DEF Mine, MarkStep
<1>6. ASSUME NEW success \in BOOLEAN, StepEnds(t, success) PROVE Same
  <2>1. Mine(t) => attempted(_executions[on[t]], at[t], success).plan
                     = _executions[on[t]].plan
    BY <1>0, AttemptedExecution DEF Mine, IsStore, stored
  <2>2. /\ DOMAIN _executions' = stored
        /\ \A e \in stored : _executions'[e].plan = _executions[e].plan
    BY <1>6, <2>1, PutPlans DEF StepEnds
  <2> QED
    BY <1>2, <1>6, <2>2 DEF Mine, StepEnds
<1>7. CASE Judge(t)
  <2>1. UNCHANGED _executions /\ (u \in stale => u \in stale')
    BY <1>0, <1>7 DEF Judge, Goes, Holding, Setting
  <2> QED
    BY <1>1, <1>2, <2>1 DEF Mine, stored
<1>8. CASE Evict(t)
  BY <1>1, <1>2, <1>8 DEF Evict, Mine, stored
<1>9. CASE PutExecution(t)
  <2>1. PICK e \in DOMAIN data[t] :
          /\ _executions' = [f \in stored \cup { e } |->
                               IF f = e THEN data[t][e] ELSE _executions[f]]
          /\ stale' = stale \cup { v \in Threads : pc[v] \in Holding /\ on[v] = e }
    BY <1>9 DEF PutExecution
  <2>2. on[u] # e
    BY <1>2, <2>1
  <2> QED
    BY <1>1, <1>2, <2>1, <2>2 DEF Mine, stored
<1>10. CASE UNCHANGED << _executions, stale >>
  BY <1>1, <1>2, <1>10 DEF Mine, stored
<1>11. Same
  BY <1>3, <1>4, <1>5, <1>6, <1>7, <1>8, <1>9, <1>10
  DEF Step, Call, create_workflow, pause, resume, cancel, run_all, Asks, Calls, Creates,
      LookForRoom, ChooseOldest, CreateRaises, Sets, Runs, run_next_step, run_all_ends,
      CheckStep, StepRefused, Saves, OpenFile, Snapshot, WriteFile, SaveFails, Leaves,
      Loads, MustLoad, ReadFile, Loaded
<1> QED
  BY <1>1, <1>11

\* What is put in the place of an execution is sound when it was before.
LEMMA PutSound ==
  ASSUME EngineTyped, RunInv, NEW t \in Threads, NEW execution, Put(t, execution),
         \A e \in stored : Sound(reached'[e], _executions[e]),
         Mine(t) => Sound(reached'[on[t]], execution)
  PROVE  \A e \in DOMAIN _executions' : Sound(reached'[e], _executions'[e])
  BY DEF Put, Mine, stored

LEMMA ExecutionsSound ==
  ASSUME EngineTyped, RunInv, NEW t \in Threads, Step(t)
  PROVE  \A e \in DOMAIN _executions' : Sound(reached'[e], _executions'[e])
<1>0. /\ IsStore(_executions) /\ at[t] \in Nat
      /\ \A e \in stored : Sound(reached[e], _executions[e])
      /\ HoldsOf(t)
  BY DEF EngineTyped, ThreadsTyped, RunInv, GoodText, stored
<1>1. \A e \in stored : Sound(reached'[e], _executions[e])
  BY TextLasts DEF RunInv, stored
<1>2. ASSUME NEW plan \in Plans, Insert(t, plan)
      PROVE  \A e \in DOMAIN _executions' : Sound(reached'[e], _executions'[e])
  <2>1. _executions' = [e \in stored \cup { on[t] } |->
                          IF e = on[t] THEN NewExecution(plan) ELSE _executions[e]]
    BY <1>2 DEF Insert, NewExecution
  <2> QED
    BY <1>1, <2>1, NewIsSound
<1>3. CASE Sets(t)
  <2>1. PICK status \in Setting : SetStatus(t, status)
    BY <1>3 DEF Sets
  <2>2. pc[t] = status /\ reached' = reached
    BY <2>1 DEF SetStatus, Goes, history
  <2>3. Mine(t) => Sound(reached'[on[t]], [_executions[on[t]] EXCEPT !.status = status])
    BY <1>0, <2>2, SetIsSound DEF Mine, HoldsOf, IsStore, stored
  <2> QED
    BY <1>1, <2>1, <2>3, PutSound DEF SetStatus
<1>4. CASE MarkStep(t)
  <2>1. pc[t] = "mark" /\ reached' = reached
    BY <1>4 DEF MarkStep, Goes, history
  <2>2. Mine(t) => Sound(reached'[on[t]], begun(_executions[on[t]], at[t]))
    BY <1>0, <2>1, BegunIsSound DEF Mine, HoldsOf, IsStore, stored
  <2> QED
    BY <1>1, <1>4, <2>2, PutSound DEF MarkStep
<1>5. ASSUME NEW success \in BOOLEAN, StepEnds(t, success)
      PROVE  \A e \in DOMAIN _executions' : Sound(reached'[e], _executions'[e])
  <2> DEFINE now == attempted(_executions[on[t]], at[t], success)
  <2>1. pc[t] = "step"
    BY <1>5 DEF StepEnds, Goes
  <2>2. Mine(t) => reached'[on[t]] =
          reached[on[t]] \cup { << at[t], now.steps[at[t]].status >> }
    <3>1. Mine(t) => on[t] \in DOMAIN reached
      BY <1>0 DEF Mine, IsStore, stored, EngineTyped
    <3> QED
      BY <1>5, <3>1 DEF StepEnds
  <2>3. Mine(t) => Sound(reached'[on[t]], now)
    BY <1>0, <2>1, <2>2, AttemptedIsSound DEF Mine, HoldsOf, IsStore, stored
  <2> QED
    BY <1>1, <1>5, <2>3, PutSound DEF StepEnds
<1>6. CASE Evict(t)
  BY <1>1, <1>6 DEF Evict
<1>7. CASE PutExecution(t)
  <2>1. PICK e \in DOMAIN data[t] :
          _executions' = [f \in stored \cup { e } |->
                            IF f = e THEN data[t][e] ELSE _executions[f]]
    BY <1>7 DEF PutExecution
  <2>2. Sound(reached'[e], data[t][e])
    BY TextLasts DEF RunInv
  <2> QED
    BY <1>1, <2>1, <2>2
<1>8. CASE UNCHANGED _executions
  BY <1>1, <1>8 DEF stored
<1> QED
  BY <1>2, <1>3, <1>4, <1>5, <1>6, <1>7, <1>8
  DEF Step, Call, create_workflow, pause, resume, cancel, run_all, Asks, Creates,
      LookForRoom, ChooseOldest, CreateRaises, Sets, Runs, run_next_step, run_all_ends,
      CheckStep, StepRefused, Judge, Saves, OpenFile, Snapshot, WriteFile, SaveFails,
      Leaves, Loads, MustLoad, ReadFile, Loaded

\* what the executions in memory come from
LEMMA ExecutionsKnown ==
  ASSUME EngineTyped, RunInv, NEW t \in Threads, Step(t)
  PROVE  /\ DOMAIN _executions' \subseteq 1..(created')
         /\ \A u \in Threads : pc'[u] \in Creating => on'[u] \notin DOMAIN _executions'
<1>1. ASSUME NEW x, GoodText(x), DOMAIN _executions' \subseteq DOMAIN x
      PROVE  /\ DOMAIN _executions' \subseteq 1..(created')
             /\ \A u \in Threads : pc'[u] \in Creating => on'[u] \notin DOMAIN _executions'
  BY <1>1, TextLasts
<1>2. CASE DOMAIN _executions' \subseteq DOMAIN _executions
  BY <1>1, <1>2 DEF RunInv
<1>3. ASSUME NEW plan \in Plans, Insert(t, plan)
      PROVE  /\ DOMAIN _executions' \subseteq 1..(created')
             /\ \A u \in Threads : pc'[u] \in Creating => on'[u] \notin DOMAIN _executions'
  <2>1. /\ DOMAIN _executions' = stored \cup { on[t] } /\ created' = created
        /\ pc[t] = "insert" /\ pc'[t] = "open"
    BY <1>3 DEF Insert, Goes, EngineTyped, ThreadsTyped
  <2>2. on[t] \in 1..created
    BY <2>1, EngineAssumption
    DEF EngineTyped, ThreadsTyped, HasTarget, RunInv, Distinct
  <2>3. ASSUME NEW u \in Threads, pc'[u] \in Creating PROVE on'[u] \notin DOMAIN _executions'
    <3>1. u # t
      BY <2>1, <2>3 DEF Creating
    <3>2. pc[u] \in Creating /\ on'[u] = on[u]
      BY <2>3, <3>1, OthersStay
    <3>3. on[u] # on[t]
      BY <3>1, <3>2 DEF RunInv, Distinct
    <3>4. on[u] \notin stored
      BY <3>2 DEF RunInv, GoodText, stored
    <3> QED
      BY <2>1, <3>2, <3>3, <3>4
  <2> QED
    BY <2>1, <2>2, <2>3 DEF RunInv, GoodText, stored
<1>4. CASE PutExecution(t)
  <2>1. PICK e \in DOMAIN data[t] : DOMAIN _executions' = stored \cup { e }
    BY <1>4 DEF PutExecution
  <2>2. GoodText(data[t]) /\ GoodText(_executions)
    BY DEF RunInv
  <2> QED
    BY <2>1, <2>2, TextLasts DEF stored
<1>5. ASSUME NEW execution, Put(t, execution)
      PROVE  DOMAIN _executions' \subseteq DOMAIN _executions
  BY <1>5 DEF Put, stored
<1>6. CASE Evict(t)
  <2>1. DOMAIN _executions' \subseteq DOMAIN _executions
    BY <1>6 DEF Evict, stored
  <2> QED
    BY <1>2, <2>1
<1>7. CASE UNCHANGED _executions
  BY <1>2, <1>7
<1> QED
  BY <1>2, <1>3, <1>4, <1>5, <1>6, <1>7
  DEF Step, Call, create_workflow, pause, resume, cancel, run_all, Asks, Creates,
      LookForRoom, ChooseOldest, CreateRaises, SetStatus, Runs, run_next_step,
      run_all_ends, CheckStep, StepRefused, MarkStep, StepEnds, Judge, Saves, OpenFile,
      Snapshot, WriteFile, SaveFails, Leaves, Loads, MustLoad, ReadFile, Loaded

\* what a thread has found out stays true of the object it holds
LEMMA HoldsStep ==
  ASSUME EngineTyped, RunInv, NEW t \in Threads, Step(t), NEW u \in Threads
  PROVE  HoldsOf(u)'
<1> SUFFICES ASSUME Mine(u)', pc'[u] \in Holding PROVE HoldsOf(u)'
  BY DEF HoldsOf, Holding, Setting
<1>0. /\ IsStore(_executions) /\ IsStore(_executions') /\ stored \subseteq Ids
      /\ pc \in [Threads -> Places] /\ DOMAIN on = Threads
      /\ \A e \in stored : Sound(reached[e], _executions[e])
      /\ HoldsOf(u)
  BY ExecutionsTyped DEF EngineTyped, ThreadsTyped, IsStore, stored, RunInv, GoodText
<1> DEFINE old == reached[on[u]]
           new == reached'[on[u]]
<1>1. CASE pc[u] \in Holding
  <2>1. /\ Mine(u) /\ on'[u] = on[u]
        /\ _executions'[on[u]].plan = _executions[on[u]].plan
    BY <1>1, ObjectKept
  <2>2. old \subseteq new
    BY <1>0, <2>1, Grows DEF Mine
  <2>3. CASE u # t
    <3>1. pc'[u] = pc[u] /\ at'[u] = at[u]
      BY <2>3, OthersStay
    <3> QED
      BY <1>0, <2>1, <2>2, <3>1 DEF HoldsOf, Met, AllDone, OneFailed
  <2>4. CASE u = t
    <3>1. Sets(t) \/ Runs(t)
      BY <1>0, <1>1, <2>4
      DEF Step, Call, create_workflow, pause, resume, cancel, run_all, Asks, Calls,
          Goes, Creates, LookForRoom, ChooseOldest, Evict, CreateRaises, Insert, Saves,
          OpenFile, Snapshot, WriteFile, SaveFails, Leaves, Loads, MustLoad, ReadFile,
          PutExecution, Loaded, Sets, Holding, Setting
    <3>2. MarkStep(t) \/ Judge(t) \/ (\E success \in BOOLEAN : StepEnds(t, success))
      BY <1>0, <1>1, <2>4, <3>1
      DEF Sets, SetStatus, Runs, run_next_step, run_all_ends, CheckStep, StepRefused,
          Goes, Holding, Setting
    <3>3. CASE MarkStep(t)
      <4>1. pc[u] = "mark" /\ pc'[u] = "step" /\ at' = at
        BY <1>0, <2>4, <3>3 DEF MarkStep, Goes
      <4> QED
        BY <1>0, <2>1, <2>2, <4>1 DEF HoldsOf, Met
    <3>4. ASSUME NEW success \in BOOLEAN, StepEnds(t, success) PROVE HoldsOf(u)'
      <4>1. pc'[u] = "judge"
        BY <1>0, <2>4, <3>4 DEF StepEnds, Goes
      <4> QED
        BY <4>1 DEF HoldsOf
    <3>5. CASE Judge(t)
      <4>1. /\ pc'[u] = verdict(_executions[on[u]])
            /\ UNCHANGED << _executions, reached, on >>
        BY <1>0, <2>1, <2>4, <3>5 DEF Judge, Goes, history
      <4>2. /\ pc'[u] = "completed" => AllDone(old, _executions[on[u]].plan)
            /\ pc'[u] = "failed" => OneFailed(old, _executions[on[u]].plan)
        BY <1>0, <2>1, <4>1, VerdictIsSound DEF Mine, IsStore, stored
      <4>3. pc'[u] \notin { "mark", "step" }
        BY <4>1 DEF verdict
      <4> QED
        BY <4>1, <4>2, <4>3 DEF HoldsOf
    <3> QED
      BY <3>2, <3>3, <3>4, <3>5
  <2> QED
    BY <2>3, <2>4
<1>2. CASE pc[u] \notin Holding
  <2>1. u = t
    BY <1>2, OthersStay
  <2>2. CASE CheckStep(t)
    <3>1. /\ pc'[t] = "mark" /\ at' = at /\ on' = on
          /\ _executions' = _executions /\ reached' = reached
          /\ on[t] \in stored /\ at[t] \in DOMAIN _executions[on[t]].steps
          /\ ready(_executions[on[t]], at[t])
      BY <1>0, <2>2 DEF CheckStep, Goes, history
    <3>2. DOMAIN _executions[on[t]].steps = DOMAIN _executions[on[t]].plan
      BY <1>0, <3>1 DEF IsStore, IsExecution, stored
    <3>3. Sound(old, _executions[on[t]])
      BY <1>0, <2>1, <3>1
    <3>4. Met(old, _executions[on[t]].plan, at[t])
      BY <3>1, <3>2, <3>3 DEF ready, Sound, Met
    <3> QED
      BY <2>1, <3>1, <3>4 DEF HoldsOf
  <2>3. CASE Call(t)
    <3>1. pc'[t] \notin { "mark", "step", "completed", "failed" }
      BY <1>0, <2>3
      DEF Call, create_workflow, pause, resume, cancel, run_all, Asks, Calls
    <3> QED
      BY <2>1, <3>1 DEF HoldsOf
  <2>4. CASE ~ CheckStep(t) /\ ~ Call(t)
    <3>1. pc'[t] \notin Holding
      BY <1>0, <1>2, <2>1, <2>4
      DEF Step, Goes, Creates, LookForRoom, ChooseOldest, Evict, CreateRaises, Insert,
          SetStatus, Runs, run_next_step, run_all_ends, StepRefused, MarkStep, StepEnds,
          Judge, Saves, OpenFile, Snapshot, WriteFile, SaveFails, Leaves, Loads,
          MustLoad, ReadFile, PutExecution, Loaded, Holding, Setting
    <3> QED
      BY <2>1, <3>1
  <2> QED
    BY <2>2, <2>3, <2>4
<1> QED
  BY <1>1, <1>2

LEMMA RestartRun ==
  ASSUME EngineTyped, RunInv, Restart
  PROVE  RunInv'
<1>1. /\ loaded' = loaded /\ created' = created /\ reached' = reached
      /\ \A u \in Threads : pc'[u] = "idle" /\ on'[u] = None /\ data'[u] = NoStore
      /\ _executions' = NoStore
  BY DEF Restart, loaded
<1>2. GoodText(loaded)' /\ GoodText(_executions)' /\ \A u \in Threads : GoodText(data[u])'
  BY <1>1 DEF RunInv, GoodText, NoStore, Creating
<1>3. Distinct' /\ \A u \in Threads : HoldsOf(u)'
  BY <1>1 DEF Distinct, HoldsOf, Mine, stored, NoStore, Creating
<1> QED
  BY <1>2, <1>3 DEF RunInv

LEMMA StepRun == EngineTyped /\ RunInv /\ [Next]_vars => RunInv'
<1> SUFFICES ASSUME EngineTyped, RunInv, [Next]_vars PROVE RunInv'
  OBVIOUS
<1>1. ASSUME NEW t \in Threads, Step(t) PROVE RunInv'
  <2>0. /\ GoodText(_executions) /\ GoodText(loaded)
        /\ \A u \in Threads : GoodText(data[u])
    BY DEF RunInv
  <2>1. GoodText(_executions)'
    BY <1>1, ExecutionsSound, ExecutionsKnown DEF GoodText
  <2>2. GoodText(loaded)'
    <3>1. PICK x \in { loaded, NoStore, data[t] } : loaded' = x
      BY <1>1, TextsStep
    <3>2. GoodText(x)
      BY <2>0, <3>1, EmptyIsGood
    <3> QED
      BY <1>1, <3>1, <3>2, TextLasts DEF GoodText
  <2>3. ASSUME NEW u \in Threads PROVE GoodText(data[u])'
    <3>1. PICK x \in { data[u], _executions, loaded, NoStore } : Part(data'[u], x)
      BY <1>1, TextsStep
    <3>2. GoodText(x)
      BY <2>0, <3>1, EmptyIsGood
    <3> QED
      BY <1>1, <3>1, <3>2, TextLasts DEF GoodText, Part
  <2>4. Distinct' /\ \A u \in Threads : HoldsOf(u)'
    BY <1>1, DistinctStep, HoldsStep
  <2> QED
    BY <2>1, <2>2, <2>3, <2>4 DEF RunInv
<1>2. CASE UNCHANGED vars
  BY <1>2
  DEF vars, threadVars, history, bounds, RunInv, GoodText, Distinct, HoldsOf, Mine,
      stored, loaded
<1> QED
  BY <1>1, <1>2, RestartRun DEF Next

\* A step is begun only when its dependencies have been completed: by any number of
\* runs of one workflow at once, over late loads and restarts.
THEOREM DependenciesAreKept == Spec => []DependenciesHold
<1>1. Init => EngineTyped /\ RunInv
  BY InitTyped, InitRun
<1>2. EngineTyped /\ RunInv /\ [Next]_vars => EngineTyped' /\ RunInv'
  BY StepTyped, StepRun
<1>3. EngineTyped /\ RunInv => DependenciesHold
  <2> SUFFICES ASSUME EngineTyped, RunInv, NEW e \in stored
               PROVE  inOrder(e, _executions[e])
    BY DEF DependenciesHold
  <2>1. IsExecution(_executions[e]) /\ Sound(reached[e], _executions[e])
    BY DEF EngineTyped, IsStore, RunInv, GoodText, stored
  <2> QED
    BY <2>1 DEF inOrder, has, Sound, Met, IsExecution
<1> QED
  BY <1>1, <1>2, <1>3, PTL DEF Spec

\* A workflow is said to be completed only when every step has been, and to have
\* failed only when one has, whatever overlapping runs and requests write meanwhile.
THEOREM VerdictHolds == Spec => []VerdictIsEarned
<1>1. Init => EngineTyped /\ RunInv
  BY InitTyped, InitRun
<1>2. EngineTyped /\ RunInv /\ [Next]_vars => EngineTyped' /\ RunInv'
  BY StepTyped, StepRun
<1>3. EngineTyped /\ RunInv => VerdictIsEarned
  <2> SUFFICES ASSUME EngineTyped, RunInv, NEW e \in stored
               PROVE  earned(e, _executions[e])
    BY DEF VerdictIsEarned
  <2>1. IsExecution(_executions[e]) /\ Sound(reached[e], _executions[e])
    BY DEF EngineTyped, IsStore, RunInv, GoodText, stored
  <2> QED
    BY <2>1 DEF earned, has, Sound, AllDone, OneFailed, IsExecution
<1> QED
  BY <1>1, <1>2, <1>3, PTL DEF Spec

=============================================================================
