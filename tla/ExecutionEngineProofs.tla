------------------------ MODULE ExecutionEngineProofs ------------------------
(***************************************************************************)
(* Theorems about ExecutionEngine, for every number of tasks and attempts,   *)
(* and for every limit of the heap, of a batch and of the registry: no task  *)
(* is lost or held twice, and a flag that is set stops a task.               *)
(***************************************************************************)
EXTENDS ExecutionEngine, FiniteSetTheorems, SequenceTheorems, TLAPS

Closed == { "closing", "purge", "over" }

\* the types of what the invariant reads
EngineTyped ==
  /\ submit \in [Tasks -> { "idle", "checked", "registered", "queued",
                            "refused" }]
  /\ heap \in Seq(Tasks)
  /\ status \in [Tasks -> Status]
  /\ attempts \in [Tasks -> Nat]
  /\ flag \in [Tasks -> BOOLEAN \cup {None}]
  /\ batch \subseteq Tasks
  /\ thread \in [Tasks -> { "none", "started", "check", "cleared", "waiting",
                            "result", "timedout", "sleeping", "exhausted",
                            "closing", "purge", "over" }]
  /\ warned \subseteq Tasks

\* A task is at one place of the heap, in the batch, or in a thread.
OnePlace ==
  /\ \A i, j \in DOMAIN heap : heap[i] = heap[j] => i = j
  /\ \A t \in Tasks :
       /\ InHeap(t) => t \notin batch /\ thread[t] = "none"
       /\ t \in batch => thread[t] = "none"

\* A task is in none of them before its submission has pushed it.
NotBeforeQueued ==
  \A t \in Tasks :
    submit[t] # "queued" => ~InHeap(t) /\ t \notin batch /\ thread[t] = "none"

\* A task without a thread has not run, and as long as it has not been cancelled
\* the registry knows it: this is what makes it `ready` in the heap.
UnrunIsKnown ==
  \A t \in Tasks :
    thread[t] = "none" =>
      /\ status[t] \in { "PENDING", "CANCELLED" }
      /\ attempts[t] = 0
      /\ submit[t] \in { "registered", "queued" } /\ status[t] = "PENDING"
           => t \in registry

\* A thread that is about to end, or that stands between a timeout and what it
\* does about it, has a task that is terminal.
EndedIsTerminal ==
  \A t \in Tasks :
    thread[t] \in Closed \cup { "timedout" } => status[t] \in TERMINAL_STATUSES

Inv ==
  /\ EngineTyped
  /\ OnePlace
  /\ NotBeforeQueued
  /\ UnrunIsKnown
  /\ EndedIsTerminal
  /\ DroppedWasCancelled

-----------------------------------------------------------------------------
(* What a batch pops                                                         *)

\* What a batch pops is a prefix of the heap, of the length that is cut off.
LEMMA PoppedIsPrefix ==
  ASSUME heap \in Seq(Tasks)
  PROVE  /\ Cardinality(popped) \in 0..Len(heap)
         /\ popped = 1..Cardinality(popped)
<1> DEFINE n == Len(heap)
           upto(i) == { j \in ready : j <= i }
<1>1. n \in Nat /\ DOMAIN heap = 1..n
  OBVIOUS
<1>2. /\ IsFiniteSet(1..n) /\ Cardinality(1..n) = n
      /\ popped \in SUBSET (1..n) /\ ready \in SUBSET (1..n)
  BY <1>1, FS_Interval DEF popped, ready
<1>3. /\ IsFiniteSet(popped) /\ Cardinality(popped) \in 0..n
      /\ IsFiniteSet(ready)
  <2>1. IsFiniteSet(popped) /\ Cardinality(popped) <= n /\ IsFiniteSet(ready)
    BY <1>2, FS_Subset
  <2>2. Cardinality(popped) \in Nat
    BY <2>1, FS_CardinalityType
  <2> QED
    BY <1>1, <2>1, <2>2
<1>4. ASSUME NEW i \in popped, NEW k \in 1..i PROVE k \in popped
  <2>1. i \in 1..n /\ Cardinality(upto(i)) <= MAX_CONCURRENT
    BY <1>1, <1>2 DEF popped
  <2>2. upto(i) \in SUBSET ready /\ upto(k) \in SUBSET upto(i)
    <3>1. ready \subseteq Int /\ i \in Int /\ k \in Int /\ k <= i
      BY <1>1, <1>2, <2>1
    <3>2. \A j \in upto(k) : j \in ready /\ j <= i
      BY <3>1
    <3> QED
      BY <3>2
  <2>3. IsFiniteSet(upto(i))
    BY <1>3, <2>2, FS_Subset
  <2>4. Cardinality(upto(k)) <= Cardinality(upto(i))
    BY <2>2, <2>3, FS_Subset
  <2>5. IsFiniteSet(upto(k))
    BY <2>2, <2>3, FS_Subset
  <2>6. Cardinality(upto(k)) \in Nat /\ Cardinality(upto(i)) \in Nat
    BY <2>3, <2>5, FS_CardinalityType
  <2>7. Cardinality(upto(k)) <= MAX_CONCURRENT
    BY <2>1, <2>4, <2>6, EngineAssumption
  <2>8. k \in 1..n
    BY <1>1, <2>1
  <2> QED
    BY <1>1, <2>7, <2>8 DEF popped
<1>5. ASSUME NEW i \in popped PROVE i \in 1..Cardinality(popped)
  <2>1. i \in 1..n
    BY <1>2
  <2>2. 1..i \in SUBSET popped
    BY <1>4
  <2>3. Cardinality(1..i) = i
    BY <2>1, <1>1, FS_Interval
  <2>4. Cardinality(1..i) <= Cardinality(popped)
    BY <2>2, <1>3, FS_Subset
  <2> QED
    BY <2>1, <2>3, <2>4, <1>1, <1>3
<1>6. /\ IsFiniteSet(1..Cardinality(popped))
      /\ Cardinality(1..Cardinality(popped)) = Cardinality(popped)
  BY <1>1, <1>3, FS_Interval
<1>7. popped \in SUBSET (1..Cardinality(popped))
  BY <1>5
<1> HIDE DEF n
<1> QED
  BY <1>3, <1>6, <1>7, FS_Subset DEF n

-----------------------------------------------------------------------------
(* The invariant                                                             *)

LEMMA InitInv == Init => Inv
  BY DEF Init, Inv, EngineTyped, OnePlace, NotBeforeQueued, UnrunIsKnown,
         EndedIsTerminal, DroppedWasCancelled, InHeap, Closed, Status

\* A push puts the task at one place and moves the others behind it.
LEMMA PushedHeap ==
  ASSUME heap \in Seq(Tasks), NEW t \in Tasks, NEW k \in 0..Len(heap)
  PROVE  /\ InsertAt(t, k) \in Seq(Tasks)
         /\ DOMAIN InsertAt(t, k) = 1..Len(heap) + 1
         /\ \A i \in 1..Len(heap) + 1 :
              InsertAt(t, k)[i] =
                IF i <= k THEN heap[i] ELSE IF i = k + 1 THEN t ELSE heap[i - 1]
<1> DEFINE front == SubSeq(heap, 1, k)
           back == SubSeq(heap, k + 1, Len(heap))
<1>1. /\ front \in Seq(Tasks) /\ Len(front) = k
      /\ \A i \in 1..k : front[i] = heap[i]
  OBVIOUS
<1>2. /\ back \in Seq(Tasks) /\ Len(back) = Len(heap) - k
      /\ \A i \in 1..Len(heap) - k : back[i] = heap[k + i]
  OBVIOUS
<1> HIDE DEF front, back
<1> DEFINE head == front \o << t >>
<1>3. /\ head \in Seq(Tasks) /\ Len(head) = k + 1
      /\ \A i \in 1..k + 1 : head[i] = IF i <= k THEN heap[i] ELSE t
  BY <1>1
<1> HIDE DEF head
<1>4. InsertAt(t, k) = head \o back
  BY DEF InsertAt, front, back, head
<1>5. /\ head \o back \in Seq(Tasks)
      /\ Len(head \o back) = Len(heap) + 1
      /\ \A i \in 1..Len(heap) + 1 :
           (head \o back)[i] = IF i <= k + 1 THEN head[i] ELSE back[i - (k + 1)]
  <2>1. /\ head \o back \in Seq(Tasks)
        /\ Len(head \o back) = Len(head) + Len(back)
        /\ \A i \in 1..Len(head) + Len(back) :
             (head \o back)[i] =
               IF i <= Len(head) THEN head[i] ELSE back[i - Len(head)]
    <3>1. head \in Seq(Tasks) /\ back \in Seq(Tasks)
      BY <1>2, <1>3
    <3> QED
      BY <3>1, ConcatProperties
  <2>2. Len(head) + Len(back) = Len(heap) + 1
    BY <1>2, <1>3
  <2> QED
    BY <1>3, <2>1, <2>2
<1>6. \A i \in 1..Len(heap) + 1 :
        i > k + 1 => /\ i - (k + 1) \in 1..Len(heap) - k
                     /\ back[i - (k + 1)] = heap[i - 1]
  <2>1. SUFFICES ASSUME NEW i \in 1..Len(heap) + 1, i > k + 1
                 PROVE  /\ i - (k + 1) \in 1..Len(heap) - k
                        /\ back[i - (k + 1)] = heap[i - 1]
    OBVIOUS
  <2>2. i - (k + 1) \in 1..Len(heap) - k /\ k + (i - (k + 1)) = i - 1
    BY <2>1
  <2> QED
    BY <2>2, <1>2
<1>7. ASSUME NEW i \in 1..Len(heap) + 1
      PROVE  (head \o back)[i] =
               IF i <= k THEN heap[i] ELSE IF i = k + 1 THEN t ELSE heap[i - 1]
  <2>1. (head \o back)[i] = IF i <= k + 1 THEN head[i] ELSE back[i - (k + 1)]
    BY <1>5
  <2>2. CASE i <= k + 1
    <3>1. i \in 1..k + 1 /\ (head \o back)[i] = head[i]
      BY <2>1, <2>2
    <3> QED
      BY <1>3, <2>2, <3>1
  <2>3. CASE i > k + 1
    <3>1. (head \o back)[i] = heap[i - 1]
      BY <1>6, <2>1, <2>3
    <3>2. ~(i <= k) /\ i # k + 1
      BY <2>3
    <3> QED
      BY <3>1, <3>2
  <2>4. i <= k + 1 \/ i > k + 1
    OBVIOUS
  <2> QED
    BY <2>2, <2>3, <2>4
<1>8. DOMAIN (head \o back) = 1..Len(heap) + 1
  BY <1>5
<1> QED
  BY <1>4, <1>5, <1>7, <1>8

LEMMA CallStepInv ==
  ASSUME Inv, NEW t \in Tasks, CallSubmit(t) \/ CallCancel(t)
  PROVE  Inv'
<1> USE DEF Inv, kept, shared, threads, callers
<1>1. CASE SubmitChecks(t)
  BY <1>1 DEF SubmitChecks, SubmitAt, EngineTyped, OnePlace, NotBeforeQueued,
              UnrunIsKnown, EndedIsTerminal, DroppedWasCancelled, InHeap, Closed
<1>2. CASE SubmitRegisters(t)
  BY <1>2 DEF SubmitRegisters, SubmitAt, EngineTyped, OnePlace, NotBeforeQueued,
              UnrunIsKnown, EndedIsTerminal, DroppedWasCancelled, InHeap, Closed
<1>3. CASE SubmitPushes(t)
  <2>1. PICK k \in 0..Len(heap) : heap' = InsertAt(t, k)
    BY <1>3 DEF SubmitPushes
  <2>2. /\ submit[t] = "registered"
        /\ submit' = [submit EXCEPT ![t] = "queued"]
        /\ UNCHANGED << registry, status, attempts, flag, batch, unstarted, warned, thread >>
    BY <1>3 DEF SubmitPushes, SubmitAt
  <2>3. /\ heap' \in Seq(Tasks)
        /\ DOMAIN heap' = 1..Len(heap) + 1
        /\ \A i \in 1..Len(heap) + 1 :
             heap'[i] =
               IF i <= k THEN heap[i] ELSE IF i = k + 1 THEN t ELSE heap[i - 1]
    BY <2>1, PushedHeap DEF EngineTyped
  <2>4. Len(heap) \in Nat /\ DOMAIN heap = 1..Len(heap) /\ k \in 0..Len(heap)
    BY DEF EngineTyped
  <2>5. ~InHeap(t) /\ t \notin batch /\ thread[t] = "none"
    BY <2>2 DEF NotBeforeQueued
  <2>6. InHeap(t)'
    <3>1. k + 1 \in DOMAIN heap' /\ heap'[k + 1] = t
      BY <2>3, <2>4
    <3> QED
      BY <3>1 DEF InHeap
  <2>7. \A u \in Tasks : u # t => (InHeap(u)' <=> InHeap(u))
    <3>1. SUFFICES ASSUME NEW u \in Tasks, u # t PROVE InHeap(u)' <=> InHeap(u)
      OBVIOUS
    <3>2. ASSUME InHeap(u) PROVE InHeap(u)'
      <4>1. PICK i \in 1..Len(heap) : heap[i] = u
        BY <3>2, <2>4 DEF InHeap
      <4>2. CASE i <= k
        BY <4>1, <4>2, <2>3, <2>4 DEF InHeap
      <4>3. CASE i > k
        <5>1. i + 1 \in 1..Len(heap) + 1 /\ heap'[i + 1] = heap[i]
          BY <4>3, <2>3, <2>4
        <5> QED
          BY <5>1, <4>1, <2>3 DEF InHeap
      <4> QED
        BY <4>2, <4>3, <2>4
    <3>3. ASSUME InHeap(u)' PROVE InHeap(u)
      <4>1. PICK i \in 1..Len(heap) + 1 : heap'[i] = u
        BY <3>3, <2>3 DEF InHeap
      <4>2. CASE i <= k
        BY <4>1, <4>2, <2>3, <2>4 DEF InHeap
      <4>3. CASE i > k
        BY <4>1, <4>3, <2>3, <2>4, <3>1 DEF InHeap
      <4> QED
        BY <4>2, <4>3, <2>4
    <3> QED
      BY <3>2, <3>3
  <2>8. \A i, j \in DOMAIN heap' : heap'[i] = heap'[j] => i = j
    <3> DEFINE was(i) == IF i <= k THEN i ELSE i - 1
    <3>1. \A i \in 1..Len(heap) + 1 :
            i # k + 1 => was(i) \in DOMAIN heap /\ heap'[i] = heap[was(i)]
      BY <2>3, <2>4
    <3>2. heap'[k + 1] = t /\ \A i \in DOMAIN heap : heap[i] # t
      BY <2>3, <2>4, <2>5 DEF InHeap
    <3>3. \A i, j \in DOMAIN heap : heap[i] = heap[j] => i = j
      BY DEF OnePlace
    <3>4. SUFFICES ASSUME NEW i \in 1..Len(heap) + 1, NEW j \in 1..Len(heap) + 1,
                          heap'[i] = heap'[j]
                   PROVE  i = j
      BY <2>3
    <3>5. CASE i = k + 1 \/ j = k + 1
      BY <3>1, <3>2, <3>4, <3>5
    <3>6. CASE i # k + 1 /\ j # k + 1
      <4>1. was(i) = was(j)
        BY <3>1, <3>3, <3>4, <3>6
      <4> QED
        BY <4>1, <3>6, <2>4
    <3> QED
      BY <3>5, <3>6
  <2>9. EngineTyped'
    BY <2>2, <2>3 DEF EngineTyped
  <2>10. OnePlace'
    BY <2>2, <2>5, <2>7, <2>8 DEF OnePlace
  <2>11. NotBeforeQueued' /\ UnrunIsKnown' /\ EndedIsTerminal'
    BY <2>2, <2>5, <2>7 DEF NotBeforeQueued, UnrunIsKnown, EndedIsTerminal,
                            EngineTyped
  <2>12. DroppedWasCancelled'
    BY <2>2, <2>6, <2>7 DEF DroppedWasCancelled, EngineTyped
  <2> QED
    BY <2>9, <2>10, <2>11, <2>12
<1>4. CASE CancelReads(t)
  BY <1>4 DEF CancelReads, EngineTyped, OnePlace, NotBeforeQueued,
              UnrunIsKnown, EndedIsTerminal, DroppedWasCancelled, InHeap, Closed
<1>5. CASE CancelPending(t)
  BY <1>5 DEF CancelPending, Ends, EngineTyped, OnePlace, NotBeforeQueued, Status,
              TERMINAL_STATUSES,
              UnrunIsKnown, EndedIsTerminal, DroppedWasCancelled, InHeap, Closed
<1>6. CASE CancelRunning(t)
  BY <1>6 DEF CancelRunning, EngineTyped, OnePlace, NotBeforeQueued,
              UnrunIsKnown, EndedIsTerminal, DroppedWasCancelled, InHeap, Closed
<1> QED
  BY <1>1, <1>2, <1>3, <1>4, <1>5, <1>6 DEF CallSubmit, CallCancel

\* What is left of the heap after a batch has popped its first c places.
LEMMA CutHeap ==
  ASSUME heap \in Seq(Tasks), NEW c \in 0..Len(heap)
  PROVE  /\ SubSeq(heap, c + 1, Len(heap)) \in Seq(Tasks)
         /\ DOMAIN SubSeq(heap, c + 1, Len(heap)) = 1..Len(heap) - c
         /\ \A i \in 1..Len(heap) - c :
              SubSeq(heap, c + 1, Len(heap))[i] = heap[c + i]
  OBVIOUS

LEMMA WorkerStepInv ==
  ASSUME Inv, Worker
  PROVE  Inv'
<1> USE DEF Inv, kept, shared, threads, callers
<1>1. CASE ProcessBatch
  <2> DEFINE c == Cardinality(popped)
             n == Len(heap)
  <2>1. /\ batch = {}
        /\ batch' = { heap[i] : i \in ready \cap popped }
        /\ heap' = SubSeq(heap, c + 1, n)
        /\ UNCHANGED << submit, registry, status, attempts, flag, unstarted, warned,
                      thread >>
    BY <1>1 DEF ProcessBatch
  <2>2. /\ n \in Nat /\ DOMAIN heap = 1..n
        /\ c \in 0..n /\ popped = 1..c
    BY PoppedIsPrefix DEF EngineTyped
  <2>3. /\ heap' \in Seq(Tasks)
        /\ DOMAIN heap' = 1..n - c
        /\ \A i \in 1..n - c : heap'[i] = heap[c + i]
    BY <2>1, <2>2, CutHeap DEF EngineTyped
  <2>4. \A i \in 1..n : heap[i] \in Tasks
    BY <2>2 DEF EngineTyped
  <2> HIDE DEF c, n
  <2>5. \A t \in Tasks : InHeap(t)' <=> \E i \in c + 1..n : heap[i] = t
    <3>1. ASSUME NEW t \in Tasks, InHeap(t)' PROVE \E i \in c + 1..n : heap[i] = t
      <4>1. PICK i \in 1..n - c : heap'[i] = t
        BY <3>1, <2>3 DEF InHeap
      <4> QED
        BY <4>1, <2>2, <2>3
    <3>2. ASSUME NEW t \in Tasks, NEW i \in c + 1..n, heap[i] = t PROVE InHeap(t)'
      <4>1. i - c \in 1..n - c /\ c + (i - c) = i
        BY <2>2
      <4>2. i - c \in DOMAIN heap' /\ heap'[i - c] = t
        BY <4>1, <2>3, <3>2
      <4> QED
        BY <4>2 DEF InHeap
    <3> QED
      BY <3>1, <3>2
  <2>6. /\ batch' \subseteq Tasks
        /\ \A t \in batch' : \E i \in 1..c : i \in ready /\ heap[i] = t
        /\ \A i \in 1..c : i \in ready => heap[i] \in batch'
    BY <2>1, <2>2, <2>4
  <2>7. \A t \in Tasks : InHeap(t)' \/ t \in batch' => InHeap(t)
    BY <2>2, <2>5, <2>6 DEF InHeap
  <2>8. EngineTyped'
    BY <2>1, <2>3, <2>6 DEF EngineTyped
  <2>9. OnePlace'
    <3>1. \A i, j \in DOMAIN heap' : heap'[i] = heap'[j] => i = j
      <4>1. SUFFICES ASSUME NEW i \in 1..n - c, NEW j \in 1..n - c,
                            heap'[i] = heap'[j]
                     PROVE  i = j
        BY <2>3
      <4>2. c + i \in DOMAIN heap /\ c + j \in DOMAIN heap
            /\ heap[c + i] = heap[c + j]
        BY <2>2, <2>3, <4>1
      <4>3. c + i = c + j
        BY <4>2 DEF OnePlace
      <4> QED
        BY <4>3, <2>2
    <3>2. \A t \in Tasks : InHeap(t)' => t \notin batch'
      <4>1. SUFFICES ASSUME NEW t \in Tasks, InHeap(t)', t \in batch' PROVE FALSE
        OBVIOUS
      <4>2. PICK i \in c + 1..n : heap[i] = t
        BY <4>1, <2>5
      <4>3. PICK j \in 1..c : heap[j] = t
        BY <4>1, <2>6
      <4>4. i \in DOMAIN heap /\ j \in DOMAIN heap /\ i # j
        BY <2>2
      <4> QED
        BY <4>2, <4>3, <4>4 DEF OnePlace
    <3>3. \A t \in Tasks : InHeap(t)' \/ t \in batch' => thread[t] = "none"
      BY <2>7 DEF OnePlace
    <3> QED
      BY <3>1, <3>2, <3>3, <2>1 DEF OnePlace
  <2>10. NotBeforeQueued'
    BY <2>1, <2>6, <2>7 DEF NotBeforeQueued
  <2>11. UnrunIsKnown' /\ EndedIsTerminal'
    BY <2>1 DEF UnrunIsKnown, EndedIsTerminal
  <2>12. DroppedWasCancelled'
    <3>1. SUFFICES ASSUME NEW t \in Tasks \ unstarted, submit[t] = "queued",
                          ~InHeap(t)', t \notin batch', thread[t] = "none"
                   PROVE  status[t] = "CANCELLED" /\ attempts[t] = 0
      BY <2>1 DEF DroppedWasCancelled
    <3>2. CASE ~InHeap(t)
      BY <3>1, <3>2, <2>1 DEF DroppedWasCancelled
    <3>3. CASE InHeap(t)
      <4>1. PICK i \in 1..n : heap[i] = t
        BY <3>3, <2>2 DEF InHeap
      <4>2. i \in 1..c
        BY <4>1, <3>1, <2>2, <2>5
      <4>3. i \notin ready
        BY <4>1, <4>2, <3>1, <2>6
      <4>4. ~(t \in registry /\ status[t] = "PENDING")
        BY <4>1, <4>3, <2>2 DEF ready
      <4> QED
        BY <4>4, <3>1 DEF UnrunIsKnown
    <3> QED
      BY <3>2, <3>3
  <2> QED
    BY <2>8, <2>9, <2>10, <2>11, <2>12
<1>2. CASE LoopEnds
  BY <1>2 DEF LoopEnds, EngineTyped, OnePlace, NotBeforeQueued,
              UnrunIsKnown, EndedIsTerminal, DroppedWasCancelled, InHeap
<1>3. CASE LaunchFails
  BY <1>3 DEF LaunchFails, EngineTyped, OnePlace, NotBeforeQueued,
              UnrunIsKnown, EndedIsTerminal, DroppedWasCancelled, InHeap
<1>4. ASSUME NEW t \in Tasks, LaunchTask(t) PROVE Inv'
  BY <1>4 DEF LaunchTask, EngineTyped, OnePlace, NotBeforeQueued, Closed,
              UnrunIsKnown, EndedIsTerminal, DroppedWasCancelled, InHeap
<1> QED
  BY <1>1, <1>2, <1>3, <1>4 DEF Worker

\* A thread leaves the heap, the batch and the submissions alone.
LEMMA ThreadStepInv ==
  ASSUME Inv, NEW t \in Tasks, TaskThread(t) \/ StrayHandlerEnds(t)
  PROVE  Inv'
<1> USE DEF Inv, kept, shared, threads, callers, ThreadAt, HandlerEnds, SetStatus,
            Ends, EngineTyped, OnePlace, NotBeforeQueued, UnrunIsKnown,
            EndedIsTerminal, DroppedWasCancelled, InHeap, Closed, Status,
            TERMINAL_STATUSES
<1>1. CASE RegisterFlag(t)
  BY <1>1 DEF RegisterFlag
<1>2. CASE FlagIsClear(t)
  BY <1>2 DEF FlagIsClear
<1>3. CASE Attempt(t)
  BY <1>3 DEF Attempt
<1>4. CASE CancelledBeforeAttempt(t)
  BY <1>4 DEF CancelledBeforeAttempt
<1>5. CASE Exhausted(t)
  <2>1. CASE status[t] \in TERMINAL_STATUSES
    BY <1>5, <2>1 DEF Exhausted
  <2>2. CASE status[t] \notin TERMINAL_STATUSES
    BY <1>5, <2>2 DEF Exhausted
  <2> QED
    BY <2>1, <2>2
<1>6. CASE ExhaustedFails(t)
  BY <1>6 DEF ExhaustedFails
<1>7. CASE TimesOut(t)
  BY <1>7 DEF TimesOut
<1>8. CASE TimeoutIsFinal(t)
  BY <1>8 DEF TimeoutIsFinal
<1>9. CASE RetryAfterTimeout(t)
  BY <1>9 DEF RetryAfterTimeout
<1>10. CASE ResultCancelled(t)
  BY <1>10 DEF ResultCancelled
<1>11. CASE ResultStands(t)
  BY <1>11 DEF ResultStands
<1>12. CASE TakeResult(t)
  BY <1>12 DEF TakeResult
<1>13. CASE RetryAfterError(t)
  BY <1>13 DEF RetryAfterError
<1>14. CASE ErrorIsFinal(t)
  BY <1>14 DEF ErrorIsFinal
<1>15. CASE Wakes(t)
  BY <1>15 DEF Wakes
<1>16. CASE DropFlag(t)
  BY <1>16 DEF DropFlag
<1>17. CASE PurgeTerminalTasks(t)
  <2>1. \A u \in Tasks : u \in registry /\ u \notin registry'
                          => status[u] \in TERMINAL_STATUSES
    BY <1>17 DEF PurgeTerminalTasks, terminal
  <2>2. /\ UNCHANGED << submit, heap, status, attempts, flag, batch, unstarted, warned >>
        /\ thread' = [thread EXCEPT ![t] = "over"] /\ thread[t] = "purge"
    BY <1>17 DEF PurgeTerminalTasks
  <2>3. EngineTyped' /\ OnePlace' /\ NotBeforeQueued' /\ EndedIsTerminal'
    BY <2>2
  <2>4. UnrunIsKnown'
    BY <2>1, <2>2
  <2>5. DroppedWasCancelled'
    BY <2>2
  <2> QED
    BY <2>3, <2>4, <2>5
<1>18. CASE StrayHandlerEnds(t)
  BY <1>18 DEF StrayHandlerEnds
<1> QED
  BY <1>1, <1>2, <1>3, <1>4, <1>5, <1>6, <1>7, <1>8, <1>9, <1>10, <1>11, <1>12,
     <1>13, <1>14, <1>15, <1>16, <1>17, <1>18 DEF TaskThread

LEMMA NextInv == Inv /\ [Next]_vars => Inv'
<1> SUFFICES ASSUME Inv, [Next]_vars PROVE Inv'
  OBVIOUS
<1>1. CASE Start \/ Stop \/ UNCHANGED vars
  BY <1>1 DEF Start, Stop, vars, kept, shared, threads, callers, Inv, EngineTyped,
              OnePlace, NotBeforeQueued, UnrunIsKnown, EndedIsTerminal,
              DroppedWasCancelled, InHeap
<1> QED
  BY <1>1, CallStepInv, ThreadStepInv, WorkerStepInv DEF Next

LEMMA Invariance == Spec => []Inv
  BY InitInv, NextInv, PTL DEF Spec

-----------------------------------------------------------------------------
(* What a flag does                                                          *)

\* A thread has a flag while it works, and a task it has ended as a success had a
\* result.
FlagIsKept ==
  \A t \in Tasks :
    /\ flag[t] # None => thread[t] \notin { "none", "started", "purge", "over" }
    /\ status[t] = "SUCCEEDED" => thread[t] \in Closed

\* The thread of a task that was warned still has its flag to look at, or has ended
\* the task otherwise than by a success.
WarnedIsStopped ==
  \A t \in warned :
    /\ status[t] # "SUCCEEDED"
    /\ \/ thread[t] \in Watching /\ flag[t] = TRUE
       \/ thread[t] \in Closed \cup { "exhausted" }

FlagInv == FlagIsKept /\ WarnedIsStopped

LEMMA FlagStep == Inv /\ FlagInv /\ [Next]_vars => FlagInv'
<1> SUFFICES ASSUME Inv, FlagInv, [Next]_vars PROVE FlagInv'
  OBVIOUS
<1> USE DEF FlagInv, FlagIsKept, WarnedIsStopped, Watching, Closed
<1>1. /\ status \in [Tasks -> Status] /\ flag \in [Tasks -> BOOLEAN \cup {None}]
      /\ thread \in [Tasks -> { "none", "started", "check", "cleared", "waiting",
                                "result", "timedout", "sleeping", "exhausted",
                                "closing", "purge", "over" }]
      /\ warned \subseteq Tasks
      /\ \A t \in batch : t \in Tasks /\ thread[t] = "none"
  BY DEF Inv, EngineTyped, OnePlace
<1>2. ASSUME UNCHANGED << flag, warned, thread >>,
             NEW t \in Tasks, NEW s \in Status \ { "SUCCEEDED" },
             status' \in { status, [status EXCEPT ![t] = s] }
      PROVE  FlagInv'
  BY <1>1, <1>2
<1>3. ASSUME UNCHANGED << flag, status, warned, thread >> PROVE FlagInv'
  BY <1>3
<1>4. ASSUME NEW t \in Tasks, CallSubmit(t) \/ StrayHandlerEnds(t) PROVE FlagInv'
  BY <1>3, <1>4 DEF CallSubmit, SubmitChecks, SubmitRegisters, SubmitPushes,
                    StrayHandlerEnds, kept, threads
<1>5. ASSUME NEW t \in Tasks, CallCancel(t) PROVE FlagInv'
  <2>1. CASE CancelReads(t)
    BY <1>3, <2>1 DEF CancelReads, kept, threads
  <2>2. CASE CancelPending(t)
    BY <1>2, <2>2 DEF CancelPending, Ends, kept, threads, Status, TERMINAL_STATUSES
  <2>3. CASE CancelRunning(t)
    BY <1>1, <2>3 DEF CancelRunning, threads
  <2> QED
    BY <1>5, <2>1, <2>2, <2>3 DEF CallCancel
<1>6. CASE Start \/ Stop \/ ProcessBatch \/ LoopEnds \/ LaunchFails
  BY <1>3, <1>6 DEF Start, Stop, ProcessBatch, LoopEnds, LaunchFails, kept, threads
<1>7. ASSUME NEW t \in Tasks, LaunchTask(t) PROVE FlagInv'
  BY <1>1, <1>7 DEF LaunchTask, kept
\* the thread goes from one place of its work to the next and takes its flag along
<1>8. ASSUME NEW t \in Tasks, TaskThread(t) PROVE FlagInv'
  <2> USE DEF ThreadAt, HandlerEnds, Ends, SetStatus, kept
  <2>1. CASE RegisterFlag(t)
    BY <1>1, <2>1 DEF RegisterFlag
  <2>2. CASE FlagIsClear(t) \/ Attempt(t) \/ CancelledBeforeAttempt(t)
    BY <1>1, <2>2 DEF FlagIsClear, Attempt, CancelledBeforeAttempt
  <2>3. CASE Exhausted(t) \/ ExhaustedFails(t)
    BY <1>1, <2>3 DEF Exhausted, ExhaustedFails
  <2>4. CASE TimesOut(t) \/ TimeoutIsFinal(t) \/ RetryAfterTimeout(t)
    BY <1>1, <2>4 DEF TimesOut, TimeoutIsFinal, RetryAfterTimeout
  <2>5. CASE ResultCancelled(t) \/ ResultStands(t) \/ TakeResult(t)
    BY <1>1, <2>5 DEF ResultCancelled, ResultStands, TakeResult
  <2>6. CASE RetryAfterError(t) \/ ErrorIsFinal(t) \/ Wakes(t)
    BY <1>1, <2>6 DEF RetryAfterError, ErrorIsFinal, Wakes
  <2>7. CASE DropFlag(t) \/ PurgeTerminalTasks(t)
    BY <1>1, <2>7 DEF DropFlag, PurgeTerminalTasks
  <2> QED
    BY <1>8, <2>1, <2>2, <2>3, <2>4, <2>5, <2>6, <2>7 DEF TaskThread
<1>9. CASE UNCHANGED vars
  BY <1>3, <1>9 DEF vars, threads
<1> QED
  BY <1>4, <1>5, <1>6, <1>7, <1>8, <1>9 DEF Next, Worker

LEMMA FlagInvariance == Spec => []FlagInv
<1>1. Init => FlagInv
  BY DEF Init, FlagInv, FlagIsKept, WarnedIsStopped
<1> QED
  BY <1>1, FlagStep, Invariance, PTL DEF Spec

-----------------------------------------------------------------------------
(* The theorems                                                              *)

\* A task is in at most one of the heap, the batch and the threads, for every
\* number of tasks, of places and of workers.
THEOREM HeldOnce == Spec => []OneHolder
<1>1. ASSUME Inv, NEW t \in Tasks
      PROVE  Cardinality({ i \in DOMAIN heap : heap[i] = t }) <= 1
  <2>1. CASE { i \in DOMAIN heap : heap[i] = t } = {}
    BY <2>1, FS_EmptySet
  <2>2. ASSUME NEW k \in DOMAIN heap, heap[k] = t
        PROVE  { i \in DOMAIN heap : heap[i] = t } = { k }
    BY <1>1, <2>2 DEF Inv, OnePlace
  <2> QED
    BY <2>1, <2>2, FS_Singleton
<1>2. Inv => OneHolder
  BY <1>1 DEF Inv, OnePlace, OneHolder
<1> QED
  BY <1>2, Invariance, PTL

\* A task that was accepted is terminal, or somebody has it, unless the system
\* refused it a thread.
THEOREM NothingIsLost == Spec => []NoLostTask
<1>1. Inv => NoLostTask
  BY DEF Inv, NoLostTask, DroppedWasCancelled, EndedIsTerminal, EngineTyped, Closed,
         TERMINAL_STATUSES
<1> QED
  BY <1>1, Invariance, PTL

\* A cancellation that has set the flag stops the retries, whatever the limits of
\* the task and of the policy are: at most the attempt before which the thread had
\* already looked begins, and none after it.
THEOREM RetriesStop == Spec => FlagStopsRetries
<1>1. ASSUME Inv, FlagInv, Next, NEW u \in warned
      PROVE  attempts'[u] = attempts[u]
  <2>1. u \in Tasks /\ thread[u] # "cleared"
    BY <1>1 DEF Inv, FlagInv, EngineTyped, WarnedIsStopped, Watching, Closed
  <2>2. ASSUME NEW t \in Tasks, TaskThread(t) PROVE attempts'[u] = attempts[u]
    <3>1. CASE Attempt(t)
      <4>1. t # u /\ attempts' = [attempts EXCEPT ![t] = @ + 1]
        BY <2>1, <3>1 DEF Attempt, ThreadAt
      <4> QED
        BY <4>1, <1>1, <2>1 DEF Inv, EngineTyped
    <3>2. CASE ~Attempt(t)
      BY <2>2, <3>2 DEF TaskThread, RegisterFlag, FlagIsClear, CancelledBeforeAttempt,
        Exhausted, ExhaustedFails, TimesOut, TimeoutIsFinal, RetryAfterTimeout,
        ResultCancelled, ResultStands, TakeResult, RetryAfterError, ErrorIsFinal,
        Wakes, DropFlag, PurgeTerminalTasks
    <3> QED
      BY <3>1, <3>2
  <2>3. ASSUME NEW t \in Tasks, CallSubmit(t) \/ CallCancel(t) \/ StrayHandlerEnds(t)
        PROVE  attempts' = attempts
    BY <2>3 DEF CallSubmit, SubmitChecks, SubmitRegisters, SubmitPushes, CallCancel,
      CancelReads, CancelPending, CancelRunning, StrayHandlerEnds
  <2>4. CASE Start \/ Stop \/ Worker
    BY <2>4 DEF Start, Stop, Worker, ProcessBatch, LoopEnds, LaunchFails, LaunchTask
  <2> QED
    BY <1>1, <2>2, <2>3, <2>4 DEF Next
<1>2. Inv /\ FlagInv /\ [Next]_vars =>
        [ \A t \in warned : attempts'[t] = attempts[t] ]_vars
  BY <1>1 DEF vars
<1> QED
  BY <1>2, Invariance, FlagInvariance, PTL DEF Spec, FlagStopsRetries

\* ... and keeps what the handler still returns from being a success.
THEOREM SuccessStops == Spec => []FlagStopsSuccess
<1>1. FlagInv => FlagStopsSuccess
  BY DEF FlagInv, WarnedIsStopped, FlagStopsSuccess
<1> QED
  BY <1>1, FlagInvariance, PTL

\* A task that the polling thread has dropped was cancelled and has not run.
THEOREM DroppedOnCancel == Spec => []DroppedWasCancelled
<1>1. Inv => DroppedWasCancelled
  BY DEF Inv
<1> QED
  BY <1>1, Invariance, PTL

=============================================================================
