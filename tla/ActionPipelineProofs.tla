------------------------- MODULE ActionPipelineProofs -------------------------
(***************************************************************************)
(* Theorems about ActionPipeline, for every set of missions, every plan,     *)
(* every limit and every number of kills.                                    *)
(***************************************************************************)
EXTENDS ActionPipeline, TLAPS

-----------------------------------------------------------------------------
(* The inductive invariant *)

\* nothing is left to do for a, as far as a rejection is concerned
Settled(a) == row[a] \in Done \/ runs[a] > 0

Stopped(a) == Settled(a) \/ a \notin newest

\* the worker is between the execution of a and what it makes of it
Underway(a) == at \in { "executing", "set", "row" } /\ a = current

\* the handler is between the assignment to a and the update of its row
Pending(verb, a) == At(verb, "row") /\ a = Head(todo)

\* the handler goes once through actions of its mission
HandlerInv ==
  /\ IsInjective(todo)
  /\ doing = "idle" => todo = << >> /\ target = None
  /\ doing = "enqueue" => target # None /\ todo # << >> /\ where = "look"
  /\ doing = "approve" => where # "set"
  /\ where # "look" => todo # << >>
  /\ target # None =>
       /\ ToSet(todo) \subseteq ToSet(Plan[target])
       /\ doing \in { "enqueue", "approve" } => mission[target] = "none"

\* what it has done to those it has left behind, and what waits ahead
EnqueueInv ==
  doing = "enqueue" =>
    \A a \in ToSet(Plan[target]) :
      IF a \in ToSet(todo) THEN row[a] = None ELSE status[a] = "PENDING"

ApproveInv ==
  doing = "approve" /\ target # None =>
    \A a \in ToSet(Plan[target]) :
      /\ a \in ToSet(todo) => status[a] = "PENDING" \/ Pending("approve", a)
      /\ a \notin ToSet(todo) => row[a] # "PENDING"

RejectInv ==
  doing = "reject" /\ target # None =>
    \A a \in made(target) : a \in ToSet(todo) \/ Stopped(a)

\* where the handler stands at an action, given that the worker may have been there
HeadInv ==
  where # "look" =>
    LET a == Head(todo) IN
    /\ status[a] # None
    /\ doing = "approve" =>
         status[a] = "APPROVED" \/ (status[a] \in Done /\ runs[a] > 0)
    /\ doing = "reject" /\ where = "row" => status[a] \in Done

\* the row of an action follows its status
RowInv ==
  /\ \A i \in DOMAIN created : row[created[i]] # None
  /\ \A a \in Actions :
       /\ status[a] # None => row[a] # None
       /\ status[a] = "PENDING" => row[a] = "PENDING"
       /\ status[a] = "APPROVED" => row[a] \in { "PENDING", "APPROVED" }
       /\ status[a] \in Done => Settled(a) \/ Pending("reject", a)

\* only what is done, and what is too old to be loaded, leaves the queue
QueueInv ==
  \A a \in Actions :
    /\ status[a] \in { "PENDING", "APPROVED" } => a \in queued
    /\ row[a] # None /\ a \notin queued => Stopped(a)

MissionInv ==
  \A m \in Missions :
    /\ mission[m] = "AWAITING_APPROVAL" => made(m) = {}
    /\ mission[m] = "APPROVED" => \A a \in made(m) : row[a] # "PENDING"
    /\ mission[m] = "REJECTED" /\ m \notin cancelled =>
         \A a \in made(m) : Stopped(a)

\* an action that can still be executed in this life of the process has not been
WorkerInv ==
  /\ at = "poll" => batch = {}
  /\ at \in { "executing", "set", "row" } => current \in batch /\ runs[current] > 0
  /\ at \in { "set", "row" } => verdict # None
  /\ at = "row" => status[current] \in Done
  /\ \A a \in batch : status[a] \in { "APPROVED" } \cup Done
  /\ \A a \in Actions :
       /\ runs[a] <= 1 + crashes
       /\ (status[a] \notin Done \/ a \in batch) /\ ~Underway(a) =>
            runs[a] <= crashes

Inv ==
  /\ TypeOK
  /\ HandlerInv /\ EnqueueInv /\ ApproveInv /\ RejectInv /\ HeadInv
  /\ RowInv /\ QueueInv /\ MissionInv /\ WorkerInv

-----------------------------------------------------------------------------
(* Lemmas about sequences and about what is taken of the rows *)

LEMMA TailFacts ==
  ASSUME NEW S, NEW s \in Seq(S), s # << >>, IsInjective(s)
  PROVE  /\ Head(s) \in S /\ Head(s) \in ToSet(s)
         /\ Tail(s) \in Seq(S) /\ IsInjective(Tail(s))
         /\ ToSet(Tail(s)) = ToSet(s) \ { Head(s) }
<1>1. /\ Len(s) \in Nat \ {0} /\ Head(s) = s[1] /\ Tail(s) \in Seq(S)
      /\ Len(Tail(s)) = Len(s) - 1
      /\ \A i \in 1..(Len(s) - 1) : Tail(s)[i] = s[i + 1]
  OBVIOUS
<1>2. \A i, j \in 1..Len(s) : s[i] = s[j] => i = j
  BY DEF IsInjective
<1>3. IsInjective(Tail(s))
  BY <1>1, <1>2 DEF IsInjective
<1>4. ToSet(Tail(s)) = ToSet(s) \ { Head(s) }
  <2>1. ASSUME NEW x \in ToSet(Tail(s)) PROVE x \in ToSet(s) \ { Head(s) }
    BY <1>1, <1>2 DEF ToSet
  <2>2. ASSUME NEW x \in ToSet(s) \ { Head(s) } PROVE x \in ToSet(Tail(s))
    <3>1. PICK i \in 1..Len(s) : x = s[i]
      BY DEF ToSet
    <3>2. i # 1 /\ i - 1 \in 1..(Len(s) - 1) /\ x = Tail(s)[i - 1]
      BY <1>1, <3>1
    <3>3. DOMAIN Tail(s) = 1..(Len(s) - 1)
      BY <1>1
    <3>4. QED
      BY <3>2, <3>3 DEF ToSet
  <2>3. QED
    BY <2>1, <2>2
<1>5. QED
  BY <1>1, <1>3, <1>4 DEF ToSet

LEMMA ShortLists ==
  /\ ToSet(<< >>) = {} /\ IsInjective(<< >>)
  /\ \A a : ToSet(<< a >>) = { a } /\ IsInjective(<< a >>) /\ << a >> # << >>
  BY DEF ToSet, IsInjective

LEMMA Plans ==
  ASSUME NEW m \in Missions
  PROVE  /\ Plan[m] \in Seq(Actions) /\ Plan[m] # << >> /\ IsInjective(Plan[m])
         /\ ToSet(Plan[m]) \subseteq Actions
         /\ \A n \in Missions : m # n => ToSet(Plan[m]) \cap ToSet(Plan[n]) = {}
  BY PipelineAssumption DEF Actions

LEMMA OldestAreMembers ==
  ASSUME NEW n, NEW S
  PROVE  oldest(n, S) \subseteq S
  BY DEF oldest

LEMMA NewestHaveRows ==
  ASSUME TypeOK, RowInv
  PROVE  newest \subseteq Actions /\ \A a \in newest : row[a] # None
  BY DEF TypeOK, RowInv, newest

\* what has left the part of the rows that a start loads does not come back
LEMMA NewestMovesOn ==
  ASSUME created \in Seq(Actions), NEW a \in Actions, created' = Append(created, a)
  PROVE  newest' \subseteq newest \cup { a }
<1>1. /\ Len(created') = Len(created) + 1
      /\ \A i \in 1..Len(created) : created'[i] = created[i]
      /\ created'[Len(created) + 1] = a
  OBVIOUS
<1>2. DOMAIN created = 1..Len(created) /\ DOMAIN created' = 1..(Len(created) + 1)
  BY <1>1
<1>3. ASSUME NEW i \in DOMAIN created', i > Len(created') - _LOAD_LIMIT
      PROVE  created'[i] \in newest \cup { a }
  BY <1>1, <1>2, <1>3, PipelineAssumption DEF newest
<1>4. QED
  BY <1>3 DEF newest

-----------------------------------------------------------------------------
(* The steps that change only what the handler is doing *)

\* a record of everything the handlers' own bookkeeping does not touch
Others == << status, queued, created, row, missionVars, workerVars, runs, crashes >>

LEMMA OthersKept ==
  ASSUME Inv, UNCHANGED Others
  PROVE  /\ newest' = newest /\ \A m : made(m)' = made(m)
         /\ \A a : Settled(a)' = Settled(a) /\ Stopped(a)' = Stopped(a)
         /\ QueueInv' /\ MissionInv' /\ WorkerInv'
<1>1. newest' = newest /\ \A m : made(m)' = made(m)
  BY DEF Others, newest, made
<1>2. \A a : Settled(a)' = Settled(a)
  BY DEF Others, Settled
<1>3. \A a : Stopped(a)' = Stopped(a)
  BY <1>1, <1>2 DEF Stopped
<1>4. QueueInv' /\ MissionInv'
  BY <1>1, <1>3 DEF Others, missionVars, Inv, QueueInv, MissionInv
<1>5. WorkerInv'
  BY DEF Others, workerVars, Inv, WorkerInv, Underway
<1>6. QED
  BY <1>1, <1>2, <1>3, <1>4, <1>5

LEMMA BeginStep ==
  ASSUME Inv,
         NEW verb \in { "enqueue", "approve", "reject" },
         NEW actions \in Seq(Actions), IsInjective(actions),
         NEW m \in Missions \cup {None},
         Begins(verb, actions, m), UNCHANGED Others,
         verb = "enqueue" => /\ m # None /\ actions # << >>
                             /\ \A a \in ToSet(Plan[m]) : a \in ToSet(actions) /\ row[a] = None,
         verb = "approve" => m = None,
         m # None => /\ ToSet(actions) \subseteq ToSet(Plan[m])
                     /\ verb = "enqueue" => mission[m] = "none"
                     /\ verb = "reject" => made(m) \subseteq ToSet(actions)
  PROVE  Inv'
<1>1. doing = "idle" /\ doing' = verb /\ todo' = actions /\ where' = "look"
      /\ target' = m
  BY DEF Begins
<1>2. /\ UNCHANGED << status, queued, created, row, mission, cancelled, batch,
                      current, at, verdict, runs, crashes >>
      /\ newest' = newest /\ \A n : made(n)' = made(n)
      /\ \A a : Settled(a)' = Settled(a)
      /\ QueueInv' /\ MissionInv' /\ WorkerInv'
  BY OthersKept DEF Others, missionVars, workerVars
<1>3. TypeOK'
  BY <1>1, <1>2 DEF Inv, TypeOK
<1>4. HandlerInv'
  BY <1>1, <1>2 DEF HandlerInv
<1>5. EnqueueInv' /\ ApproveInv' /\ RejectInv' /\ HeadInv'
  BY <1>1, <1>2 DEF EnqueueInv, ApproveInv, RejectInv, HeadInv
<1>6. RowInv'
  BY <1>1, <1>2 DEF Inv, RowInv, Pending, At
<1>7. QED
  BY <1>2, <1>3, <1>4, <1>5, <1>6 DEF Inv

LEMMA MissionRouteBegins ==
  ASSUME Inv, NEW m \in Missions, Submit(m) \/ RejectMission(m)
  PROVE  Inv'
<1>1. UNCHANGED Others
  BY DEF Submit, RejectMission, Others
<1>2. CASE Submit(m)
  <2>1. \A b \in ToSet(Plan[m]) : row[b] = None
    BY <1>2 DEF Submit, made
  <2>2. /\ Begins("enqueue", Plan[m], m) /\ mission[m] = "none"
        /\ Plan[m] \in Seq(Actions) /\ IsInjective(Plan[m]) /\ Plan[m] # << >>
        /\ m # None
    BY <1>2, Plans, PipelineAssumption DEF Submit
  <2>3. QED
    BY <1>1, <2>1, <2>2, BeginStep
<1>3. CASE RejectMission(m)
  <2>1. /\ action_ids(m) \in Seq(Actions) /\ IsInjective(action_ids(m))
        /\ ToSet(action_ids(m)) \subseteq ToSet(Plan[m])
        /\ made(m) \subseteq ToSet(action_ids(m))
    BY Plans, ShortLists DEF action_ids, made
  <2>2. QED
    BY <1>1, <1>3, <2>1, BeginStep DEF RejectMission
<1>4. QED
  BY <1>2, <1>3

LEMMA TaskRouteBegins ==
  ASSUME Inv, NEW a \in Actions, ApproveTask(a) \/ RejectTask(a)
  PROVE  Inv'
<1>1. UNCHANGED Others
  BY DEF ApproveTask, RejectTask, Others
<1>2. << a >> \in Seq(Actions) /\ IsInjective(<< a >>)
  BY ShortLists
<1>3. QED
  BY <1>1, <1>2, BeginStep DEF ApproveTask, RejectTask

LEMMA PassStep ==
  ASSUME Inv, NEW verb \in { "approve", "reject" }, Passes(verb)
  PROVE  Inv'
<1>0. PICK a \in Actions : a = Head(todo)
  BY TailFacts DEF Passes, At, Inv, TypeOK, HandlerInv
<1>1. /\ doing = verb /\ todo # << >> /\ where = "look"
      /\ todo' = Tail(todo) /\ UNCHANGED << doing, where, target >>
      /\ \/ a \notin queued
         \/ verb = "approve" /\ status[a] # "PENDING"
         \/ verb = "reject" /\ status[a] \in Done
  BY <1>0 DEF Passes, Advances, At, Statuses
<1>2. UNCHANGED Others
  BY DEF Passes, Others
<1>3. /\ UNCHANGED << status, queued, created, row, mission, cancelled, batch,
                      current, at, verdict, runs, crashes >>
      /\ newest' = newest /\ \A n : made(n)' = made(n)
      /\ \A b : Settled(b)' = Settled(b) /\ Stopped(b)' = Stopped(b)
      /\ QueueInv' /\ MissionInv' /\ WorkerInv'
  BY <1>2, OthersKept DEF Others, missionVars, workerVars
<1>4. /\ a \in ToSet(todo) /\ todo' \in Seq(Actions) /\ IsInjective(todo')
      /\ ToSet(todo') = ToSet(todo) \ { a }
  BY <1>0, <1>1, TailFacts DEF Inv, TypeOK, HandlerInv
<1>5. TypeOK'
  BY <1>1, <1>3, <1>4 DEF Inv, TypeOK
<1>6. HandlerInv'
  BY <1>1, <1>3, <1>4 DEF Inv, HandlerInv
<1>7. EnqueueInv' /\ HeadInv'
  BY <1>1 DEF EnqueueInv, HeadInv
<1>8. ApproveInv'
  <2>1. verb = "approve" /\ target # None => a \in ToSet(Plan[target])
    BY <1>1, <1>4 DEF Inv, HandlerInv
  <2>2. ~(verb = "approve" /\ target # None)
    BY <1>1, <1>4, <2>1 DEF Inv, ApproveInv, Pending, At, QueueInv
  <2>3. QED
    BY <1>1, <2>2 DEF ApproveInv
<1>9. RejectInv'
  <2>1. verb = "reject" /\ row[a] # None => Stopped(a)
    BY <1>1, <1>4 DEF Inv, QueueInv, RowInv, Stopped, Pending, At
  <2>2. target # None => \A b \in made(target) : row[b] # None
    BY DEF made
  <2>3. QED
    BY <1>1, <1>3, <1>4, <2>1, <2>2 DEF Inv, RejectInv
<1>10. RowInv'
  BY <1>1, <1>3 DEF Inv, RowInv, Pending, At
<1>11. QED
  BY <1>3, <1>5, <1>6, <1>7, <1>8, <1>9, <1>10 DEF Inv

LEMMA LookStep ==
  ASSUME Inv, LooksToReject
  PROVE  Inv'
<1>1. /\ doing = "reject" /\ todo # << >> /\ where = "look" /\ Head(todo) \in queued
      /\ where' = "set" /\ UNCHANGED << doing, todo, target >>
  BY DEF LooksToReject, GoesTo, At
<1>2. UNCHANGED Others
  BY DEF LooksToReject, Others
<1>3. /\ UNCHANGED << status, queued, created, row, mission, cancelled, batch,
                      current, at, verdict, runs, crashes >>
      /\ newest' = newest /\ \A n : made(n)' = made(n)
      /\ \A b : Settled(b)' = Settled(b) /\ Stopped(b)' = Stopped(b)
      /\ QueueInv' /\ MissionInv' /\ WorkerInv'
  BY <1>2, OthersKept DEF Others, missionVars, workerVars
<1>4. TypeOK'
  BY <1>1, <1>3 DEF Inv, TypeOK
<1>5. HandlerInv' /\ EnqueueInv' /\ ApproveInv' /\ RejectInv'
  BY <1>1, <1>3 DEF Inv, HandlerInv, EnqueueInv, ApproveInv, RejectInv
<1>6. HeadInv'
  BY <1>1, <1>3 DEF Inv, TypeOK, HeadInv
<1>7. RowInv'
  BY <1>1, <1>3 DEF Inv, RowInv, Pending, At
<1>8. QED
  BY <1>3, <1>4, <1>5, <1>6, <1>7 DEF Inv

-----------------------------------------------------------------------------
(* The steps that change the status of a mission *)

LEMMA MissionStep ==
  ASSUME Inv, NEW m \in Missions,
         NEW s \in { "AWAITING_APPROVAL", "APPROVED", "DONE", "REJECTED" },
         mission' = [mission EXCEPT ![m] = s],
         cancelled' \in { cancelled, cancelled \cup {m} },
         UNCHANGED << status, queued, created, row, workerVars, runs, crashes >>,
         \/ UNCHANGED loopVars
         \/ /\ doing' = "idle" /\ target' = None /\ todo = << >>
            /\ UNCHANGED << todo, where >>,
         target' = m => doing \notin { "enqueue", "approve" },
         s = "AWAITING_APPROVAL" => made(m) = {},
         s = "APPROVED" => \A a \in made(m) : row[a] # "PENDING",
         s = "REJECTED" /\ m \notin cancelled' => \A a \in made(m) : Stopped(a)
  PROVE  Inv'
<1>1. /\ UNCHANGED << status, queued, created, row, batch, current, at, verdict,
                      todo, where, runs, crashes >>
      /\ \/ UNCHANGED << doing, target >>
         \/ doing' = "idle" /\ target' = None /\ todo = << >>
  BY DEF workerVars, loopVars
<1>2. newest' = newest /\ \A n : made(n)' = made(n)
  BY <1>1 DEF newest, made
<1>3. \A a : Settled(a)' = Settled(a) /\ Stopped(a)' = Stopped(a)
  BY <1>1, <1>2 DEF Settled, Stopped
<1>4. TypeOK'
  BY <1>1, PipelineAssumption DEF Inv, TypeOK
<1>5. HandlerInv'
  BY <1>1 DEF Inv, TypeOK, HandlerInv
<1>6. EnqueueInv' /\ ApproveInv' /\ RejectInv' /\ HeadInv'
  BY <1>1, <1>2, <1>3
  DEF Inv, EnqueueInv, ApproveInv, RejectInv, HeadInv, HandlerInv, Pending, At
<1>7. RowInv' /\ QueueInv'
  BY <1>1, <1>2, <1>3 DEF Inv, RowInv, QueueInv, Pending, At
<1>8. MissionInv'
  BY <1>1, <1>2, <1>3 DEF Inv, TypeOK, MissionInv
<1>9. WorkerInv'
  BY <1>1 DEF Inv, WorkerInv, Underway
<1>10. QED
  BY <1>4, <1>5, <1>6, <1>7, <1>8, <1>9 DEF Inv

LEMMA RoutesDecide ==
  ASSUME Inv, NEW m \in Missions,
         SubmitWaits(m) \/ ApproveMission(m) \/ Complete(m) \/ Cancel(m)
  PROVE  Inv'
<1>1. CASE SubmitWaits(m)
  BY <1>1, PipelineAssumption, MissionStep
  DEF SubmitWaits, Inv, HandlerInv, loopVars
<1>2. CASE ApproveMission(m)
  <2>1. made(m) = {}
    BY <1>2 DEF ApproveMission, Inv, MissionInv
  <2>2. QED
    BY <1>2, <2>1, PipelineAssumption, MissionStep
    DEF ApproveMission, Inv, HandlerInv, loopVars
<1>3. CASE Complete(m)
  BY <1>3, PipelineAssumption, MissionStep DEF Complete, Inv, HandlerInv, loopVars
<1>4. CASE Cancel(m)
  <2>1. target' = m => doing \notin { "enqueue", "approve" }
    BY <1>4, PipelineAssumption DEF Cancel, Inv, HandlerInv, loopVars
  <2>2. m \in cancelled'
    BY <1>4 DEF Cancel
  <2>3. QED
    BY <1>4, <2>1, <2>2, MissionStep DEF Cancel
<1>5. QED
  BY <1>1, <1>2, <1>3, <1>4

LEMMA FinishStep ==
  ASSUME Inv, Finishes
  PROVE  Inv'
<1>1. /\ todo = << >> /\ doing # "idle" /\ doing' = "idle" /\ target' = None
      /\ UNCHANGED << status, queued, created, row, cancelled, todo, where,
                      workerVars, runs, crashes >>
  BY DEF Finishes
<1>2. CASE target = None
  <2>1. UNCHANGED << mission, target >>
    BY <1>1, <1>2 DEF Finishes
  <2>2. where = "look" /\ doing # "enqueue"
    BY <1>1 DEF Inv, TypeOK, HandlerInv
  <2>3. UNCHANGED Others
    BY <1>1, <2>1 DEF Others, missionVars
  <2>4. /\ UNCHANGED << status, queued, created, row, mission, cancelled, batch,
                        current, at, verdict, runs, crashes >>
        /\ newest' = newest
        /\ \A b : Settled(b)' = Settled(b)
        /\ QueueInv' /\ MissionInv' /\ WorkerInv'
    BY <2>3, OthersKept DEF Others, missionVars, workerVars
  <2>5. TypeOK' /\ HandlerInv'
    BY <1>1, <1>2, <2>4 DEF Inv, TypeOK, HandlerInv
  <2>6. EnqueueInv' /\ ApproveInv' /\ RejectInv' /\ HeadInv'
    BY <1>1, <2>2 DEF EnqueueInv, ApproveInv, RejectInv, HeadInv
  <2>7. RowInv'
    BY <1>1, <2>4 DEF Inv, RowInv, Pending, At
  <2>8. QED
    BY <2>4, <2>5, <2>6, <2>7 DEF Inv
<1>3. CASE target # None
  <2> DEFINE s == IF doing = "approve" THEN "APPROVED" ELSE "REJECTED"
  <2>1. target \in Missions /\ mission' = [mission EXCEPT ![target] = s]
    BY <1>3 DEF Inv, TypeOK, Finishes
  <2>2. ToSet(todo) = {} /\ doing \in { "approve", "reject" }
    BY <1>1, ShortLists DEF Inv, TypeOK, HandlerInv
  <2>3. made(target) \subseteq ToSet(Plan[target])
    BY DEF made
  <2>4. doing = "approve" => \A a \in made(target) : row[a] # "PENDING"
    BY <1>3, <2>2, <2>3 DEF Inv, ApproveInv
  <2>5. doing = "reject" => \A a \in made(target) : Stopped(a)
    BY <1>3, <2>2 DEF Inv, RejectInv
  <2>6. target # target'
    BY <1>1, <1>3
  <2> HIDE DEF s
  <2>7. /\ s \in { "APPROVED", "REJECTED" }
        /\ s = "APPROVED" => \A a \in made(target) : row[a] # "PENDING"
        /\ s = "REJECTED" => \A a \in made(target) : Stopped(a)
    BY <2>2, <2>4, <2>5 DEF s
  <2>8. QED
    BY <1>1, <2>1, <2>6, <2>7, MissionStep
<1>4. QED
  BY <1>2, <1>3

-----------------------------------------------------------------------------
(* The steps that change an action *)

LEMMA RotateDropsDone ==
  ASSUME NEW q
  PROVE  /\ rotate(q) \subseteq q
         /\ \A a \in q : status[a] \notin Done => a \in rotate(q)
<1>1. oldest(_ROTATED, { a \in q : status[a] \in Done }) \subseteq
        { a \in q : status[a] \in Done }
  BY OldestAreMembers
<1>2. QED
  BY <1>1 DEF rotate

LEMMA EnqueueStep ==
  ASSUME Inv, Enqueue
  PROVE  Inv'
<1>0. PICK a \in Actions : a = Head(todo)
  BY TailFacts DEF Enqueue, At, Inv, TypeOK, HandlerInv
<1>1. /\ doing = "enqueue" /\ todo # << >> /\ where = "look" /\ where' = "look"
      /\ target \in Missions /\ target' = target /\ mission[target] = "none"
      /\ IsInjective(todo) /\ todo \in Seq(Actions)
      /\ ToSet(todo) \subseteq ToSet(Plan[target])
  BY DEF Enqueue, At, Advances, Inv, HandlerInv, TypeOK
<1>2. /\ a \in ToSet(todo) /\ a \in ToSet(Plan[target])
      /\ Tail(todo) \in Seq(Actions) /\ IsInjective(Tail(todo))
      /\ ToSet(Tail(todo)) = ToSet(todo) \ { a }
  BY <1>0, <1>1, TailFacts
<1>3. row[a] = None /\ status[a] = None
  BY <1>1, <1>2 DEF Inv, EnqueueInv, RowInv
<1>4. /\ status' = [status EXCEPT ![a] = "PENDING"]
      /\ row' = [row EXCEPT ![a] = "PENDING"]
      /\ created' = Append(created, a)
      /\ queued' = rotate(queued \cup { a })
      /\ UNCHANGED << mission, cancelled, batch, current, at, verdict, runs, crashes >>
      /\ \/ Tail(todo) = << >> /\ doing' = "approve" /\ todo' = Plan[target]
         \/ Tail(todo) # << >> /\ doing' = doing /\ todo' = Tail(todo)
  BY <1>0 DEF Enqueue, Advances, missionVars, workerVars
<1>5. None \notin Statuses /\ "PENDING" \notin Done /\ "PENDING" \in Statuses
  BY PipelineAssumption DEF Statuses, Done
<1>6. newest' \subseteq newest \cup { a }
  BY <1>2, <1>4, NewestMovesOn DEF Inv, TypeOK
<1>7. /\ a \in queued' /\ queued' \subseteq queued \cup { a }
      /\ \A b \in queued : status[b] \notin Done => b \in queued'
  BY <1>3, <1>4, <1>5, PipelineAssumption, RotateDropsDone DEF Statuses
<1>8. \A b \in Actions : b # a =>
        /\ status'[b] = status[b] /\ row'[b] = row[b]
        /\ Settled(b)' = Settled(b) /\ (row[b] # None /\ Stopped(b) => Stopped(b)')
  BY <1>4, <1>6 DEF Inv, TypeOK, Settled, Stopped
<1>9. status'[a] = "PENDING" /\ row'[a] = "PENDING"
  BY <1>2, <1>4 DEF Inv, TypeOK
<1>10. TypeOK'
  <2>1. created' \in Seq(Actions) /\ IsInjective(created')
    <3>1. created \in Seq(Actions) /\ \A i \in 1..Len(created) : created[i] # a
      BY <1>3 DEF Inv, TypeOK, RowInv
    <3>2. \A i, j \in 1..Len(created) : created[i] = created[j] => i = j
      BY DEF Inv, TypeOK, IsInjective
    <3>3. /\ created' \in Seq(Actions) /\ DOMAIN created' = 1..(Len(created) + 1)
          /\ \A i \in 1..Len(created) : created'[i] = created[i]
          /\ created'[Len(created) + 1] = a
      BY <1>2, <1>4, <3>1
    <3>4. IsInjective(created')
      BY <3>1, <3>2, <3>3 DEF IsInjective
    <3>5. QED
      BY <3>3, <3>4
  <2>2. status' \in [Actions -> Statuses \cup {None}]
        /\ row' \in [Actions -> Statuses \cup {None}]
    BY <1>4, <1>5 DEF Inv, TypeOK
  <2>3. queued' \subseteq { b \in Actions : status'[b] # None }
    BY <1>2, <1>5, <1>7, <1>8, <1>9 DEF Inv, TypeOK
  <2>4. todo' \in Seq(Actions)
    BY <1>1, <1>2, <1>4, Plans
  <2>5. QED
    BY <1>1, <1>4, <2>1, <2>2, <2>3, <2>4 DEF Inv, TypeOK
<1>11. HandlerInv'
  BY <1>1, <1>2, <1>4, Plans, PipelineAssumption DEF Inv, HandlerInv
<1>12. EnqueueInv'
  BY <1>1, <1>2, <1>4, <1>8, <1>9, Plans DEF Inv, EnqueueInv
<1>13. ApproveInv'
  BY <1>1, <1>2, <1>4, <1>8, <1>9, Plans, ShortLists DEF Inv, EnqueueInv, ApproveInv
<1>14. RejectInv' /\ HeadInv'
  BY <1>1, <1>4 DEF RejectInv, HeadInv
<1>15. RowInv'
  <2>1. \A i \in DOMAIN created' : row'[created'[i]] # None
    <3>1. /\ DOMAIN created' = 1..(Len(created) + 1) /\ created \in Seq(Actions)
          /\ \A i \in 1..Len(created) : created'[i] = created[i]
          /\ created'[Len(created) + 1] = a
      BY <1>2, <1>4 DEF Inv, TypeOK
    <3>2. \A i \in 1..Len(created) : created[i] \in Actions /\ row[created[i]] # None
      BY <3>1 DEF Inv, RowInv
    <3>3. QED
      BY <1>5, <1>8, <1>9, <3>1, <3>2
  <2>2. QED
    BY <1>1, <1>4, <1>5, <1>8, <1>9, <2>1, PipelineAssumption
    DEF Inv, RowInv, Pending, At, Statuses
<1>16. QueueInv'
  <2>1. ASSUME NEW b \in Actions, b \notin queued', row'[b] # None PROVE Stopped(b)'
    <3>1. b # a /\ row[b] # None
      BY <1>7, <1>8, <2>1
    <3>2. CASE b \notin queued
      BY <1>8, <2>1, <3>1, <3>2 DEF Inv, QueueInv
    <3>3. CASE b \in queued
      BY <1>1, <1>7, <1>8, <2>1, <3>1, <3>3 DEF Inv, RowInv, Pending, At, Stopped
    <3>4. QED
      BY <3>2, <3>3
  <2>2. QED
    BY <1>7, <1>8, <2>1 DEF Inv, QueueInv, Done
<1>17. MissionInv'
  <2>1. ASSUME NEW m \in Missions, m # target, NEW b \in made(m)'
        PROVE  b \in made(m) /\ b # a /\ row'[b] = row[b] /\ (Stopped(b) => Stopped(b)')
    BY <1>2, <1>8, <1>1, <2>1, Plans DEF made
  <2>2. QED
    BY <1>1, <1>4, <2>1 DEF Inv, MissionInv
<1>18. WorkerInv'
  BY <1>3, <1>4, <1>5, <1>8, <1>9, PipelineAssumption
  DEF Inv, TypeOK, WorkerInv, Underway, Statuses
<1>19. QED
  BY <1>10, <1>11, <1>12, <1>13, <1>14, <1>15, <1>16, <1>17, <1>18 DEF Inv

LEMMA ApproveStep ==
  ASSUME Inv, Approves
  PROVE  Inv'
<1>0. PICK a \in Actions : a = Head(todo)
  BY TailFacts DEF Approves, At, Inv, TypeOK, HandlerInv
<1>1. /\ doing = "approve" /\ todo # << >> /\ where = "look" /\ where' = "row"
      /\ UNCHANGED << doing, todo, target >>
      /\ a \in queued /\ status[a] = "PENDING"
      /\ status' = [status EXCEPT ![a] = "APPROVED"]
      /\ UNCHANGED << queued, created, row, mission, cancelled, batch, current, at,
                      verdict, runs, crashes >>
  BY <1>0 DEF Approves, GoesTo, At, missionVars, workerVars
<1>2. a \in ToSet(todo)
  BY <1>0, <1>1, TailFacts DEF Inv, TypeOK, HandlerInv
<1>3. newest' = newest /\ \A n : made(n)' = made(n)
  BY <1>1 DEF newest, made
<1>4. \A b : Settled(b)' = Settled(b) /\ Stopped(b)' = Stopped(b)
  BY <1>1, <1>3 DEF Settled, Stopped
<1>5. \A b \in Actions : b # a => status'[b] = status[b]
  BY <1>1 DEF Inv, TypeOK
<1>6. status'[a] = "APPROVED"
  BY <1>1, <1>2 DEF Inv, TypeOK
<1>7. ~Pending("reject", a)' /\ \A b : ~Pending("reject", b) /\ ~Pending("reject", b)'
  BY <1>1 DEF Pending, At
<1>8. TypeOK'
  BY <1>1, <1>2, <1>5, <1>6, PipelineAssumption DEF Inv, TypeOK, Statuses
<1>9. HandlerInv'
  BY <1>1 DEF Inv, HandlerInv
<1>10. EnqueueInv' /\ RejectInv'
  BY <1>1 DEF EnqueueInv, RejectInv
<1>11. ApproveInv'
  <2>1. target # None => ToSet(Plan[target]) \subseteq Actions
    BY Plans DEF Inv, TypeOK
  <2>2. \A b : ~Pending("approve", b)
    BY <1>1 DEF Pending, At
  <2>3. Pending("approve", a)'
    BY <1>0, <1>1 DEF Pending, At
  <2>4. QED
    BY <1>1, <1>2, <1>5, <2>1, <2>2, <2>3 DEF Inv, ApproveInv
<1>12. HeadInv'
  BY <1>0, <1>1, <1>6, PipelineAssumption DEF HeadInv, Statuses
<1>13. RowInv'
  BY <1>1, <1>2, <1>4, <1>5, <1>6, <1>7, PipelineAssumption
  DEF Inv, RowInv, Statuses, Done
<1>14. QueueInv' /\ MissionInv'
  BY <1>1, <1>3, <1>4, <1>5, <1>6 DEF Inv, QueueInv, MissionInv
<1>15. WorkerInv'
  BY <1>1, <1>2, <1>5, <1>6 DEF Inv, TypeOK, WorkerInv, Underway, Done
<1>16. QED
  BY <1>8, <1>9, <1>10, <1>11, <1>12, <1>13, <1>14, <1>15 DEF Inv

LEMMA RejectStep ==
  ASSUME Inv, Rejects
  PROVE  Inv'
<1>0. PICK a \in Actions : a = Head(todo)
  BY TailFacts DEF Rejects, At, Inv, TypeOK, HandlerInv
<1>1. /\ doing = "reject" /\ todo # << >> /\ where = "set" /\ where' = "row"
      /\ UNCHANGED << doing, todo, target >>
      /\ status' = [status EXCEPT ![a] = "REJECTED"]
      /\ UNCHANGED << queued, created, row, mission, cancelled, batch, current, at,
                      verdict, runs, crashes >>
  BY <1>0 DEF Rejects, GoesTo, At, missionVars, workerVars
<1>2. status[a] # None
  BY <1>0, <1>1 DEF Inv, HeadInv
<1>3. newest' = newest /\ \A n : made(n)' = made(n)
  BY <1>1 DEF newest, made
<1>4. \A b : Settled(b)' = Settled(b) /\ Stopped(b)' = Stopped(b)
  BY <1>1, <1>3 DEF Settled, Stopped
<1>5. \A b \in Actions : b # a => status'[b] = status[b]
  BY <1>1 DEF Inv, TypeOK
<1>6. status'[a] = "REJECTED"
  BY <1>1, <1>2 DEF Inv, TypeOK
<1>7. Pending("reject", a)' /\ \A b : ~Pending("reject", b)
  BY <1>0, <1>1 DEF Pending, At
<1>8. \A b \in batch : b \in Actions
  BY DEF Inv, TypeOK
<1>9. TypeOK'
  BY <1>1, <1>2, <1>5, <1>6, PipelineAssumption DEF Inv, TypeOK, Statuses, Done
<1>10. HandlerInv' /\ EnqueueInv' /\ ApproveInv' /\ RejectInv'
  BY <1>1, <1>3, <1>4 DEF Inv, HandlerInv, EnqueueInv, ApproveInv, RejectInv
<1>11. HeadInv'
  BY <1>0, <1>1, <1>6, PipelineAssumption DEF HeadInv, Statuses, Done
<1>12. RowInv'
  BY <1>1, <1>2, <1>4, <1>5, <1>6, <1>7 DEF Inv, RowInv
<1>13. QueueInv' /\ MissionInv'
  BY <1>1, <1>3, <1>4, <1>5, <1>6 DEF Inv, QueueInv, MissionInv
<1>14. WorkerInv'
  <2>1. at = "row" => status'[current] \in Done
    BY <1>1, <1>2, <1>5, <1>6, <1>8 DEF Inv, WorkerInv, Done
  <2>2. \A b \in batch : status'[b] \in { "APPROVED" } \cup Done
    BY <1>5, <1>6, <1>8 DEF Inv, WorkerInv, Done
  <2>3. \A b \in Actions : status'[b] \notin Done => status[b] \notin Done
    BY <1>2, <1>5, <1>6 DEF Done
  <2>4. QED
    BY <1>1, <2>1, <2>2, <2>3 DEF Inv, WorkerInv, Underway
<1>15. QED
  BY <1>9, <1>10, <1>11, <1>12, <1>13, <1>14 DEF Inv

LEMMA UpdateStep ==
  ASSUME Inv, LoopUpdates
  PROVE  Inv'
<1>0. PICK a \in Actions : a = Head(todo)
  BY TailFacts DEF LoopUpdates, Inv, TypeOK, HandlerInv
<1>1. /\ doing \in { "approve", "reject" } /\ todo # << >> /\ where = "row"
      /\ where' = "look" /\ todo' = Tail(todo) /\ UNCHANGED << doing, target >>
      /\ UNCHANGED << status, queued, created, mission, cancelled, batch, current, at,
                      verdict, runs, crashes >>
  BY DEF LoopUpdates, Advances, missionVars, workerVars
<1>2. PICK value \in { IF doing = "approve" THEN "APPROVED" ELSE "REJECTED",
                       status[a] } :
        row' = [row EXCEPT ![a] = value]
  BY <1>0 DEF LoopUpdates, Updates
<1>3. /\ a \in ToSet(todo)
      /\ Tail(todo) \in Seq(Actions) /\ IsInjective(Tail(todo))
      /\ ToSet(Tail(todo)) = ToSet(todo) \ { a }
  BY <1>0, <1>1, TailFacts DEF Inv, TypeOK, HandlerInv
<1>4. /\ status[a] # None
      /\ doing = "approve" =>
           status[a] = "APPROVED" \/ (status[a] \in Done /\ runs[a] > 0)
      /\ doing = "reject" => status[a] \in Done
  BY <1>0, <1>1 DEF Inv, HeadInv
<1>5. /\ doing = "approve" => value \in { "APPROVED" } \cup Done
      /\ doing = "reject" => value \in Done
      /\ status[a] \in Done => value \in Done \/ runs[a] > 0
      /\ value \in Statuses /\ value # None /\ value # "PENDING"
      /\ status[a] = "APPROVED" => value = "APPROVED"
  BY <1>1, <1>2, <1>4, PipelineAssumption DEF Statuses, Done
<1>6. row'[a] = value /\ \A b \in Actions : b # a => row'[b] = row[b]
  BY <1>2, <1>3 DEF Inv, TypeOK
<1>7. row[a] # None
  BY <1>3, <1>4 DEF Inv, RowInv
<1>8. newest' = newest /\ \A n : made(n)' = made(n)
  <2>1. newest' = newest
    BY <1>1 DEF newest
  <2>2. \A n, b : row'[b] # None <=> row[b] # None
    BY <1>2, <1>3, <1>5, <1>7 DEF Inv, TypeOK
  <2>3. QED
    BY <2>1, <2>2 DEF made
<1>9. \A b \in Actions : /\ Settled(b) => Settled(b)'
                         /\ Stopped(b) => Stopped(b)'
  <2>1. row[a] \in Done => value \in Done \/ runs[a] > 0
    BY <1>1, <1>3, <1>4, <1>5 DEF Inv, RowInv, Done
  <2>2. \A b \in Actions : Settled(b) => Settled(b)'
    BY <1>1, <1>6, <2>1 DEF Settled
  <2>3. QED
    BY <1>8, <2>2 DEF Stopped
<1>10. status[a] \in Done => Settled(a)'
  BY <1>1, <1>5, <1>6 DEF Settled
<1>11. TypeOK'
  BY <1>1, <1>2, <1>3, <1>5 DEF Inv, TypeOK
<1>12. HandlerInv'
  BY <1>1, <1>3 DEF Inv, HandlerInv
<1>13. EnqueueInv' /\ HeadInv'
  BY <1>1 DEF EnqueueInv, HeadInv
<1>14. ApproveInv'
  <2>1. \A b : Pending("approve", b) => b = a
    BY <1>0 DEF Pending
  <2>2. target # None => ToSet(Plan[target]) \subseteq Actions
    BY Plans DEF Inv, TypeOK
  <2>3. QED
    BY <1>1, <1>3, <1>5, <1>6, <2>1, <2>2 DEF Inv, ApproveInv
<1>15. RejectInv'
  <2>1. doing = "reject" => Stopped(a)'
    BY <1>4, <1>10 DEF Stopped
  <2>2. target # None => made(target) \subseteq Actions
    BY Plans DEF Inv, TypeOK, made
  <2>3. QED
    BY <1>1, <1>3, <1>8, <1>9, <2>1, <2>2 DEF Inv, RejectInv
<1>16. RowInv'
  <2>1. \A i \in DOMAIN created : created[i] \in Actions /\ row[created[i]] # None
    BY DEF Inv, TypeOK, RowInv
  <2>2. \A b \in Actions : row'[b] = None => row[b] = None
    BY <1>5, <1>6
  <2>3. \A b : Pending("reject", b) => b = a
    BY <1>0 DEF Pending
  <2>4. status[a] # "PENDING"
    BY <1>1, <1>4 DEF Done
  <2>5. QED
    BY <1>1, <1>3, <1>5, <1>6, <1>9, <1>10, <2>1, <2>2, <2>3, <2>4 DEF Inv, RowInv
<1>17. QueueInv'
  <2>1. \A b \in Actions : row'[b] # None => row[b] # None
    BY <1>6, <1>7
  <2>2. QED
    BY <1>1, <1>9, <2>1 DEF Inv, QueueInv
<1>18. MissionInv'
  <2>1. \A m \in Missions : made(m) \subseteq Actions
    BY Plans DEF made
  <2>2. \A b \in Actions : row[b] # "PENDING" => row'[b] # "PENDING"
    BY <1>5, <1>6
  <2>3. QED
    BY <1>1, <1>8, <1>9, <2>1, <2>2 DEF Inv, MissionInv
<1>19. WorkerInv'
  BY <1>1 DEF Inv, WorkerInv, Underway
<1>20. QED
  BY <1>11, <1>12, <1>13, <1>14, <1>15, <1>16, <1>17, <1>18, <1>19 DEF Inv

-----------------------------------------------------------------------------
(* The steps of the worker *)

\* the status, the queue and the rows stay, and the runs do not become fewer
LEMMA WorkerOnly ==
  ASSUME Inv,
         UNCHANGED << status, queued, created, row, missionVars, loopVars, crashes >>,
         \A a \in Actions : runs[a] > 0 => runs'[a] > 0
  PROVE  /\ HandlerInv' /\ EnqueueInv' /\ ApproveInv' /\ RejectInv' /\ HeadInv'
         /\ RowInv' /\ QueueInv' /\ MissionInv'
<1>1. /\ UNCHANGED << status, queued, created, row, mission, cancelled, doing, todo,
                      where, target, crashes >>
      /\ newest' = newest /\ \A n : made(n)' = made(n)
      /\ \A verb, a : Pending(verb, a)' = Pending(verb, a)
  BY DEF missionVars, loopVars, newest, made, Pending, At
<1>2. \A a \in Actions : /\ Settled(a) => Settled(a)'
                         /\ Stopped(a) => Stopped(a)'
  BY <1>1 DEF Settled, Stopped
<1>3. \A m \in Missions : ToSet(Plan[m]) \subseteq Actions /\ made(m) \subseteq Actions
  BY Plans DEF made
<1>4. HandlerInv' /\ EnqueueInv' /\ ApproveInv'
  BY <1>1 DEF Inv, HandlerInv, EnqueueInv, ApproveInv
<1>5. RejectInv'
  BY <1>1, <1>2, <1>3 DEF Inv, TypeOK, RejectInv
<1>6. HeadInv'
  <2>1. where # "look" => Head(todo) \in Actions
    BY TailFacts DEF Inv, TypeOK, HandlerInv
  <2>2. QED
    BY <1>1, <2>1 DEF Inv, HeadInv
<1>7. RowInv' /\ QueueInv' /\ MissionInv'
  BY <1>1, <1>2, <1>3 DEF Inv, RowInv, QueueInv, MissionInv
<1>8. QED
  BY <1>4, <1>5, <1>6, <1>7

LEMMA PollStep ==
  ASSUME Inv, Poll
  PROVE  Inv'
<1>1. /\ at = "poll" /\ at' = "next" /\ batch' = approved /\ batch' # {}
      /\ UNCHANGED << status, queued, created, row, missionVars, loopVars, current,
                      verdict, runs, crashes >>
  BY DEF Poll
<1>2. approved \subseteq { a \in Actions : a \in queued /\ status[a] = "APPROVED" }
  BY OldestAreMembers DEF approved, Inv, TypeOK
<1>3. TypeOK'
  <2>1. current = None
    BY <1>1 DEF Inv, TypeOK, WorkerInv
  <2>2. QED
    BY <1>1, <1>2, <2>1 DEF Inv, TypeOK, missionVars, loopVars
<1>4. WorkerInv'
  BY <1>1, <1>2 DEF Inv, WorkerInv, Underway, Done
<1>5. QED
  BY <1>1, <1>3, <1>4, WorkerOnly DEF Inv

LEMMA ExecuteStep ==
  ASSUME Inv, Execute
  PROVE  Inv'
<1>1. PICK a \in oldest(1, batch) :
        current' = a /\ runs' = [runs EXCEPT ![a] = @ + 1]
  BY DEF Execute
<1>2. /\ at = "next" /\ at' = "executing"
      /\ UNCHANGED << status, queued, created, row, missionVars, loopVars, batch,
                      verdict, crashes >>
  BY DEF Execute
<1>3. a \in batch /\ a \in Actions
  BY OldestAreMembers DEF Inv, TypeOK
<1>4. /\ runs \in [Actions -> Nat] /\ runs' \in [Actions -> Nat]
      /\ runs'[a] = runs[a] + 1 /\ \A b \in Actions : b # a => runs'[b] = runs[b]
  BY <1>1, <1>3 DEF Inv, TypeOK
<1>5. TypeOK'
  BY <1>1, <1>2, <1>3, <1>4 DEF Inv, TypeOK, missionVars, loopVars
<1>6. runs[a] <= crashes /\ crashes \in Nat
  BY <1>2, <1>3, PipelineAssumption DEF Inv, TypeOK, WorkerInv, Underway
<1>7. WorkerInv'
  BY <1>1, <1>2, <1>3, <1>4, <1>6 DEF Inv, WorkerInv, Underway
<1>8. QED
  BY <1>2, <1>4, <1>5, <1>7, WorkerOnly DEF Inv

\* the worker leaves an action when it is done, and so cannot take it again
LEMMA LeaveStep ==
  ASSUME Inv, at \in { "executing", "row" }, status[current] \in Done, NextAction,
         UNCHANGED << status, runs, crashes >>
  PROVE  WorkerInv'
<1>1. /\ batch' = batch \ {current} /\ current' = None /\ verdict' = None
      /\ at' = IF batch' = {} THEN "poll" ELSE "next"
  BY DEF NextAction
<1>2. \A a \in Actions :
        (status[a] \notin Done \/ a \in batch') => a # current
  BY <1>1
<1>3. QED
  BY <1>1, <1>2 DEF Inv, WorkerInv, Underway

LEMMA LookToMarkStep ==
  ASSUME Inv, LooksToMark
  PROVE  Inv'
<1>1. /\ at = "executing" /\ current \in batch /\ current \in Actions
      /\ UNCHANGED << status, queued, created, row, missionVars, loopVars, runs,
                      crashes >>
  BY DEF LooksToMark, Inv, WorkerInv, TypeOK
<1>2. CASE current \in queued /\ status[current] = "APPROVED"
  <2>1. /\ at' = "set" /\ verdict' \in { "EXECUTED", "FAILED" }
        /\ UNCHANGED << batch, current >>
    BY <1>2 DEF LooksToMark
  <2>2. TypeOK'
    BY <1>1, <2>1 DEF Inv, TypeOK, missionVars, loopVars
  <2>3. WorkerInv'
    BY <1>1, <2>1, PipelineAssumption DEF Inv, WorkerInv, Underway, Statuses, Done
  <2>4. QED
    BY <1>1, <2>2, <2>3, WorkerOnly DEF Inv
<1>3. CASE ~(current \in queued /\ status[current] = "APPROVED")
  <2>1. NextAction
    BY <1>3 DEF LooksToMark
  <2>2. status[current] \in Done
    BY <1>1, <1>3 DEF Inv, WorkerInv, QueueInv
  <2>3. TypeOK'
    BY <1>1, <2>1 DEF Inv, TypeOK, missionVars, loopVars, NextAction
  <2>4. QED
    BY <1>1, <2>1, <2>2, <2>3, LeaveStep, WorkerOnly DEF Inv
<1>4. QED
  BY <1>2, <1>3

LEMMA MarkStep ==
  ASSUME Inv, Marks
  PROVE  Inv'
<1>0. PICK a \in Actions : a = current /\ a \in batch
  BY DEF Marks, Inv, WorkerInv, TypeOK
<1>1. /\ at = "set" /\ at' = "row"
      /\ status' = [status EXCEPT ![a] = verdict]
      /\ UNCHANGED << queued, created, row, mission, cancelled, doing, todo, where,
                      target, batch, current, verdict, runs, crashes >>
  BY <1>0 DEF Marks, missionVars, loopVars
<1>2. /\ verdict \in { "EXECUTED", "FAILED" } /\ runs[a] > 0
      /\ status[a] \in { "APPROVED" } \cup Done
  BY <1>0, <1>1 DEF Inv, TypeOK, WorkerInv
<1>3. /\ status'[a] = verdict /\ status'[a] \in Done
      /\ \A b \in Actions : b # a => status'[b] = status[b]
  BY <1>1, <1>2 DEF Inv, TypeOK, Done
<1>4. newest' = newest /\ \A n : made(n)' = made(n)
  BY <1>1 DEF newest, made
<1>5. \A b : Settled(b)' = Settled(b) /\ Stopped(b)' = Stopped(b)
  BY <1>1, <1>4 DEF Settled, Stopped
<1>6. \A verb, b : Pending(verb, b)' = Pending(verb, b)
  BY <1>1 DEF Pending, At
<1>7. status[a] # "PENDING" /\ status[a] # None
  BY <1>2, PipelineAssumption DEF Statuses, Done
<1>8. TypeOK'
  BY <1>0, <1>1, <1>2, <1>3, PipelineAssumption DEF Inv, TypeOK, Statuses, Done
<1>9. HandlerInv' /\ RejectInv'
  BY <1>1, <1>4, <1>5 DEF Inv, HandlerInv, RejectInv
<1>10. EnqueueInv' /\ ApproveInv'
  <2>1. target # None => ToSet(Plan[target]) \subseteq Actions
    BY Plans DEF Inv, TypeOK
  <2>2. QED
    BY <1>1, <1>3, <1>6, <1>7, <2>1 DEF Inv, HandlerInv, EnqueueInv, ApproveInv
<1>11. HeadInv'
  <2>1. where # "look" => Head(todo) \in Actions
    BY TailFacts DEF Inv, TypeOK, HandlerInv
  <2>2. status'[a] # None
    BY <1>3, PipelineAssumption DEF Statuses
  <2>3. QED
    BY <1>1, <1>2, <1>3, <2>1, <2>2 DEF Inv, HeadInv
<1>12. RowInv'
  <2>1. Settled(a)
    BY <1>2 DEF Settled
  <2>2. status'[a] \notin { "PENDING", "APPROVED", None } /\ row[a] # None
    BY <1>3, <1>7, PipelineAssumption DEF Inv, RowInv, Statuses, Done
  <2>3. QED
    BY <1>1, <1>3, <1>5, <1>6, <2>1, <2>2 DEF Inv, RowInv
<1>13. QueueInv' /\ MissionInv'
  <2>1. status'[a] \notin { "PENDING", "APPROVED" }
    BY <1>3 DEF Done
  <2>2. QED
    BY <1>1, <1>3, <1>4, <1>5, <2>1 DEF Inv, QueueInv, MissionInv
<1>14. WorkerInv'
  <2>1. \A b \in batch : b \in Actions
    BY DEF Inv, TypeOK
  <2>2. QED
    BY <1>0, <1>1, <1>2, <1>3, <2>1 DEF Inv, WorkerInv, Underway
<1>15. QED
  BY <1>8, <1>9, <1>10, <1>11, <1>12, <1>13, <1>14 DEF Inv

LEMMA WorkerUpdateStep ==
  ASSUME Inv, WorkerUpdates
  PROVE  Inv'
<1>0. PICK a \in Actions : a = current /\ a \in batch
  BY DEF WorkerUpdates, Inv, WorkerInv, TypeOK
<1>1. /\ at = "row" /\ NextAction
      /\ UNCHANGED << status, queued, created, mission, cancelled, doing, todo, where,
                      target, runs, crashes >>
  BY DEF WorkerUpdates, missionVars, loopVars
<1>2. /\ verdict \in { "EXECUTED", "FAILED" } /\ runs[a] > 0 /\ status[a] \in Done
  BY <1>0, <1>1 DEF Inv, TypeOK, WorkerInv
<1>3. PICK value \in Done : row' = [row EXCEPT ![a] = value]
  BY <1>0, <1>2 DEF WorkerUpdates, Updates, Done
<1>4. row'[a] \in Done /\ \A b \in Actions : b # a => row'[b] = row[b]
  BY <1>3 DEF Inv, TypeOK
<1>5. /\ "PENDING" \notin Done /\ None \notin Done /\ status[a] # None
      /\ status[a] \notin { "PENDING", "APPROVED" }
  BY <1>2, PipelineAssumption DEF Statuses, Done
<1>6. row[a] # None
  BY <1>5 DEF Inv, RowInv
<1>7. newest' = newest /\ \A n : made(n)' = made(n)
  <2>1. newest' = newest
    BY <1>1 DEF newest
  <2>2. \A n : \A b \in ToSet(Plan[n]) : row'[b] # None <=> row[b] # None
    BY <1>3, <1>5, <1>6 DEF Inv, TypeOK
  <2>3. QED
    BY <2>1, <2>2 DEF made
<1>8. \A b \in Actions : /\ Settled(b) => Settled(b)'
                         /\ Stopped(b) => Stopped(b)'
  BY <1>1, <1>2, <1>4, <1>7 DEF Settled, Stopped
<1>9. \A verb, b : Pending(verb, b)' = Pending(verb, b)
  BY <1>1 DEF Pending, At
<1>10. \A m \in Missions : ToSet(Plan[m]) \subseteq Actions /\ made(m) \subseteq Actions
  BY Plans DEF made
<1>11. TypeOK'
  BY <1>1, <1>3 DEF Inv, TypeOK, NextAction, Statuses
<1>12. HandlerInv' /\ HeadInv'
  BY <1>1 DEF Inv, HandlerInv, HeadInv
<1>13. EnqueueInv' /\ ApproveInv'
  <2>1. doing = "enqueue" => target \in Missions
    BY DEF Inv, TypeOK, HandlerInv
  <2>2. target # None => target \in Missions
    BY DEF Inv, TypeOK
  <2>3. QED
    BY <1>1, <1>4, <1>5, <1>6, <1>9, <1>10, <2>1, <2>2 DEF Inv, EnqueueInv, ApproveInv
<1>14. RejectInv'
  BY <1>1, <1>7, <1>8, <1>10 DEF Inv, TypeOK, RejectInv
<1>15. RowInv'
  <2>1. \A i \in DOMAIN created : created[i] \in Actions /\ row[created[i]] # None
    BY DEF Inv, TypeOK, RowInv
  <2>2. \A b \in Actions : row'[b] = None => row[b] = None
    BY <1>4, <1>5
  <2>3. QED
    BY <1>1, <1>4, <1>5, <1>8, <1>9, <2>1, <2>2 DEF Inv, RowInv
<1>16. QueueInv'
  <2>1. \A b \in Actions : row'[b] # None => row[b] # None
    BY <1>4, <1>6
  <2>2. QED
    BY <1>1, <1>8, <2>1 DEF Inv, QueueInv
<1>17. MissionInv'
  <2>1. \A b \in Actions : row[b] # "PENDING" => row'[b] # "PENDING"
    BY <1>4, <1>5
  <2>2. QED
    BY <1>1, <1>7, <1>8, <1>10, <2>1 DEF Inv, MissionInv
<1>18. WorkerInv'
  BY <1>0, <1>1, <1>2, LeaveStep
<1>19. QED
  BY <1>11, <1>12, <1>13, <1>14, <1>15, <1>16, <1>17, <1>18 DEF Inv

-----------------------------------------------------------------------------
(* A kill, and the start that loads the newest rows *)

LEMMA RestartStep ==
  ASSUME Inv, Restart
  PROVE  Inv'
<1>1. /\ crashes' = crashes + 1 /\ crashes < MaxCrashes /\ queued' = newest
      /\ status' = [a \in Actions |-> IF a \in newest THEN row[a] ELSE None]
      /\ doing' = "idle" /\ todo' = << >> /\ where' = "look" /\ target' = None
      /\ batch' = {} /\ current' = None /\ at' = "poll" /\ verdict' = None
      /\ UNCHANGED << created, row, mission, cancelled, runs >>
  BY DEF Restart, missionVars
<1>2. newest \subseteq Actions /\ \A a \in newest : row[a] # None
  BY NewestHaveRows DEF Inv
<1>3. newest' = newest /\ \A n : made(n)' = made(n)
  BY <1>1 DEF newest, made
<1>4. \A b : Settled(b)' = Settled(b) /\ Stopped(b)' = Stopped(b)
  BY <1>1, <1>3 DEF Settled, Stopped
<1>5. TypeOK'
  BY <1>1, <1>2, PipelineAssumption DEF Inv, TypeOK
<1>6. HandlerInv' /\ EnqueueInv' /\ ApproveInv' /\ RejectInv' /\ HeadInv'
  BY <1>1, ShortLists DEF HandlerInv, EnqueueInv, ApproveInv, RejectInv, HeadInv
<1>7. RowInv'
  <2>1. \A a \in Actions : status'[a] \in { None, row[a] }
    BY <1>1
  <2>2. None \notin Done /\ None # "PENDING" /\ None # "APPROVED"
    BY PipelineAssumption DEF Statuses
  <2>3. QED
    BY <1>1, <2>1, <2>2 DEF Inv, RowInv, Settled
<1>8. QueueInv'
  <2>1. None \notin { "PENDING", "APPROVED" }
    BY PipelineAssumption DEF Statuses
  <2>2. QED
    BY <1>1, <1>3, <2>1 DEF QueueInv, Stopped
<1>9. MissionInv'
  BY <1>1, <1>3, <1>4 DEF Inv, MissionInv
<1>10. WorkerInv'
  BY <1>1, PipelineAssumption DEF Inv, TypeOK, WorkerInv, Underway
<1>11. QED
  BY <1>5, <1>6, <1>7, <1>8, <1>9, <1>10 DEF Inv

-----------------------------------------------------------------------------
(* The theorems *)

LEMMA InitInv == Init => Inv
<1> SUFFICES ASSUME Init PROVE Inv
  OBVIOUS
<1>1. \A a \in Actions : status[a] = None /\ row[a] = None /\ runs[a] = 0
  BY DEF Init
<1>2. None \notin Statuses /\ None \notin Done
  BY PipelineAssumption DEF Statuses
<1>3. TypeOK
  BY ShortLists, PipelineAssumption DEF Init, TypeOK
<1>4. HandlerInv /\ EnqueueInv /\ ApproveInv /\ RejectInv /\ HeadInv
  BY ShortLists DEF Init, HandlerInv, EnqueueInv, ApproveInv, RejectInv, HeadInv
<1>5. RowInv /\ QueueInv
  BY <1>1, <1>2 DEF Init, RowInv, QueueInv, Statuses
<1>6. MissionInv
  BY DEF Init, MissionInv
<1>7. WorkerInv
  BY <1>1, PipelineAssumption DEF Init, WorkerInv, Underway
<1>8. QED
  BY <1>3, <1>4, <1>5, <1>6, <1>7 DEF Inv

LEMMA InvStep == Inv /\ [Next]_vars => Inv'
<1> SUFFICES ASSUME Inv, [Next]_vars PROVE Inv'
  OBVIOUS
<1>1. CASE Routes
  BY <1>1, MissionRouteBegins, TaskRouteBegins, RoutesDecide DEF Routes
<1>2. CASE Handler
  BY <1>2, EnqueueStep, PassStep, ApproveStep, LookStep, RejectStep, UpdateStep,
     FinishStep
  DEF Handler
<1>3. CASE Worker
  BY <1>3, PollStep, ExecuteStep, LookToMarkStep, MarkStep, WorkerUpdateStep
  DEF Worker
<1>4. CASE Restart
  BY <1>4, RestartStep
<1>5. CASE UNCHANGED vars
  <2>1. UNCHANGED Others /\ UNCHANGED loopVars
    BY <1>5 DEF vars, Others
  <2>2. UNCHANGED << status, queued, created, row, missionVars, loopVars, crashes,
                     runs >>
        /\ UNCHANGED workerVars
    BY <2>1 DEF Others
  <2>3. /\ HandlerInv' /\ EnqueueInv' /\ ApproveInv' /\ RejectInv' /\ HeadInv'
        /\ RowInv' /\ QueueInv' /\ MissionInv'
    BY <2>2, WorkerOnly
  <2>4. WorkerInv'
    BY <2>1, OthersKept
  <2>5. TypeOK'
    BY <2>2 DEF Inv, TypeOK, missionVars, loopVars, workerVars
  <2>6. QED
    BY <2>3, <2>4, <2>5 DEF Inv
<1>6. QED
  BY <1>1, <1>2, <1>3, <1>4, <1>5 DEF Next

LEMMA Invariance == Spec => []Inv
  BY InitInv, InvStep, PTL DEF Spec

\* An action is executed at most once in the life of a process
\* (action_executor.py: run_once works on a snapshot, action_queue.py: no lock),
\* whatever is approved, rejected, marked and rotated meanwhile.
THEOREM RunsAreBounded == Spec => []RunsBounded
<1>1. Inv => RunsBounded
  BY DEF Inv, WorkerInv, RunsBounded
<1>2. QED
  BY <1>1, Invariance, PTL

\* A mission saved as APPROVED (mission_system.py: submit, approve) has no row that
\* still waits for an approval, wherever its submission was cut.
THEOREM ApprovedIsWhole == Spec => []ApprovedIsNotHalf
<1>1. Inv => ApprovedIsNotHalf
  BY DEF Inv, MissionInv, ApprovedIsNotHalf
<1>2. QED
  BY <1>1, Invariance, PTL

\* What a rejected mission leaves behind (mission_system.py: reject) is not executed
\* for the first time after a restart.
THEOREM RejectionStops == Spec => []RejectedIsStopped
<1>1. Inv => RejectedIsStopped
  BY DEF Inv, MissionInv, RejectedIsStopped, Stopped, Settled
<1>2. QED
  BY <1>1, Invariance, PTL

\* An approved action is among those the worker scans (action_queue.py: _rotate and
\* _load drop others only).
THEOREM ApprovedStays == Spec => []ApprovedIsQueued
<1>1. Inv => ApprovedIsQueued
  BY DEF Inv, TypeOK, QueueInv, ApprovedIsQueued
<1>2. QED
  BY <1>1, Invariance, PTL

=============================================================================
