-------------------------- MODULE GraphAgentProofs --------------------------
(***************************************************************************)
(* The safety of ThreadPool for any number of workers, any set of tasks    *)
(* and any tasks that submit tasks, from the assumptions of ThreadPool     *)
(* alone; and, over it, the safety of GraphAgent for any callers and any   *)
(* finite graph: these theorems assume Legal, and no others do.            *)
(***************************************************************************)
EXTENDS GraphAgent, TLAPS, FiniteSetTheorems

-----------------------------------------------------------------------------
(* ThreadPool *)


\* A worker holds a task exactly while it is busy with it, and the workers
\* that run are those that were started.
Busy == {"run", "wait", "rethrow", "finish"}

WorkersAgree ==
  \A w \in Workers :
    /\ worker[w] \in Busy <=> running[w] # NoTask
    /\ worker[w] = "none" <=> w > started

\* What the stage of the pool says of the counters of its owner.
StagesAgree ==
  /\ stage \in {"starting", "failed"} => started < NumThreads
  /\ stage \in {"open", "stopping", "joining", "closed"} => started = NumThreads
  /\ stage \in {"starting", "open", "failed", "terminated"} => stops = 0
  /\ stage = "stopping" => stops < started
  /\ stage \in {"joining", "closed"} => stops = started
  /\ stage = "closed" => joined = started
  /\ joined <= started
  /\ \A w \in 1..joined : worker[w] = "exited"

\* Behind an empty task, or once one was taken, only late tasks are queued.
LateBehindStops ==
  \A j \in 1..Len(tasks) :
    (tasks[j] # Stop /\ (Exited # {} \/ \E i \in 1..(j - 1) : tasks[i] = Stop))
      => tasks[j] \in late

\* No promise is broken before the pool is gone.
BrokenAtTheEnd ==
  stage # "closed" => \A t \in Tasks : future[t] # "broken"

IInv ==
  /\ TypeOK /\ WorkersAgree /\ StagesAgree
  /\ OneStopPerWorker /\ PendingInOnePlace
  /\ LateBehindStops /\ BrokenAtTheEnd /\ EarlyTasksServed

-----------------------------------------------------------------------------
\* Where x stands in a sequence, and how many times.
Positions(s, x) == {i \in 1..Len(s) : s[i] = x}

LEMMA PositionsFinite ==
  ASSUME NEW S, NEW s \in Seq(S), NEW x
  PROVE  IsFiniteSet(Positions(s, x)) /\ Cardinality(Positions(s, x)) \in Nat
<1>1. IsFiniteSet(1..Len(s))
  BY FS_Interval
<1>2. Positions(s, x) \in SUBSET (1..Len(s))
  BY DEF Positions
<1>3. QED
  BY <1>1, <1>2, FS_Subset, FS_CardinalityType

LEMMA PositionsAppend ==
  ASSUME NEW S, NEW s \in Seq(S), NEW e \in S, NEW x
  PROVE  Cardinality(Positions(Append(s, e), x)) =
           Cardinality(Positions(s, x)) + IF e = x THEN 1 ELSE 0
<1>1. CASE e = x
  <2>1. /\ Positions(Append(s, e), x) = Positions(s, x) \cup {Len(s) + 1}
        /\ Len(s) + 1 \notin Positions(s, x)
    BY <1>1 DEF Positions
  <2>2. QED
    BY <1>1, <2>1, PositionsFinite, FS_AddElement
<1>2. CASE e # x
  <2>1. Positions(Append(s, e), x) = Positions(s, x)
    BY <1>2 DEF Positions
  <2>2. QED
    BY <1>2, <2>1, PositionsFinite
<1>3. QED
  BY <1>1, <1>2

LEMMA PositionsTail ==
  ASSUME NEW S, NEW s \in Seq(S), s # <<>>, NEW x
  PROVE  Cardinality(Positions(Tail(s), x)) =
           Cardinality(Positions(s, x)) - IF Head(s) = x THEN 1 ELSE 0
<1> DEFINE behind == Positions(s, x) \ {1}
           back == [i \in behind |-> i - 1]
<1>1. /\ IsFiniteSet(behind)
      /\ Cardinality(behind) = Cardinality(Positions(s, x)) - IF Head(s) = x THEN 1 ELSE 0
  <2>1. 1 \in Positions(s, x) <=> Head(s) = x
    BY DEF Positions
  <2>2. QED
    BY <2>1, PositionsFinite, FS_RemoveElement
<1>2. back \in Bijection(behind, Positions(Tail(s), x))
  <2>1. back \in [behind -> Positions(Tail(s), x)]
    BY DEF Positions
  <2>2. \A i, j \in behind : back[i] = back[j] => i = j
    BY DEF Positions
  <2>3. \A k \in Positions(Tail(s), x) : k + 1 \in behind /\ back[k + 1] = k
    BY DEF Positions
  <2>4. QED
    BY <2>1, <2>2, <2>3 DEF Bijection, Injection, Surjection, IsInjective
<1>3. QED
  BY <1>1, <1>2, FS_Bijection DEF ExistsBijection

-----------------------------------------------------------------------------
\* The task that a busy worker runs, and the one it may submit.
LEMMA RunningTask ==
  ASSUME TypeOK, WorkersAgree, NEW w \in Workers, worker[w] \in Busy
  PROVE  /\ running[w] \in Tasks
         /\ Child[running[w]] \in Tasks \cup {NoTask}
BY ChildFunction DEF TypeOK, WorkersAgree

LEMMA WorkersAreNumbers ==
  /\ Workers \subseteq Nat \ {0}
  /\ IsFiniteSet(Workers)
  /\ Cardinality(Workers) = NumThreads
BY NumThreadsPositive, FS_Interval DEF Workers

\* Types: what is queued was submitted or is a Stop, counters stay in range.
LEMMA TypeStep ==
  ASSUME TypeOK, WorkersAgree, [Next]_poolVars
  PROVE  TypeOK'
<1> USE NumThreadsPositive, StopNotTask DEF Workers
<1>1. CASE UNCHANGED poolVars
  BY <1>1 DEF TypeOK, poolVars
<1>2. CASE StartWorker
  BY <1>2 DEF TypeOK, StartWorker
<1>3. CASE StartFails
  BY <1>3 DEF TypeOK, StartFails
<1>4. ASSUME NEW t \in Tasks, submit(t) PROVE TypeOK'
  BY <1>4 DEF TypeOK, submit, Enqueue, Ready
<1>5. ASSUME NEW w \in Workers, Take(w) PROVE TypeOK'
  <2>1. Head(tasks) \in Tasks \cup {Stop} /\ Tail(tasks) \in Seq(Tasks \cup {Stop})
    BY <1>5 DEF TypeOK, Take
  <2>2. running' \in [Workers -> Tasks \cup {NoTask}]
    BY <1>5, <2>1 DEF TypeOK, Take
  <2>3. QED
    BY <1>5, <2>1, <2>2 DEF TypeOK, Take
<1>6. ASSUME NEW w \in Workers, SubmitChild(w) PROVE TypeOK'
  <2>1. PICK t \in Tasks : Enqueue(t)
    BY <1>6, RunningTask DEF SubmitChild, Busy
  <2>2. /\ tasks' \in Seq(Tasks \cup {Stop})
        /\ future' \in [Tasks -> {"none", "pending"} \cup Ready]
        /\ late' \in SUBSET Tasks
    BY <2>1 DEF TypeOK, Enqueue, Ready
  <2>3. worker' = [worker EXCEPT ![w] = "wait"] \/ worker' = [worker EXCEPT ![w] = "finish"]
    BY <1>6 DEF SubmitChild
  <2>4. worker' \in [Workers ->
          {"none", "get", "run", "wait", "rethrow", "finish", "exited"}]
    BY <2>3 DEF TypeOK
  <2>5. QED
    BY <1>6, <2>2, <2>4 DEF TypeOK, SubmitChild
<1>7. ASSUME NEW w \in Workers, ChildReady(w) PROVE TypeOK'
  BY <1>7 DEF TypeOK, ChildReady
<1>8. ASSUME NEW w \in Workers, Finish(w) PROVE TypeOK'
  <2>1. PICK result \in Ready : future' = [future EXCEPT ![running[w]] = result]
    BY <1>8 DEF Finish, Ready
  <2>2. future' \in [Tasks -> {"none", "pending"} \cup Ready]
    BY <2>1 DEF TypeOK
  <2>3. QED
    BY <1>8, <2>2 DEF TypeOK, Finish
<1>9. CASE BeginDestroy
  BY <1>9 DEF TypeOK, BeginDestroy
<1>10. CASE PutStop
  BY <1>10 DEF TypeOK, PutStop
<1>11. CASE Join
  BY <1>11 DEF TypeOK, Join
<1>12. CASE DestroyMembers
  BY <1>12 DEF TypeOK, DestroyMembers, Ready
<1>13. QED
  BY <1>1, <1>2, <1>3, <1>4, <1>5, <1>6, <1>7, <1>8, <1>9, <1>10, <1>11, <1>12
     DEF Next, WorkerStep, Destroy

-----------------------------------------------------------------------------
\* A worker has a task from the moment it took it until its future is ready.
LEMMA WorkersStep ==
  ASSUME TypeOK, WorkersAgree, StagesAgree, [Next]_poolVars
  PROVE  WorkersAgree'
<1> USE NumThreadsPositive, StopNotTask DEF Workers, WorkersAgree, Busy
<1>1. CASE UNCHANGED poolVars
  BY <1>1 DEF poolVars
<1>2. CASE StartWorker
  BY <1>2 DEF TypeOK, StartWorker
<1>3. CASE StartFails
  BY <1>3 DEF TypeOK, StartFails
<1>4. ASSUME NEW t \in Tasks, submit(t) PROVE WorkersAgree'
  BY <1>4 DEF TypeOK, submit
<1>5. ASSUME NEW w \in Workers, Take(w) PROVE WorkersAgree'
  BY <1>5 DEF TypeOK, Take
<1>6. ASSUME NEW w \in Workers, SubmitChild(w) PROVE WorkersAgree'
  BY <1>6 DEF TypeOK, SubmitChild
<1>7. ASSUME NEW w \in Workers, ChildReady(w) PROVE WorkersAgree'
  BY <1>7 DEF TypeOK, ChildReady
<1>8. ASSUME NEW w \in Workers, Finish(w) PROVE WorkersAgree'
  BY <1>8 DEF TypeOK, Finish
<1>9. CASE BeginDestroy
  BY <1>9 DEF BeginDestroy
<1>10. CASE PutStop
  BY <1>10 DEF PutStop
<1>11. CASE Join
  BY <1>11 DEF Join
<1>12. CASE DestroyMembers
  BY <1>12 DEF DestroyMembers
<1>13. QED
  BY <1>1, <1>2, <1>3, <1>4, <1>5, <1>6, <1>7, <1>8, <1>9, <1>10, <1>11, <1>12
     DEF Next, WorkerStep, Destroy

-----------------------------------------------------------------------------
\* The owner's counters follow its stage; a worker that was joined has left
\* its loop for good.
LEMMA StagesStep ==
  ASSUME TypeOK, StagesAgree, [Next]_poolVars
  PROVE  StagesAgree'
<1> USE NumThreadsPositive DEF Workers, StagesAgree
<1>1. CASE UNCHANGED poolVars
  BY <1>1 DEF poolVars
<1>2. CASE StartWorker
  BY <1>2 DEF TypeOK, StartWorker
<1>3. CASE StartFails
  BY <1>3 DEF TypeOK, StartFails
<1>4. ASSUME NEW t \in Tasks, submit(t) PROVE StagesAgree'
  BY <1>4 DEF submit
<1>5. ASSUME NEW w \in Workers, Take(w) PROVE StagesAgree'
  BY <1>5 DEF TypeOK, Take
<1>6. ASSUME NEW w \in Workers, SubmitChild(w) PROVE StagesAgree'
  BY <1>6 DEF TypeOK, SubmitChild
<1>7. ASSUME NEW w \in Workers, ChildReady(w) PROVE StagesAgree'
  BY <1>7 DEF TypeOK, ChildReady
<1>8. ASSUME NEW w \in Workers, Finish(w) PROVE StagesAgree'
  BY <1>8 DEF TypeOK, Finish
<1>9. CASE BeginDestroy
  BY <1>9 DEF TypeOK, BeginDestroy
<1>10. CASE PutStop
  BY <1>10 DEF TypeOK, PutStop
<1>11. CASE Join
  BY <1>11 DEF TypeOK, Join
<1>12. CASE DestroyMembers
  BY <1>12 DEF DestroyMembers
<1>13. QED
  BY <1>1, <1>2, <1>3, <1>4, <1>5, <1>6, <1>7, <1>8, <1>9, <1>10, <1>11, <1>12
     DEF Next, WorkerStep, Destroy

-----------------------------------------------------------------------------
\* Workers that left are counted like positions of the queue.
LEMMA ExitedFinite ==
  IsFiniteSet(Exited) /\ Cardinality(Exited) \in Nat
<1>1. Exited \in SUBSET Workers
  BY DEF Exited
<1>2. QED
  BY <1>1, WorkersAreNumbers, FS_Subset, FS_CardinalityType

LEMMA StopsArePositions ==
  ASSUME TypeOK
  PROVE  /\ Stops = Positions(tasks, Stop)
         /\ IsFiniteSet(Stops) /\ Cardinality(Stops) \in Nat
<1>1. Stops = Positions(tasks, Stop)
  BY DEF Stops, Positions
<1>2. QED
  BY <1>1, PositionsFinite DEF TypeOK

\* A step that neither touches the queue nor lets a worker leave or return
\* from having left keeps the account of the Stops.
LEMMA StopsKept ==
  ASSUME OneStopPerWorker, Stops' = Stops, Exited' = Exited, stops' = stops
  PROVE  OneStopPerWorker'
BY DEF OneStopPerWorker

\* A task behind the others changes nothing for the Stops.
LEMMA StopsEnqueue ==
  ASSUME TypeOK, NEW t \in Tasks, Enqueue(t)
  PROVE  Stops' = Stops
BY StopNotTask DEF TypeOK, Enqueue, Stops

\* Each Stop is put once and ends the worker that takes it.
LEMMA OneStopStep ==
  ASSUME TypeOK, WorkersAgree, StagesAgree, OneStopPerWorker, [Next]_poolVars
  PROVE  OneStopPerWorker'
<1> USE StopsKept
<1>1. CASE UNCHANGED poolVars
  BY <1>1 DEF poolVars, Stops, Exited
<1>2. CASE StartWorker
  <2>1. Exited' = Exited
    BY <1>2 DEF TypeOK, WorkersAgree, StartWorker, Exited, Busy
  <2>2. QED
    BY <1>2, <2>1 DEF StartWorker, Stops
<1>3. CASE StartFails
  BY <1>3 DEF StartFails, Stops, Exited
<1>4. ASSUME NEW t \in Tasks, submit(t) PROVE OneStopPerWorker'
  BY <1>4, StopsEnqueue DEF submit, Exited
<1>5. ASSUME NEW w \in Workers, Take(w) PROVE OneStopPerWorker'
  <2>1. Cardinality(Stops') =
          Cardinality(Stops) - IF Head(tasks) = Stop THEN 1 ELSE 0
    <3>1. Stops' = Positions(Tail(tasks), Stop)
      BY <1>5 DEF Take, Stops, Positions
    <3>2. QED
      BY <1>5, <3>1, StopsArePositions, PositionsTail DEF TypeOK, Take
  <2>2. CASE Head(tasks) = Stop
    <3>1. w \notin Exited /\ Exited' = Exited \cup {w}
      BY <1>5, <2>2 DEF TypeOK, Take, Exited
    <3>2. Cardinality(Exited') = Cardinality(Exited) + 1
      BY <3>1, ExitedFinite, FS_AddElement
    <3>3. QED
      BY <1>5, <2>1, <2>2, <3>2, ExitedFinite, StopsArePositions
         DEF Take, OneStopPerWorker
  <2>3. CASE Head(tasks) # Stop
    <3>1. Exited' = Exited
      BY <1>5, <2>3 DEF TypeOK, Take, Exited
    <3>2. QED
      BY <1>5, <2>1, <2>3, <3>1, ExitedFinite, StopsArePositions
         DEF Take, OneStopPerWorker
  <2>4. QED
    BY <2>2, <2>3
<1>6. ASSUME NEW w \in Workers, SubmitChild(w) PROVE OneStopPerWorker'
  <2>1. Child[running[w]] \in Tasks
    BY <1>6, RunningTask DEF SubmitChild, Busy
  <2>2. Exited' = Exited
    BY <1>6 DEF TypeOK, SubmitChild, Exited
  <2>3. QED
    BY <1>6, <2>1, <2>2, StopsEnqueue DEF SubmitChild
<1>7. ASSUME NEW w \in Workers, ChildReady(w) PROVE OneStopPerWorker'
  <2>1. Exited' = Exited
    BY <1>7 DEF TypeOK, ChildReady, Exited
  <2>2. QED
    BY <1>7, <2>1 DEF ChildReady, Stops
<1>8. ASSUME NEW w \in Workers, Finish(w) PROVE OneStopPerWorker'
  <2>1. Exited' = Exited
    BY <1>8 DEF TypeOK, Finish, Exited
  <2>2. QED
    BY <1>8, <2>1 DEF Finish, Stops
<1>9. CASE BeginDestroy
  BY <1>9 DEF BeginDestroy, Stops, Exited
<1>10. CASE PutStop
  <2>1. Cardinality(Stops') = Cardinality(Stops) + 1
    <3>1. Stops' = Positions(Append(tasks, Stop), Stop)
      BY <1>10 DEF PutStop, Stops, Positions
    <3>2. QED
      BY <3>1, StopsArePositions, PositionsAppend DEF TypeOK
  <2>2. Exited' = Exited
    BY <1>10 DEF PutStop, Exited
  <2>3. QED
    BY <1>10, <2>1, <2>2, ExitedFinite, StopsArePositions
       DEF PutStop, OneStopPerWorker
<1>11. CASE Join
  BY <1>11 DEF Join, Stops, Exited
<1>12. CASE DestroyMembers
  <2>1. Stops' = {}
    BY <1>12 DEF DestroyMembers, Stops
  <2>2. Exited' = 1..NumThreads
    BY <1>12 DEF DestroyMembers, StagesAgree, Exited, Workers
  <2>3. Cardinality(Stops') = 0 /\ Cardinality(Exited') = NumThreads
    BY <2>1, <2>2, FS_EmptySet, FS_Interval, NumThreadsPositive
  <2>4. QED
    BY <1>12, <2>3, NumThreadsPositive DEF DestroyMembers, StagesAgree, OneStopPerWorker
<1>13. QED
  BY <1>1, <1>2, <1>3, <1>4, <1>5, <1>6, <1>7, <1>8, <1>9, <1>10, <1>11, <1>12
     DEF Next, WorkerStep, Destroy

-----------------------------------------------------------------------------
\* How often t is in a queue s or on one of the workers of r.
RunsOn(r, t) == {w \in Workers : r[w] = t}
Held(s, r, t) == Cardinality(Positions(s, t)) + Cardinality(RunsOn(r, t))

LEMMA RunsOnFinite ==
  ASSUME NEW r, NEW t
  PROVE  IsFiniteSet(RunsOn(r, t)) /\ Cardinality(RunsOn(r, t)) \in Nat
<1>1. RunsOn(r, t) \in SUBSET Workers
  BY DEF RunsOn
<1>2. QED
  BY <1>1, WorkersAreNumbers, FS_Subset, FS_CardinalityType

\* The workers on t grow or shrink with the task that w takes or ends.
LEMMA RunsOnJoin ==
  ASSUME TypeOK, NEW w \in Workers, NEW u \in Tasks, NEW t \in Tasks,
         running' = [running EXCEPT ![w] = u], running[w] # t
  PROVE  Cardinality(RunsOn(running', t)) =
           Cardinality(RunsOn(running, t)) + IF t = u THEN 1 ELSE 0
<1>1. CASE t = u
  <2>1. /\ w \notin RunsOn(running, t)
        /\ RunsOn(running', t) = RunsOn(running, t) \cup {w}
    BY <1>1 DEF TypeOK, RunsOn
  <2>2. QED
    BY <1>1, <2>1, RunsOnFinite, FS_AddElement
<1>2. CASE t # u
  <2>1. RunsOn(running', t) = RunsOn(running, t)
    BY <1>2 DEF TypeOK, RunsOn
  <2>2. QED
    BY <1>2, <2>1, RunsOnFinite
<1>3. QED
  BY <1>1, <1>2

LEMMA RunsOnLeave ==
  ASSUME TypeOK, NEW w \in Workers, NEW t \in Tasks,
         running' = [running EXCEPT ![w] = NoTask]
  PROVE  Cardinality(RunsOn(running', t)) =
           Cardinality(RunsOn(running, t)) - IF t = running[w] THEN 1 ELSE 0
<1>1. CASE t = running[w]
  <2>1. /\ w \in RunsOn(running, t)
        /\ RunsOn(running', t) = RunsOn(running, t) \ {w}
    BY <1>1, StopNotTask DEF TypeOK, RunsOn
  <2>2. QED
    BY <1>1, <2>1, RunsOnFinite, FS_RemoveElement
<1>2. CASE t # running[w]
  <2>1. RunsOn(running', t) = RunsOn(running, t)
    BY <1>2, StopNotTask DEF TypeOK, RunsOn
  <2>2. QED
    BY <1>2, <2>1, RunsOnFinite
<1>3. QED
  BY <1>1, <1>2

LEMMA HeldNat ==
  ASSUME NEW S, NEW s \in Seq(S), NEW r, NEW t
  PROVE  /\ Cardinality(Positions(s, t)) \in Nat
         /\ Cardinality(RunsOn(r, t)) \in Nat
         /\ Held(s, r, t) \in Nat
         /\ Held(s, r, t) = 0 <=> Positions(s, t) = {} /\ RunsOn(r, t) = {}
BY PositionsFinite, RunsOnFinite, FS_EmptySet DEF Held

\* The places of a task are counted by Held.
LEMMA PlacesCounted ==
  ASSUME NEW S, NEW s \in Seq(S), NEW r, NEW t
  PROVE  Cardinality(Positions(s, t) \X {"queue"} \cup RunsOn(r, t) \X {"worker"})
           = Held(s, r, t)
<1> DEFINE queued == Positions(s, t) \X {"queue"}
           run == RunsOn(r, t) \X {"worker"}
<1>1. IsFiniteSet({"queue"}) /\ Cardinality({"queue"}) = 1
  BY FS_Singleton
<1>2. IsFiniteSet({"worker"}) /\ Cardinality({"worker"}) = 1
  BY FS_Singleton
<1>3. IsFiniteSet(queued) /\ Cardinality(queued) = Cardinality(Positions(s, t))
  BY <1>1, PositionsFinite, FS_Product
<1>4. IsFiniteSet(run) /\ Cardinality(run) = Cardinality(RunsOn(r, t))
  BY <1>2, RunsOnFinite, FS_Product
<1>5. queued \cap run = {}
  OBVIOUS
<1>6. Cardinality(queued \cup run) = Cardinality(queued) + Cardinality(run) - 0
  <2> HIDE DEF queued, run
  <2>1. QED
    BY <1>3, <1>4, <1>5, FS_Union, FS_EmptySet
<1>7. QED
  BY <1>3, <1>4, <1>6, HeldNat DEF Held

LEMMA PendingCounted ==
  ASSUME TypeOK
  PROVE  PendingInOnePlace <=>
           \A t \in Tasks : Held(tasks, running, t) = IF future[t] = "pending" THEN 1 ELSE 0
<1>1. ASSUME NEW t \in Tasks
      PROVE  Cardinality(Places(t)) = Held(tasks, running, t)
  BY PlacesCounted DEF TypeOK, Places, Positions, RunsOn
<1>2. QED
  BY <1>1 DEF PendingInOnePlace

LEMMA PendingCountedNext ==
  ASSUME TypeOK'
  PROVE  PendingInOnePlace' <=>
           \A t \in Tasks :
             Held(tasks', running', t) = IF future'[t] = "pending" THEN 1 ELSE 0
<1>1. ASSUME NEW t \in Tasks
      PROVE  Cardinality(Places(t)') = Held(tasks', running', t)
  BY PlacesCounted DEF TypeOK, Places, Positions, RunsOn
<1>2. QED
  BY <1>1 DEF PendingInOnePlace

\* A submitted task gets its place in the queue together with its future.
LEMMA PendingEnqueue ==
  ASSUME TypeOK, TypeOK', PendingInOnePlace,
         NEW t \in Tasks, Enqueue(t), running' = running
  PROVE  PendingInOnePlace'
<1> SUFFICES ASSUME NEW u \in Tasks
             PROVE  Held(tasks', running', u) = IF future'[u] = "pending" THEN 1 ELSE 0
  BY PendingCountedNext
<1>1. Held(tasks, running, u) = IF future[u] = "pending" THEN 1 ELSE 0
  BY PendingCounted
<1>2. Cardinality(Positions(tasks', u)) =
        Cardinality(Positions(tasks, u)) + IF t = u THEN 1 ELSE 0
  BY PositionsAppend DEF TypeOK, Enqueue
<1>3. future' = [future EXCEPT ![t] = "pending"] /\ future[t] = "none"
  BY DEF Enqueue
<1>4. /\ Cardinality(Positions(tasks, u)) \in Nat
      /\ Cardinality(RunsOn(running, u)) \in Nat
  BY HeldNat DEF TypeOK
<1>5. Held(tasks', running', u) = Held(tasks, running, u) + IF t = u THEN 1 ELSE 0
  BY <1>2, <1>4 DEF Held
<1>6. future'[u] = IF t = u THEN "pending" ELSE future[u]
  BY <1>3 DEF TypeOK
<1>7. QED
  BY <1>1, <1>3, <1>5, <1>6

LEMMA PendingKept ==
  ASSUME TypeOK, TypeOK', PendingInOnePlace,
         tasks' = tasks, running' = running, future' = future
  PROVE  PendingInOnePlace'
BY PendingCounted, PendingCountedNext

\* A task moves from the queue to a worker and from there to its result.
LEMMA PendingStep ==
  ASSUME TypeOK, TypeOK', WorkersAgree, StagesAgree, PendingInOnePlace, [Next]_poolVars
  PROVE  PendingInOnePlace'
<1> USE PendingKept
<1>1. CASE UNCHANGED poolVars
  BY <1>1 DEF poolVars
<1>2. CASE StartWorker
  BY <1>2 DEF StartWorker
<1>3. CASE StartFails
  BY <1>3 DEF StartFails
<1>4. ASSUME NEW t \in Tasks, submit(t) PROVE PendingInOnePlace'
  BY <1>4, PendingEnqueue DEF submit
<1>5. ASSUME NEW w \in Workers, Take(w) PROVE PendingInOnePlace'
  <2> SUFFICES ASSUME NEW u \in Tasks
               PROVE  Held(tasks', running', u) = IF future'[u] = "pending" THEN 1 ELSE 0
    BY PendingCountedNext
  <2>1. Held(tasks, running, u) = IF future[u] = "pending" THEN 1 ELSE 0
    BY PendingCounted
  <2>2. Cardinality(Positions(tasks', u)) =
          Cardinality(Positions(tasks, u)) - IF Head(tasks) = u THEN 1 ELSE 0
    BY <1>5, PositionsTail DEF TypeOK, Take
  <2>3. CASE Head(tasks) = Stop
    BY <1>5, <2>1, <2>2, <2>3, HeldNat, StopNotTask DEF TypeOK, Take, Held
  <2>4. CASE Head(tasks) # Stop
    <3>1. PICK h \in Tasks : h = Head(tasks)
      BY <1>5, <2>4 DEF TypeOK, Take
    <3>2. running' = [running EXCEPT ![w] = h]
      BY <1>5, <2>4, <3>1 DEF Take
    <3>3. Cardinality(RunsOn(running', u)) =
            Cardinality(RunsOn(running, u)) + IF u = h THEN 1 ELSE 0
      <4>1. worker[w] = "get"
        BY <1>5 DEF Take
      <4>2. running[w] # u
        BY <4>1, StopNotTask DEF WorkersAgree, Busy
      <4>3. QED
        BY <3>2, <4>2, RunsOnJoin
    <3>4. future' = future
      BY <1>5 DEF Take
    <3>5. /\ Cardinality(Positions(tasks, u)) \in Nat
          /\ Cardinality(RunsOn(running, u)) \in Nat
      BY HeldNat DEF TypeOK
    <3>6. QED
      BY <2>1, <2>2, <3>1, <3>3, <3>4, <3>5 DEF Held
  <2>5. QED
    BY <2>3, <2>4
<1>6. ASSUME NEW w \in Workers, SubmitChild(w) PROVE PendingInOnePlace'
  <2>1. Child[running[w]] \in Tasks
    BY <1>6, RunningTask DEF SubmitChild, Busy
  <2>2. QED
    BY <1>6, <2>1, PendingEnqueue DEF SubmitChild
<1>7. ASSUME NEW w \in Workers, ChildReady(w) PROVE PendingInOnePlace'
  BY <1>7 DEF ChildReady
<1>8. ASSUME NEW w \in Workers, Finish(w) PROVE PendingInOnePlace'
  <2> SUFFICES ASSUME NEW u \in Tasks
               PROVE  Held(tasks', running', u) = IF future'[u] = "pending" THEN 1 ELSE 0
    BY PendingCountedNext
  <2>1. Held(tasks, running, u) = IF future[u] = "pending" THEN 1 ELSE 0
    BY PendingCounted
  <2>2. running[w] \in Tasks
    BY <1>8, RunningTask DEF Finish, Busy
  <2>3. Cardinality(RunsOn(running', u)) =
          Cardinality(RunsOn(running, u)) - IF u = running[w] THEN 1 ELSE 0
    <3>1. running' = [running EXCEPT ![w] = NoTask]
      BY <1>8 DEF Finish
    <3>2. QED
      BY <3>1, RunsOnLeave
  <2>4. PICK result \in {"value", "exception"} :
          future' = [future EXCEPT ![running[w]] = result]
    BY <1>8 DEF Finish
  <2>5. /\ u = running[w] => RunsOn(running, u) # {} /\ future'[u] # "pending"
        /\ u # running[w] => future'[u] = future[u]
    BY <2>2, <2>4 DEF TypeOK, RunsOn
  <2>6. tasks' = tasks
    BY <1>8 DEF Finish
  <2>7. /\ Cardinality(Positions(tasks, u)) \in Nat
        /\ Cardinality(RunsOn(running, u)) \in Nat
        /\ Cardinality(RunsOn(running', u)) \in Nat
    BY HeldNat DEF TypeOK
  <2>8. Held(tasks', running', u) =
          Held(tasks, running, u) - IF u = running[w] THEN 1 ELSE 0
    BY <2>3, <2>6, <2>7 DEF Held
  <2>9. CASE u # running[w]
    BY <2>1, <2>5, <2>7, <2>8, <2>9 DEF Held
  <2>10. CASE u = running[w]
    <3>1. Cardinality(RunsOn(running, u)) # 0
      BY <2>5, <2>10, RunsOnFinite, FS_EmptySet
    <3>2. QED
      BY <2>1, <2>5, <2>7, <2>8, <2>10, <3>1 DEF Held
  <2>11. QED
    BY <2>9, <2>10
<1>9. CASE BeginDestroy
  BY <1>9 DEF BeginDestroy
<1>10. CASE PutStop
  <2> SUFFICES ASSUME NEW u \in Tasks
               PROVE  Held(tasks', running', u) = IF future'[u] = "pending" THEN 1 ELSE 0
    BY PendingCountedNext
  <2>1. Held(tasks, running, u) = IF future[u] = "pending" THEN 1 ELSE 0
    BY PendingCounted
  <2>2. Cardinality(Positions(tasks', u)) = Cardinality(Positions(tasks, u)) + 0
    BY <1>10, PositionsAppend, StopNotTask DEF TypeOK, PutStop
  <2>3. QED
    BY <1>10, <2>1, <2>2, HeldNat DEF TypeOK, PutStop, Held
<1>11. CASE Join
  BY <1>11 DEF Join
<1>12. CASE DestroyMembers
  <2> SUFFICES ASSUME NEW u \in Tasks
               PROVE  Held(tasks', running', u) = IF future'[u] = "pending" THEN 1 ELSE 0
    BY PendingCountedNext
  <2>1. Held(tasks, running, u) = IF future[u] = "pending" THEN 1 ELSE 0
    BY PendingCounted
  <2>2. RunsOn(running', u) = {}
    BY <1>12, StopNotTask DEF DestroyMembers, WorkersAgree, StagesAgree, Workers, Busy, RunsOn
  <2>3. Positions(tasks', u) = {}
    BY <1>12 DEF DestroyMembers, Positions
  <2>4. Held(tasks', running', u) = 0
    BY <2>2, <2>3, FS_EmptySet DEF Held
  <2>5. future'[u] # "pending"
    <3>1. CASE u \in Queued
      BY <1>12, <3>1 DEF DestroyMembers
    <3>2. CASE u \notin Queued
      <4>1. Positions(tasks, u) = {} /\ RunsOn(running, u) = {}
        BY <1>12, <2>2, <3>2 DEF DestroyMembers, Queued, Positions
      <4>2. Held(tasks, running, u) = 0
        BY <4>1, FS_EmptySet DEF Held
      <4>3. QED
        BY <1>12, <2>1, <3>2, <4>2 DEF DestroyMembers
    <3>3. QED
      BY <3>1, <3>2
  <2>6. QED
    BY <2>4, <2>5
<1>13. QED
  BY <1>1, <1>2, <1>3, <1>4, <1>5, <1>6, <1>7, <1>8, <1>9, <1>10, <1>11, <1>12
     DEF Next, WorkerStep, Destroy

-----------------------------------------------------------------------------
\* Once an empty task is in the queue, or was taken, the destructor is at
\* work, and whatever is submitted is late.
LEMMA StopsMeanStopping ==
  ASSUME TypeOK, StagesAgree, OneStopPerWorker, Stops # {} \/ Exited # {}
  PROVE  stage \in {"stopping", "joining", "closed"}
<1>1. Cardinality(Stops) # 0 \/ Cardinality(Exited) # 0
  BY StopsArePositions, ExitedFinite, FS_EmptySet
<1>2. stops # 0
  BY <1>1, StopsArePositions, ExitedFinite DEF OneStopPerWorker
<1>3. QED
  BY <1>2 DEF TypeOK, StagesAgree

LEMMA LateEnqueue ==
  ASSUME TypeOK, StagesAgree, OneStopPerWorker, LateBehindStops,
         NEW t \in Tasks, Enqueue(t), Exited' = Exited
  PROVE  LateBehindStops'
<1> SUFFICES ASSUME NEW j \in 1..Len(tasks'), tasks'[j] # Stop,
                    Exited # {} \/ \E i \in 1..(j - 1) : tasks'[i] = Stop
             PROVE  tasks'[j] \in late'
  BY DEF LateBehindStops
<1>1. /\ tasks' = Append(tasks, t)
      /\ late \subseteq late' /\ (stage # "open" => t \in late')
  BY DEF Enqueue
<1>2. CASE j <= Len(tasks)
  BY <1>1, <1>2 DEF TypeOK, LateBehindStops
<1>3. CASE j = Len(tasks) + 1
  <2>1. tasks'[j] = t
    BY <1>1, <1>3 DEF TypeOK
  <2>2. Stops # {} \/ Exited # {}
    BY <1>1, <1>3 DEF TypeOK, Stops
  <2>3. QED
    BY <1>1, <2>1, <2>2, StopsMeanStopping
<1>4. QED
  BY <1>1, <1>2, <1>3 DEF TypeOK

LEMMA LateKept ==
  ASSUME LateBehindStops, tasks' = tasks, Exited' = Exited, late' = late
  PROVE  LateBehindStops'
BY DEF LateBehindStops

\* Tasks are put behind the Stops only when they are late, and the order of
\* the queue never changes.
LEMMA LateStep ==
  ASSUME TypeOK, WorkersAgree, StagesAgree, OneStopPerWorker, LateBehindStops,
         [Next]_poolVars
  PROVE  LateBehindStops'
<1> USE LateKept
<1>1. CASE UNCHANGED poolVars
  BY <1>1 DEF poolVars, Exited
<1>2. CASE StartWorker
  <2>1. Exited' = Exited
    BY <1>2 DEF TypeOK, WorkersAgree, StartWorker, Exited, Busy
  <2>2. QED
    BY <1>2, <2>1 DEF StartWorker
<1>3. CASE StartFails
  BY <1>3 DEF StartFails, Exited
<1>4. ASSUME NEW t \in Tasks, submit(t) PROVE LateBehindStops'
  BY <1>4, LateEnqueue DEF submit, Exited
<1>5. ASSUME NEW w \in Workers, Take(w) PROVE LateBehindStops'
  <2> SUFFICES ASSUME NEW j \in 1..Len(tasks'), tasks'[j] # Stop,
                      Exited' # {} \/ \E i \in 1..(j - 1) : tasks'[i] = Stop
               PROVE  tasks'[j] \in late'
    BY DEF LateBehindStops
  <2>1. /\ tasks # <<>> /\ j \in 1..(Len(tasks) - 1)
        /\ \A i \in 1..j : tasks'[i] = tasks[i + 1]
        /\ late' = late
    BY <1>5 DEF TypeOK, Take
  <2>2. j + 1 \in 1..Len(tasks) /\ tasks[j + 1] # Stop
    BY <2>1 DEF TypeOK
  <2>3. CASE Head(tasks) = Stop
    BY <2>1, <2>2, <2>3 DEF TypeOK, LateBehindStops
  <2>4. CASE Head(tasks) # Stop
    <3>1. Exited' = Exited
      BY <1>5, <2>4 DEF TypeOK, Take, Exited
    <3>2. CASE Exited # {}
      BY <2>1, <2>2, <3>2 DEF LateBehindStops
    <3>3. CASE \E i \in 1..(j - 1) : tasks'[i] = Stop
      <4>1. PICK i \in 1..(j - 1) : tasks'[i] = Stop
        BY <3>3
      <4>2. i + 1 \in 1..((j + 1) - 1) /\ tasks[i + 1] = Stop
        BY <2>1, <4>1 DEF TypeOK
      <4>3. QED
        BY <2>1, <2>2, <4>2 DEF LateBehindStops
    <3>4. QED
      BY <3>1, <3>2, <3>3
  <2>5. QED
    BY <2>3, <2>4
<1>6. ASSUME NEW w \in Workers, SubmitChild(w) PROVE LateBehindStops'
  <2>1. Child[running[w]] \in Tasks
    BY <1>6, RunningTask DEF SubmitChild, Busy
  <2>2. Exited' = Exited
    BY <1>6 DEF TypeOK, SubmitChild, Exited
  <2>3. QED
    BY <1>6, <2>1, <2>2, LateEnqueue DEF SubmitChild
<1>7. ASSUME NEW w \in Workers, ChildReady(w) PROVE LateBehindStops'
  <2>1. Exited' = Exited
    BY <1>7 DEF TypeOK, ChildReady, Exited
  <2>2. QED
    BY <1>7, <2>1 DEF ChildReady
<1>8. ASSUME NEW w \in Workers, Finish(w) PROVE LateBehindStops'
  <2>1. Exited' = Exited
    BY <1>8 DEF TypeOK, Finish, Exited
  <2>2. QED
    BY <1>8, <2>1 DEF Finish
<1>9. CASE BeginDestroy
  BY <1>9 DEF BeginDestroy, Exited
<1>10. CASE PutStop
  BY <1>10 DEF TypeOK, PutStop, Exited, LateBehindStops
<1>11. CASE Join
  BY <1>11 DEF Join, Exited
<1>12. CASE DestroyMembers
  BY <1>12 DEF DestroyMembers, LateBehindStops
<1>13. QED
  BY <1>1, <1>2, <1>3, <1>4, <1>5, <1>6, <1>7, <1>8, <1>9, <1>10, <1>11, <1>12
     DEF Next, WorkerStep, Destroy

-----------------------------------------------------------------------------
\* Only the end of the pool breaks promises.
LEMMA BrokenStep ==
  ASSUME TypeOK, WorkersAgree, StagesAgree, BrokenAtTheEnd, [Next]_poolVars
  PROVE  BrokenAtTheEnd'
<1> USE DEF BrokenAtTheEnd
<1>1. CASE UNCHANGED poolVars
  BY <1>1 DEF poolVars
<1>2. CASE StartWorker
  BY <1>2 DEF StartWorker
<1>3. CASE StartFails
  BY <1>3 DEF StartFails
<1>4. ASSUME NEW t \in Tasks, submit(t) PROVE BrokenAtTheEnd'
  BY <1>4 DEF TypeOK, submit, Enqueue
<1>5. ASSUME NEW w \in Workers, Take(w) PROVE BrokenAtTheEnd'
  BY <1>5 DEF Take
<1>6. ASSUME NEW w \in Workers, SubmitChild(w) PROVE BrokenAtTheEnd'
  BY <1>6 DEF TypeOK, SubmitChild, Enqueue
<1>7. ASSUME NEW w \in Workers, ChildReady(w) PROVE BrokenAtTheEnd'
  BY <1>7 DEF ChildReady
<1>8. ASSUME NEW w \in Workers, Finish(w) PROVE BrokenAtTheEnd'
  BY <1>8 DEF TypeOK, Finish
<1>9. CASE BeginDestroy
  BY <1>9 DEF BeginDestroy
<1>10. CASE PutStop
  BY <1>10 DEF PutStop
<1>11. CASE Join
  BY <1>11 DEF Join
<1>12. CASE DestroyMembers
  BY <1>12 DEF DestroyMembers
<1>13. QED
  BY <1>1, <1>2, <1>3, <1>4, <1>5, <1>6, <1>7, <1>8, <1>9, <1>10, <1>11, <1>12
     DEF Next, WorkerStep, Destroy

-----------------------------------------------------------------------------
\* When every worker was joined, all that is still queued is late, and no
\* task is on a worker.
LEMMA LeftoversAreLate ==
  ASSUME TypeOK, WorkersAgree, StagesAgree, PendingInOnePlace, LateBehindStops,
         joined = started, stage = "joining", NEW t \in Tasks
  PROVE  /\ t \in Queued => t \in late
         /\ future[t] = "pending" => t \in Queued
<1>1. \A w \in Workers : worker[w] = "exited"
  BY DEF StagesAgree, Workers
<1>2. Exited # {}
  BY <1>1, NumThreadsPositive DEF Exited, Workers
<1>3. t \in Queued => t \in late
  BY <1>2, StopNotTask DEF Queued, LateBehindStops
<1>4. ASSUME future[t] = "pending", t \notin Queued PROVE FALSE
  <2>1. Positions(tasks, t) = {}
    BY <1>4 DEF Queued, Positions
  <2>2. RunsOn(running, t) = {}
    BY <1>1, StopNotTask DEF WorkersAgree, RunsOn, Busy
  <2>3. Held(tasks, running, t) = 0
    BY <2>1, <2>2, FS_EmptySet DEF Held
  <2>4. QED
    BY <1>4, <2>3, PendingCounted
<1>5. QED
  BY <1>3, <1>4

\* The end of the pool breaks promises of late tasks only.
LEMMA EarlyStep ==
  ASSUME TypeOK, WorkersAgree, StagesAgree, PendingInOnePlace, LateBehindStops,
         BrokenAtTheEnd, EarlyTasksServed, [Next]_poolVars
  PROVE  EarlyTasksServed'
<1>1. CASE UNCHANGED poolVars
  BY <1>1 DEF EarlyTasksServed, poolVars
<1>2. CASE stage = "closed"
  <2>1. \A w \in Workers : worker[w] = "exited"
    BY <1>2 DEF StagesAgree, Workers
  <2>2. UNCHANGED poolVars
    BY <1>2, <2>1 DEF Next, StartWorker, StartFails, submit, WorkerStep, Take,
       SubmitChild, ChildReady, Finish, Destroy, BeginDestroy, PutStop, Join,
       DestroyMembers, poolVars
  <2>3. QED
    BY <1>1, <2>2
<1>3. CASE DestroyMembers
  <2>1. stage = "joining" /\ joined = started /\ late' = late
    BY <1>3 DEF DestroyMembers
  <2>2. ASSUME NEW t \in Tasks \ late PROVE future'[t] \notin {"pending", "broken"}
    <3>1. t \notin Queued /\ future[t] # "pending"
      BY <2>1, LeftoversAreLate
    <3>2. future'[t] = future[t]
      BY <1>3, <3>1 DEF DestroyMembers
    <3>3. QED
      BY <2>1, <3>1, <3>2 DEF BrokenAtTheEnd
  <2>3. QED
    BY <2>1, <2>2 DEF EarlyTasksServed
<1>4. CASE stage # "closed" /\ Next /\ ~DestroyMembers
  <2>1. stage' # "closed"
    BY <1>4 DEF Next, StartWorker, StartFails, submit, WorkerStep, Take,
       SubmitChild, ChildReady, Finish, Destroy, BeginDestroy, PutStop, Join
  <2>2. QED
    BY <2>1 DEF EarlyTasksServed
<1>5. QED
  BY <1>1, <1>2, <1>3, <1>4

-----------------------------------------------------------------------------
\* A task that stands in the queue or on a worker is pending.
LEMMA PlacedIsPending ==
  ASSUME TypeOK, PendingInOnePlace, NEW t \in Tasks,
         Positions(tasks, t) # {} \/ RunsOn(running, t) # {}
  PROVE  future[t] = "pending"
<1>1. Held(tasks, running, t) = IF future[t] = "pending" THEN 1 ELSE 0
  BY PendingCounted
<1>2. Held(tasks, running, t) # 0
  BY HeldNat DEF TypeOK
<1>3. QED
  BY <1>1, <1>2

\* No step overwrites the result of a task, or the promise that was broken.
LEMMA ResultsStep ==
  ASSUME IInv, [Next]_poolVars, NEW t \in Tasks, future[t] \in Ready
  PROVE  future'[t] = future[t]
<1> USE DEF IInv, Ready
<1>1. CASE UNCHANGED poolVars
  BY <1>1 DEF poolVars
<1>2. CASE StartWorker
  BY <1>2 DEF StartWorker
<1>3. CASE StartFails
  BY <1>3 DEF StartFails
<1>4. ASSUME NEW u \in Tasks, Enqueue(u) PROVE future'[t] = future[t]
  BY <1>4 DEF TypeOK, Enqueue
<1>5. ASSUME NEW u \in Tasks, submit(u) PROVE future'[t] = future[t]
  BY <1>4, <1>5 DEF submit
<1>6. ASSUME NEW w \in Workers, Take(w) PROVE future'[t] = future[t]
  BY <1>6 DEF Take
<1>7. ASSUME NEW w \in Workers, SubmitChild(w) PROVE future'[t] = future[t]
  <2>1. Child[running[w]] \in Tasks
    BY <1>7, RunningTask DEF SubmitChild, Busy
  <2>2. QED
    BY <1>4, <1>7, <2>1 DEF SubmitChild
<1>8. ASSUME NEW w \in Workers, ChildReady(w) PROVE future'[t] = future[t]
  BY <1>8 DEF ChildReady
<1>9. ASSUME NEW w \in Workers, Finish(w) PROVE future'[t] = future[t]
  <2>1. running[w] \in Tasks /\ w \in RunsOn(running, running[w])
    BY <1>9, RunningTask DEF Finish, Busy, RunsOn
  <2>2. future[running[w]] = "pending"
    BY <2>1, PlacedIsPending
  <2>3. PICK result \in {"value", "exception"} :
          future' = [future EXCEPT ![running[w]] = result]
    BY <1>9 DEF Finish
  <2>4. QED
    BY <2>1, <2>2, <2>3 DEF TypeOK
<1>10. CASE BeginDestroy \/ PutStop \/ Join
  BY <1>10 DEF BeginDestroy, PutStop, Join
<1>11. CASE DestroyMembers
  <2>1. t \notin Queued
    <3>1. Positions(tasks, t) = {}
      BY PlacedIsPending
    <3>2. QED
      BY <3>1 DEF Queued, Positions
  <2>2. QED
    BY <1>11, <2>1 DEF DestroyMembers
<1>12. QED
  BY <1>1, <1>2, <1>3, <1>5, <1>6, <1>7, <1>8, <1>9, <1>10, <1>11
     DEF Next, WorkerStep, Destroy

-----------------------------------------------------------------------------
LEMMA InitIInv == PoolInit => IInv
<1> SUFFICES ASSUME PoolInit PROVE IInv
  OBVIOUS
<1> USE NumThreadsPositive DEF PoolInit
<1>1. TypeOK
  BY DEF TypeOK
<1>2. WorkersAgree
  BY DEF WorkersAgree, Workers, Busy
<1>3. StagesAgree
  BY DEF StagesAgree
<1>4. OneStopPerWorker
  <2>1. Stops = {} /\ Exited = {}
    BY DEF Stops, Exited
  <2>2. QED
    BY <2>1, FS_EmptySet DEF OneStopPerWorker
<1>5. PendingInOnePlace
  <2>1. ASSUME NEW t \in Tasks PROVE Places(t) = {}
    BY StopNotTask DEF Places
  <2>2. QED
    BY <2>1, FS_EmptySet DEF PendingInOnePlace
<1>6. LateBehindStops
  BY DEF LateBehindStops
<1>7. BrokenAtTheEnd /\ EarlyTasksServed
  BY DEF BrokenAtTheEnd, EarlyTasksServed
<1>8. QED
  BY <1>1, <1>2, <1>3, <1>4, <1>5, <1>6, <1>7 DEF IInv

\* The invariant survives every step of the pool, whoever takes it.
LEMMA IInvStep ==
  ASSUME IInv, [Next]_poolVars
  PROVE  IInv'
<1> USE DEF IInv
<1>1. TypeOK'
  BY TypeStep
<1>2. WorkersAgree' /\ StagesAgree'
  BY WorkersStep, StagesStep
<1>3. OneStopPerWorker'
  BY OneStopStep
<1>4. PendingInOnePlace'
  BY <1>1, PendingStep
<1>5. LateBehindStops'
  BY LateStep
<1>6. BrokenAtTheEnd' /\ EarlyTasksServed'
  BY BrokenStep, EarlyStep
<1>7. QED
  BY <1>1, <1>2, <1>3, <1>4, <1>5, <1>6

\* The inductive invariant that the theorems below rest on.
THEOREM Invariance == Spec => []IInv
<1>1. IInv /\ [Next]_poolVars => IInv'
  BY IInvStep
<1>2. QED
  BY <1>1, InitIInv, PTL DEF Spec

\* The pool keeps its types: in particular its constructor never starts one
\* thread too many.
THEOREM TypeCorrect == Spec => []TypeOK
BY Invariance, PTL DEF IInv

\* However many workers race for the Stops, each takes exactly one.
THEOREM StopsEndWorkersOnce == Spec => []OneStopPerWorker
BY Invariance, PTL DEF IInv

\* submit's future is pending exactly while its task is in one place, the
\* queue or a worker.
THEOREM TasksServedOnce == Spec => []PendingInOnePlace
BY Invariance, PTL DEF IInv

\* When the destructor returned, every task submitted before it began has
\* its result.
THEOREM DestructorServesEarlyTasks == Spec => []EarlyTasksServed
BY Invariance, PTL DEF IInv

\* A future that is ready stays as it is: what one get() of a shared state
\* saw, every later one sees.
ResultsStay ==
  [][\A t \in Tasks : future[t] \in Ready => future'[t] = future[t]]_poolVars

THEOREM ResultsFinal == Spec => ResultsStay
<1>1. IInv /\ [Next]_poolVars
        => [\A t \in Tasks : future[t] \in Ready => future'[t] = future[t]]_poolVars
  BY ResultsStep
<1>2. QED
  BY <1>1, Invariance, PTL DEF Spec, ResultsStay

-----------------------------------------------------------------------------
(* GraphAgent *)


Elements == Nodes \cup Arcs
InGraph == ToSet(nodes) \cup ToSet(arcs)

\* A graph lists none of its nodes and arcs twice, and a call's snapshot has
\* a task for each of its elements.
GraphAgrees ==
  /\ IsInjective(nodes) /\ IsInjective(arcs)
  /\ \A c \in Callers : Len(items[c]) <= Cardinality(Elements)

\* The tasks of a call: those before its loop's index were submitted, or have
\* returned a value, and none is outside its snapshot.
CallAgrees(c) ==
  /\ next[c] <= Len(items[c]) + 1
  /\ call[c] = "idle" => items[c] = <<>>
  /\ call[c] = "get" => \A i \in 1..(next[c] - 1) : future[<<c, i>>] = "value"
  /\ call[c] # "threw" => thrown[c] = 0
  /\ thrown[c] <= Len(items[c])
  /\ \A i \in 1..Cardinality(Elements) :
       future[<<c, i>>] = "pending" => i <= Len(items[c]) /\ call[c] # "returned"

CallsAgree == \A c \in Callers : CallAgrees(c)

\* What a call in progress works on is in the graph.
SnapshotsLive ==
  \A c \in Callers : InCall(c) => \A i \in 1..Len(items[c]) : items[c][i] \in InGraph

AgentInv ==
  /\ IInv /\ AgentTypeOK
  /\ GraphAgrees /\ CallsAgree /\ SnapshotsLive
  /\ ReturnMeansAllRan /\ FirstFailureThrown

-----------------------------------------------------------------------------
\* The ranks of a finite set of numbers are 1, 2 and so on, each once.
LEMMA RanksEnumerate ==
  ASSUME NEW n \in Nat, NEW kept \in SUBSET (1..n)
  PROVE  /\ Cardinality(kept) \in Nat
         /\ \A i \in kept : Rank(kept, i) \in 1..Cardinality(kept)
         /\ \A i, j \in kept : Rank(kept, i) = Rank(kept, j) => i = j
         /\ \A k \in 1..Cardinality(kept) : \E i \in kept : Rank(kept, i) = k
<1> DEFINE upto(i) == {j \in kept : j <= i}
           rank == [i \in kept |-> Rank(kept, i)]
<1>1. IsFiniteSet(kept) /\ Cardinality(kept) \in Nat
  <2>1. IsFiniteSet(1..n)
    BY FS_Interval
  <2>2. QED
    BY <2>1, FS_Subset, FS_CardinalityType
<1>2. ASSUME NEW i \in kept
      PROVE  /\ IsFiniteSet(upto(i))
             /\ Rank(kept, i) = Cardinality(upto(i))
             /\ Rank(kept, i) \in 1..Cardinality(kept)
  <2>1. upto(i) \in SUBSET kept /\ i \in upto(i)
    OBVIOUS
  <2>2. IsFiniteSet(upto(i)) /\ Cardinality(upto(i)) <= Cardinality(kept)
    BY <1>1, <2>1, FS_Subset
  <2>3. Cardinality(upto(i)) \in Nat /\ Cardinality(upto(i)) # 0
    BY <2>1, <2>2, FS_CardinalityType, FS_EmptySet
  <2>4. Rank(kept, i) = Cardinality(upto(i))
    BY DEF Rank
  <2>5. QED
    BY <1>1, <2>2, <2>3, <2>4
<1>3. ASSUME NEW i \in kept, NEW j \in kept, i < j
      PROVE  Rank(kept, i) # Rank(kept, j)
  <2>1. upto(i) \in SUBSET upto(j) /\ upto(i) # upto(j)
    <3>1. j \in upto(j) /\ j \notin upto(i)
      BY <1>3
    <3>2. upto(i) \in SUBSET upto(j)
      <4>1. \A k \in kept : k \in Nat
        OBVIOUS
      <4>2. ASSUME NEW k \in upto(i) PROVE k \in kept /\ k <= j
        BY <1>3, <4>1
      <4>3. QED
        BY <4>2
    <3>3. upto(i) # upto(j)
      BY <3>1
    <3>4. QED
      BY <3>2, <3>3
  <2>2. IsFiniteSet(upto(j))
    BY <1>2
  <2> HIDE DEF upto
  <2>3. Cardinality(upto(i)) # Cardinality(upto(j))
    BY <2>1, <2>2, FS_Subset
  <2>4. QED
    BY <1>2, <2>3
<1>4. \A i, j \in kept : Rank(kept, i) = Rank(kept, j) => i = j
  <2> SUFFICES ASSUME NEW i \in kept, NEW j \in kept, i # j
               PROVE  Rank(kept, i) # Rank(kept, j)
    OBVIOUS
  <2>1. i < j \/ j < i
    OBVIOUS
  <2>2. QED
    BY <1>3, <2>1
<1>5. rank \in Injection(kept, 1..Cardinality(kept))
  BY <1>2, <1>4 DEF Injection, IsInjective
<1>6. rank \in Surjection(kept, 1..Cardinality(kept))
  <2>1. /\ IsFiniteSet(1..Cardinality(kept))
        /\ Cardinality(1..Cardinality(kept)) = Cardinality(kept)
    BY <1>1, FS_Interval
  <2>2. QED
    BY <1>5, <2>1, FS_Injection
<1>7. \A k \in 1..Cardinality(kept) : \E i \in kept : Rank(kept, i) = k
  BY <1>6 DEF Surjection
<1>8. QED
  BY <1>1, <1>2, <1>4, <1>7

\* Without takes away the elements it is given and no others, and repeats
\* none.
LEMMA WithoutProperties ==
  ASSUME NEW S, NEW s \in Seq(S), NEW gone
  PROVE  /\ Without(s, gone) \in Seq(S)
         /\ ToSet(Without(s, gone)) = ToSet(s) \ gone
         /\ IsInjective(s) => IsInjective(Without(s, gone))
<1> DEFINE kept == {i \in DOMAIN s : s[i] \notin gone}
           at(k) == CHOOSE i \in kept : Rank(kept, i) = k
           n == Cardinality(kept)
           left == [k \in 1..n |-> s[at(k)]]
<1>1. Without(s, gone) = left
  BY DEF Without
<1>2. Len(s) \in Nat /\ DOMAIN s = 1..Len(s) /\ kept \in SUBSET (1..Len(s))
  OBVIOUS
<1>3. n \in Nat /\ \A k \in 1..n : \E i \in kept : Rank(kept, i) = k
  <2> HIDE DEF kept
  <2>1. QED
    BY <1>2, RanksEnumerate
<1>4. ASSUME NEW k \in 1..n PROVE at(k) \in kept /\ Rank(kept, at(k)) = k
  <2>1. \E i \in kept : Rank(kept, i) = k
    BY <1>3
  <2>2. QED
    BY <2>1
<1>5. ASSUME NEW i \in kept PROVE Rank(kept, i) \in 1..n /\ at(Rank(kept, i)) = i
  <2>1. Rank(kept, i) \in 1..n
    BY <1>2, RanksEnumerate
  <2> HIDE DEF at
  <2>2. at(Rank(kept, i)) \in kept /\ Rank(kept, at(Rank(kept, i))) = Rank(kept, i)
    BY <1>4, <2>1
  <2>3. \A j \in kept : Rank(kept, j) = Rank(kept, i) => j = i
    BY <1>2, RanksEnumerate
  <2>4. QED
    BY <2>1, <2>2, <2>3
<1> HIDE DEF at, n
<1>6. left \in Seq(S)
  <2>1. ASSUME NEW k \in 1..n PROVE s[at(k)] \in S
    <3>1. at(k) \in 1..Len(s)
      BY <1>2, <1>4
    <3>2. QED
      BY <3>1
  <2>2. left \in [1..n -> S]
    BY <2>1
  <2>3. QED
    BY <1>3, <2>2
<1>7. ToSet(left) = ToSet(s) \ gone
  <2>1. ASSUME NEW k \in 1..n PROVE s[at(k)] \in ToSet(s) \ gone
    BY <1>2, <1>4 DEF ToSet
  <2>2. ASSUME NEW e \in ToSet(s) \ gone PROVE \E k \in 1..n : s[at(k)] = e
    <3>1. PICK i \in kept : s[i] = e
      BY DEF ToSet
    <3>2. QED
      BY <1>5, <3>1
  <2>3. QED
    BY <2>1, <2>2 DEF ToSet
<1>8. ASSUME IsInjective(s) PROVE IsInjective(left)
  <2>1. ASSUME NEW j \in 1..n, NEW k \in 1..n, s[at(j)] = s[at(k)] PROVE j = k
    <3>1. at(j) = at(k)
      BY <1>2, <1>4, <1>8, <2>1 DEF IsInjective
    <3>2. QED
      BY <1>4, <3>1
  <2>2. QED
    BY <2>1 DEF IsInjective
<1>9. QED
  BY <1>1, <1>6, <1>7, <1>8

\* A sequence without repetitions is no longer than its set of elements.
LEMMA InjectiveIsShort ==
  ASSUME Legal, NEW s \in Seq(Nodes) \cup Seq(Arcs), IsInjective(s)
  PROVE  Len(s) <= Cardinality(Elements)
<1>1. s \in Injection(1..Len(s), Elements)
  BY DEF Injection, IsInjective, Elements
<1>2. Cardinality(1..Len(s)) = Len(s)
  <2>1. \A n \in Nat : Cardinality(1..n) = n
    <3>1. ASSUME NEW n \in Nat PROVE Cardinality(1..n) = n
      <4>1. Cardinality(1..n) = IF 1 > n THEN 0 ELSE n - 1 + 1
        BY FS_Interval
      <4>2. QED
        BY <4>1
    <3>2. QED
      BY <3>1
  <2>2. Len(s) \in Nat
    OBVIOUS
  <2>3. QED
    BY <2>1, <2>2
<1>3. QED
  BY <1>1, <1>2, FS_Injection DEF Elements, Legal

-----------------------------------------------------------------------------
\* The tasks of a call are tasks of the pool.
LEMMA CardinalityNatural ==
  ASSUME Legal
  PROVE  Cardinality(Elements) \in Nat
BY FS_CardinalityType DEF Elements, Legal

LEMMA CallTypes ==
  ASSUME AgentTypeOK, NEW c \in Callers
  PROVE  /\ items[c] \in Seq(Elements) /\ Len(items[c]) \in Nat
         /\ next[c] \in Nat \ {0} /\ thrown[c] \in Nat
BY DEF AgentTypeOK, Elements

LEMMA TaskOfCall ==
  ASSUME Legal, AgentTypeOK, GraphAgrees, NEW c \in Callers, NEW i \in 1..Len(items[c])
  PROVE  i \in 1..Cardinality(Elements) /\ <<c, i>> \in Tasks
<1>1. i \in 1..Cardinality(Elements)
  BY CardinalityNatural, CallTypes DEF GraphAgrees
<1>2. QED
  BY <1>1 DEF Elements, Legal

\* A step of the agent is a step of its pool, or leaves it alone.
LEMMA PoolStep ==
  ASSUME Legal, AgentInv, [AgentNext]_vars
  PROVE  [Next]_poolVars
<1> USE DEF AgentInv
<1>1. CASE UNCHANGED vars
  BY <1>1 DEF vars
<1>2. CASE AgentOwner
  BY <1>2 DEF AgentOwner, Next, Destroy
<1>3. ASSUME NEW w \in Workers, AgentWorker(w) PROVE [Next]_poolVars
  BY <1>3 DEF AgentWorker, Next
<1>4. CASE GraphStep
  BY <1>4 DEF GraphStep, insert_node, remove_node, insert_arc, remove_arc, Change
<1>5. ASSUME NEW c \in Callers, parallel_for_each_node(c) \/ parallel_for_each_arc(c)
      PROVE  [Next]_poolVars
  BY <1>5 DEF parallel_for_each_node, parallel_for_each_arc, Snapshot
<1>6. ASSUME NEW c \in Callers, next[c] <= Len(items[c]), submit(<<c, next[c]>>)
      PROVE  [Next]_poolVars
  <2>1. <<c, next[c]>> \in Tasks
    BY <1>6, CallTypes, TaskOfCall
  <2>2. QED
    BY <1>6, <2>1 DEF Next
<1>7. ASSUME NEW c \in Callers, CallStep(c) PROVE [Next]_poolVars
  BY <1>6, <1>7 DEF CallStep, SubmitNext, SubmitThrows, AllSubmitted, GetNext, Return
<1>8. QED
  BY <1>1, <1>2, <1>3, <1>4, <1>5, <1>7 DEF AgentNext

\* What a call sees of a step: its own next action, or nothing.
Moves(c) == parallel_for_each_node(c) \/ parallel_for_each_arc(c) \/ CallStep(c)

Stays(c) ==
  /\ call'[c] = call[c] /\ items'[c] = items[c]
  /\ next'[c] = next[c] /\ thrown'[c] = thrown[c]

LEMMA OneCallMoves ==
  ASSUME AgentTypeOK, [AgentNext]_vars, NEW c \in Callers
  PROVE  Moves(c) \/ Stays(c)
<1>1. CASE UNCHANGED callVars
  BY <1>1 DEF callVars, Stays
<1>2. ASSUME NEW d \in Callers, Moves(d) PROVE Moves(c) \/ Stays(c)
  <2> SUFFICES ASSUME d # c PROVE Stays(c)
    BY <1>2
  <2>1. CASE parallel_for_each_node(d) \/ parallel_for_each_arc(d)
    BY <2>1 DEF parallel_for_each_node, parallel_for_each_arc, Snapshot, AgentTypeOK, Stays
  <2>2. CASE SubmitNext(d) \/ SubmitThrows(d)
    BY <2>2 DEF SubmitNext, SubmitThrows, AgentTypeOK, Stays
  <2>3. CASE AllSubmitted(d) \/ GetNext(d) \/ Return(d)
    BY <2>3 DEF AllSubmitted, GetNext, Return, AgentTypeOK, Stays
  <2>4. QED
    BY <1>2, <2>1, <2>2, <2>3 DEF Moves, CallStep
<1>3. CASE GraphStep
  BY <1>1, <1>3 DEF GraphStep, insert_node, remove_node, insert_arc, remove_arc, Change
<1>4. QED
  BY <1>1, <1>2, <1>3 DEF AgentNext, AgentOwner, AgentWorker, Moves, vars

\* The result of a task of a call stays.
LEMMA ResultsOfCall ==
  ASSUME Legal, AgentInv, [AgentNext]_vars, NEW c \in Callers, NEW i \in 1..Len(items[c]),
         future[<<c, i>>] \in {"value", "exception"}
  PROVE  future'[<<c, i>>] = future[<<c, i>>]
<1>1. <<c, i>> \in Tasks
  BY TaskOfCall DEF AgentInv
<1>2. QED
  BY <1>1, PoolStep, ResultsStep DEF AgentInv, Ready

\* Only the loop of a call makes a task of it pending.
LEMMA PendingOfCall ==
  ASSUME Legal, AgentInv, [AgentNext]_vars, NEW c \in Callers, NEW i \in 1..Cardinality(Elements),
         future'[<<c, i>>] = "pending", future[<<c, i>>] # "pending"
  PROVE  /\ call[c] = "submit" /\ i <= Len(items[c])
         /\ SubmitNext(c) \/ SubmitThrows(c)
<1> USE DEF AgentInv, IInv
<1> DEFINE t == <<c, i>>
<1>1. t \in Tasks
  BY DEF Elements, Legal
<1> HIDE DEF t
<1>2. ASSUME future' = future PROVE FALSE
  BY <1>2 DEF t
<1>3. ~ UNCHANGED poolVars
  BY <1>2 DEF poolVars
<1>4. ASSUME NEW w \in Workers, Finish(w) PROVE FALSE
  <2>1. running[w] \in Tasks
    BY <1>4, RunningTask DEF Finish, Busy
  <2>2. PICK result \in {"value", "exception"} :
          future' = [future EXCEPT ![running[w]] = result]
    BY <1>4 DEF Finish
  <2>3. QED
    BY <1>1, <2>1, <2>2 DEF TypeOK, t
<1>5. ASSUME NEW w \in Workers, SubmitChild(w) PROVE FALSE
  <2>1. running[w] \in Tasks
    BY <1>5, RunningTask DEF SubmitChild, Busy
  <2>2. QED
    BY <1>5, <2>1 DEF SubmitChild, Legal
<1>6. ~ \E w \in Workers : AgentWorker(w)
  BY <1>2, <1>4, <1>5 DEF AgentWorker, WorkerStep, Take, ChildReady
<1>7. ~ AgentOwner
  <2>1. ~ DestroyMembers
    BY <1>1 DEF DestroyMembers, t
  <2>2. QED
    BY <1>2, <2>1 DEF AgentOwner, StartWorker, BeginDestroy, PutStop, Join
<1>8. ~ GraphStep
  BY <1>3 DEF GraphStep, insert_node, remove_node, insert_arc, remove_arc, Change
<1>9. PICK d \in Callers : SubmitNext(d) \/ SubmitThrows(d)
  BY <1>3, <1>6, <1>7, <1>8
     DEF AgentNext, vars, parallel_for_each_node, parallel_for_each_arc, Snapshot,
         CallStep, AllSubmitted, GetNext, Return
<1>10. /\ call[d] = "submit" /\ next[d] <= Len(items[d])
       /\ submit(<<d, next[d]>>)
  BY <1>3, <1>9 DEF SubmitNext, SubmitThrows
<1>11. <<d, next[d]>> = t
  BY <1>1, <1>2, <1>10 DEF submit, Enqueue, TypeOK, t
<1>12. QED
  BY <1>9, <1>10, <1>11 DEF t

-----------------------------------------------------------------------------
\* Types of the graph and of the calls.
LEMMA AgentTypeStep ==
  ASSUME Legal, AgentInv, [AgentNext]_vars
  PROVE  AgentTypeOK'
<1> USE DEF AgentInv, Legal
<1>1. TypeOK'
  BY PoolStep, IInvStep DEF IInv
<1>2. CASE UNCHANGED <<graphVars, callVars>>
  BY <1>1, <1>2 DEF AgentTypeOK, graphVars, callVars
<1>3. ASSUME NEW n \in Nodes, insert_node(n) PROVE AgentTypeOK'
  BY <1>1, <1>3 DEF AgentTypeOK, insert_node, Change, callVars
<1>4. ASSUME NEW n \in Nodes, remove_node(n) PROVE AgentTypeOK'
  <2>1. nodes' \in Seq(Nodes) /\ arcs' \in Seq(Arcs)
    BY <1>4, WithoutProperties DEF AgentTypeOK, remove_node
  <2>2. QED
    BY <1>1, <1>4, <2>1 DEF AgentTypeOK, remove_node, Change, callVars
<1>5. ASSUME NEW x \in Arcs, insert_arc(x) PROVE AgentTypeOK'
  BY <1>1, <1>5 DEF AgentTypeOK, insert_arc, Change, callVars
<1>6. ASSUME NEW x \in Arcs, remove_arc(x) PROVE AgentTypeOK'
  <2>1. arcs' \in Seq(Arcs)
    BY <1>6, WithoutProperties DEF AgentTypeOK, remove_arc
  <2>2. QED
    BY <1>1, <1>6, <2>1 DEF AgentTypeOK, remove_arc, Change, callVars
<1>7. ASSUME NEW c \in Callers, parallel_for_each_node(c) \/ parallel_for_each_arc(c)
      PROVE  AgentTypeOK'
  <2>1. nodes \in Seq(Nodes \cup Arcs) /\ arcs \in Seq(Nodes \cup Arcs)
    BY DEF AgentTypeOK
  <2>2. QED
    BY <1>1, <1>7, <2>1
       DEF AgentTypeOK, parallel_for_each_node, parallel_for_each_arc, Snapshot, graphVars
<1>8. ASSUME NEW c \in Callers, CallStep(c) PROVE AgentTypeOK'
  <2>1. CASE SubmitNext(c)
    BY <1>1, <2>1 DEF AgentTypeOK, SubmitNext, graphVars
  <2>2. CASE SubmitThrows(c)
    BY <1>1, <2>2 DEF AgentTypeOK, SubmitThrows, graphVars
  <2>3. CASE AllSubmitted(c)
    BY <1>1, <2>3 DEF AgentTypeOK, AllSubmitted, graphVars
  <2>4. CASE GetNext(c)
    <3>1. /\ next[c] \in Nat \ {0} /\ next[c] + 1 \in Nat \ {0}
          /\ next \in [Callers -> Nat \ {0}] /\ thrown \in [Callers -> Nat]
      BY DEF AgentTypeOK
    <3>2. next' \in [Callers -> Nat \ {0}]
      BY <2>4, <3>1 DEF GetNext
    <3>3. thrown' \in [Callers -> Nat]
      BY <2>4, <3>1 DEF GetNext
    <3>4. QED
      BY <1>1, <2>4, <3>2, <3>3 DEF AgentTypeOK, GetNext, graphVars
  <2>5. CASE Return(c)
    BY <1>1, <2>5 DEF AgentTypeOK, Return, graphVars
  <2>6. QED
    BY <1>8, <2>1, <2>2, <2>3, <2>4, <2>5 DEF CallStep
<1>9. QED
  BY <1>2, <1>3, <1>4, <1>5, <1>6, <1>7, <1>8
     DEF AgentNext, GraphStep, AgentOwner, AgentWorker, vars

\* No element is listed twice, and no snapshot is longer than the graph.
LEMMA InjectiveAppend ==
  ASSUME NEW S, NEW s \in Seq(S), NEW e \in S, IsInjective(s), e \notin ToSet(s)
  PROVE  IsInjective(Append(s, e)) /\ ToSet(Append(s, e)) = ToSet(s) \cup {e}
BY DEF IsInjective, ToSet

LEMMA GraphAgreesStep ==
  ASSUME Legal, AgentInv, [AgentNext]_vars
  PROVE  GraphAgrees'
<1> USE DEF AgentInv
<1>1. IsInjective(nodes)' /\ IsInjective(arcs)'
  <2>1. CASE UNCHANGED graphVars
    BY <2>1 DEF graphVars, GraphAgrees, IsInjective
  <2>2. CASE GraphStep
    <3> /\ nodes \in Seq(Nodes) /\ IsInjective(nodes)
        /\ arcs \in Seq(Arcs) /\ IsInjective(arcs)
      BY DEF GraphAgrees, AgentTypeOK
    <3>1. ASSUME NEW n \in Nodes, insert_node(n)
          PROVE  IsInjective(nodes') /\ arcs' = arcs
      BY <3>1, InjectiveAppend DEF insert_node
    <3>2. ASSUME NEW n \in Nodes, remove_node(n)
          PROVE  IsInjective(nodes') /\ IsInjective(arcs')
      BY <3>2, WithoutProperties DEF remove_node
    <3>3. ASSUME NEW x \in Arcs, insert_arc(x)
          PROVE  IsInjective(arcs') /\ nodes' = nodes
      BY <3>3, InjectiveAppend DEF insert_arc
    <3>4. ASSUME NEW x \in Arcs, remove_arc(x)
          PROVE  IsInjective(arcs') /\ nodes' = nodes
      BY <3>4, WithoutProperties DEF remove_arc
    <3>5. QED
      BY <2>2, <3>1, <3>2, <3>3, <3>4 DEF GraphStep, IsInjective
  <2>3. QED
    BY <2>1, <2>2
       DEF AgentNext, vars, AgentOwner, AgentWorker, parallel_for_each_node,
           parallel_for_each_arc, Snapshot, CallStep, SubmitNext, SubmitThrows,
           AllSubmitted, GetNext, Return
<1>2. ASSUME NEW c \in Callers PROVE Len(items'[c]) <= Cardinality(Elements)
  <2>1. CASE parallel_for_each_node(c) \/ parallel_for_each_arc(c)
    <3>1. items'[c] = nodes \/ items'[c] = arcs
      BY <2>1 DEF parallel_for_each_node, parallel_for_each_arc, Snapshot, AgentTypeOK
    <3>2. QED
      BY <3>1, InjectiveIsShort DEF GraphAgrees, AgentTypeOK
  <2>2. CASE Stays(c) \/ CallStep(c)
    BY <2>2 DEF Stays, CallStep, SubmitNext, SubmitThrows, AllSubmitted, GetNext, Return,
       GraphAgrees
  <2>3. QED
    BY <2>1, <2>2, OneCallMoves DEF Moves
<1>3. QED
  BY <1>1, <1>2 DEF GraphAgrees, Elements

\* What a call knows of its tasks stays true, whoever takes the step.
LEMMA CallsAgreeStep ==
  ASSUME Legal, AgentInv, [AgentNext]_vars
  PROVE  CallsAgree'
<1> USE DEF AgentInv
<1> SUFFICES ASSUME NEW c \in Callers PROVE CallAgrees(c)'
  BY DEF CallsAgree
<1> DEFINE Kept ==
      /\ next'[c] <= Len(items'[c]) + 1
      /\ call'[c] = "idle" => items'[c] = <<>>
      /\ call'[c] = "get" => \A i \in 1..(next'[c] - 1) : future'[<<c, i>>] = "value"
      /\ call'[c] # "threw" => thrown'[c] = 0
      /\ thrown'[c] <= Len(items'[c])
      /\ \A i \in 1..Cardinality(Elements) :
           future'[<<c, i>>] = "pending" => i <= Len(items'[c]) /\ call'[c] # "returned"
<1> SUFFICES Kept
  BY DEF CallAgrees, Elements
<1>1. /\ CallAgrees(c)
      /\ Len(items[c]) \in Nat /\ next[c] \in Nat \ {0} /\ thrown[c] \in Nat
  BY CallTypes DEF CallsAgree
<1>2. \A i \in 1..Len(items[c]) :
        future[<<c, i>>] = "value" => future'[<<c, i>>] = "value"
  BY ResultsOfCall
<1>3. \A i \in 1..Cardinality(Elements) :
        future'[<<c, i>>] = "pending" =>
          \/ future[<<c, i>>] = "pending"
          \/ /\ i <= Len(items[c])
             /\ SubmitNext(c) \/ SubmitThrows(c)
  BY PendingOfCall
<1>4. CASE parallel_for_each_node(c) \/ parallel_for_each_arc(c)
  <2>1. /\ call[c] = "idle" /\ call'[c] = "submit"
        /\ next'[c] = next[c] /\ thrown'[c] = thrown[c] /\ future' = future
    BY <1>4 DEF parallel_for_each_node, parallel_for_each_arc, Snapshot, AgentTypeOK, poolVars
  <2>2. /\ items[c] = <<>> /\ next[c] = 1 /\ thrown[c] = 0
        /\ \A i \in 1..Cardinality(Elements) : future[<<c, i>>] # "pending"
    BY <1>1, <2>1 DEF CallAgrees
  <2>3. Len(items'[c]) \in Nat
    BY AgentTypeStep DEF AgentTypeOK
  <2>4. QED
    BY <2>1, <2>2, <2>3 DEF CallAgrees
<1>5. CASE SubmitNext(c) \/ SubmitThrows(c)
  <2>1. /\ call[c] = "submit" /\ call'[c] \in {"submit", "threw"}
        /\ next[c] <= Len(items[c]) /\ next'[c] \in {next[c], next[c] + 1}
        /\ items'[c] = items[c] /\ thrown'[c] = thrown[c]
    BY <1>5 DEF SubmitNext, SubmitThrows, AgentTypeOK
  <2>2. \A i \in 1..Cardinality(Elements) :
          future'[<<c, i>>] = "pending" => i <= Len(items[c])
    BY <1>1, <1>3 DEF CallAgrees
  <2>3. QED
    BY <1>1, <2>1, <2>2 DEF CallAgrees
<1>6. CASE AllSubmitted(c)
  <2>1. /\ call[c] = "submit" /\ call'[c] = "get" /\ next'[c] = 1
        /\ items'[c] = items[c] /\ thrown'[c] = thrown[c] /\ future' = future
    BY <1>6 DEF AllSubmitted, AgentTypeOK, poolVars
  <2>2. QED
    BY <1>1, <2>1 DEF CallAgrees
<1>7. CASE GetNext(c)
  <2>1. /\ call[c] = "get" /\ next[c] <= Len(items[c])
        /\ items'[c] = items[c] /\ future' = future
        /\ \/ /\ future[<<c, next[c]>>] = "value"
              /\ next'[c] = next[c] + 1 /\ call'[c] = "get" /\ thrown'[c] = thrown[c]
           \/ next'[c] = next[c] /\ call'[c] = "threw" /\ thrown'[c] = next[c]
    BY <1>7 DEF GetNext, AgentTypeOK, poolVars
  <2>2. QED
    BY <1>1, <2>1 DEF CallAgrees
<1>8. CASE Return(c)
  <2>1. /\ call[c] = "get" /\ next[c] > Len(items[c]) /\ call'[c] = "returned"
        /\ items'[c] = items[c] /\ future' = future
        /\ next'[c] = next[c] /\ thrown'[c] = thrown[c]
    BY <1>8 DEF Return, AgentTypeOK, poolVars
  <2>2. \A i \in 1..Cardinality(Elements) : future[<<c, i>>] # "pending"
    BY <1>1, <2>1 DEF CallAgrees
  <2>3. QED
    BY <1>1, <2>1, <2>2 DEF CallAgrees
<1>9. CASE Stays(c)
  <2>1. call[c] = "get" => \A i \in 1..(next[c] - 1) : future'[<<c, i>>] = "value"
    BY <1>1, <1>2 DEF CallAgrees
  <2>2. \A i \in 1..Cardinality(Elements) :
          future'[<<c, i>>] = "pending" => i <= Len(items[c]) /\ call[c] # "returned"
    BY <1>1, <1>3, <1>9 DEF CallAgrees, Stays, SubmitNext, SubmitThrows
  <2>3. QED
    BY <1>1, <1>9, <2>1, <2>2 DEF CallAgrees, Stays
<1>10. QED
  BY <1>4, <1>5, <1>6, <1>7, <1>8, <1>9, OneCallMoves DEF Moves, CallStep

\* What a call in progress works on is not removed from the graph.
LEMMA SnapshotsLiveStep ==
  ASSUME Legal, AgentInv, [AgentNext]_vars
  PROVE  SnapshotsLive'
<1> USE DEF AgentInv
<1>1. ASSUME NEW e \in InGraph, InUse(e) PROVE e \in InGraph'
  <2> nodes \in Seq(Nodes) /\ arcs \in Seq(Arcs)
    BY DEF AgentTypeOK
  <2>1. CASE UNCHANGED graphVars
    BY <2>1 DEF graphVars, InGraph, ToSet
  <2>2. ASSUME NEW n \in Nodes, insert_node(n) PROVE e \in InGraph'
    <3>1. ToSet(nodes') = ToSet(nodes) \cup {n} /\ arcs' = arcs
      BY <2>2, InjectiveAppend DEF insert_node, GraphAgrees
    <3>2. QED
      BY <3>1 DEF InGraph
  <2>3. ASSUME NEW n \in Nodes, remove_node(n) PROVE e \in InGraph'
    <3>1. /\ ToSet(nodes') = ToSet(nodes) \ {n}
          /\ ToSet(arcs') = ToSet(arcs) \ {x \in Arcs : n \in Ends[x]}
      BY <2>3, WithoutProperties DEF remove_node
    <3>2. e # n /\ (e \in ToSet(arcs) => n \notin Ends[e])
      BY <1>1, <2>3 DEF remove_node
    <3>3. QED
      BY <3>1, <3>2 DEF InGraph
  <2>4. ASSUME NEW x \in Arcs, insert_arc(x) PROVE e \in InGraph'
    <3>1. ToSet(arcs') = ToSet(arcs) \cup {x} /\ nodes' = nodes
      BY <2>4, InjectiveAppend DEF insert_arc, GraphAgrees
    <3>2. QED
      BY <3>1 DEF InGraph
  <2>5. ASSUME NEW x \in Arcs, remove_arc(x) PROVE e \in InGraph'
    <3>1. ToSet(arcs') = ToSet(arcs) \ {x} /\ nodes' = nodes /\ e # x
      BY <1>1, <2>5, WithoutProperties DEF remove_arc
    <3>2. QED
      BY <3>1 DEF InGraph
  <2>6. QED
    BY <2>1, <2>2, <2>3, <2>4, <2>5
       DEF AgentNext, GraphStep, vars, AgentOwner, AgentWorker, parallel_for_each_node,
           parallel_for_each_arc, Snapshot, CallStep, SubmitNext, SubmitThrows,
           AllSubmitted, GetNext, Return
<1> SUFFICES ASSUME NEW c \in Callers, call'[c] \in {"submit", "get"},
                    NEW i \in 1..Len(items'[c])
             PROVE  items'[c][i] \in InGraph'
  BY DEF SnapshotsLive, InCall
<1>2. CASE parallel_for_each_node(c) \/ parallel_for_each_arc(c)
  <2>1. /\ items'[c] = nodes \/ items'[c] = arcs
        /\ nodes' = nodes /\ arcs' = arcs
    BY <1>2 DEF parallel_for_each_node, parallel_for_each_arc, Snapshot, AgentTypeOK, graphVars
  <2>2. nodes \in Seq(Nodes) /\ arcs \in Seq(Arcs)
    BY DEF AgentTypeOK
  <2>3. QED
    BY <2>1, <2>2 DEF InGraph, ToSet
<1>3. CASE CallStep(c) \/ Stays(c)
  <2>1. InCall(c) /\ items'[c] = items[c]
    <3>1. CASE SubmitNext(c) \/ SubmitThrows(c)
      BY <3>1 DEF SubmitNext, SubmitThrows, InCall
    <3>2. CASE AllSubmitted(c) \/ GetNext(c)
      BY <3>2 DEF AllSubmitted, GetNext, InCall
    <3>3. ~ Return(c)
      BY DEF Return, AgentTypeOK
    <3>4. QED
      BY <1>3, <3>1, <3>2, <3>3 DEF CallStep, Stays, InCall
  <2>2. items[c][i] \in InGraph
    BY <2>1 DEF SnapshotsLive
  <2>3. items[c][i] \in ToSet(items[c])
    BY <2>1 DEF AgentTypeOK, ToSet
  <2>4. InUse(items[c][i])
    BY <2>1, <2>3 DEF InUse
  <2>5. QED
    BY <1>1, <2>1, <2>2, <2>4
<1>4. QED
  BY <1>2, <1>3, OneCallMoves DEF Moves

\* A call that returned saw the value of every task of its snapshot.
LEMMA ReturnStep ==
  ASSUME Legal, AgentInv, [AgentNext]_vars
  PROVE  ReturnMeansAllRan'
<1> USE DEF AgentInv
<1> SUFFICES ASSUME NEW c \in Callers, call'[c] = "returned",
                    NEW i \in 1..Len(items'[c])
             PROVE  future'[<<c, i>>] = "value"
  BY DEF ReturnMeansAllRan
<1>1. CASE Return(c)
  <2>1. call[c] = "get" /\ next[c] > Len(items[c]) /\ items' = items
    BY <1>1 DEF Return
  <2>2. i \in 1..(next[c] - 1)
    BY <2>1, CallTypes
  <2>3. future[<<c, i>>] = "value"
    BY <2>1, <2>2 DEF CallsAgree, CallAgrees
  <2>4. QED
    BY <2>1, <2>3, ResultsOfCall
<1>2. CASE Stays(c)
  <2>1. call[c] = "returned" /\ items'[c] = items[c]
    BY <1>2 DEF Stays
  <2>2. future[<<c, i>>] = "value"
    BY <2>1 DEF ReturnMeansAllRan
  <2>3. QED
    BY <2>1, <2>2, ResultsOfCall
<1>3. ~ (parallel_for_each_node(c) \/ parallel_for_each_arc(c))
  BY DEF parallel_for_each_node, parallel_for_each_arc, Snapshot, AgentTypeOK
<1>4. ~ (SubmitNext(c) \/ SubmitThrows(c) \/ AllSubmitted(c) \/ GetNext(c))
  BY DEF SubmitNext, SubmitThrows, AllSubmitted, GetNext, AgentTypeOK
<1>5. QED
  BY <1>1, <1>2, <1>3, <1>4, OneCallMoves DEF Moves, CallStep

\* The tasks before the one whose exception left the call returned values.
LEMMA FailureStep ==
  ASSUME Legal, AgentInv, [AgentNext]_vars
  PROVE  FirstFailureThrown'
<1> USE DEF AgentInv
<1> SUFFICES ASSUME NEW c \in Callers, thrown'[c] # 0
             PROVE  /\ future'[<<c, thrown'[c]>>] = "exception"
                    /\ \A i \in 1..(thrown'[c] - 1) : future'[<<c, i>>] = "value"
  BY DEF FirstFailureThrown
<1>1. thrown[c] \in Nat /\ next[c] \in Nat \ {0} /\ Len(items[c]) \in Nat
  BY CallTypes
<1>2. CASE thrown'[c] = thrown[c]
  <2>1. thrown[c] \in 1..Len(items[c])
    BY <1>1, <1>2 DEF CallsAgree, CallAgrees
  <2>2. /\ future[<<c, thrown[c]>>] = "exception"
        /\ \A i \in 1..(thrown[c] - 1) : future[<<c, i>>] = "value"
    BY <1>2 DEF FirstFailureThrown
  <2>3. \A i \in 1..(thrown[c] - 1) : i \in 1..Len(items[c])
    BY <2>1
  <2>4. QED
    BY <1>2, <2>1, <2>2, <2>3, ResultsOfCall
<1>3. CASE thrown'[c] # thrown[c]
  <2>1. GetNext(c)
    BY <1>3, OneCallMoves
       DEF Moves, Stays, CallStep, parallel_for_each_node, parallel_for_each_arc,
           Snapshot, SubmitNext, SubmitThrows, AllSubmitted, Return
  <2>2. /\ call[c] = "get" /\ thrown'[c] = next[c] /\ future' = future
        /\ future[<<c, next[c]>>] = "exception"
    BY <1>3, <2>1 DEF GetNext, AgentTypeOK, poolVars
  <2>3. QED
    BY <2>2 DEF CallsAgree, CallAgrees
<1>4. QED
  BY <1>2, <1>3

-----------------------------------------------------------------------------
LEMMA InitAgentInv ==
  ASSUME Legal, Init
  PROVE  AgentInv
<1>1. IInv
  BY InitIInv DEF Init
<1>2. AgentTypeOK
  BY <1>1 DEF Init, IInv, AgentTypeOK, Legal
<1>3. GraphAgrees
  BY CardinalityNatural DEF Init, GraphAgrees, IsInjective
<1>4. CallsAgree
  <2>1. ASSUME NEW c \in Callers, NEW i \in 1..Cardinality(Elements)
        PROVE  future[<<c, i>>] = "none"
    BY DEF Init, PoolInit, Elements, Legal
  <2>2. QED
    BY <2>1 DEF Init, CallsAgree, CallAgrees
<1>5. SnapshotsLive /\ ReturnMeansAllRan /\ FirstFailureThrown
  BY DEF Init, SnapshotsLive, InCall, ReturnMeansAllRan, FirstFailureThrown
<1>6. QED
  BY <1>1, <1>2, <1>3, <1>4, <1>5 DEF AgentInv

\* The invariant of the pool, with what the calls know of their tasks and of
\* the graph, survives every step of the callers, the workers, the owner and
\* the threads that change the graph.
THEOREM AgentInvariance ==
  ASSUME Legal
  PROVE  AgentSpec => []AgentInv
<1>1. AgentInv /\ [AgentNext]_vars => AgentInv'
  <2> SUFFICES ASSUME AgentInv, [AgentNext]_vars PROVE AgentInv'
    OBVIOUS
  <2>1. IInv'
    BY PoolStep, IInvStep DEF AgentInv
  <2>2. QED
    BY <2>1, AgentTypeStep, GraphAgreesStep, CallsAgreeStep, SnapshotsLiveStep,
       ReturnStep, FailureStep DEF AgentInv
<1>2. QED
  BY <1>1, InitAgentInv, PTL DEF AgentSpec

\* The agent uses its pool as the pool may be used: what it does with the
\* pool is a behaviour of ThreadPool, and the pool's safety holds in it.
THEOREM AgentUsesThePool ==
  ASSUME Legal
  PROVE  AgentSpec => PoolInit /\ [][Next]_poolVars
<1>1. AgentInv /\ [AgentNext]_vars => [Next]_poolVars
  BY PoolStep
<1>2. Init => PoolInit
  BY DEF Init
<1>3. QED
  BY <1>1, <1>2, AgentInvariance, PTL DEF AgentSpec

\* The agent, its graph and its pool keep their types.
THEOREM AgentTypeCorrect ==
  ASSUME Legal
  PROVE  AgentSpec => []AgentTypeOK
BY AgentInvariance, PTL DEF AgentInv

\* parallel_for_each returns only when every element of its snapshot was
\* served, and served without an exception.
THEOREM ReturnedCallsRanAll ==
  ASSUME Legal
  PROVE  AgentSpec => []ReturnMeansAllRan
BY AgentInvariance, PTL DEF AgentInv

\* The exception of the first element in the order of the snapshot leaves the
\* call, whichever worker threw first.
THEOREM CallsThrowInOrder ==
  ASSUME Legal
  PROVE  AgentSpec => []FirstFailureThrown
BY AgentInvariance, PTL DEF AgentInv

\* A worker runs an element only while its call waits for it, on an element
\* that is still in the graph - unless the call threw.
THEOREM WorkersSeeLiveData ==
  ASSUME Legal
  PROVE  AgentSpec => []RunsOnLiveData
<1>1. AgentInv => RunsOnLiveData
  <2> SUFFICES ASSUME AgentInv, NEW w \in Workers, NEW c \in Callers,
                      NEW i \in 1..Cardinality(Elements),
                      running[w] = <<c, i>>, call[c] # "threw"
               PROVE  InCall(c) /\ items[c][i] \in InGraph
    BY DEF RunsOnLiveData, Elements, InGraph
  <2> USE DEF AgentInv, IInv
  <2>1. <<c, i>> \in Tasks /\ w \in RunsOn(running, <<c, i>>)
    BY DEF Elements, RunsOn, Legal
  <2>2. future[<<c, i>>] = "pending"
    BY <2>1, PlacedIsPending
  <2>3. i \in 1..Len(items[c]) /\ call[c] # "returned"
    BY <2>2, CallTypes DEF CallsAgree, CallAgrees
  <2>4. InCall(c)
    BY <2>3 DEF CallsAgree, CallAgrees, AgentTypeOK, InCall
  <2>5. QED
    BY <2>3, <2>4 DEF SnapshotsLive
<1>2. QED
  BY <1>1, AgentInvariance, PTL
=============================================================================
