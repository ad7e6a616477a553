----------------------------- MODULE ThreadPool -----------------------------
(***************************************************************************)
(* ThreadPool of threadpool.hpp: a fixed number of worker threads around   *)
(* one ConcurrentQueue of tasks, and a destructor that puts one empty task *)
(* (Stop) per worker and joins them.                                       *)
(*                                                                         *)
(* The queue is the blocking FIFO that ConcurrentQueue is shown to be: a   *)
(* put is an append, a get takes the head and blocks while there is none.  *)
(* A task may throw (the packaged_task keeps the exception for the         *)
(* future), may submit another task of the same pool and may then wait for *)
(* that task's future.                                                     *)
(***************************************************************************)
EXTENDS Naturals, Sequences, FiniteSets

CONSTANTS NumThreads,   \* the workers asked for, at least one
          Tasks,        \* the tasks that can be submitted
          Stop,         \* the empty std::function
          NoTask,       \* the task of a worker that has none
          MayThrow,     \* the tasks whose callable may throw
          Child,        \* Child[t]: the task that t submits, or NoTask
          Waits         \* the tasks that wait for the future of their child

ASSUME NumThreadsPositive == NumThreads \in Nat \ {0}
ASSUME StopNotTask == Stop \notin Tasks /\ NoTask \notin Tasks
ASSUME ChildFunction == Child \in [Tasks -> Tasks \cup {NoTask}]

Workers == 1..NumThreads
Children == {Child[t] : t \in Tasks}

VARIABLES tasks,     \* the queue, front first
          worker,    \* worker[w]: where worker w is
          running,   \* running[w]: the task it took, or NoTask
          future,    \* future[t]: the shared state of the task's future
          stage,     \* the life of the pool, as its owner sees it
          started,   \* threads constructed
          stops,     \* empty tasks put by the destructor
          joined,    \* threads joined by the destructor
          late       \* the tasks submitted after the destructor began

poolVars == <<tasks, worker, running, future, stage, started, stops, joined, late>>

Ready == {"value", "exception", "broken"}

PoolInit ==
  /\ tasks = <<>>
  /\ worker = [w \in Workers |-> "none"]
  /\ running = [w \in Workers |-> NoTask]
  /\ future = [t \in Tasks |-> "none"]
  /\ stage = "starting"
  /\ started = 0
  /\ stops = 0
  /\ joined = 0
  /\ late = {}

-----------------------------------------------------------------------------
\* Mutant of StartWorker: the loop of the constructor runs once too often.
StartOneMore ==
  /\ stage = "starting"
  /\ started < NumThreads + 1
  /\ started' = started + 1
  /\ worker' = [worker EXCEPT ![started + 1] = "get"]
  /\ stage' = IF started = NumThreads THEN "open" ELSE "starting"
  /\ UNCHANGED <<tasks, running, future, stops, joined, late>>

(* The constructor. *)
StartWorker ==
  /\ stage = "starting"
  /\ started < NumThreads
  /\ started' = started + 1
  /\ worker' = [worker EXCEPT ![started + 1] = "get"]
  /\ stage' = IF started + 1 = NumThreads THEN "open" ELSE "starting"
  /\ UNCHANGED <<tasks, running, future, stops, joined, late>>

\* The constructor of a std::thread throws.  The members are destroyed, and
\* the destructor of a thread that is still joinable ends the program.
StartFails ==
  /\ stage = "starting"
  /\ stage' = IF started = 0 THEN "failed" ELSE "terminated"
  /\ UNCHANGED <<tasks, worker, running, future, started, stops, joined, late>>

-----------------------------------------------------------------------------
(* submit: the packaged_task and its future exist before the put. *)
Enqueue(t) ==
  /\ future[t] = "none"
  /\ future' = [future EXCEPT ![t] = "pending"]
  /\ tasks' = Append(tasks, t)
  /\ late' = IF stage = "open" THEN late ELSE late \cup {t}

\* Called by a thread that is not a worker, which has to be done with the
\* pool before the pool is destroyed.
submit(t) ==
  /\ stage = "open"
  /\ t \notin Children
  /\ Enqueue(t)
  /\ UNCHANGED <<worker, running, stage, started, stops, joined>>

\* Called by a running task, which the destructor does not stop.
SubmitChild(w) ==
  /\ worker[w] = "run"
  /\ Child[running[w]] # NoTask
  /\ Enqueue(Child[running[w]])
  /\ worker' = [worker EXCEPT ![w] =
                  IF running[w] \in Waits THEN "wait" ELSE "finish"]
  /\ UNCHANGED <<running, stage, started, stops, joined>>

-----------------------------------------------------------------------------
\* Mutant of Take: the task is read and not removed.
TakeKeeps(w) ==
  /\ worker[w] = "get"
  /\ tasks # <<>>
  /\ Head(tasks) # Stop
  /\ worker' = [worker EXCEPT ![w] = "finish"]
  /\ running' = [running EXCEPT ![w] = Head(tasks)]
  /\ UNCHANGED <<tasks, future, stage, started, stops, joined, late>>

\* Mutant of Take: an empty task is skipped instead of ending the loop.
TakeSkipsStop(w) ==
  /\ worker[w] = "get"
  /\ tasks # <<>>
  /\ tasks' = Tail(tasks)
  /\ \/ Head(tasks) = Stop /\ UNCHANGED <<worker, running>>
     \/ /\ Head(tasks) # Stop
        /\ worker' = [worker EXCEPT ![w] = "finish"]
        /\ running' = [running EXCEPT ![w] = Head(tasks)]
  /\ UNCHANGED <<future, stage, started, stops, joined, late>>

(* worker_loop *)
Take(w) ==
  /\ worker[w] = "get"
  /\ tasks # <<>>
  /\ tasks' = Tail(tasks)
  /\ \/ /\ Head(tasks) = Stop
        /\ worker' = [worker EXCEPT ![w] = "exited"]
        /\ UNCHANGED running
     \/ /\ Head(tasks) # Stop
        /\ worker' = [worker EXCEPT ![w] =
                        IF Child[Head(tasks)] = NoTask THEN "finish" ELSE "run"]
        /\ running' = [running EXCEPT ![w] = Head(tasks)]
  /\ UNCHANGED <<future, stage, started, stops, joined, late>>

\* future.get() of the child returns, or rethrows in the callable.
ChildReady(w) ==
  /\ worker[w] = "wait"
  /\ future[Child[running[w]]] \in Ready
  /\ worker' = [worker EXCEPT ![w] =
       IF future[Child[running[w]]] = "value" THEN "finish" ELSE "rethrow"]
  /\ UNCHANGED <<tasks, running, future, stage, started, stops, joined, late>>

\* Mutant of Finish: an exception of the callable ends the worker.
FinishDies(w) ==
  /\ worker[w] \in {"finish", "rethrow"}
  /\ \E result \in {"value", "exception"} :
       /\ result = "value" => worker[w] = "finish"
       /\ result = "exception" =>
            worker[w] = "rethrow" \/ running[w] \in MayThrow
       /\ future' = [future EXCEPT ![running[w]] = result]
       /\ worker' = [worker EXCEPT ![w] =
                       IF result = "value" THEN "get" ELSE "none"]
  /\ running' = [running EXCEPT ![w] = NoTask]
  /\ UNCHANGED <<tasks, stage, started, stops, joined, late>>

\* The callable is done: packaged_task makes the future ready, and the worker
\* goes back to the queue.
Finish(w) ==
  /\ worker[w] \in {"finish", "rethrow"}
  /\ \E result \in {"value", "exception"} :
       /\ result = "value" => worker[w] = "finish"
       /\ result = "exception" =>
            worker[w] = "rethrow" \/ running[w] \in MayThrow
       /\ future' = [future EXCEPT ![running[w]] = result]
  /\ worker' = [worker EXCEPT ![w] = "get"]
  /\ running' = [running EXCEPT ![w] = NoTask]
  /\ UNCHANGED <<tasks, stage, started, stops, joined, late>>

WorkerStep(w) ==
  /\ stage # "terminated"
  /\ Take(w) \/ SubmitChild(w) \/ ChildReady(w) \/ Finish(w)

-----------------------------------------------------------------------------
(* The destructor. *)
BeginDestroy ==
  /\ stage = "open"
  /\ stage' = "stopping"
  /\ UNCHANGED <<tasks, worker, running, future, started, stops, joined, late>>

\* Mutant of PutStop: the empty tasks overtake the queue.
PutStopFirst ==
  /\ stage = "stopping"
  /\ stops < started
  /\ tasks' = <<Stop>> \o tasks
  /\ stops' = stops + 1
  /\ stage' = IF stops + 1 = started THEN "joining" ELSE "stopping"
  /\ UNCHANGED <<worker, running, future, started, joined, late>>

\* Mutant of PutStop: one empty task for all the workers.
PutStopOnce ==
  /\ stage = "stopping"
  /\ tasks' = Append(tasks, Stop)
  /\ stops' = stops + 1
  /\ stage' = "joining"
  /\ UNCHANGED <<worker, running, future, started, joined, late>>

PutStop ==
  /\ stage = "stopping"
  /\ stops < started
  /\ tasks' = Append(tasks, Stop)
  /\ stops' = stops + 1
  /\ stage' = IF stops + 1 = started THEN "joining" ELSE "stopping"
  /\ UNCHANGED <<worker, running, future, started, joined, late>>

Join ==
  /\ stage = "joining"
  /\ joined < started
  /\ worker[joined + 1] = "exited"
  /\ joined' = joined + 1
  /\ UNCHANGED <<tasks, worker, running, future, stage, started, stops, late>>

Queued == {t \in Tasks : \E i \in 1..Len(tasks) : tasks[i] = t}

\* The members are destroyed: a packaged_task that never ran breaks its
\* promise.
DestroyMembers ==
  /\ stage = "joining"
  /\ joined = started
  /\ stage' = "closed"
  /\ tasks' = <<>>
  /\ future' = [t \in Tasks |-> IF t \in Queued THEN "broken" ELSE future[t]]
  /\ UNCHANGED <<worker, running, started, stops, joined, late>>

Destroy == BeginDestroy \/ PutStop \/ Join \/ DestroyMembers

-----------------------------------------------------------------------------
Next ==
  \/ StartWorker
  \/ StartFails
  \/ \E t \in Tasks : submit(t)
  \/ \E w \in Workers : WorkerStep(w)
  \/ Destroy

Spec ==
  /\ PoolInit /\ [][Next]_poolVars
  /\ WF_poolVars(StartWorker)
  /\ WF_poolVars(PutStop \/ Join \/ DestroyMembers)
  /\ \A w \in Workers : WF_poolVars(WorkerStep(w))

-----------------------------------------------------------------------------
TypeOK ==
  /\ tasks \in Seq(Tasks \cup {Stop})
  /\ worker \in [Workers ->
       {"none", "get", "run", "wait", "rethrow", "finish", "exited"}]
  /\ running \in [Workers -> Tasks \cup {NoTask}]
  /\ future \in [Tasks -> {"none", "pending"} \cup Ready]
  /\ stage \in {"starting", "open", "stopping", "joining",
                "closed", "failed", "terminated"}
  /\ started \in 0..NumThreads
  /\ stops \in 0..NumThreads
  /\ joined \in 0..NumThreads
  /\ late \in SUBSET Tasks

\* The places where a task is: a position of the queue or a worker.
Places(t) ==
  {i \in 1..Len(tasks) : tasks[i] = t} \X {"queue"}
    \cup {w \in Workers : running[w] = t} \X {"worker"}

(***************************************************************************)
(* submit's future is neither forgotten nor served twice: a task is        *)
(* pending exactly while it is in one place, in the queue or on a worker.  *)
(***************************************************************************)
PendingInOnePlace ==
  \A t \in Tasks :
    Cardinality(Places(t)) = IF future[t] = "pending" THEN 1 ELSE 0

Stops == {i \in 1..Len(tasks) : tasks[i] = Stop}
Exited == {w \in Workers : worker[w] = "exited"}

(***************************************************************************)
(* Each worker takes exactly one of the empty tasks the destructor put, so *)
(* that join() is never waiting for a worker whose Stop another one took.  *)
(***************************************************************************)
OneStopPerWorker ==
  Cardinality(Stops) + Cardinality(Exited) = stops

(***************************************************************************)
(* The destructor abandons no task that was submitted before it began: the *)
(* empty tasks are behind all of them, so once it returned they have a     *)
(* result.                                                                 *)
(***************************************************************************)
EarlyTasksServed ==
  stage = "closed" =>
    \A t \in Tasks \ late : future[t] \notin {"pending", "broken"}

\* A worker that waits for a task which was submitted behind the Stops.
WaitsForLate == \E w \in Workers :
                  worker[w] = "wait" /\ Child[running[w]] \in late

(***************************************************************************)
(* Every task submitted while the pool was open gets its result, unless a  *)
(* task of the pool waits for a task submitted during the destructor.      *)
(* (With fewer waiting tasks than workers.)                                *)
(***************************************************************************)
EarlyTasksFinish ==
  \A t \in Tasks :
    (future[t] = "pending" /\ t \notin late)
      ~> (future[t] \in {"value", "exception"} \/ WaitsForLate)

(***************************************************************************)
(* The destructor returns, with the same exception: each worker wakes up   *)
(* for a Stop, leaves its loop and can be joined.                          *)
(***************************************************************************)
ShutdownCompletes == stage = "stopping" ~> (stage = "closed" \/ WaitsForLate)

(***************************************************************************)
(* What the comment of the constructor promises of a pool: it does not     *)
(* accept submissions that can then never run.  A task submitted by a      *)
(* running task while the destructor is at work is accepted, and lost.     *)
(***************************************************************************)
AcceptedTasksRun == \A t \in Tasks : future[t] # "broken"
=============================================================================
