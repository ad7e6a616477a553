--------------------------- MODULE ConcurrentQueue ---------------------------
(***************************************************************************)
(* ConcurrentQueue<T, ListQueue<T>> of queue.hpp: a std::mutex, a          *)
(* std::condition_variable and a queue.  Every thread may call put, get,   *)
(* size or is_empty.  A step is what a thread does between two points      *)
(* where another thread can be seen: taking the mutex, changing the queue, *)
(* notifying, waiting, releasing the mutex.                                *)
(*                                                                         *)
(* The condition variable is its set of waiting threads: notify_one moves  *)
(* any one of them (or nobody) out, and one may also leave by itself (a    *)
(* spurious wakeup).  A thread that left has to take the mutex again       *)
(* before it tests its predicate, and any other thread may be faster.      *)
(***************************************************************************)
EXTENDS Naturals, Sequences, FiniteSets

CONSTANTS Threads,       \* the threads that share the queue
          Nobody,        \* the holder of a free mutex
          MaxCalls,      \* bound: calls made by each thread
          MaxSpurious    \* bound: spurious wakeups in a behaviour

ASSUME ThreadsFinite == IsFiniteSet(Threads)
ASSUME MaxCallsNat == MaxCalls \in Nat
ASSUME NobodyNotThread == Nobody \notin Threads

\* The item of a put is named by the call that puts it.
Items == Threads \X (0..MaxCalls)

VARIABLES mtx,        \* the thread that holds the mutex, or Nobody
          queue,      \* the wrapped queue, front first
          pc,         \* pc[t]: where thread t is
          calls,      \* calls[t]: the calls thread t has made
          received,   \* received[t]: what the gets of t returned
          spurious    \* spurious wakeups so far

vars == <<mtx, queue, pc, calls, received, spurious>>

\* The points of a call at which its thread holds the mutex, and the others.
Inside == {"put.insert", "put.notify", "put.unlock",
           "get.test", "get.take", "get.unlock", "peek.unlock"}
Outside == {"idle", "put.lock", "get.lock", "wait", "get.relock", "peek.lock"}

Waiters == {t \in Threads : pc[t] = "wait"}

Init ==
  /\ mtx = Nobody
  /\ queue = <<>>
  /\ pc = [t \in Threads |-> "idle"]
  /\ calls = [t \in Threads |-> 0]
  /\ received = [t \in Threads |-> <<>>]
  /\ spurious = 0

-----------------------------------------------------------------------------
Goto(t, label) == pc' = [pc EXCEPT ![t] = label]

\* Thread t starts a call whose first step is at label.
Call(t, label) ==
  /\ pc[t] = "idle"
  /\ calls[t] < MaxCalls
  /\ calls' = [calls EXCEPT ![t] = @ + 1]
  /\ Goto(t, label)
  /\ UNCHANGED <<mtx, queue, received, spurious>>

\* The constructor of lock_guard or unique_lock, or the end of a wait.
Lock(t, from, to) ==
  /\ pc[t] = from
  /\ mtx = Nobody
  /\ mtx' = t
  /\ Goto(t, to)
  /\ UNCHANGED <<queue, calls, received, spurious>>

\* The destructor of lock_guard or unique_lock, on return or unwinding.
Unlock(t, from) ==
  /\ pc[t] = from
  /\ mtx' = Nobody
  /\ Goto(t, "idle")
  /\ UNCHANGED <<queue, calls, received, spurious>>

-----------------------------------------------------------------------------
\* Mutant of PutInsert: the item is not the one that was passed.
PutInsertWrongItem(t) ==
  /\ pc[t] = "put.insert"
  /\ queue' = Append(queue, <<t, calls[t] + 1>>)
  /\ Goto(t, "put.notify")
  /\ UNCHANGED <<mtx, calls, received, spurious>>

\* put(item): append under the lock, then notify one waiter, still locked.
PutInsert(t) ==
  /\ pc[t] = "put.insert"
  /\ queue' = Append(queue, <<t, calls[t]>>)
  /\ Goto(t, "put.notify")
  /\ UNCHANGED <<mtx, calls, received, spurious>>

\* The wrapped put throws (its node cannot be allocated): no notification.
PutThrows(t) == Unlock(t, "put.insert")

\* Mutant of NotifyOne: the call to notify_one is missing.
NotifyNobody(t) ==
  /\ pc[t] = "put.notify"
  /\ Goto(t, "put.unlock")
  /\ UNCHANGED <<mtx, queue, calls, received, spurious>>

NotifyOne(t) ==
  /\ pc[t] = "put.notify"
  /\ \/ /\ Waiters = {}
        /\ Goto(t, "put.unlock")
     \/ \E w \in Waiters :
          pc' = [pc EXCEPT ![t] = "put.unlock", ![w] = "get.relock"]
  /\ UNCHANGED <<mtx, queue, calls, received, spurious>>

put(t) ==
  \/ Call(t, "put.lock")
  \/ Lock(t, "put.lock", "put.insert")
  \/ PutInsert(t)
  \/ PutThrows(t)
  \/ NotifyOne(t)
  \/ Unlock(t, "put.unlock")

-----------------------------------------------------------------------------
\* cond_var.wait(lck, pred): the predicate is tested with the mutex held;
\* when it is false the thread releases the mutex and waits in one step.
WaitTest(t) ==
  /\ pc[t] = "get.test"
  /\ \/ /\ queue # <<>>
        /\ Goto(t, "get.take")
        /\ UNCHANGED mtx
     \/ /\ queue = <<>>
        /\ Goto(t, "wait")
        /\ mtx' = Nobody
  /\ UNCHANGED <<queue, calls, received, spurious>>

SpuriousWakeup(t) ==
  /\ pc[t] = "wait"
  /\ spurious < MaxSpurious
  /\ spurious' = spurious + 1
  /\ Goto(t, "get.relock")
  /\ UNCHANGED <<mtx, queue, calls, received>>

\* Mutant of GetTake: the newest item is taken.
TakeNewest(t) ==
  /\ pc[t] = "get.take"
  /\ queue # <<>>
  /\ received' = [received EXCEPT ![t] = Append(@, queue[Len(queue)])]
  /\ queue' = SubSeq(queue, 1, Len(queue) - 1)
  /\ Goto(t, "get.unlock")
  /\ UNCHANGED <<mtx, calls, spurious>>

\* return queue.get(): ListQueue::get on an empty queue would throw.
GetTake(t) ==
  /\ pc[t] = "get.take"
  /\ queue # <<>>
  /\ received' = [received EXCEPT ![t] = Append(@, Head(queue))]
  /\ queue' = Tail(queue)
  /\ Goto(t, "get.unlock")
  /\ UNCHANGED <<mtx, calls, spurious>>

\* Mutant of get: a wait without a predicate, tested once before it.
getTestedOnce(t) ==
  \/ Call(t, "get.lock")
  \/ Lock(t, "get.lock", "get.test")
  \/ WaitTest(t)
  \/ SpuriousWakeup(t)
  \/ Lock(t, "get.relock", "get.take")
  \/ GetTake(t)
  \/ Unlock(t, "get.unlock")

get(t) ==
  \/ Call(t, "get.lock")
  \/ Lock(t, "get.lock", "get.test")
  \/ WaitTest(t)
  \/ SpuriousWakeup(t)
  \/ Lock(t, "get.relock", "get.test")
  \/ GetTake(t)
  \/ Unlock(t, "get.unlock")

-----------------------------------------------------------------------------
\* size() and is_empty(): read the queue under the lock.
peek(t) ==
  \/ Call(t, "peek.lock")
  \/ Lock(t, "peek.lock", "peek.unlock")
  \/ Unlock(t, "peek.unlock")

Next == \E t \in Threads : put(t) \/ get(t) \/ peek(t)

\* A thread inside a call keeps running; nobody has to start a call, and a
\* spurious wakeup never has to happen.
Continue(t) ==
  /\ pc[t] # "idle"
  /\ \/ put(t) \/ peek(t)
     \/ Lock(t, "get.lock", "get.test") \/ WaitTest(t)
     \/ Lock(t, "get.relock", "get.test") \/ GetTake(t)
     \/ Unlock(t, "get.unlock")

Fairness == \A t \in Threads : WF_vars(Continue(t))

SafeSpec == Init /\ [][Next]_vars

Spec == SafeSpec /\ Fairness

-----------------------------------------------------------------------------
TypeOK ==
  /\ mtx \in Threads \cup {Nobody}
  /\ queue \in Seq(Items)
  /\ pc \in [Threads -> Inside \cup Outside]
  /\ calls \in [Threads -> 0..MaxCalls]
  /\ received \in [Threads -> Seq(Items)]
  /\ spurious \in Nat

\* The mutex is held by exactly the thread that is inside a critical section.
MutexHeld ==
  \A t \in Threads : pc[t] \in Inside <=> mtx = t

\* The threads on which the next item can count: awake in a get, or about to
\* notify.
Carriers ==
  {t \in Threads : pc[t] \in {"get.relock", "get.test", "get.take", "put.notify"}}

(***************************************************************************)
(* No wakeup is lost: while somebody waits, every item in the queue has an *)
(* awake getter, or a putter that still has to notify, to answer for it    *)
(* (put notifies once per item, under the lock; get re-tests in a loop).   *)
(***************************************************************************)
NoLostWakeup ==
  Waiters # {} => Len(queue) <= Cardinality(Carriers)

(***************************************************************************)
(* get() never calls the wrapped get on an empty queue, which would throw  *)
(* underflow_error: between the test of the predicate and the removal      *)
(* nobody else can have taken the item.                                    *)
(***************************************************************************)
TakeFindsItem ==
  \A t \in Threads : pc[t] = "get.take" => queue # <<>>

(***************************************************************************)
(* One lock, one condition variable and a loop make a blocking FIFO: every *)
(* step of this module is a step of BlockingFIFO or changes nothing there, *)
(* and an item does not stay in the queue while a thread is blocked in a   *)
(* get.                                                                    *)
(***************************************************************************)
Stage(label) ==
  IF label \in {"put.lock", "put.insert"} THEN "put"
  ELSE IF label \in {"get.lock", "get.test", "wait", "get.relock", "get.take"}
       THEN "get"
  ELSE IF label \in {"put.notify", "put.unlock", "get.unlock"}
       THEN "returning"
  ELSE "idle"

FIFO == INSTANCE BlockingFIFO WITH call <- [t \in Threads |-> Stage(pc[t])]

ImplementsFIFO == FIFO!Spec
=============================================================================
