------------------------ MODULE ConcurrentQueueProofs ------------------------
(***************************************************************************)
(* The safety of ConcurrentQueue for any finite set of threads, any number *)
(* of calls and any number of spurious wakeups.                            *)
(***************************************************************************)
EXTENDS ConcurrentQueue, TLAPS, FiniteSetTheorems

\* The steps of a thread, with the labels that a step of each kind connects.
Starts == {"put.lock", "get.lock", "peek.lock"}
Locks == {<<"put.lock", "put.insert">>, <<"get.lock", "get.test">>,
          <<"get.relock", "get.test">>, <<"peek.lock", "peek.unlock">>}
Unlocks == {"put.insert", "put.unlock", "get.unlock", "peek.unlock"}

Step(t) ==
  \/ \E to \in Starts : Call(t, to)
  \/ \E l \in Locks : Lock(t, l[1], l[2])
  \/ \E from \in Unlocks : Unlock(t, from)
  \/ PutInsert(t) \/ NotifyOne(t)
  \/ WaitTest(t) \/ SpuriousWakeup(t) \/ GetTake(t)

\* Every step of the queue is one of these.
LEMMA NextIsStep ==
  ASSUME Next
  PROVE  \E t \in Threads : Step(t)
<1>1. PICK t \in Threads : put(t) \/ get(t) \/ peek(t)
  BY DEF Next
<1>2. ASSUME put(t) PROVE Step(t)
  BY <1>2 DEF put, Step, PutThrows, Starts, Locks, Unlocks
<1>3. ASSUME get(t) PROVE Step(t)
  BY <1>3 DEF get, Step, Starts, Locks, Unlocks
<1>4. ASSUME peek(t) PROVE Step(t)
  BY <1>4 DEF peek, Step, Starts, Locks, Unlocks
<1>5. QED
  BY <1>1, <1>2, <1>3, <1>4

-----------------------------------------------------------------------------
\* Types: the mutex has one holder, every item comes from some put.
LEMMA TypeStep ==
  ASSUME TypeOK, [Next]_vars
  PROVE  TypeOK'
<1>1. CASE UNCHANGED vars
  BY <1>1 DEF TypeOK, vars
<1>2. CASE Next
  <2>1. PICK t \in Threads : Step(t)
    BY <1>2, NextIsStep
  <2>2. CASE \E to \in Starts : Call(t, to)
    BY <2>2, MaxCallsNat DEF TypeOK, Call, Goto, Starts, Inside, Outside
  <2>3. CASE \E l \in Locks : Lock(t, l[1], l[2])
    BY <2>3 DEF TypeOK, Lock, Goto, Locks, Inside, Outside
  <2>4. CASE \E from \in Unlocks : Unlock(t, from)
    BY <2>4 DEF TypeOK, Unlock, Goto, Unlocks, Inside, Outside
  <2>5. CASE PutInsert(t)
    <3>1. <<t, calls[t]>> \in Items
      BY <2>5 DEF TypeOK, PutInsert, Items
    <3>2. QED
      BY <2>5, <3>1 DEF TypeOK, PutInsert, Goto, Inside, Outside
  <2>6. CASE NotifyOne(t)
    BY <2>6 DEF TypeOK, NotifyOne, Goto, Waiters, Inside, Outside
  <2>7. CASE WaitTest(t)
    BY <2>7 DEF TypeOK, WaitTest, Goto, Inside, Outside
  <2>8. CASE SpuriousWakeup(t)
    BY <2>8 DEF TypeOK, SpuriousWakeup, Goto, Inside, Outside
  <2>9. CASE GetTake(t)
    BY <2>9 DEF TypeOK, GetTake, Goto, Inside, Outside
  <2>10. QED
    BY <2>1, <2>2, <2>3, <2>4, <2>5, <2>6, <2>7, <2>8, <2>9 DEF Step
<1>3. QED
  BY <1>1, <1>2
-----------------------------------------------------------------------------
\* Mutual exclusion: the thread inside a critical section is the holder.
LEMMA MutexStep ==
  ASSUME TypeOK, MutexHeld, [Next]_vars
  PROVE  MutexHeld'
<1> USE NobodyNotThread
<1>1. CASE UNCHANGED vars
  BY <1>1 DEF MutexHeld, vars
<1>2. CASE Next
  <2>1. PICK t \in Threads : Step(t)
    BY <1>2, NextIsStep
  <2>2. CASE \E to \in Starts : Call(t, to)
    BY <2>2 DEF TypeOK, MutexHeld, Call, Goto, Starts, Inside, Outside
  <2>3. CASE \E l \in Locks : Lock(t, l[1], l[2])
    BY <2>3 DEF TypeOK, MutexHeld, Lock, Goto, Locks, Inside, Outside
  <2>4. CASE \E from \in Unlocks : Unlock(t, from)
    BY <2>4 DEF TypeOK, MutexHeld, Unlock, Goto, Unlocks, Inside, Outside
  <2>5. CASE PutInsert(t)
    BY <2>5 DEF TypeOK, MutexHeld, PutInsert, Goto, Inside, Outside
  <2>6. CASE NotifyOne(t)
    BY <2>6 DEF TypeOK, MutexHeld, NotifyOne, Goto, Waiters, Inside, Outside
  <2>7. CASE WaitTest(t)
    BY <2>7 DEF TypeOK, MutexHeld, WaitTest, Goto, Inside, Outside
  <2>8. CASE SpuriousWakeup(t)
    BY <2>8 DEF TypeOK, MutexHeld, SpuriousWakeup, Goto, Inside, Outside
  <2>9. CASE GetTake(t)
    BY <2>9 DEF TypeOK, MutexHeld, GetTake, Goto, Inside, Outside
  <2>10. QED
    BY <2>1, <2>2, <2>3, <2>4, <2>5, <2>6, <2>7, <2>8, <2>9 DEF Step
<1>3. QED
  BY <1>1, <1>2

-----------------------------------------------------------------------------
\* What the predicate saw is still true when the item is removed: only the
\* holder of the mutex shortens the queue.
LEMMA TakeStep ==
  ASSUME TypeOK, MutexHeld, TakeFindsItem, [Next]_vars
  PROVE  TakeFindsItem'
<1> USE NobodyNotThread
<1>1. CASE UNCHANGED vars
  BY <1>1 DEF TakeFindsItem, vars
<1>2. CASE Next
  <2>1. PICK t \in Threads : Step(t)
    BY <1>2, NextIsStep
  <2>2. CASE \E to \in Starts : Call(t, to)
    BY <2>2 DEF TypeOK, TakeFindsItem, Call, Goto, Starts
  <2>3. CASE \E l \in Locks : Lock(t, l[1], l[2])
    BY <2>3 DEF TypeOK, TakeFindsItem, Lock, Goto, Locks
  <2>4. CASE \E from \in Unlocks : Unlock(t, from)
    BY <2>4 DEF TypeOK, TakeFindsItem, Unlock, Goto, Unlocks
  <2>5. CASE PutInsert(t)
    <3>1. \A s \in Threads : pc'[s] # "get.take"
      BY <2>5 DEF TypeOK, MutexHeld, PutInsert, Goto, Inside
    <3>2. QED
      BY <3>1 DEF TakeFindsItem
  <2>6. CASE NotifyOne(t)
    BY <2>6 DEF TypeOK, TakeFindsItem, NotifyOne, Goto, Waiters
  <2>7. CASE WaitTest(t)
    BY <2>7 DEF TypeOK, TakeFindsItem, WaitTest, Goto
  <2>8. CASE SpuriousWakeup(t)
    BY <2>8 DEF TypeOK, TakeFindsItem, SpuriousWakeup, Goto
  <2>9. CASE GetTake(t)
    <3>1. \A s \in Threads : pc'[s] # "get.take"
      BY <2>9 DEF TypeOK, MutexHeld, GetTake, Goto, Inside
    <3>2. QED
      BY <3>1 DEF TakeFindsItem
  <2>10. QED
    BY <2>1, <2>2, <2>3, <2>4, <2>5, <2>6, <2>7, <2>8, <2>9 DEF Step
<1>3. QED
  BY <1>1, <1>2
-----------------------------------------------------------------------------
\* The carriers are finitely many, before and after a step.
LEMMA CarriersFinite ==
  IsFiniteSet(Carriers) /\ Cardinality(Carriers) \in Nat
<1>1. Carriers \in SUBSET Threads
  BY DEF Carriers
<1>2. IsFiniteSet(Carriers)
  BY <1>1, ThreadsFinite, FS_Subset
<1>3. QED
  BY <1>2, FS_CardinalityType

LEMMA CarriersFiniteNext ==
  IsFiniteSet(Carriers') /\ Cardinality(Carriers') \in Nat
<1>1. Carriers' \in SUBSET Threads
  BY DEF Carriers
<1>2. IsFiniteSet(Carriers')
  BY <1>1, ThreadsFinite, FS_Subset
<1>3. QED
  BY <1>2, FS_CardinalityType

\* How the number of carriers follows the set.
LEMMA CarriersGrow ==
  ASSUME Carriers \subseteq Carriers'
  PROVE  Cardinality(Carriers) <= Cardinality(Carriers')
BY CarriersFinite, CarriersFiniteNext, FS_Subset

LEMMA CarriersJoin ==
  ASSUME NEW t, t \notin Carriers, Carriers' = Carriers \cup {t}
  PROVE  Cardinality(Carriers') = Cardinality(Carriers) + 1
BY CarriersFinite, FS_AddElement

LEMMA CarriersLeave ==
  ASSUME NEW t, t \in Carriers, Carriers' = Carriers \ {t}
  PROVE  Cardinality(Carriers') = Cardinality(Carriers) - 1
BY CarriersFinite, FS_RemoveElement

LEMMA CarriersSwap ==
  ASSUME NEW t, NEW w, t \in Carriers, w \notin Carriers,
         Carriers' = (Carriers \ {t}) \cup {w}
  PROVE  Cardinality(Carriers') = Cardinality(Carriers)
<1>1. /\ IsFiniteSet(Carriers \ {t})
      /\ Cardinality(Carriers \ {t}) = Cardinality(Carriers) - 1
  BY CarriersFinite, FS_RemoveElement
<1>2. Cardinality((Carriers \ {t}) \cup {w}) = Cardinality(Carriers \ {t}) + 1
  BY <1>1, FS_AddElement
<1>3. QED
  BY <1>1, <1>2, CarriersFinite

\* A step that changes neither the queue nor the waiters, and loses no
\* carrier, loses no wakeup.
LEMMA WakeupKept ==
  ASSUME TypeOK, NoLostWakeup, queue' = queue, Waiters' \subseteq Waiters,
         Carriers \subseteq Carriers'
  PROVE  NoLostWakeup'
<1>1. Len(queue) \in Nat
  BY DEF TypeOK
<1>2. Cardinality(Carriers) <= Cardinality(Carriers')
  BY CarriersGrow
<1>3. QED
  BY <1>1, <1>2, CarriersFinite, CarriersFiniteNext DEF NoLostWakeup

\* An inserted item is carried by its putter until it notifies; a
\* notification hands it to a waiter; a getter goes back to waiting only
\* when nothing is left.
LEMMA WakeupStep ==
  ASSUME TypeOK, NoLostWakeup, [Next]_vars
  PROVE  NoLostWakeup'
<1>1. CASE UNCHANGED vars
  BY <1>1 DEF NoLostWakeup, Waiters, Carriers, vars
<1>2. CASE Next
  <2>1. PICK t \in Threads : Step(t)
    BY <1>2, NextIsStep
  <2>2. CASE \E to \in Starts : Call(t, to)
    BY <2>2, WakeupKept DEF TypeOK, Call, Goto, Starts, Waiters, Carriers
  <2>3. CASE \E l \in Locks : Lock(t, l[1], l[2])
    BY <2>3, WakeupKept DEF TypeOK, Lock, Goto, Locks, Waiters, Carriers
  <2>4. CASE \E from \in Unlocks : Unlock(t, from)
    BY <2>4, WakeupKept DEF TypeOK, Unlock, Goto, Unlocks, Waiters, Carriers
  <2>5. CASE PutInsert(t)
    <3>1. Len(queue) \in Nat /\ Len(queue') = Len(queue) + 1
      BY <2>5 DEF TypeOK, PutInsert, Items
    <3>2. Waiters' = Waiters
      BY <2>5 DEF TypeOK, PutInsert, Goto, Waiters
    <3>3. t \notin Carriers /\ Carriers' = Carriers \cup {t}
      BY <2>5 DEF TypeOK, PutInsert, Goto, Carriers
    <3>4. Cardinality(Carriers') = Cardinality(Carriers) + 1
      BY <3>3, CarriersJoin
    <3>5. QED
      BY <3>1, <3>2, <3>4, CarriersFinite DEF NoLostWakeup
  <2>6. CASE NotifyOne(t)
    <3>1. CASE Waiters = {}
      <4>1. Waiters' = {}
        BY <2>6, <3>1 DEF TypeOK, NotifyOne, Goto, Waiters
      <4>2. QED
        BY <4>1 DEF NoLostWakeup
    <3>2. CASE Waiters # {}
      <4>1. PICK w \in Waiters :
              pc' = [pc EXCEPT ![t] = "put.unlock", ![w] = "get.relock"]
        BY <2>6, <3>2 DEF NotifyOne
      <4>2. /\ t \in Carriers /\ w \notin Carriers
            /\ Carriers' = (Carriers \ {t}) \cup {w}
        BY <2>6, <4>1 DEF TypeOK, NotifyOne, Waiters, Carriers
      <4>3. Cardinality(Carriers') = Cardinality(Carriers)
        BY <4>2, CarriersSwap
      <4>4. queue' = queue
        BY <2>6 DEF NotifyOne
      <4>5. QED
        BY <3>2, <4>3, <4>4 DEF NoLostWakeup
    <3>3. QED
      BY <3>1, <3>2
  <2>7. CASE WaitTest(t)
    <3>1. CASE queue # <<>>
      BY <2>7, <3>1, WakeupKept DEF TypeOK, WaitTest, Goto, Waiters, Carriers
    <3>2. CASE queue = <<>>
      <4>1. Len(queue') = 0
        BY <2>7, <3>2 DEF WaitTest
      <4>2. QED
        BY <4>1, CarriersFiniteNext DEF NoLostWakeup
    <3>3. QED
      BY <3>1, <3>2
  <2>8. CASE SpuriousWakeup(t)
    BY <2>8, WakeupKept DEF TypeOK, SpuriousWakeup, Goto, Waiters, Carriers
  <2>9. CASE GetTake(t)
    <3>1. Len(queue) \in Nat /\ Len(queue') = Len(queue) - 1
      BY <2>9 DEF TypeOK, GetTake
    <3>2. Waiters' = Waiters
      BY <2>9 DEF TypeOK, GetTake, Goto, Waiters
    <3>3. t \in Carriers /\ Carriers' = Carriers \ {t}
      BY <2>9 DEF TypeOK, GetTake, Goto, Carriers
    <3>4. Cardinality(Carriers') = Cardinality(Carriers) - 1
      BY <3>3, CarriersLeave
    <3>5. QED
      BY <3>1, <3>2, <3>4, CarriersFinite DEF NoLostWakeup
  <2>10. QED
    BY <2>1, <2>2, <2>3, <2>4, <2>5, <2>6, <2>7, <2>8, <2>9 DEF Step
<1>3. QED
  BY <1>1, <1>2

-----------------------------------------------------------------------------
IInv == TypeOK /\ MutexHeld /\ TakeFindsItem /\ NoLostWakeup

LEMMA InitIInv == Init => IInv
<1> SUFFICES ASSUME Init PROVE IInv
  OBVIOUS
<1>1. TypeOK
  BY MaxCallsNat DEF Init, TypeOK, Inside, Outside
<1>2. MutexHeld
  BY NobodyNotThread DEF Init, MutexHeld, Inside
<1>3. TakeFindsItem
  BY DEF Init, TakeFindsItem
<1>4. NoLostWakeup
  BY DEF Init, NoLostWakeup, Waiters
<1>5. QED
  BY <1>1, <1>2, <1>3, <1>4 DEF IInv

\* The four invariants together are inductive.
THEOREM Invariance == SafeSpec => []IInv
<1>1. IInv /\ [Next]_vars => IInv'
  BY TypeStep, MutexStep, TakeStep, WakeupStep DEF IInv
<1>2. QED
  BY <1>1, InitIInv, PTL DEF SafeSpec

\* ConcurrentQueue keeps its types in every behaviour.
THEOREM TypeCorrect == SafeSpec => []TypeOK
BY Invariance, PTL DEF IInv

\* get() never finds the queue empty after its predicate held.
THEOREM TakeNeverUnderflows == SafeSpec => []TakeFindsItem
BY Invariance, PTL DEF IInv

\* put()'s single notify_one per item wakes enough getters.
THEOREM WakeupsSuffice == SafeSpec => []NoLostWakeup
BY Invariance, PTL DEF IInv
-----------------------------------------------------------------------------
\* Moving one thread moves its stage and no other.
LEMMA StageMoves ==
  ASSUME TypeOK, NEW t \in Threads, NEW label, pc' = [pc EXCEPT ![t] = label]
  PROVE  [s \in Threads |-> Stage(pc[s])]' =
         [[s \in Threads |-> Stage(pc[s])] EXCEPT ![t] = Stage(label)]
BY DEF TypeOK

\* A step that keeps every thread's stage, the queue and what was received
\* is invisible to BlockingFIFO.
LEMMA Invisible ==
  ASSUME TypeOK, queue' = queue, received' = received,
         \A s \in Threads : Stage(pc'[s]) = Stage(pc[s])
  PROVE  UNCHANGED FIFO!vars
BY DEF FIFO!vars

\* Every step of the queue is one of BlockingFIFO's, or invisible there.
LEMMA FIFOStep ==
  ASSUME TypeOK, [Next]_vars
  PROVE  [FIFO!Next]_(FIFO!vars)
<1>1. CASE UNCHANGED vars
  BY <1>1, Invisible DEF vars
<1>2. CASE Next
  <2>1. PICK t \in Threads : Step(t)
    BY <1>2, NextIsStep
  <2>2. CASE Call(t, "put.lock")
    <3>1. FIFO!Call(t, "put")
      BY <2>2, StageMoves DEF FIFO!Call, Call, Goto, Stage
    <3>2. QED
      BY <3>1 DEF FIFO!Next
  <2>3. CASE Call(t, "get.lock")
    <3>1. FIFO!Call(t, "get")
      BY <2>3, StageMoves DEF FIFO!Call, Call, Goto, Stage
    <3>2. QED
      BY <3>1 DEF FIFO!Next
  <2>4. CASE Call(t, "peek.lock")
    BY <2>4, Invisible DEF TypeOK, Call, Goto, Stage
  <2>5. CASE \E l \in Locks : Lock(t, l[1], l[2])
    BY <2>5, Invisible DEF TypeOK, Lock, Locks, Goto, Stage
  <2>6. CASE Unlock(t, "put.insert")
    <3>1. FIFO!PutFails(t)
      BY <2>6, StageMoves DEF FIFO!PutFails, Unlock, Goto, Stage
    <3>2. QED
      BY <3>1 DEF FIFO!Next
  <2>7. CASE Unlock(t, "put.unlock") \/ Unlock(t, "get.unlock")
    <3>1. FIFO!Return(t)
      BY <2>7, StageMoves DEF FIFO!Return, Unlock, Goto, Stage
    <3>2. QED
      BY <3>1 DEF FIFO!Next
  <2>8. CASE Unlock(t, "peek.unlock")
    BY <2>8, Invisible DEF TypeOK, Unlock, Goto, Stage
  <2>9. CASE PutInsert(t)
    <3>1. <<t, calls[t]>> \in Items
      BY DEF TypeOK, Items
    <3>2. FIFO!Put(t)
      BY <2>9, <3>1, StageMoves DEF FIFO!Put, PutInsert, Goto, Stage
    <3>3. QED
      BY <3>2 DEF FIFO!Next
  <2>10. CASE NotifyOne(t)
    BY <2>10, Invisible DEF TypeOK, NotifyOne, Waiters, Goto, Stage
  <2>11. CASE WaitTest(t)
    BY <2>11, Invisible DEF TypeOK, WaitTest, Goto, Stage
  <2>12. CASE SpuriousWakeup(t)
    BY <2>12, Invisible DEF TypeOK, SpuriousWakeup, Goto, Stage
  <2>13. CASE GetTake(t)
    <3>1. FIFO!Get(t)
      BY <2>13, StageMoves DEF FIFO!Get, GetTake, Goto, Stage
    <3>2. QED
      BY <3>1 DEF FIFO!Next
  <2>14. QED
    BY <2>1, <2>2, <2>3, <2>4, <2>5, <2>6, <2>7, <2>8, <2>9, <2>10, <2>11,
       <2>12, <2>13 DEF Step, Starts, Unlocks
<1>3. QED
  BY <1>1, <1>2

\* The lock, the condition variable and the loop implement a blocking FIFO
\* (the liveness half of ImplementsFIFO is left to the model checker).
THEOREM ImplementsBlockingFIFO == SafeSpec => FIFO!SafeSpec
<1>1. Init => FIFO!Init
  BY DEF Init, FIFO!Init, Stage
<1>2. TypeOK /\ [Next]_vars => [FIFO!Next]_(FIFO!vars)
  BY FIFOStep
<1>3. QED
  BY <1>1, <1>2, TypeCorrect, PTL DEF SafeSpec, FIFO!SafeSpec
=============================================================================
