------------------------- MODULE ConcurrentMapProofs -------------------------
(***************************************************************************)
(* The safety of ConcurrentMap for any threads, any finite set of keys and *)
(* any number of calls.                                                    *)
(***************************************************************************)
EXTENDS ConcurrentMap, TLAPS, FiniteSetTheorems

\* The arguments of a call are a key and a value.
LEMMA CallArguments ==
  ASSUME NEW c \in Calls
  PROVE  /\ c.op \notin {"size", "clear"} => c.k \in Key
         /\ c.op \in {"insert", "put"} => c.v \in Value
         /\ c # NoCall
BY DEF Calls, NoCall

\* So are those of a thread that runs the operation op.
LEMMA ArgumentsAt ==
  ASSUME TypeOK, NEW t \in Threads, NEW label, NEW op, At(t, label, op)
  PROVE  /\ op \notin {"size", "clear", "none"} => call[t].k \in Key
         /\ op \in {"insert", "put"} => call[t].v \in Value
BY CallArguments DEF TypeOK, At, NoCall

\* size() returns a number.
LEMMA SizeIsNat == Cardinality({k \in Key : map[k] # Absent}) \in Nat
<1>1. IsFiniteSet({k \in Key : map[k] # Absent})
  BY KeysFinite, FS_Subset
<1>2. QED
  BY <1>1, FS_CardinalityType

-----------------------------------------------------------------------------
\* Types, and the holder of the mutex.
LEMMA TypeStep ==
  ASSUME TypeOK, [Next]_vars
  PROVE  TypeOK'
<1> USE NobodyNotThread, ValuesTyped, MaxCallsNat, ArgumentsAt
<1>1. CASE UNCHANGED vars
  BY <1>1 DEF TypeOK, vars
<1>2. CASE Next
  <2>1. PICK t \in Threads : Call(t) \/ Continue(t)
    BY <1>2 DEF Next
  <2>2. CASE Call(t)
    BY <2>2 DEF TypeOK, Inside, Outside, Call, Goto
  <2>3. CASE Lock(t)
    BY <2>3 DEF TypeOK, Inside, Outside, Lock, Goto
  <2>4. CASE Unlock(t)
    BY <2>4 DEF TypeOK, Inside, Outside, Unlock, Goto
  <2>5. CASE insert(t)
    BY <2>5 DEF TypeOK, Inside, Outside, insert, At, Has, Store, Finish, Goto
  <2>6. CASE PutIndex(t)
    BY <2>6 DEF TypeOK, Inside, Outside, PutIndex, At, Has, Store, Proceed, Goto
  <2>7. CASE PutAssign(t)
    BY <2>7 DEF TypeOK, Inside, Outside, PutAssign, At, Store, Finish, Goto
  <2>8. CASE contains(t)
    BY <2>8 DEF TypeOK, Inside, Outside, contains, At, Finish, Goto
  <2>9. CASE get(t)
    BY <2>9 DEF TypeOK, Inside, Outside, get, At, Finish, Goto
  <2>10. CASE size(t)
    BY <2>10 DEF TypeOK, Inside, Outside, size, At, Finish, Goto
  <2>11. CASE remove(t)
    BY <2>11 DEF TypeOK, Inside, Outside, remove, At, Store, Finish, Goto
  <2>12. CASE clear(t)
    BY <2>12 DEF TypeOK, Inside, Outside, clear, At, Finish, Goto, Empty
  <2>13. CASE WithLockRead(t)
    BY <2>13 DEF TypeOK, Inside, Outside, WithLockRead, At, Proceed, Goto
  <2>14. CASE WithLockWrite(t)
    BY <2>14 DEF TypeOK, Inside, Outside, WithLockWrite, At, Store, Finish, Goto
  <2>15. CASE BodyThrows(t)
    BY <2>15 DEF TypeOK, Inside, Outside, BodyThrows, At, Finish, Goto
  <2>16. QED
    BY <2>1, <2>2, <2>3, <2>4, <2>5, <2>6, <2>7, <2>8, <2>9, <2>10, <2>11,
       <2>12, <2>13, <2>14, <2>15 DEF Continue, Body
<1>3. QED
  BY <1>1, <1>2
-----------------------------------------------------------------------------
\* Where a thread is tells what it has of its call.
LEMMA StageStep ==
  ASSUME TypeOK, Stages, [Next]_vars
  PROVE  Stages'
<1> USE NoAnswerIsNone
<1>1. CASE UNCHANGED vars
  BY <1>1 DEF Stages, vars
<1>2. CASE Next
  <2>1. PICK t \in Threads : Call(t) \/ Continue(t)
    BY <1>2 DEF Next
  <2>2. CASE Call(t)
    BY <2>2, CallArguments DEF TypeOK, Stages, Call, Goto
  <2>3. CASE Lock(t)
    BY <2>3 DEF TypeOK, Stages, Lock, Goto
  <2>4. CASE Unlock(t)
    BY <2>4 DEF TypeOK, Stages, Unlock, Goto
  <2>5. CASE insert(t)
    BY <2>5 DEF TypeOK, Stages, insert, At, Has, Store, Finish, Goto
  <2>6. CASE PutIndex(t)
    BY <2>6 DEF TypeOK, Stages, PutIndex, At, Has, Store, Proceed, Goto
  <2>7. CASE PutAssign(t)
    BY <2>7 DEF TypeOK, Stages, PutAssign, At, Store, Finish, Goto
  <2>8. CASE contains(t)
    BY <2>8 DEF TypeOK, Stages, contains, At, Finish, Goto
  <2>9. CASE get(t)
    BY <2>9, ArgumentsAt DEF TypeOK, Stages, get, At, Finish, Goto
  <2>10. CASE size(t)
    BY <2>10, SizeIsNat DEF TypeOK, Stages, size, At, Finish, Goto
  <2>11. CASE remove(t)
    BY <2>11 DEF TypeOK, Stages, remove, At, Store, Finish, Goto
  <2>12. CASE clear(t)
    BY <2>12 DEF TypeOK, Stages, clear, At, Finish, Goto
  <2>13. CASE WithLockRead(t)
    BY <2>13 DEF TypeOK, Stages, WithLockRead, At, Proceed, Goto
  <2>14. CASE WithLockWrite(t)
    BY <2>14 DEF TypeOK, Stages, WithLockWrite, At, Store, Finish, Goto
  <2>15. CASE BodyThrows(t)
    BY <2>15 DEF TypeOK, Stages, BodyThrows, At, Finish, Goto
  <2>16. QED
    BY <2>1, <2>2, <2>3, <2>4, <2>5, <2>6, <2>7, <2>8, <2>9, <2>10, <2>11,
       <2>12, <2>13, <2>14, <2>15 DEF Continue, Body
<1>3. QED
  BY <1>1, <1>2

\* What the holder of the mutex found stays true: nobody else writes.
LEMMA FoundStep ==
  ASSUME TypeOK, Stages, FoundStaysTrue, [Next]_vars
  PROVE  FoundStaysTrue'
<1> USE NobodyNotThread, ValuesTyped, ArgumentsAt
<1>1. CASE UNCHANGED vars
  BY <1>1 DEF FoundStaysTrue, vars
<1>2. CASE Next
  <2>1. PICK t \in Threads : Call(t) \/ Continue(t)
    BY <1>2 DEF Next
  <2>2. CASE Call(t)
    BY <2>2 DEF TypeOK, FoundStaysTrue, Inside, Call, Goto
  <2>3. CASE Lock(t)
    BY <2>3 DEF TypeOK, FoundStaysTrue, Inside, Lock, Goto
  <2>4. CASE Unlock(t)
    BY <2>4 DEF TypeOK, FoundStaysTrue, Inside, Unlock, Goto
  <2>5. CASE insert(t)
    BY <2>5
       DEF TypeOK, FoundStaysTrue, Inside, insert, At, Has, Store, Finish, Goto
  <2>6. CASE PutIndex(t)
    BY <2>6
       DEF TypeOK, FoundStaysTrue, Inside, PutIndex, At, Has, Store, Proceed, Goto
  <2>7. CASE PutAssign(t)
    BY <2>7
       DEF TypeOK, FoundStaysTrue, Inside, PutAssign, At, Store, Finish, Goto
  <2>8. CASE contains(t)
    BY <2>8 DEF TypeOK, FoundStaysTrue, Inside, contains, At, Finish, Goto
  <2>9. CASE get(t)
    BY <2>9 DEF TypeOK, FoundStaysTrue, Inside, get, At, Finish, Goto
  <2>10. CASE size(t)
    BY <2>10 DEF TypeOK, FoundStaysTrue, Inside, size, At, Finish, Goto
  <2>11. CASE remove(t)
    BY <2>11 DEF TypeOK, FoundStaysTrue, Inside, remove, At, Store, Finish, Goto
  <2>12. CASE clear(t)
    BY <2>12 DEF TypeOK, FoundStaysTrue, Inside, clear, At, Finish, Goto
  <2>13. CASE WithLockRead(t)
    BY <2>13 DEF TypeOK, FoundStaysTrue, Inside, WithLockRead, At, Proceed, Goto
  <2>14. CASE WithLockWrite(t)
    BY <2>14
       DEF TypeOK, FoundStaysTrue, Inside, WithLockWrite, At, Store, Finish, Goto
  <2>15. CASE BodyThrows(t)
    BY <2>15 DEF TypeOK, FoundStaysTrue, Inside, BodyThrows, At, Finish, Goto
  <2>16. QED
    BY <2>1, <2>2, <2>3, <2>4, <2>5, <2>6, <2>7, <2>8, <2>9, <2>10, <2>11,
       <2>12, <2>13, <2>14, <2>15 DEF Continue, Body
<1>3. QED
  BY <1>1, <1>2

-----------------------------------------------------------------------------
IInv == TypeOK /\ Stages /\ FoundStaysTrue

LEMMA InitIInv == Init => IInv
<1> SUFFICES ASSUME Init PROVE IInv
  OBVIOUS
<1>1. TypeOK
  BY MaxCallsNat, NobodyNotThread DEF Init, TypeOK, Empty, Inside, Outside
<1>2. Stages
  BY DEF Init, Stages
<1>3. FoundStaysTrue
  BY DEF Init, FoundStaysTrue
<1>4. QED
  BY <1>1, <1>2, <1>3 DEF IInv

\* The three invariants together are inductive.
THEOREM Invariance == SafeSpec => []IInv
<1>1. IInv /\ [Next]_vars => IInv'
  BY TypeStep, StageStep, FoundStep DEF IInv
<1>2. QED
  BY <1>1, InitIInv, PTL DEF SafeSpec

\* ConcurrentMap keeps its types, and its critical sections exclude each other.
THEOREM TypeCorrect == SafeSpec => []TypeOK
BY Invariance, PTL DEF IInv

\* What put and with_lock found under the lock is true when they write.
THEOREM FoundIsTrue == SafeSpec => []FoundStaysTrue
BY Invariance, PTL DEF IInv

-----------------------------------------------------------------------------
\* Outside of an assignment the map is what the others may know.
LEMMA VisibleIsMap ==
  ASSUME TypeOK, NEW t \in Threads, pc[t] \in Inside, pc[t] # "assign"
  PROVE  Visible = map
BY NobodyNotThread DEF TypeOK, Visible

LEMMA VisibleIsMapNext ==
  ASSUME NEW t \in Threads, mtx' = t, pc'[t] # "assign"
  PROVE  Visible' = map'
BY NobodyNotThread DEF Visible

\* A step in a critical section that ends with an answer.
LEMMA Finished ==
  ASSUME TypeOK, NEW t \in Threads, pc[t] \in Inside, NEW a, Finish(t, a)
  PROVE  Visible' = map' /\ Atomic!Answer(t, a)
<1>1. mtx' = t /\ pc'[t] = "unlock"
  BY DEF TypeOK, Finish, Goto
<1>2. QED
  BY <1>1, VisibleIsMapNext DEF Finish, Atomic!Answer

\* A thread that runs an operation has its call pending in AtomicMap.
LEMMA PendingAt ==
  ASSUME TypeOK, Stages, NEW t \in Threads, NEW op,
         NEW label \in {"body", "assign", "write"}, At(t, label, op)
  PROVE  Atomic!Pending(t, op) /\ pc[t] \in Inside
BY DEF Stages, At, Atomic!Pending, Inside

\* Every step of ConcurrentMap is one of AtomicMap, or invisible there.
LEMMA AtomicStep ==
  ASSUME IInv, [Next]_vars
  PROVE  [Atomic!Next]_(Atomic!vars)
<1> USE DEF IInv
<1>1. CASE UNCHANGED vars
  BY <1>1 DEF vars, Atomic!vars, Visible
<1>2. CASE Next
  <2>1. PICK t \in Threads : Call(t) \/ Continue(t)
    BY <1>2 DEF Next
  <2>2. CASE Call(t)
    <3>1. Visible' = Visible
      BY <2>2, NobodyNotThread DEF TypeOK, Call, Goto, Visible, Inside
    <3>2. Atomic!Invoke(t)
      BY <2>2, <3>1
         DEF Stages, Call, Atomic!Invoke, Atomic!NoCall, NoCall, Atomic!Calls, Calls
    <3>3. QED
      BY <3>2 DEF Atomic!Next
  <2>3. CASE Lock(t)
    <3>1. Visible = map /\ Visible' = map'
      BY <2>3, NobodyNotThread DEF TypeOK, Lock, Goto, Visible
    <3>2. QED
      BY <2>3, <3>1 DEF Lock, Atomic!vars
  <2>4. CASE Unlock(t)
    <3>1. Visible = map /\ Visible' = map'
      BY <2>4, VisibleIsMap DEF Unlock, Visible, Inside
    <3>2. Atomic!Return(t)
      BY <2>4, <3>1 DEF Stages, Unlock, Atomic!Return, Atomic!NoCall, NoCall
    <3>3. QED
      BY <3>2 DEF Atomic!Next
  <2>5. CASE insert(t)
    <3>1. Atomic!Pending(t, "insert") /\ pc[t] \in Inside /\ Visible = map
      BY <2>5, PendingAt, VisibleIsMap DEF insert, At
    <3>2. Atomic!insert(t)
      BY <2>5, <3>1, Finished
         DEF insert, Atomic!insert, Has, Store, Atomic!Has, Atomic!Store
    <3>3. QED
      BY <3>2 DEF Atomic!Next, Atomic!Effect
  <2>6. CASE PutIndex(t)
    <3>1. Visible = map /\ pc'[t] = "assign" /\ mtx' = t /\ mtx' # Nobody
      BY <2>6, VisibleIsMap, NobodyNotThread
         DEF TypeOK, PutIndex, At, Proceed, Goto, Inside
    <3>2. Visible' = [map' EXCEPT ![call[t].k] = map[call[t].k]]
      BY <2>6, <3>1 DEF TypeOK, PutIndex, Proceed, Visible
    <3>3. Visible' = map
      BY <2>6, <3>2, ArgumentsAt DEF TypeOK, PutIndex, Store
    <3>4. QED
      BY <2>6, <3>1, <3>3 DEF PutIndex, Proceed, Atomic!vars
  <2>7. CASE PutAssign(t)
    <3>1. Atomic!Pending(t, "put") /\ pc[t] \in Inside
      BY <2>7, PendingAt DEF PutAssign
    <3>2. Visible = [map EXCEPT ![call[t].k] = was[t]]
      BY <2>7, NobodyNotThread DEF TypeOK, PutAssign, At, Inside, Visible
    <3>3. call[t].k \in Key /\ map \in [Key -> Value \cup {Absent}]
      BY <2>7, ArgumentsAt DEF TypeOK, PutAssign
    <3>4. map[call[t].k] = IF was[t] = Absent THEN Default ELSE was[t]
      BY <2>7 DEF FoundStaysTrue, PutAssign, At
    <3>5. CASE Store(call[t].k, call[t].v) /\ Finish(t, "done")
      <4>1. Visible' = [Visible EXCEPT ![call[t].k] = call[t].v]
        BY <3>1, <3>2, <3>3, <3>5, Finished DEF Store
      <4>2. Atomic!put(t)
        BY <3>1, <3>5, <4>1, Finished DEF Atomic!put, Atomic!Store
      <4>3. QED
        BY <4>2 DEF Atomic!Next, Atomic!Effect
    <3>6. CASE UNCHANGED map /\ Finish(t, "threw")
      <4>1. Visible' = map /\ Atomic!Answer(t, "threw")
        BY <3>1, <3>6, Finished
      <4>2. CASE was[t] = Absent
        <5>1. Visible[call[t].k] = Absent
          BY <3>2, <3>3, <4>2
        <5>2. Visible' = [Visible EXCEPT ![call[t].k] = Default]
          BY <3>2, <3>3, <3>4, <4>1, <4>2
        <5>3. Atomic!put(t)
          BY <3>1, <4>1, <5>1, <5>2 DEF Atomic!put, Atomic!Has, Atomic!Store
        <5>4. QED
          BY <5>3 DEF Atomic!Next, Atomic!Effect
      <4>3. CASE was[t] # Absent
        <5>1. Visible' = Visible
          BY <3>2, <3>3, <3>4, <4>1, <4>3
        <5>2. Atomic!throws(t)
          BY <3>1, <4>1, <5>1 DEF Atomic!throws
        <5>3. QED
          BY <5>2 DEF Atomic!Next, Atomic!Effect
      <4>4. QED
        BY <4>2, <4>3
    <3>7. QED
      BY <2>7, <3>5, <3>6 DEF PutAssign
  <2>8. CASE contains(t)
    <3>1. Atomic!Pending(t, "contains") /\ pc[t] \in Inside /\ Visible = map
      BY <2>8, PendingAt, VisibleIsMap DEF contains, At
    <3>2. Atomic!read(t)
      BY <2>8, <3>1, Finished DEF contains, Atomic!read, Has, Atomic!Has
    <3>3. QED
      BY <3>2 DEF Atomic!Next, Atomic!Effect
  <2>9. CASE get(t)
    <3>1. Atomic!Pending(t, "get") /\ pc[t] \in Inside /\ Visible = map
      BY <2>9, PendingAt, VisibleIsMap DEF get, At
    <3>2. Atomic!read(t)
      BY <2>9, <3>1, Finished DEF get, Atomic!read
    <3>3. QED
      BY <3>2 DEF Atomic!Next, Atomic!Effect
  <2>10. CASE size(t)
    <3>1. Atomic!Pending(t, "size") /\ pc[t] \in Inside /\ Visible = map
      BY <2>10, PendingAt, VisibleIsMap DEF size, At
    <3>2. Atomic!read(t)
      BY <2>10, <3>1, Finished
         DEF size, Atomic!read, Cardinality, Atomic!Cardinality
    <3>3. QED
      BY <3>2 DEF Atomic!Next, Atomic!Effect
  <2>11. CASE remove(t)
    <3>1. Atomic!Pending(t, "remove") /\ pc[t] \in Inside /\ Visible = map
      BY <2>11, PendingAt, VisibleIsMap DEF remove, At
    <3>2. Atomic!remove(t)
      BY <2>11, <3>1, Finished
         DEF remove, Atomic!remove, Has, Store, Atomic!Has, Atomic!Store
    <3>3. QED
      BY <3>2 DEF Atomic!Next, Atomic!Effect
  <2>12. CASE clear(t)
    <3>1. Atomic!Pending(t, "clear") /\ pc[t] \in Inside /\ Visible = map
      BY <2>12, PendingAt, VisibleIsMap DEF clear, At
    <3>2. Atomic!clear(t)
      BY <2>12, <3>1, Finished DEF clear, Atomic!clear, Empty, Atomic!Empty
    <3>3. QED
      BY <3>2 DEF Atomic!Next, Atomic!Effect
  <2>13. CASE WithLockRead(t)
    <3>1. Visible = map /\ mtx' = t /\ pc'[t] = "write"
      BY <2>13, VisibleIsMap DEF TypeOK, WithLockRead, At, Proceed, Goto, Inside
    <3>2. Visible' = map'
      BY <3>1, VisibleIsMapNext
    <3>3. QED
      BY <2>13, <3>1, <3>2 DEF WithLockRead, Proceed, Atomic!vars
  <2>14. CASE WithLockWrite(t)
    <3>1. Atomic!Pending(t, "with_lock") /\ pc[t] \in Inside /\ Visible = map
      BY <2>14, PendingAt, VisibleIsMap DEF WithLockWrite, At
    <3>2. map[call[t].k] = was[t]
      BY <2>14 DEF FoundStaysTrue, WithLockWrite, At
    <3>3. Atomic!with_lock(t)
      BY <2>14, <3>1, <3>2, Finished
         DEF WithLockWrite, Store, Atomic!with_lock, Atomic!Has, Atomic!Store
    <3>4. QED
      BY <3>3 DEF Atomic!Next, Atomic!Effect
  <2>15. CASE BodyThrows(t)
    <3>1. PICK op \in {"insert", "put", "get", "with_lock"} : At(t, "body", op)
      BY <2>15 DEF BodyThrows
    <3>2. Atomic!Pending(t, op) /\ pc[t] \in Inside /\ Visible = map
      BY <3>1, PendingAt, VisibleIsMap DEF At
    <3>3. Atomic!throws(t)
      BY <2>15, <3>2, Finished DEF BodyThrows, Atomic!throws
    <3>4. QED
      BY <3>3 DEF Atomic!Next, Atomic!Effect
  <2>16. QED
    BY <2>1, <2>2, <2>3, <2>4, <2>5, <2>6, <2>7, <2>8, <2>9, <2>10, <2>11,
       <2>12, <2>13, <2>14, <2>15 DEF Continue, Body
<1>3. QED
  BY <1>1, <1>2

\* A mutex around a hash map, with an operation of two steps and one that
\* runs the caller's code, implements a map of atomic operations (the
\* liveness half of ImplementsAtomicMap is left to the model checker).
THEOREM ImplementsAtomicity == SafeSpec => Atomic!SafeSpec
<1>1. Init => Atomic!Init
  BY DEF Init, Atomic!Init, Visible, Empty, Atomic!Empty, NoCall, Atomic!NoCall
<1>2. IInv /\ [Next]_vars => [Atomic!Next]_(Atomic!vars)
  BY AtomicStep
<1>3. QED
  BY <1>1, <1>2, Invariance, PTL DEF SafeSpec, Atomic!SafeSpec
=============================================================================
