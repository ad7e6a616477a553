---------------------------- MODULE ConcurrentMap ----------------------------
(***************************************************************************)
(* ConcurrentMap of concurrentmap.hpp: a mutex around a hash map.  Two of  *)
(* its operations change the map in more than one step: put makes an entry *)
(* with a default value and then assigns to it, and with_lock runs a       *)
(* function of the caller, here one that reads an entry, computes and      *)
(* writes it back.  ConcurrentSet is the same without values.              *)
(***************************************************************************)
EXTENDS Naturals, FiniteSets

CONSTANTS Threads, Nobody,
          Key, Value,
          Default,     \* the value of Value()
          Absent,      \* what a key without an entry maps to
          Modify,      \* Modify[v]: what the caller's function makes of v
          NoAnswer,
          MaxCalls     \* bound: calls made by each thread

ASSUME NobodyNotThread == Nobody \notin Threads
ASSUME ValuesTyped ==
  Default \in Value /\ Absent \notin Value /\ Modify \in [Value -> Value]
ASSUME NoAnswerIsNone ==
  NoAnswer \notin Value \cup {Absent, "yes", "no", "done", "threw"} \cup Nat
ASSUME KeysFinite == IsFiniteSet(Key)
ASSUME MaxCallsNat == MaxCalls \in Nat

VARIABLES mtx,        \* the thread that holds the mutex, or Nobody
          map,        \* the entries of the hash map
          pc,         \* pc[t]: where thread t is
          call,       \* call[t]: its call and the arguments
          answer,     \* answer[t]: what the call will return, or "threw"
          was,        \* was[t]: the entry that put or with_lock found
          made        \* made[t]: the calls thread t has made

vars == <<mtx, map, pc, call, answer, was, made>>

NoCall == [op |-> "none"]
Calls ==
  [op : {"insert", "put"}, k : Key, v : Value]
    \cup [op : {"contains", "get", "remove", "with_lock"}, k : Key]
    \cup [op : {"size", "clear"}]

Empty == [k \in Key |-> Absent]

Inside == {"body", "assign", "write", "unlock"}
Outside == {"idle", "lock"}

Init ==
  /\ mtx = Nobody
  /\ map = Empty
  /\ pc = [t \in Threads |-> "idle"]
  /\ call = [t \in Threads |-> NoCall]
  /\ answer = [t \in Threads |-> NoAnswer]
  /\ was = [t \in Threads |-> Absent]
  /\ made = [t \in Threads |-> 0]

-----------------------------------------------------------------------------
Goto(t, label) == pc' = [pc EXCEPT ![t] = label]

Call(t) ==
  /\ pc[t] = "idle"
  /\ made[t] < MaxCalls
  /\ made' = [made EXCEPT ![t] = @ + 1]
  /\ \E c \in Calls : call' = [call EXCEPT ![t] = c]
  /\ Goto(t, "lock")
  /\ UNCHANGED <<mtx, map, answer, was>>

\* Mutant of Lock: the operation runs without the mutex.
LockIgnored(t) ==
  /\ pc[t] = "lock"
  /\ mtx' = t
  /\ Goto(t, "body")
  /\ UNCHANGED <<map, call, answer, was, made>>

\* The constructor of lock_guard.
Lock(t) ==
  /\ pc[t] = "lock"
  /\ mtx = Nobody
  /\ mtx' = t
  /\ Goto(t, "body")
  /\ UNCHANGED <<map, call, answer, was, made>>

\* The destructor of lock_guard, on return or unwinding.
Unlock(t) ==
  /\ pc[t] = "unlock"
  /\ mtx' = Nobody
  /\ Goto(t, "idle")
  /\ call' = [call EXCEPT ![t] = NoCall]
  /\ answer' = [answer EXCEPT ![t] = NoAnswer]
  /\ UNCHANGED <<map, was, made>>

\* Thread t, in a call of op, is at the point label.
At(t, label, op) == pc[t] = label /\ call[t].op = op

\* The call is over but for the release of the mutex.
Finish(t, a) ==
  /\ answer' = [answer EXCEPT ![t] = a]
  /\ Goto(t, "unlock")
  /\ UNCHANGED <<mtx, call, was, made>>

\* It goes on at label, knowing the entry it found.
Proceed(t, label) ==
  /\ was' = [was EXCEPT ![t] = map[call[t].k]]
  /\ Goto(t, label)
  /\ UNCHANGED <<mtx, call, answer, made>>

Store(k, v) == map' = [map EXCEPT ![k] = v]

Has(t) == map[call[t].k] # Absent

-----------------------------------------------------------------------------
insert(t) ==
  /\ At(t, "body", "insert")
  /\ \/ Has(t) /\ UNCHANGED map /\ Finish(t, "no")
     \/ ~Has(t) /\ Store(call[t].k, call[t].v) /\ Finish(t, "yes")

\* map[k]: search_or_insert with a value-initialized Value.
PutIndex(t) ==
  /\ At(t, "body", "put")
  /\ \/ Has(t) /\ UNCHANGED map
     \/ ~Has(t) /\ Store(call[t].k, Default)
  /\ Proceed(t, "assign")

\* Mutant of PutAssign: an entry that was there keeps its value.
PutAssignNew(t) ==
  /\ At(t, "assign", "put")
  /\ IF was[t] = Absent THEN Store(call[t].k, call[t].v) ELSE UNCHANGED map
  /\ Finish(t, "done")

\* ... = v, through the reference that operator[] returned; it may throw,
\* and a value that refuses an assignment keeps what it was.
PutAssign(t) ==
  /\ At(t, "assign", "put")
  /\ \/ Store(call[t].k, call[t].v) /\ Finish(t, "done")
     \/ UNCHANGED map /\ Finish(t, "threw")

contains(t) ==
  /\ At(t, "body", "contains")
  /\ UNCHANGED map
  /\ Finish(t, IF Has(t) THEN "yes" ELSE "no")

get(t) ==
  /\ At(t, "body", "get")
  /\ UNCHANGED map
  /\ Finish(t, map[call[t].k])

remove(t) ==
  /\ At(t, "body", "remove")
  /\ Store(call[t].k, Absent)
  /\ Finish(t, IF Has(t) THEN "yes" ELSE "no")

\* size(), and is_empty(), which compares it with 0.
size(t) ==
  /\ At(t, "body", "size")
  /\ UNCHANGED map
  /\ Finish(t, Cardinality({k \in Key : map[k] # Absent}))

clear(t) ==
  /\ At(t, "body", "clear")
  /\ map' = Empty
  /\ Finish(t, "done")

\* Mutant of WithLockRead: the lock ends before the function writes back.
WithLockReadOnly(t) ==
  /\ At(t, "body", "with_lock")
  /\ was' = [was EXCEPT ![t] = map[call[t].k]]
  /\ Goto(t, "write")
  /\ mtx' = Nobody
  /\ UNCHANGED <<map, call, answer, made>>

\* The caller's function looks the entry up.
WithLockRead(t) ==
  /\ At(t, "body", "with_lock")
  /\ UNCHANGED map
  /\ Proceed(t, "write")

\* ... and writes what it made of it.
WithLockWrite(t) ==
  /\ At(t, "write", "with_lock")
  /\ \/ was[t] = Absent /\ UNCHANGED map /\ Finish(t, "no")
     \/ was[t] # Absent /\ Store(call[t].k, Modify[was[t]]) /\ Finish(t, "yes")

\* An allocation or a copy throws before the map has changed.
BodyThrows(t) ==
  /\ \E op \in {"insert", "put", "get", "with_lock"} : At(t, "body", op)
  /\ UNCHANGED map
  /\ Finish(t, "threw")

Body(t) ==
  \/ insert(t) \/ PutIndex(t) \/ PutAssign(t)
  \/ contains(t) \/ get(t) \/ size(t)
  \/ remove(t) \/ clear(t)
  \/ WithLockRead(t) \/ WithLockWrite(t)
  \/ BodyThrows(t)

\* A thread inside a call keeps running; nobody has to start a call.
Continue(t) == Lock(t) \/ Body(t) \/ Unlock(t)

Next == \E t \in Threads : Call(t) \/ Continue(t)

Fairness == \A t \in Threads : WF_vars(Continue(t))

SafeSpec == Init /\ [][Next]_vars

Spec == SafeSpec /\ Fairness

-----------------------------------------------------------------------------
(***************************************************************************)
(* Types, and mutual exclusion: the thread between the constructor and the *)
(* destructor of its lock_guard is the one that holds the mutex.           *)
(***************************************************************************)
TypeOK ==
  /\ mtx \in Threads \cup {Nobody}
  /\ map \in [Key -> Value \cup {Absent}]
  /\ pc \in [Threads -> Inside \cup Outside]
  /\ call \in [Threads -> Calls \cup {NoCall}]
  /\ answer = [t \in Threads |-> answer[t]]
  /\ was \in [Threads -> Value \cup {Absent}]
  /\ made \in [Threads -> 0..MaxCalls]
  /\ \A t \in Threads : mtx = t <=> pc[t] \in Inside

(***************************************************************************)
(* What a call found under the lock is still so when it acts on it: the    *)
(* entry that put assigns to through a reference is the one it found, or   *)
(* the default value it made, and the entry that a function given to       *)
(* with_lock computed from has not changed.                                *)
(***************************************************************************)
FoundStaysTrue ==
  \A t \in Threads :
    /\ pc[t] = "assign" =>
         map[call[t].k] = IF was[t] = Absent THEN Default ELSE was[t]
    /\ pc[t] = "write" => map[call[t].k] = was[t]

\* Where a thread is tells what it has of its call.
Stages ==
  \A t \in Threads :
    /\ pc[t] = "idle" <=> call[t] = NoCall
    /\ pc[t] = "unlock" <=> answer[t] # NoAnswer
    /\ pc[t] = "assign" => call[t].op = "put"
    /\ pc[t] = "write" => call[t].op = "with_lock"

\* The map as others may know it: without the entry of a put in progress.
Visible ==
  IF mtx # Nobody /\ pc[mtx] = "assign"
  THEN [map EXCEPT ![call[mtx].k] = was[mtx]]
  ELSE map

Atomic == INSTANCE AtomicMap WITH map <- Visible

(***************************************************************************)
(* Every call takes effect at one instant between its start and its end,   *)
(* as the comments on put and with_lock promise, and every call returns.   *)
(***************************************************************************)
ImplementsAtomicMap == Atomic!Spec
=============================================================================
