------------------------------ MODULE AtomicMap ------------------------------
(***************************************************************************)
(* What a map shared by threads promises: every call has its whole effect  *)
(* at one instant between its start and its return, and its answer is the  *)
(* one of that instant.  The one exception is a put whose assignment       *)
(* throws: a key it had to create stays, with a default value.             *)
(* ConcurrentMap.tla is shown to implement it.                             *)
(***************************************************************************)
EXTENDS FiniteSets

CONSTANTS Threads, Key, Value,
          Default,     \* the value of Value()
          Absent,      \* what a key without an entry maps to
          Modify,      \* Modify[v]: what the caller's function makes of v
          NoAnswer

VARIABLES map, call, answer

vars == <<map, call, answer>>

NoCall == [op |-> "none"]
Calls ==
  [op : {"insert", "put"}, k : Key, v : Value]
    \cup [op : {"contains", "get", "remove", "with_lock"}, k : Key]
    \cup [op : {"size", "clear"}]

Empty == [k \in Key |-> Absent]

Init ==
  /\ map = Empty
  /\ call = [t \in Threads |-> NoCall]
  /\ answer = [t \in Threads |-> NoAnswer]

Invoke(t) ==
  /\ call[t] = NoCall
  /\ \E c \in Calls : call' = [call EXCEPT ![t] = c]
  /\ UNCHANGED <<map, answer>>

\* Thread t is in a call of op that has not had its effect.
Pending(t, op) == call[t].op = op /\ answer[t] = NoAnswer

Answer(t, a) == answer' = [answer EXCEPT ![t] = a] /\ UNCHANGED call

Store(k, v) == map' = [map EXCEPT ![k] = v]

Has(t) == map[call[t].k] # Absent

insert(t) ==
  /\ Pending(t, "insert")
  /\ \/ ~Has(t) /\ Store(call[t].k, call[t].v) /\ Answer(t, "yes")
     \/ Has(t) /\ UNCHANGED map /\ Answer(t, "no")

put(t) ==
  /\ Pending(t, "put")
  /\ \/ Store(call[t].k, call[t].v) /\ Answer(t, "done")
     \/ ~Has(t) /\ Store(call[t].k, Default) /\ Answer(t, "threw")

read(t) ==
  /\ UNCHANGED map
  /\ \/ Pending(t, "contains") /\ Answer(t, IF Has(t) THEN "yes" ELSE "no")
     \/ Pending(t, "get") /\ Answer(t, map[call[t].k])
     \/ Pending(t, "size") /\ Answer(t, Cardinality({k \in Key : map[k] # Absent}))

remove(t) ==
  /\ Pending(t, "remove")
  /\ Store(call[t].k, Absent)
  /\ Answer(t, IF Has(t) THEN "yes" ELSE "no")

clear(t) == Pending(t, "clear") /\ map' = Empty /\ Answer(t, "done")

\* An update of an entry by a function of the caller, if there is an entry.
with_lock(t) ==
  /\ Pending(t, "with_lock")
  /\ \/ ~Has(t) /\ UNCHANGED map /\ Answer(t, "no")
     \/ Has(t) /\ Store(call[t].k, Modify[map[call[t].k]]) /\ Answer(t, "yes")

\* A copy of a key or a value, or an allocation, may throw: no effect.
throws(t) ==
  /\ \E op \in {"insert", "put", "get", "with_lock"} : Pending(t, op)
  /\ UNCHANGED map
  /\ Answer(t, "threw")

Effect(t) ==
  insert(t) \/ put(t) \/ read(t) \/ remove(t) \/ clear(t) \/ with_lock(t) \/ throws(t)

Return(t) ==
  /\ answer[t] # NoAnswer
  /\ call' = [call EXCEPT ![t] = NoCall]
  /\ answer' = [answer EXCEPT ![t] = NoAnswer]
  /\ UNCHANGED map

Next == \E t \in Threads : Invoke(t) \/ Effect(t) \/ Return(t)

\* Every call has its effect and returns.
Fairness == \A t \in Threads : WF_vars(Effect(t)) /\ WF_vars(Return(t))

SafeSpec == Init /\ [][Next]_vars

Spec == SafeSpec /\ Fairness
=============================================================================
