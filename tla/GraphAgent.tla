----------------------------- MODULE GraphAgent -----------------------------
(***************************************************************************)
(* GraphAgent of graphagent.hpp over a ConcurrentGraph and its own         *)
(* ThreadPool: parallel_for_each_node and parallel_for_each_arc take a     *)
(* snapshot of the graph under its lock, submit one task per element and   *)
(* wait for the tasks in order.  Each caller makes one call, with an       *)
(* operation of its own that lives in the frame of the call; other threads *)
(* change the graph meanwhile.                                             *)
(*                                                                         *)
(* Every ConcurrentGraph operation is one step: it holds the graph's mutex *)
(* from its first line to its last and blocks on nothing else.             *)
(***************************************************************************)
EXTENDS ThreadPool, SequencesExt

CONSTANTS Callers,       \* the threads that call the agent, once each
          Nodes,         \* the nodes there can be
          Arcs,          \* the arcs there can be
          Ends,          \* Ends[x]: the nodes that arc x connects
          SubmitMayThrow,  \* whether memory may run out in a call
          MaxChanges     \* bound: changes of the graph

\* What the agent does with a pool, and the graphs and programs it is for.
Legal ==
  /\ IsFiniteSet(Nodes \cup Arcs)
  /\ Ends \in [Arcs -> SUBSET Nodes]
  /\ Tasks = Callers \X (1..Cardinality(Nodes \cup Arcs))
  /\ \A t \in Tasks : Child[t] = NoTask
  /\ SubmitMayThrow \in BOOLEAN
  /\ MaxChanges \in Nat

VARIABLES nodes,     \* the graph's node list
          arcs,      \* the graph's arc list
          changes,   \* changes made so far
          call,      \* call[c]: where the call of c is
          items,     \* items[c]: the snapshot of the call
          next,      \* next[c]: the index of its loop
          thrown     \* thrown[c]: the task whose exception left the call, or 0

graphVars == <<nodes, arcs, changes>>
callVars == <<call, items, next, thrown>>
vars == <<poolVars, graphVars, callVars>>

\* The operation is an argument by value of the call: it dies with it.
InCall(c) == call[c] \in {"submit", "get"}
Over(c) == call[c] \in {"idle", "returned", "threw"}

Init ==
  /\ PoolInit
  /\ nodes = <<>>
  /\ arcs = <<>>
  /\ changes = 0
  /\ call = [c \in Callers |-> "idle"]
  /\ items = [c \in Callers |-> <<>>]
  /\ next = [c \in Callers |-> 1]
  /\ thrown = [c \in Callers |-> 0]

-----------------------------------------------------------------------------
(* ConcurrentGraph.  Its comment leaves it to the callers not to remove an *)
(* element that a call may still use.                                      *)
InUse(x) == \E c \in Callers : InCall(c) /\ x \in ToSet(items[c])

Change ==
  /\ changes < MaxChanges
  /\ changes' = changes + 1
  /\ UNCHANGED <<poolVars, callVars>>

\* What is left of s without some elements, in the same order.
Rank(kept, i) == Cardinality({j \in kept : j <= i})
Without(s, gone) ==
  LET kept == {i \in DOMAIN s : s[i] \notin gone}
  IN  [k \in 1..Cardinality(kept) |-> s[CHOOSE i \in kept : Rank(kept, i) = k]]

insert_node(n) ==
  /\ n \notin ToSet(nodes)
  /\ nodes' = Append(nodes, n)
  /\ Change
  /\ UNCHANGED arcs

insert_arc(x) ==
  /\ x \notin ToSet(arcs)
  /\ Ends[x] \subseteq ToSet(nodes)
  /\ arcs' = Append(arcs, x)
  /\ Change
  /\ UNCHANGED nodes

remove_arc(x) ==
  /\ x \in ToSet(arcs) /\ ~InUse(x)
  /\ arcs' = Without(arcs, {x})
  /\ Change
  /\ UNCHANGED nodes

\* The arcs of a removed node go with it.
remove_node(n) ==
  /\ n \in ToSet(nodes) /\ ~InUse(n)
  /\ \A x \in ToSet(arcs) : n \in Ends[x] => ~InUse(x)
  /\ nodes' = Without(nodes, {n})
  /\ arcs' = Without(arcs, {x \in Arcs : n \in Ends[x]})
  /\ Change

-----------------------------------------------------------------------------
Snapshot(c, elements) ==
  /\ stage = "open"
  /\ call[c] = "idle"
  /\ items' = [items EXCEPT ![c] = elements]
  /\ call' = [call EXCEPT ![c] = "submit"]
  /\ UNCHANGED <<poolVars, graphVars, next, thrown>>

parallel_for_each_node(c) == Snapshot(c, nodes)
parallel_for_each_arc(c) == Snapshot(c, arcs)

SubmitNext(c) ==
  /\ call[c] = "submit"
  /\ next[c] <= Len(items[c])
  /\ submit(<<c, next[c]>>)
  /\ next' = [next EXCEPT ![c] = @ + 1]
  /\ UNCHANGED <<graphVars, call, items, thrown>>

\* submit throws before its put, or the append to pending throws after it:
\* the call is unwound.
SubmitThrows(c) ==
  /\ SubmitMayThrow
  /\ call[c] = "submit"
  /\ next[c] <= Len(items[c])
  /\ \/ UNCHANGED poolVars
     \/ submit(<<c, next[c]>>)
  /\ call' = [call EXCEPT ![c] = "threw"]
  /\ UNCHANGED <<graphVars, items, next, thrown>>

\* Mutant of AllSubmitted: the second loop starts at index 0 again.
AllSubmittedAtZero(c) ==
  /\ call[c] = "submit"
  /\ next[c] > Len(items[c])
  /\ call' = [call EXCEPT ![c] = "get"]
  /\ next' = [next EXCEPT ![c] = 0]
  /\ UNCHANGED <<poolVars, graphVars, items, thrown>>

\* Mutant of AllSubmitted: the call does not wait for its tasks.
AllSubmittedNoWait(c) ==
  /\ call[c] = "submit"
  /\ next[c] > Len(items[c])
  /\ call' = [call EXCEPT ![c] = "returned"]
  /\ UNCHANGED <<poolVars, graphVars, items, next, thrown>>

AllSubmitted(c) ==
  /\ call[c] = "submit"
  /\ next[c] > Len(items[c])
  /\ call' = [call EXCEPT ![c] = "get"]
  /\ next' = [next EXCEPT ![c] = 1]
  /\ UNCHANGED <<poolVars, graphVars, items, thrown>>

\* Mutant of GetNext: whatever task failed first ends the call.
GetAny(c) ==
  /\ call[c] = "get"
  /\ next[c] <= Len(items[c])
  /\ \/ /\ future[<<c, next[c]>>] = "value"
        /\ next' = [next EXCEPT ![c] = @ + 1]
        /\ UNCHANGED <<call, thrown>>
     \/ \E i \in next[c]..Len(items[c]) :
          /\ future[<<c, i>>] = "exception"
          /\ call' = [call EXCEPT ![c] = "threw"]
          /\ thrown' = [thrown EXCEPT ![c] = i]
          /\ UNCHANGED next
  /\ UNCHANGED <<poolVars, graphVars, items>>

\* Mutant of GetNext: an exception does not leave the task.
GetValueOnly(c) ==
  /\ call[c] = "get"
  /\ next[c] <= Len(items[c])
  /\ future[<<c, next[c]>>] = "value"
  /\ next' = [next EXCEPT ![c] = @ + 1]
  /\ UNCHANGED <<poolVars, graphVars, call, items, thrown>>

\* task.get(): wait for the next task, go on or let its exception out.
GetNext(c) ==
  /\ call[c] = "get"
  /\ next[c] <= Len(items[c])
  /\ \/ /\ future[<<c, next[c]>>] = "value"
        /\ next' = [next EXCEPT ![c] = @ + 1]
        /\ UNCHANGED <<call, thrown>>
     \/ /\ future[<<c, next[c]>>] = "exception"
        /\ call' = [call EXCEPT ![c] = "threw"]
        /\ thrown' = [thrown EXCEPT ![c] = next[c]]
        /\ UNCHANGED next
  /\ UNCHANGED <<poolVars, graphVars, items>>

\* Mutant of Return: the last task is not waited for.
ReturnBeforeLast(c) ==
  /\ call[c] = "get"
  /\ next[c] >= Len(items[c])
  /\ call' = [call EXCEPT ![c] = "returned"]
  /\ UNCHANGED <<poolVars, graphVars, items, next, thrown>>

Return(c) ==
  /\ call[c] = "get"
  /\ next[c] > Len(items[c])
  /\ call' = [call EXCEPT ![c] = "returned"]
  /\ UNCHANGED <<poolVars, graphVars, items, next, thrown>>

CallStep(c) ==
  SubmitNext(c) \/ SubmitThrows(c) \/ AllSubmitted(c) \/ GetNext(c) \/ Return(c)

-----------------------------------------------------------------------------
(* The pool: its workers run the operation; the owner of the agent destroys *)
(* it when no call is in progress.                                          *)
AgentWorker(w) == WorkerStep(w) /\ UNCHANGED <<graphVars, callVars>>

AgentOwner ==
  /\ \/ StartWorker
     \/ (\A c \in Callers : Over(c)) /\ BeginDestroy
     \/ PutStop \/ Join \/ DestroyMembers
  /\ UNCHANGED <<graphVars, callVars>>

GraphStep ==
  \/ \E n \in Nodes : insert_node(n) \/ remove_node(n)
  \/ \E x \in Arcs : insert_arc(x) \/ remove_arc(x)

AgentNext ==
  \/ AgentOwner
  \/ \E w \in Workers : AgentWorker(w)
  \/ GraphStep
  \/ \E c \in Callers :
       parallel_for_each_node(c) \/ parallel_for_each_arc(c) \/ CallStep(c)

AgentSpec ==
  /\ Init /\ [][AgentNext]_vars
  /\ \A w \in Workers : WF_vars(AgentWorker(w))
  /\ \A c \in Callers : WF_vars(CallStep(c))

-----------------------------------------------------------------------------
AgentTypeOK ==
  /\ TypeOK
  /\ nodes \in Seq(Nodes)
  /\ arcs \in Seq(Arcs)
  /\ changes \in 0..MaxChanges
  /\ call \in [Callers -> {"idle", "submit", "get", "returned", "threw"}]
  /\ items \in [Callers -> Seq(Nodes \cup Arcs)]
  /\ next \in [Callers -> Nat \ {0}]
  /\ thrown \in [Callers -> Nat]

(***************************************************************************)
(* A call that returns has applied the operation to every element of its   *)
(* snapshot, and none of those applications threw.                         *)
(***************************************************************************)
ReturnMeansAllRan ==
  \A c \in Callers : call[c] = "returned" =>
    \A i \in 1..Len(items[c]) : future[<<c, i>>] = "value"

(***************************************************************************)
(* The exception that leaves a call is that of the first element, in the   *)
(* order of the snapshot, whose operation threw - whichever worker threw   *)
(* first.                                                                  *)
(***************************************************************************)
FirstFailureThrown ==
  \A c \in Callers : thrown[c] # 0 =>
    /\ future[<<c, thrown[c]>>] = "exception"
    /\ \A i \in 1..(thrown[c] - 1) : future[<<c, i>>] = "value"

(***************************************************************************)
(* Two calls that share the pool do not block each other: a call that      *)
(* started ends, by returning or by throwing.                              *)
(***************************************************************************)
CallsEnd == \A c \in Callers : InCall(c) ~> call[c] \in {"returned", "threw"}

(***************************************************************************)
(* A running task never sees an operation that is gone, nor an element     *)
(* that was removed - as long as its call has not thrown.                  *)
(***************************************************************************)
RunsOnLiveData ==
  \A w \in Workers, c \in Callers, i \in 1..Cardinality(Nodes \cup Arcs) :
    (running[w] = <<c, i>> /\ call[c] # "threw") =>
      /\ InCall(c)
      /\ items[c][i] \in ToSet(nodes) \cup ToSet(arcs)

(***************************************************************************)
(* What the class comment says of every call: it waits for every task to   *)
(* finish before it returns control, so that no task of it is left to run  *)
(* the operation, a reference into the call's frame.  After an exception   *)
(* the later tasks are left.                                               *)
(***************************************************************************)
TasksEndBeforeTheCall ==
  \A c \in Callers : ~InCall(c) =>
    \A i \in 1..Len(items[c]) : future[<<c, i>>] # "pending"
=============================================================================
