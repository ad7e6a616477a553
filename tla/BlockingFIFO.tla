---------------------------- MODULE BlockingFIFO ----------------------------
(***************************************************************************)
(* What a blocking first-in first-out queue promises to the threads that   *)
(* call it, with no lock and no condition variable in sight: an item is    *)
(* appended at one instant of a put, the oldest item leaves at one instant *)
(* of a get, and a get can only happen while an item is there.             *)
(* ConcurrentQueue.tla is shown to implement it.                           *)
(***************************************************************************)
EXTENDS Sequences

CONSTANTS Threads,   \* the threads that share the queue
          Items      \* what can be put

VARIABLES queue,     \* the items put and not yet taken, oldest first
          call,      \* call[t]: how far thread t is in its current call
          received   \* received[t]: what the gets of t returned, in order

vars == <<queue, call, received>>

Init ==
  /\ queue = <<>>
  /\ call = [t \in Threads |-> "idle"]
  /\ received = [t \in Threads |-> <<>>]

Call(t, what) ==
  /\ call[t] = "idle"
  /\ call' = [call EXCEPT ![t] = what]
  /\ UNCHANGED <<queue, received>>

Put(t) ==
  /\ call[t] = "put"
  /\ \E item \in Items : queue' = Append(queue, item)
  /\ call' = [call EXCEPT ![t] = "returning"]
  /\ UNCHANGED received

\* A put that fails leaves no trace.
PutFails(t) ==
  /\ call[t] = "put"
  /\ call' = [call EXCEPT ![t] = "idle"]
  /\ UNCHANGED <<queue, received>>

Get(t) ==
  /\ call[t] = "get"
  /\ queue # <<>>
  /\ received' = [received EXCEPT ![t] = Append(@, Head(queue))]
  /\ queue' = Tail(queue)
  /\ call' = [call EXCEPT ![t] = "returning"]

Return(t) ==
  /\ call[t] = "returning"
  /\ call' = [call EXCEPT ![t] = "idle"]
  /\ UNCHANGED <<queue, received>>

Next ==
  \E t \in Threads :
    \/ Call(t, "put") \/ Call(t, "get")
    \/ Put(t) \/ PutFails(t) \/ Get(t) \/ Return(t)

\* Items do not stay in the queue while somebody is blocked in a get, and a
\* call that had its effect returns.
Fairness ==
  /\ WF_vars(\E t \in Threads : Get(t))
  /\ \A t \in Threads : WF_vars(Return(t))

SafeSpec == Init /\ [][Next]_vars

Spec == SafeSpec /\ Fairness
=============================================================================
