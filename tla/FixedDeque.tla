----------------------------- MODULE FixedDeque -----------------------------
(***************************************************************************)
(* FixedDeque<T, CAP> of deque.hpp: a circular buffer in an array of CAP   *)
(* objects that are all alive all the time.  One object is followed, as in *)
(* DynDeque: a copy takes the place of its original, and a move leaves the *)
(* freshly constructed object it was swapped with.  And FixedQueue<T, CAP> *)
(* of queue.hpp, the same buffer used from the back for put and from the   *)
(* front for get.                                                          *)
(***************************************************************************)
EXTENDS Naturals, Sequences

CONSTANTS Items,       \* what can be stored
          Raw,         \* the value of a slot that nobody stored into
          Garbage,     \* what is read where no item is
          CAP,         \* the capacity
          WordSize,    \* 2^64, the number of values of nat_t
          CopyEmpty    \* whether an empty deque may be copied

RawIsNoItem == Raw \notin Items
CapPositive == CAP \in Nat \ {0}
WordIsLarge == WordSize \in Nat /\ WordSize > 2 * CAP

\* What the constants must be.
Legal == RawIsNoItem /\ CapPositive /\ WordIsLarge

VARIABLES num_items,   \* items stored
          f,           \* index of the front item
          r,           \* index of the back item
          array,       \* array[i]: what slot i holds
          out          \* what the last operation returned or threw

vars == <<num_items, f, r, array, out>>

Less(n) == (n + WordSize - 1) % WordSize
After(i) == ((i + 1) % WordSize) % CAP
Before(i) == ((i + CAP - 1) % WordSize) % CAP

Slot(i) ==
  IF i \in DOMAIN array /\ array[i] # Raw THEN array[i] ELSE Garbage

Contents == [i \in 1..num_items |-> Slot((f + i - 1) % CAP)]

Init ==
  /\ num_items = 0
  /\ f = 0
  /\ r = CAP - 1
  /\ array = [i \in 0..(CAP - 1) |-> Raw]
  /\ out = "none"

Unchanged(what) == out' = what /\ UNCHANGED <<num_items, f, r, array>>

Push(x, i, f1, r1) ==
  \/ /\ num_items = CAP
     /\ Unchanged("overflow")
  \/ /\ num_items < CAP
     /\ array' = [array EXCEPT ![i] = x]
     /\ num_items' = num_items + 1
     /\ f' = f1
     /\ r' = r1
     /\ out' = "none"

push_back(x) == Push(x, After(r), f, After(r))

push_front(x) == Push(x, Before(f), Before(f), r)

\* The item is moved out of its slot.
Pop(i, f1, r1) ==
  \/ /\ num_items = 0
     /\ Unchanged("underflow")
  \/ /\ num_items > 0
     /\ out' = Slot(i)
     /\ array' = [j \in DOMAIN array |-> IF j = i THEN Raw ELSE array[j]]
     /\ num_items' = num_items - 1
     /\ f' = f1
     /\ r' = r1

pop_back == Pop(r, f, Before(r))

pop_front == Pop(f, After(f), r)

Peek(i) ==
  \/ num_items = 0 /\ Unchanged("underflow")
  \/ num_items > 0 /\ Unchanged(Slot(i))

front == Peek(f)

back == Peek(r)

\* The items stay in their slots, where nothing reads them.
clear ==
  /\ num_items' = 0
  /\ f' = 0
  /\ r' = CAP - 1
  /\ out' = "none"
  /\ UNCHANGED array

copy_queue ==
  /\ array' = [i \in 0..(CAP - 1) |->
                 IF i < num_items THEN Contents[i + 1] ELSE Raw]
  /\ f' = 0
  /\ r' = Less(num_items)
  /\ out' = "none"
  /\ UNCHANGED num_items

copy_deque == copy_queue /\ (num_items > 0 \/ CopyEmpty)

\* The object is swapped with a freshly constructed one.
move_away ==
  /\ num_items' = 0
  /\ f' = 0
  /\ r' = CAP - 1
  /\ array' = [i \in 0..(CAP - 1) |-> Raw]
  /\ out' = "none"

Next ==
  \/ \E x \in Items : push_back(x) \/ push_front(x)
  \/ pop_back \/ pop_front \/ front \/ back
  \/ clear \/ copy_deque \/ move_away

Spec == Init /\ [][Next]_vars

-----------------------------------------------------------------------------
(* FixedQueue.  As in DynQueue, an empty queue may be copied. *)
put(x) == push_back(x)

get == pop_front

rear == back

QueueNext ==
  \/ \E x \in Items : put(x)
  \/ get \/ front \/ rear \/ clear \/ copy_queue \/ move_away

QueueSpec == Init /\ [][QueueNext]_vars

-----------------------------------------------------------------------------
AsDeque == INSTANCE DequeSpec WITH seq <- Contents, Capacity <- CAP
=============================================================================
