------------------------------ MODULE DynDeque ------------------------------
(***************************************************************************)
(* DynDeque<T> of deque.hpp: a circular buffer that constructs an item in  *)
(* a raw slot when it is pushed, destroys it when it is popped, and moves  *)
(* to a larger or smaller array when it is full or mostly empty.  And      *)
(* DynQueue<T> of queue.hpp, the same buffer written out again, used from  *)
(* the back for put and from the front for get.                            *)
(*                                                                         *)
(* One object is followed.  When it is copied, the copy takes its place    *)
(* (and the original is destroyed, as operator= does with its temporary);  *)
(* when its contents are moved away, what is followed is the shell that is *)
(* left: capacity 0, no array.  Like the code the model computes indexes   *)
(* modulo the width of nat_t before it reduces them modulo the capacity.   *)
(*                                                                         *)
(* The factors 1.4, 0.6 and 0.4 are taken exactly; the code's double       *)
(* product can be one less at a multiple of 5 (85 grows to 118).           *)
(***************************************************************************)
EXTENDS Naturals, Sequences, FiniteSets

CONSTANTS Items,       \* what can be stored
          Raw,         \* the content of a slot that holds no object
          Garbage,     \* what is read where no object is
          MIN_SIZE,    \* the smallest capacity of a live deque
          WordSize,    \* 2^64, the number of values of nat_t
          MaxItems,    \* bound: items in the deque
          CopyEmpty    \* whether an empty deque may be copied

RawIsNoItem == Raw \notin Items
MinSizeGrows == MIN_SIZE \in Nat /\ MIN_SIZE >= 3
WordIsLarge ==
  /\ MaxItems \in Nat
  /\ WordSize \in Nat
  /\ WordSize > 5 * (MaxItems + MIN_SIZE)

\* What the constants must be.
Legal == RawIsNoItem /\ MinSizeGrows /\ WordIsLarge

VARIABLES cap,         \* capacity
          num_items,   \* items stored
          f,           \* index of the front item
          r,           \* index of the back item
          array,       \* array[i]: what slot i holds
          out          \* what the last operation returned or threw

vars == <<cap, num_items, f, r, array, out>>

RawArray(n) == [i \in 0..(n - 1) |-> Raw]

\* cap - 1, num_items - 1 and the like, in nat_t.
Less(n) == (n + WordSize - 1) % WordSize

\* Mutant of Before: (i - 1) % cap, which wraps at 2^64 first.
BeforeWraps(i) == Less(i) % cap

\* (i + 1) % cap and (i + cap - 1) % cap.
After(i) == ((i + 1) % WordSize) % cap
Before(i) == ((i + cap - 1) % WordSize) % cap

Slot(i) ==
  IF i \in DOMAIN array /\ array[i] # Raw THEN array[i] ELSE Garbage

\* The items, in order, as copy_deque, resize and destroy_all visit them.
Contents == [i \in 1..num_items |-> Slot((f + i - 1) % cap)]

\* An array of n slots whose first slots hold the items of s.
Packed(s, n) ==
  [i \in 0..(n - 1) |-> IF i < Len(s) THEN s[i + 1] ELSE Raw]

Init ==
  /\ cap = MIN_SIZE
  /\ num_items = 0
  /\ f = 0
  /\ r = MIN_SIZE - 1
  /\ array = RawArray(MIN_SIZE)
  /\ out = "none"

-----------------------------------------------------------------------------
\* Mutant of GrownCap: an array grows one item too late.
GrownCapLate(n) == IF n <= cap THEN cap ELSE (cap * 14) \div 10

\* The capacity that resize_up (after a push) or resize_down (after a pop)
\* leaves for n items.
GrownCap(n) == IF n < cap THEN cap ELSE (cap * 14) \div 10

ShrunkCap(n) ==
  IF n * 10 > cap * 4 \/ cap = MIN_SIZE THEN cap
  ELSE IF (cap * 6) \div 10 < MIN_SIZE THEN MIN_SIZE ELSE (cap * 6) \div 10

\* Mutant of Store: the new capacity is not stored.
StoreOldCap(n, f1, r1, slots, sz) ==
  /\ num_items' = n
  /\ cap' = cap
  /\ array' = Packed([i \in 1..n |-> slots[(f1 + i - 1) % cap]], sz)
  /\ f' = 0
  /\ r' = Less(n)

\* The object after its indexes and slots became f1, r1 and slots with n
\* items, and resize(sz) was called if sz is not the capacity.
Store(n, f1, r1, slots, sz) ==
  /\ num_items' = n
  /\ cap' = sz
  /\ IF sz = cap
     THEN /\ array' = slots
          /\ f' = f1
          /\ r' = r1
     ELSE /\ array' = Packed([i \in 1..n |-> slots[(f1 + i - 1) % cap]], sz)
          /\ f' = 0
          /\ r' = Less(n)

\* A moved-from deque has no array: pushing into it is not allowed.
Push(x, i, f1, r1) ==
  /\ cap > 0
  /\ num_items < MaxItems
  /\ Store(num_items + 1, f1, r1, [array EXCEPT ![i] = x],
           GrownCap(num_items + 1))
  /\ out' = "none"

push_back(x) == Push(x, After(r), f, After(r))

push_front(x) == Push(x, Before(f), Before(f), r)

Underflow ==
  /\ num_items = 0
  /\ out' = "underflow"
  /\ UNCHANGED <<cap, num_items, f, r, array>>

\* Destroying what is not a slot changes no slot.
Pop(i, f1, r1) ==
  /\ num_items > 0
  /\ out' = Slot(i)
  /\ Store(num_items - 1, f1, r1,
           [j \in DOMAIN array |-> IF j = i THEN Raw ELSE array[j]],
           ShrunkCap(num_items - 1))

pop_back == Underflow \/ Pop(r, f, Before(r))

pop_front == Underflow \/ Pop(f, After(f), r)

Peek(i) ==
  /\ num_items > 0
  /\ out' = Slot(i)
  /\ UNCHANGED <<cap, num_items, f, r, array>>

front == Underflow \/ Peek(f)

back == Underflow \/ Peek(r)

-----------------------------------------------------------------------------
clear ==
  /\ cap' = MIN_SIZE
  /\ num_items' = 0
  /\ f' = 0
  /\ r' = MIN_SIZE - 1
  /\ array' = RawArray(MIN_SIZE)
  /\ out' = "none"

\* DynQueue(const DynQueue&) and copy_queue; operator=(const DynQueue&).
copy_queue ==
  /\ cap > 0
  /\ array' = Packed(Contents, cap)
  /\ f' = 0
  /\ r' = Less(num_items)
  /\ out' = "none"
  /\ UNCHANGED <<cap, num_items>>

\* The same of DynDeque.
copy_deque == copy_queue /\ (num_items > 0 \/ CopyEmpty)

\* DynDeque(DynDeque&&), seen from the object that is moved from.
move_away ==
  /\ cap' = 0
  /\ num_items' = 0
  /\ f' = 0
  /\ r' = 0
  /\ array' = RawArray(0)
  /\ out' = "none"

Next ==
  \/ \E x \in Items : push_back(x) \/ push_front(x)
  \/ pop_back \/ pop_front \/ front \/ back
  \/ clear \/ copy_deque \/ move_away

Spec == Init /\ [][Next]_vars

-----------------------------------------------------------------------------
(* DynQueue.  An empty queue may be copied: r, which is then 2^64 - 1, is   *)
(* only ever incremented.                                                   *)
put(x) == push_back(x)

get == pop_front

rear == back

QueueNext ==
  \/ \E x \in Items : put(x)
  \/ get \/ front \/ rear \/ clear \/ copy_queue \/ move_away

QueueSpec == Init /\ [][QueueNext]_vars

-----------------------------------------------------------------------------
TypeOK ==
  /\ cap \in Nat
  /\ num_items \in 0..MaxItems
  /\ f \in 0..(WordSize - 1)
  /\ r \in 0..(WordSize - 1)
  /\ array \in [0..(cap - 1) -> Items \cup {Raw}]
  /\ out \in Items \cup {Garbage, "none", "underflow", "overflow"}

(***************************************************************************)
(* The live slots are the circular range of num_items slots from f: no     *)
(* push constructs over a live item, no item is leaked by a resize, and    *)
(* every destructor call finds an object.                                  *)
(***************************************************************************)
LiveRange ==
  {i \in DOMAIN array : array[i] # Raw} =
    {(f + k) % cap : k \in 0..(num_items - 1)}

\* Room for the next push: a push never meets a full buffer.
RoomLeft == cap > 0 => num_items < cap

(***************************************************************************)
(* The circular buffer, through wrap-around, growth, shrinking, copies and *)
(* moves, is a sequence: what is popped is what was pushed, at both ends.  *)
(***************************************************************************)
AsDeque == INSTANCE DequeSpec WITH seq <- Contents, Capacity <- MaxItems + 1

ImplementsDeque == AsDeque!Spec
=============================================================================
