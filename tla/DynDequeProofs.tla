--------------------------- MODULE DynDequeProofs ---------------------------
(***************************************************************************)
(* Proofs about DynDeque: the two indexes always delimit the live slots, a *)
(* push always finds a raw slot, and the circular buffer is a sequence,    *)
(* whatever the capacity it grew to or shrank to.                          *)
(*                                                                         *)
(* The arithmetic modulo cap and modulo 2^64 is first reduced to linear    *)
(* arithmetic on indexes below 2 * cap (Wrapped); the invariant says with  *)
(* it where the live slots are.                                            *)
(***************************************************************************)
EXTENDS DynDeque, SequenceTheorems, TLAPS

\* An index below 2 * c, reduced modulo c.
Wrapped(i, c) == IF i < c THEN i ELSE i - c

\* How far slot i is behind the front.
Offset(i, f1, c) == IF f1 <= i THEN i - f1 ELSE i - f1 + c

\* The live slots are the n slots from f1.
Alive(slots, f1, n, c) ==
  \A i \in 0..(c - 1) : slots[i] # Raw <=> Offset(i, f1, c) < n

\* The slot of the last of n items, or the slot before f1 if there is none.
BackOf(f1, n, c) == IF f1 + n = 0 THEN c - 1 ELSE Wrapped(f1 + n - 1, c)

\* A capacity that resize_up and resize_down leave: the smallest one, or one
\* of which more than 0.4 is used.
GoodCap(n, c) == c >= MIN_SIZE /\ n < c /\ (c = MIN_SIZE \/ 10 * n > 4 * c)

Shape ==
  /\ cap \in Nat
  /\ num_items \in 0..MaxItems
  /\ f \in Nat
  /\ r \in 0..(WordSize - 1)
  /\ array \in [0..(cap - 1) -> Items \cup {Raw}]
  /\ out \in Items \cup {Garbage, "none", "underflow", "overflow"}
  /\ cap = 0 => num_items = 0 /\ f = 0
  /\ cap > 0 => /\ GoodCap(num_items, cap)
                /\ f < cap
                /\ Alive(array, f, num_items, cap)

\* A deque knows where its last item is.
BackRight == cap > 0 => r = BackOf(f, num_items, cap)

DInv == Shape /\ BackRight

\* A queue may have copied an empty one, which leaves 2^64 - 1 in r.
QInv ==
  /\ Shape
  /\ BackRight \/ (r = WordSize - 1 /\ num_items = 0 /\ f = 0)

-----------------------------------------------------------------------------
(* Arithmetic. *)

LEMMA ModSmall ==
  ASSUME NEW c \in Nat \ {0}, NEW a \in 0..(c - 1)
  PROVE  a % c = a
OBVIOUS

LEMMA ModOnce ==
  ASSUME NEW c \in Nat \ {0}, NEW a \in Nat, c <= a, a < 2 * c
  PROVE  a % c = a - c
OBVIOUS

\* No index of a legal deque comes near 2^64.
LEMMA NoOverflow ==
  ASSUME Legal, Shape
  PROVE  2 * cap < WordSize /\ MaxItems < WordSize
BY DEF Legal, MinSizeGrows, WordIsLarge, Shape, GoodCap

\* The slot after and the slot before a slot.
LEMMA Steps ==
  ASSUME Legal, Shape, NEW i \in 0..(cap - 1)
  PROVE  /\ After(i) = Wrapped(i + 1, cap)
         /\ Before(i) = IF i = 0 THEN cap - 1 ELSE i - 1
<1>1. cap \in Nat \ {0} /\ i \in Nat /\ i < cap
  BY DEF Shape
<1>2. 2 * cap < WordSize /\ WordSize \in Nat \ {0}
  BY NoOverflow, <1>1 DEF Legal, WordIsLarge
<1>3. (i + 1) % WordSize = i + 1 /\ (i + cap - 1) % WordSize = i + cap - 1
  <2>1. i + 1 \in 0..(WordSize - 1) /\ i + cap - 1 \in 0..(WordSize - 1)
    BY <1>1, <1>2
  <2>2. QED
    BY <2>1, <1>2, ModSmall
<1>4. (i + 1) % cap = Wrapped(i + 1, cap)
  <2>1. CASE i + 1 < cap
    <3>1. i + 1 \in 0..(cap - 1)
      BY <2>1, <1>1
    <3>2. QED
      BY <3>1, <2>1, <1>1, ModSmall DEF Wrapped
  <2>2. CASE i + 1 = cap
    <3>1. cap % cap = 0
      BY <1>1
    <3>2. QED
      BY <3>1, <2>2, <1>1 DEF Wrapped
  <2>3. QED
    BY <2>1, <2>2, <1>1
<1>5. (i + cap - 1) % cap = IF i = 0 THEN cap - 1 ELSE i - 1
  <2>1. CASE i = 0
    <3>1. i + cap - 1 = cap - 1 /\ cap - 1 \in 0..(cap - 1)
      BY <2>1, <1>1
    <3>2. QED
      BY <3>1, <2>1, <1>1, ModSmall
  <2>2. CASE i # 0
    <3>1. i + cap - 1 \in Nat /\ cap <= i + cap - 1 /\ i + cap - 1 < 2 * cap
      BY <2>2, <1>1
    <3>2. (i + cap - 1) % cap = (i + cap - 1) - cap
      BY <3>1, <1>1, ModOnce
    <3>3. QED
      BY <3>2, <2>2, <1>1
  <2>3. QED
    BY <2>1, <2>2
<1>6. QED
  BY <1>3, <1>4, <1>5 DEF After, Before

\* The slot after 2^64 - 1 is slot 0.
LEMMA AfterLast ==
  ASSUME Legal, Shape, cap > 0
  PROVE  After(WordSize - 1) = 0
<1>1. WordSize \in Nat \ {0} /\ cap \in Nat \ {0}
  BY NoOverflow DEF Shape, Legal, WordIsLarge
<1>2. WordSize % WordSize = 0 /\ 0 % cap = 0
  BY <1>1
<1>3. (WordSize - 1) + 1 = WordSize
  BY <1>1
<1>4. QED
  BY <1>2, <1>3 DEF After

\* num_items - 1, when there is an item.
LEMMA LessOne ==
  ASSUME Legal, Shape, NEW n \in 0..MaxItems
  PROVE  Less(n) = IF n = 0 THEN WordSize - 1 ELSE n - 1
<1>1. WordSize \in Nat \ {0} /\ MaxItems \in Nat /\ MaxItems < WordSize
  BY NoOverflow DEF Shape, Legal, WordIsLarge
<1>2. CASE n = 0
  <2>1. n + WordSize - 1 = WordSize - 1 /\ WordSize - 1 \in 0..(WordSize - 1)
    BY <1>1, <1>2
  <2>2. QED
    BY <2>1, <1>1, <1>2, ModSmall DEF Less
<1>3. CASE n # 0
  <2>1. /\ n + WordSize - 1 \in Nat
        /\ WordSize <= n + WordSize - 1
        /\ n + WordSize - 1 < 2 * WordSize
    BY <1>1, <1>3
  <2>2. (n + WordSize - 1) % WordSize = (n + WordSize - 1) - WordSize
    BY <2>1, <1>1, ModOnce
  <2>3. QED
    BY <2>2, <1>1, <1>3 DEF Less
<1>4. QED
  BY <1>2, <1>3

\* The slot that is k behind the front, for any front.
LEMMA Reduced ==
  ASSUME NEW c \in Nat \ {0}, NEW i \in 0..(2 * c - 1)
  PROVE  i % c = Wrapped(i, c) /\ Wrapped(i, c) \in 0..(c - 1)
<1>1. CASE i < c
  <2>1. i \in 0..(c - 1)
    BY <1>1
  <2>2. QED
    BY <2>1, <1>1, ModSmall DEF Wrapped
<1>2. CASE i >= c
  <2>1. i \in Nat /\ c <= i /\ i < 2 * c
    BY <1>2
  <2>2. i % c = i - c
    BY <2>1, ModOnce
  <2>3. QED
    BY <2>1, <2>2 DEF Wrapped
<1>3. QED
  BY <1>1, <1>2

-----------------------------------------------------------------------------
(* Slots and contents. *)

Slots == Items \cup {Raw}

\* The n slots from f1, in order, each holding an item.
LEMMA LiveSlot ==
  ASSUME NEW c \in Nat, NEW f1 \in 0..(c - 1), NEW n \in 0..c,
         NEW slots \in [0..(c - 1) -> Slots], Alive(slots, f1, n, c),
         NEW k \in 0..(n - 1)
  PROVE  /\ Wrapped(f1 + k, c) \in 0..(c - 1)
         /\ (f1 + k) % c = Wrapped(f1 + k, c)
         /\ slots[Wrapped(f1 + k, c)] \in Items
<1>1. c \in Nat \ {0} /\ f1 + k \in 0..(2 * c - 1)
  OBVIOUS
<1>2. Wrapped(f1 + k, c) \in 0..(c - 1) /\ (f1 + k) % c = Wrapped(f1 + k, c)
  BY <1>1, Reduced
<1>3. Offset(Wrapped(f1 + k, c), f1, c) = k
  BY DEF Offset, Wrapped
<1>4. slots[Wrapped(f1 + k, c)] # Raw
  BY <1>2, <1>3 DEF Alive
<1>5. QED
  BY <1>2, <1>4 DEF Slots

\* What Slot reads in them.
LEMMA ReadSlot ==
  ASSUME Legal,
         NEW c \in Nat, NEW f1 \in 0..(c - 1), NEW n \in 0..c,
         NEW slots \in [0..(c - 1) -> Slots], Alive(slots, f1, n, c),
         NEW i \in 1..n
  PROVE  /\ Wrapped(f1 + i - 1, c) \in 0..(c - 1)
         /\ (f1 + i - 1) % c = Wrapped(f1 + i - 1, c)
         /\ slots[Wrapped(f1 + i - 1, c)] \in Items
         /\ slots[Wrapped(f1 + i - 1, c)] # Raw
         /\ Wrapped(f1 + i - 1, c) \in DOMAIN slots
<1>1. i - 1 \in 0..(n - 1) /\ f1 + i - 1 = f1 + (i - 1)
  OBVIOUS
<1>2. /\ Wrapped(f1 + i - 1, c) \in 0..(c - 1)
      /\ (f1 + i - 1) % c = Wrapped(f1 + i - 1, c)
      /\ slots[Wrapped(f1 + i - 1, c)] \in Items
  BY <1>1, LiveSlot
<1>3. DOMAIN slots = 0..(c - 1)
  OBVIOUS
<1>4. QED
  BY <1>2, <1>3 DEF Legal, RawIsNoItem

\* Contents without reduction modulo cap.
LEMMA ContentsAre ==
  ASSUME Legal, Shape
  PROVE  /\ Contents =
              [i \in 1..num_items |-> array[Wrapped(f + i - 1, cap)]]
         /\ Contents \in [1..num_items -> Items]
<1>1. CASE cap = 0
  <2>1. 1..num_items = {}
    BY <1>1 DEF Shape
  <2>2. QED
    BY <2>1 DEF Contents
<1>2. CASE cap > 0
  <2>1. ASSUME NEW i \in 1..num_items
        PROVE  /\ Slot((f + i - 1) % cap) = array[Wrapped(f + i - 1, cap)]
               /\ array[Wrapped(f + i - 1, cap)] \in Items
    <3>1. /\ cap \in Nat /\ f \in 0..(cap - 1) /\ num_items \in 0..cap
          /\ array \in [0..(cap - 1) -> Slots]
          /\ Alive(array, f, num_items, cap)
      BY <1>2 DEF Shape, GoodCap, Slots
    <3>2. QED
      BY <3>1, ReadSlot DEF Slot
  <2>2. QED
    BY <2>1 DEF Contents
<1>3. QED
  BY <1>1, <1>2 DEF Shape

\* What Store makes of n items in slots from f1.  A resize straightens them;
\* it never happens with no item, where it would leave 2^64 - 1 in r.
LEMMA StoreStep ==
  ASSUME Legal, Shape, cap > 0,
         NEW n \in 0..MaxItems, n <= cap, NEW f1 \in 0..(cap - 1),
         NEW slots \in [0..(cap - 1) -> Slots], Alive(slots, f1, n, cap),
         NEW sz \in Nat, GoodCap(n, sz), sz # cap => n > 0,
         Store(n, f1, BackOf(f1, n, cap), slots, sz),
         out' \in Items \cup {Garbage, "none", "underflow", "overflow"}
  PROVE  /\ Shape'
         /\ BackRight'
         /\ Contents' = [i \in 1..n |-> slots[Wrapped(f1 + i - 1, cap)]]
<1> DEFINE moved == [i \in 1..n |-> slots[(f1 + i - 1) % cap]]
<1>1. /\ cap \in Nat \ {0} /\ MIN_SIZE \in Nat /\ MIN_SIZE >= 3
      /\ MaxItems \in Nat /\ WordSize \in Nat /\ 2 * cap < WordSize /\ MaxItems < WordSize
  BY NoOverflow DEF Shape, Legal, WordIsLarge, MinSizeGrows
<1>2. cap' = sz /\ num_items' = n
  BY DEF Store
<1>3. ASSUME NEW i \in 1..n
      PROVE  /\ Wrapped(f1 + i - 1, cap) \in 0..(cap - 1)
             /\ moved[i] = slots[Wrapped(f1 + i - 1, cap)]
             /\ slots[Wrapped(f1 + i - 1, cap)] \in Items
  <2>1. cap \in Nat /\ n \in 0..cap
    BY <1>1
  <2>2. QED
    BY <2>1, ReadSlot
<1>4. CASE sz = cap
  <2>1. array' = slots /\ f' = f1 /\ r' = BackOf(f1, n, cap)
    BY <1>4 DEF Store
  <2>2. BackOf(f1, n, cap) \in 0..(WordSize - 1)
    BY <1>1 DEF BackOf, Wrapped
  <2>3. Shape'
    BY <1>1, <1>2, <1>4, <2>1, <2>2 DEF Shape, Slots
  <2>4. BackRight'
    BY <1>2, <1>4, <2>1 DEF BackRight
  <2>5. Contents' = [i \in 1..n |-> slots[Wrapped(f1 + i - 1, cap)]]
    <3>1. (Contents = [i \in 1..num_items |-> array[Wrapped(f + i - 1, cap)]])'
      BY <2>3, ContentsAre, PTL
    <3>2. QED
      BY <3>1, <1>2, <1>4, <2>1
  <2>6. QED
    BY <2>3, <2>4, <2>5
<1>5. CASE sz # cap
  <2>1. array' = Packed(moved, sz) /\ f' = 0 /\ r' = Less(n)
    BY <1>5 DEF Store
  <2>2. n > 0 /\ r' = n - 1
    BY <1>1, <1>5, <2>1, LessOne
  <2>3. Len(moved) = n
    BY <1>3
  <2>4. array' = [i \in 0..(sz - 1) |-> IF i < n THEN moved[i + 1] ELSE Raw]
    BY <2>1, <2>3 DEF Packed
  <2>5. ASSUME NEW i \in 0..(sz - 1)
        PROVE  /\ array'[i] \in Slots
               /\ i < n => array'[i] = moved[i + 1] /\ array'[i] \in Items
               /\ array'[i] # Raw <=> i < n
    <3>1. array'[i] = IF i < n THEN moved[i + 1] ELSE Raw
      BY <2>4
    <3>2. i < n => i + 1 \in 1..n
      OBVIOUS
    <3>3. i < n => moved[i + 1] \in Items
      BY <1>3, <3>2
    <3> HIDE DEF moved
    <3>4. QED
      BY <3>1, <3>3 DEF Slots, Legal, RawIsNoItem
  <2>6. Alive(array', 0, n, sz)
    <3>1. ASSUME NEW i \in 0..(sz - 1)
          PROVE  array'[i] # Raw <=> Offset(i, 0, sz) < n
      <4>1. Offset(i, 0, sz) = i
        BY DEF Offset
      <4>2. QED
        BY <4>1, <2>5
    <3>2. QED
      BY <3>1 DEF Alive
  <2>7. Shape'
    <3>1. array' \in [0..(sz - 1) -> Slots]
      BY <2>4, <2>5
    <3>2. sz > 0 /\ 0 < sz /\ r' \in 0..(WordSize - 1)
      BY <1>1, <2>2 DEF GoodCap
    <3>3. f' = 0
      BY <2>1
    <3>4. Alive(array', f', num_items', cap') /\ GoodCap(num_items', cap')
      BY <1>2, <2>6, <3>3
    <3>5. array' \in [0..(cap' - 1) -> Items \cup {Raw}]
      BY <1>2, <3>1 DEF Slots
    <3>6. QED
      BY <1>2, <3>2, <3>3, <3>4, <3>5 DEF Shape
  <2>8. BackRight'
    BY <1>1, <1>2, <2>1, <2>2 DEF BackRight, BackOf, Wrapped, GoodCap
  <2>9. Contents' = [i \in 1..n |-> slots[Wrapped(f1 + i - 1, cap)]]
    <3>0. (Contents = [i \in 1..num_items |-> array[Wrapped(f + i - 1, cap)]])'
      BY <2>7, ContentsAre, PTL
    <3>1. Contents' = [i \in 1..n |-> array'[Wrapped(0 + i - 1, sz)]]
      <4>1. Contents' = [i \in 1..num_items' |->
                           array'[Wrapped(f' + i - 1, cap')]]
        BY <3>0
      <4>2. f' = 0
        BY <2>1
      <4>3. QED
        BY <4>1, <4>2, <1>2
    <3>2. ASSUME NEW i \in 1..n
          PROVE  array'[Wrapped(0 + i - 1, sz)] = slots[Wrapped(f1 + i - 1, cap)]
      <4>1. i - 1 \in 0..(sz - 1) /\ i - 1 < n /\ (i - 1) + 1 = i
        BY DEF GoodCap
      <4>2. Wrapped(0 + i - 1, sz) = i - 1
        BY <4>1 DEF Wrapped
      <4>3. QED
        BY <4>1, <4>2, <2>5, <1>3
    <3>3. QED
      BY <3>1, <3>2
  <2>10. QED
    BY <2>7, <2>8, <2>9
<1>6. QED
  BY <1>4, <1>5

\* Contents, seen as a sequence.
LEMMA ContentsSeq ==
  ASSUME Legal, Shape
  PROVE  /\ Contents \in Seq(Items)
         /\ Len(Contents) = num_items
         /\ \A i \in 1..num_items :
              Contents[i] = array[Wrapped(f + i - 1, cap)]
<1>1. num_items \in Nat
  BY DEF Shape, Legal, WordIsLarge
<1>2. QED
  BY <1>1, ContentsAre

\* resize_up leaves room for the next push, and a capacity in use.
LEMMA Grown ==
  ASSUME Legal, Shape, cap > 0, num_items < MaxItems
  PROVE  /\ GrownCap(num_items + 1) \in Nat
         /\ GoodCap(num_items + 1, GrownCap(num_items + 1))
BY DEF Legal, MinSizeGrows, WordIsLarge, Shape, GoodCap, GrownCap

\* resize_down leaves room too, and moves nothing when nothing is left.
LEMMA Shrunk ==
  ASSUME Legal, Shape, num_items > 0
  PROVE  /\ ShrunkCap(num_items - 1) \in Nat
         /\ GoodCap(num_items - 1, ShrunkCap(num_items - 1))
         /\ ShrunkCap(num_items - 1) # cap => num_items - 1 > 0
BY DEF Legal, MinSizeGrows, WordIsLarge, Shape, GoodCap, ShrunkCap

\* Where a push at the back stores, also after a copy of an empty queue.
LEMMA AfterBack ==
  ASSUME Legal, QInv, cap > 0
  PROVE  /\ After(r) = Wrapped(f + num_items, cap)
         /\ After(r) = BackOf(f, num_items + 1, cap)
         /\ After(r) \in 0..(cap - 1)
<1>1. /\ cap \in Nat \ {0} /\ f \in 0..(cap - 1)
      /\ num_items \in Nat /\ num_items < cap
  BY DEF QInv, Shape, GoodCap
<1>2. CASE BackRight
  <2>1. r = BackOf(f, num_items, cap) /\ r \in 0..(cap - 1)
    BY <1>1, <1>2 DEF BackRight, BackOf, Wrapped
  <2>2. After(r) = Wrapped(r + 1, cap)
    BY <2>1, Steps DEF QInv
  <2>3. QED
    BY <1>1, <2>1, <2>2 DEF BackOf, Wrapped
<1>3. CASE r = WordSize - 1 /\ num_items = 0 /\ f = 0
  <2>1. After(r) = 0
    BY <1>3, AfterLast DEF QInv
  <2>2. QED
    BY <1>1, <1>3, <2>1 DEF BackOf, Wrapped
<1>4. QED
  BY <1>2, <1>3 DEF QInv

\* A deque is a queue whose r is right.
LEMMA DequeIsQueue == DInv => QInv
BY DEF DInv, QInv

-----------------------------------------------------------------------------
(* The operations: each keeps the shape, and does to Contents what DequeSpec *)
(* says. *)

LEMMA PushBackStep ==
  ASSUME Legal, QInv, NEW x \in Items, push_back(x)
  PROVE  Shape' /\ BackRight' /\ AsDeque!push_back(x)
<1> DEFINE i == After(r)
           n == num_items + 1
           slots == [array EXCEPT ![i] = x]
<1>1. Shape /\ cap > 0 /\ num_items < MaxItems /\ out' = "none"
  BY DEF QInv, push_back, Push
<1>2. /\ cap \in Nat \ {0} /\ f \in 0..(cap - 1) /\ num_items \in 0..(cap - 1)
      /\ MaxItems \in Nat /\ array \in [0..(cap - 1) -> Slots]
      /\ Alive(array, f, num_items, cap)
  BY <1>1 DEF Shape, GoodCap, Slots, Legal, WordIsLarge
<1>3. /\ i = Wrapped(f + num_items, cap) /\ i = BackOf(f, n, cap)
      /\ i \in 0..(cap - 1)
  BY <1>1, AfterBack
<1>4. n \in 0..MaxItems /\ n <= cap
  BY <1>1, <1>2
<1>5. slots \in [0..(cap - 1) -> Slots]
  BY <1>2 DEF Slots
<1>6. Alive(slots, f, n, cap)
  <2>1. ASSUME NEW j \in 0..(cap - 1)
        PROVE  slots[j] # Raw <=> Offset(j, f, cap) < n
    <3>1. CASE j = i
      <4>1. Offset(j, f, cap) = num_items
        BY <1>2, <1>3, <3>1 DEF Offset, Wrapped
      <4>2. slots[j] = x
        BY <1>2, <3>1
      <4>3. QED
        BY <1>2, <4>1, <4>2 DEF Legal, RawIsNoItem
    <3>2. CASE j # i
      <4>1. Offset(j, f, cap) # num_items /\ Offset(j, f, cap) \in Nat
        BY <1>2, <1>3, <3>2 DEF Offset, Wrapped
      <4>2. slots[j] = array[j]
        BY <1>2, <3>2
      <4>3. slots[j] # Raw <=> Offset(j, f, cap) < num_items
        BY <1>2, <4>2 DEF Alive
      <4>4. QED
        BY <1>2, <4>1, <4>3
    <3>3. QED
      BY <3>1, <3>2
  <2>2. QED
    BY <2>1 DEF Alive
<1>7. Store(n, f, BackOf(f, n, cap), slots, GrownCap(n))
  BY <1>3 DEF push_back, Push
<1>8. /\ Shape' /\ BackRight'
      /\ Contents' = [k \in 1..n |-> slots[Wrapped(f + k - 1, cap)]]
  <2>1. GrownCap(n) \in Nat /\ GoodCap(n, GrownCap(n)) /\ n > 0
    BY <1>1, <1>2, Grown
  <2> HIDE DEF slots, n
  <2>2. QED
    BY <1>1, <1>2, <1>4, <1>5, <1>6, <1>7, <2>1, StoreStep, SMTT(20)
<1>9. Contents' = Append(Contents, x)
  <2>1. Contents \in Seq(Items) /\ Len(Contents) = num_items
    BY <1>1, ContentsSeq
  <2>2. ASSUME NEW k \in 1..n
        PROVE  slots[Wrapped(f + k - 1, cap)] = Append(Contents, x)[k]
    <3>1. CASE k = n
      <4>1. Wrapped(f + k - 1, cap) = i
        BY <1>2, <1>3, <3>1 DEF Wrapped
      <4>2. QED
        BY <1>2, <1>3, <2>1, <3>1, <4>1
    <3>2. CASE k # n
      <4>1. k \in 1..num_items
        BY <1>2, <3>2
      <4>2. /\ Wrapped(f + k - 1, cap) # i
            /\ Wrapped(f + k - 1, cap) \in 0..(cap - 1)
        BY <1>2, <1>3, <4>1 DEF Wrapped
      <4>3. Contents[k] = array[Wrapped(f + k - 1, cap)]
        BY <1>1, <4>1, ContentsSeq
      <4>4. QED
        BY <1>2, <2>1, <4>1, <4>2, <4>3
    <3>3. QED
      BY <3>1, <3>2
  <2>3. Append(Contents, x) = [k \in 1..n |-> Append(Contents, x)[k]]
    BY <1>2, <2>1
  <2> HIDE DEF slots
  <2>4. QED
    BY <1>8, <2>2, <2>3
<1>10. QED
  <2>1. Len(Contents) < MaxItems + 1
    BY <1>1, <1>2, ContentsSeq
  <2>2. QED
    BY <1>1, <1>8, <1>9, <2>1 DEF AsDeque!push_back, AsDeque!Push

LEMMA PushFrontStep ==
  ASSUME Legal, DInv, NEW x \in Items, push_front(x)
  PROVE  Shape' /\ BackRight' /\ AsDeque!push_front(x)
<1> DEFINE i == Before(f)
           n == num_items + 1
           slots == [array EXCEPT ![i] = x]
<1>1. Shape /\ cap > 0 /\ num_items < MaxItems /\ out' = "none"
  BY DEF DInv, push_front, Push
<1>2. /\ cap \in Nat \ {0} /\ f \in 0..(cap - 1) /\ num_items \in 0..(cap - 1)
      /\ MaxItems \in Nat /\ array \in [0..(cap - 1) -> Slots]
      /\ Alive(array, f, num_items, cap)
      /\ r = BackOf(f, num_items, cap)
  BY <1>1 DEF DInv, BackRight, Shape, GoodCap, Slots, Legal, WordIsLarge
<1>3. /\ i = IF f = 0 THEN cap - 1 ELSE f - 1
      /\ i \in 0..(cap - 1)
  BY <1>1, <1>2, Steps
<1>4. n \in 0..MaxItems /\ n <= cap /\ r = BackOf(i, n, cap)
  BY <1>1, <1>2, <1>3 DEF BackOf, Wrapped
<1>5. slots \in [0..(cap - 1) -> Slots]
  BY <1>2 DEF Slots
<1>6. Alive(slots, i, n, cap)
  <2>1. ASSUME NEW j \in 0..(cap - 1)
        PROVE  slots[j] # Raw <=> Offset(j, i, cap) < n
    <3>1. CASE j = i
      <4>1. Offset(j, i, cap) = 0
        BY <1>2, <1>3, <3>1 DEF Offset, Wrapped
      <4>2. slots[j] = x
        BY <1>2, <3>1
      <4>3. QED
        BY <1>2, <4>1, <4>2 DEF Legal, RawIsNoItem
    <3>2. CASE j # i
      <4>1. Offset(j, i, cap) = Offset(j, f, cap) + 1 /\ Offset(j, f, cap) \in Nat
        BY <1>2, <1>3, <3>2 DEF Offset, Wrapped
      <4>2. slots[j] = array[j]
        BY <1>2, <3>2
      <4>3. slots[j] # Raw <=> Offset(j, f, cap) < num_items
        BY <1>2, <4>2 DEF Alive
      <4>4. QED
        BY <1>2, <4>1, <4>3
    <3>3. QED
      BY <3>1, <3>2
  <2>2. QED
    BY <2>1 DEF Alive
<1>7. Store(n, i, BackOf(i, n, cap), slots, GrownCap(n))
  BY <1>4 DEF push_front, Push
<1>8. /\ Shape' /\ BackRight'
      /\ Contents' = [k \in 1..n |-> slots[Wrapped(i + k - 1, cap)]]
  <2>1. GrownCap(n) \in Nat /\ GoodCap(n, GrownCap(n)) /\ n > 0
    BY <1>1, <1>2, Grown
  <2> HIDE DEF slots, n, i
  <2>2. QED
    BY <1>1, <1>2, <1>3, <1>4, <1>5, <1>6, <1>7, <2>1, StoreStep, SMTT(20)
<1>9. Contents' = <<x>> \o Contents
  <2>1. Contents \in Seq(Items) /\ Len(Contents) = num_items
    BY <1>1, ContentsSeq
  <2>2. /\ <<x>> \in Seq(Items) /\ Len(<<x>>) = 1 /\ <<x>>[1] = x
    OBVIOUS
  <2>3. /\ <<x>> \o Contents \in Seq(Items)
        /\ Len(<<x>> \o Contents) = n
        /\ \A k \in 1..n : (<<x>> \o Contents)[k] =
                           IF k <= 1 THEN <<x>>[k] ELSE Contents[k - 1]
    BY <1>2, <2>1, <2>2, ConcatProperties
  <2>4. ASSUME NEW k \in 1..n
        PROVE  slots[Wrapped(i + k - 1, cap)] = (<<x>> \o Contents)[k]
    <3>1. CASE k = 1
      <4>1. Wrapped(i + k - 1, cap) = i
        BY <1>2, <1>3, <3>1 DEF Wrapped
      <4>2. QED
        BY <1>2, <1>3, <2>2, <2>3, <3>1, <4>1
    <3>2. CASE k # 1
      <4>1. k - 1 \in 1..num_items
        BY <1>2, <3>2
      <4>2. /\ Wrapped(i + k - 1, cap) # i
            /\ Wrapped(i + k - 1, cap) \in 0..(cap - 1)
            /\ Wrapped(i + k - 1, cap) = Wrapped(f + (k - 1) - 1, cap)
        BY <1>2, <1>3, <4>1 DEF Wrapped
      <4>3. Contents[k - 1] = array[Wrapped(i + k - 1, cap)]
        BY <1>1, <4>1, <4>2, ContentsSeq
      <4>4. (<<x>> \o Contents)[k] = Contents[k - 1]
        BY <2>3, <3>2
      <4>5. slots[Wrapped(i + k - 1, cap)] = array[Wrapped(i + k - 1, cap)]
        BY <1>2, <4>2
      <4>6. QED
        BY <4>3, <4>4, <4>5
    <3>3. QED
      BY <3>1, <3>2
  <2>5. <<x>> \o Contents = [k \in 1..n |-> (<<x>> \o Contents)[k]]
    BY <1>2, <2>3
  <2> HIDE DEF slots
  <2>6. QED
    BY <1>8, <2>4, <2>5
<1>10. QED
  <2>1. Len(Contents) < MaxItems + 1
    BY <1>1, <1>2, ContentsSeq
  <2>2. QED
    BY <1>1, <1>8, <1>9, <2>1 DEF AsDeque!push_front, AsDeque!Push

\* A pop of an empty deque reports it and changes nothing.
LEMMA UnderflowStep ==
  ASSUME Legal, Shape, Underflow
  PROVE  Shape' /\ UNCHANGED <<cap, num_items, f, r, array>> /\ AsDeque!Underflow
<1>1. Contents = <<>>
  BY ContentsSeq DEF Underflow
<1>2. Contents' = Contents
  BY DEF Underflow, Contents, Slot
<1>3. QED
  BY <1>1, <1>2 DEF Underflow, Shape, AsDeque!Underflow

\* What pop and front read at slot i is the item there.
LEMMA ReadItem ==
  ASSUME Legal, Shape, num_items > 0, NEW k \in 1..num_items
  PROVE  /\ Wrapped(f + k - 1, cap) \in 0..(cap - 1)
         /\ Slot(Wrapped(f + k - 1, cap)) = Contents[k]
         /\ Contents[k] \in Items
<1>1. /\ cap \in Nat \ {0} /\ f \in 0..(cap - 1) /\ num_items \in 0..cap
      /\ array \in [0..(cap - 1) -> Slots]
      /\ Alive(array, f, num_items, cap)
  BY DEF Shape, GoodCap, Slots
<1>2. QED
  BY <1>1, ReadSlot, ContentsSeq DEF Slot

Destroyed(slots, i) ==
  [j \in DOMAIN slots |-> IF j = i THEN Raw ELSE slots[j]]

\* i is the last of n live slots from f1, or the first; f2 is then the first.
AtEnd(i, f1, f2, n, c) ==
  \/ i = Wrapped(f1 + n - 1, c) /\ f2 = f1
  \/ i = f1 /\ f2 = Wrapped(f1 + 1, c)

\* Destroying one of the live slots: the first or the last.
LEMMA DestroyStep ==
  ASSUME NEW c \in Nat \ {0}, NEW f1 \in 0..(c - 1), NEW n \in 1..c,
         NEW slots \in [0..(c - 1) -> Slots], Alive(slots, f1, n, c),
         NEW i, NEW f2, AtEnd(i, f1, f2, n, c)
  PROVE  /\ i \in 0..(c - 1) /\ f2 \in 0..(c - 1)
         /\ Destroyed(slots, i) \in [0..(c - 1) -> Slots]
         /\ Alive(Destroyed(slots, i), f2, n - 1, c)
         /\ \A j \in 0..(c - 1) : j # i => Destroyed(slots, i)[j] = slots[j]
<1> DEFINE left == Destroyed(slots, i)
<1>1. i \in 0..(c - 1) /\ f2 \in 0..(c - 1)
  BY DEF AtEnd, Wrapped
<1>2. left \in [0..(c - 1) -> Slots]
  BY DEF Slots, Destroyed
<1>3. ASSUME NEW j \in 0..(c - 1)
      PROVE  left[j] # Raw <=> Offset(j, f2, c) < n - 1
  <2>1. CASE j = i
    <3>1. ~(Offset(j, f2, c) < n - 1)
      BY <2>1 DEF AtEnd, Offset, Wrapped
    <3>2. left[j] = Raw
      BY <2>1 DEF Destroyed
    <3>3. QED
      BY <3>1, <3>2
  <2>2. CASE j # i
    <3>1. Offset(j, f2, c) < n - 1 <=> Offset(j, f1, c) < n
      BY <2>2 DEF AtEnd, Offset, Wrapped
    <3>2. left[j] = slots[j]
      BY <2>2 DEF Destroyed
    <3>3. slots[j] # Raw <=> Offset(j, f1, c) < n
      BY DEF Alive
    <3>4. QED
      BY <3>1, <3>2, <3>3
  <2>3. QED
    BY <2>1, <2>2
<1>4. Alive(left, f2, n - 1, c)
  BY <1>3 DEF Alive
<1>5. \A j \in 0..(c - 1) : j # i => left[j] = slots[j]
  BY DEF Destroyed
<1>6. QED
  BY <1>1, <1>2, <1>4, <1>5

LEMMA PopBackStep ==
  ASSUME Legal, DInv, Pop(r, f, Before(r))
  PROVE  Shape' /\ BackRight' /\ AsDeque!pop_back
<1> DEFINE n == num_items - 1
           left == Destroyed(array, r)
<1>1. Shape /\ num_items > 0 /\ out' = Slot(r)
  BY DEF DInv, Pop
<1>2. /\ cap \in Nat \ {0} /\ f \in 0..(cap - 1) /\ num_items \in 1..cap
      /\ num_items \in 0..MaxItems /\ MaxItems \in Nat
      /\ array \in [0..(cap - 1) -> Slots]
      /\ Alive(array, f, num_items, cap)
      /\ r = BackOf(f, num_items, cap)
  BY <1>1 DEF DInv, BackRight, Shape, GoodCap, Slots, Legal, WordIsLarge
<1>3. r = Wrapped(f + num_items - 1, cap)
  BY <1>2 DEF BackOf
<1>4. /\ r \in 0..(cap - 1)
      /\ left \in [0..(cap - 1) -> Slots]
      /\ Alive(left, f, n, cap)
      /\ \A j \in 0..(cap - 1) : j # r => left[j] = array[j]
  <2>1. AtEnd(r, f, f, num_items, cap)
    BY <1>3 DEF AtEnd
  <2>2. QED
    BY <1>2, <2>1, DestroyStep
<1>5. Before(r) = BackOf(f, n, cap)
  <2>1. Before(r) = IF r = 0 THEN cap - 1 ELSE r - 1
    BY <1>1, <1>4, Steps
  <2>2. QED
    BY <2>1, <1>2, <1>3 DEF BackOf, Wrapped
<1>6. Store(n, f, BackOf(f, n, cap), left, ShrunkCap(n))
  BY <1>5 DEF Pop, Destroyed
<1>7. out' = Contents[num_items] /\ Contents[num_items] \in Items
  BY <1>1, <1>2, <1>3, ReadItem
<1>8. /\ Shape' /\ BackRight'
      /\ Contents' = [k \in 1..n |-> left[Wrapped(f + k - 1, cap)]]
  <2>1. /\ ShrunkCap(n) \in Nat /\ GoodCap(n, ShrunkCap(n))
        /\ ShrunkCap(n) # cap => n > 0
    BY <1>1, Shrunk
  <2>2. n \in 0..MaxItems /\ n <= cap /\ cap > 0
    BY <1>2
  <2> HIDE DEF left, n
  <2>3. QED
    BY <1>1, <1>2, <1>4, <1>6, <1>7, <2>1, <2>2, StoreStep
<1>9. Contents \in Seq(Items) /\ Len(Contents) = num_items
  BY <1>1, ContentsSeq
<1>10. Contents' = SubSeq(Contents, 1, n)
  <2>1. ASSUME NEW k \in 1..n
        PROVE  left[Wrapped(f + k - 1, cap)] = Contents[k]
    <3>1. Wrapped(f + k - 1, cap) # r /\ Wrapped(f + k - 1, cap) \in 0..(cap - 1)
      BY <1>2, <1>3 DEF Wrapped
    <3>2. Contents[k] = array[Wrapped(f + k - 1, cap)]
      BY <1>1, <1>2, ContentsSeq
    <3>3. QED
      BY <1>4, <3>1, <3>2
  <2>2. SubSeq(Contents, 1, n) = [k \in 1..n |-> Contents[k]]
    BY <1>2, <1>9
  <2> HIDE DEF left
  <2>3. QED
    BY <1>8, <2>1, <2>2
<1>11. Contents # <<>>
  BY <1>2, <1>9
<1>12. QED
  BY <1>7, <1>8, <1>9, <1>10, <1>11 DEF AsDeque!pop_back

LEMMA PopFrontStep ==
  ASSUME Legal, QInv, Pop(f, After(f), r)
  PROVE  Shape' /\ BackRight' /\ AsDeque!pop_front
<1> DEFINE n == num_items - 1
           f2 == After(f)
           left == Destroyed(array, f)
<1>1. Shape /\ num_items > 0 /\ out' = Slot(f)
  BY DEF QInv, Pop
<1>2. /\ cap \in Nat \ {0} /\ f \in 0..(cap - 1) /\ num_items \in 1..cap
      /\ num_items \in 0..MaxItems /\ MaxItems \in Nat
      /\ array \in [0..(cap - 1) -> Slots]
      /\ Alive(array, f, num_items, cap)
      /\ r = BackOf(f, num_items, cap)
  BY <1>1 DEF QInv, BackRight, Shape, GoodCap, Slots, Legal, WordIsLarge
<1>3. f2 = Wrapped(f + 1, cap)
  BY <1>1, <1>2, Steps
<1>4. /\ f2 \in 0..(cap - 1)
      /\ left \in [0..(cap - 1) -> Slots]
      /\ Alive(left, f2, n, cap)
      /\ \A j \in 0..(cap - 1) : j # f => left[j] = array[j]
  <2>1. AtEnd(f, f, f2, num_items, cap)
    BY <1>3 DEF AtEnd
  <2>2. QED
    BY <1>2, <2>1, DestroyStep
<1>5. r = BackOf(f2, n, cap)
  BY <1>2, <1>3 DEF BackOf, Wrapped
<1>6. Store(n, f2, BackOf(f2, n, cap), left, ShrunkCap(n))
  BY <1>5 DEF Pop, Destroyed
<1>7. out' = Contents[1] /\ Contents[1] \in Items
  <2>1. Wrapped(f + 1 - 1, cap) = f
    BY <1>2 DEF Wrapped
  <2>2. QED
    BY <1>1, <1>2, <2>1, ReadItem
<1>8. /\ Shape' /\ BackRight'
      /\ Contents' = [k \in 1..n |-> left[Wrapped(f2 + k - 1, cap)]]
  <2>1. /\ ShrunkCap(n) \in Nat /\ GoodCap(n, ShrunkCap(n))
        /\ ShrunkCap(n) # cap => n > 0
    BY <1>1, Shrunk
  <2>2. n \in 0..MaxItems /\ n <= cap /\ cap > 0
    BY <1>2
  <2>3. out' \in Items \cup {Garbage, "none", "underflow", "overflow"}
    BY <1>7
  <2>4. Shape /\ f2 \in 0..(cap - 1) /\ left \in [0..(cap - 1) -> Slots]
        /\ Alive(left, f2, n, cap)
    BY <1>1, <1>4
  <2> HIDE DEF left, n, f2
  <2>5. QED
    BY <1>6, <2>1, <2>2, <2>3, <2>4, StoreStep, ZenonT(30)
<1>9. Contents \in Seq(Items) /\ Len(Contents) = num_items
  BY <1>1, ContentsSeq
<1>10. Contents' = Tail(Contents)
  <2>1. ASSUME NEW k \in 1..n
        PROVE  left[Wrapped(f2 + k - 1, cap)] = Contents[k + 1]
    <3>1. /\ Wrapped(f2 + k - 1, cap) # f
          /\ Wrapped(f2 + k - 1, cap) \in 0..(cap - 1)
          /\ Wrapped(f2 + k - 1, cap) = Wrapped(f + (k + 1) - 1, cap)
      BY <1>2, <1>3 DEF Wrapped
    <3>2. Contents[k + 1] = array[Wrapped(f2 + k - 1, cap)]
      BY <1>1, <1>2, <3>1, ContentsSeq
    <3>3. QED
      BY <1>4, <3>1, <3>2
  <2>2. Tail(Contents) = [k \in 1..n |-> Contents[k + 1]]
    <3>1. Contents # <<>>
      BY <1>2, <1>9
    <3>2. /\ Tail(Contents) \in Seq(Items) /\ Len(Tail(Contents)) = n
          /\ \A k \in 1..Len(Tail(Contents)) : Tail(Contents)[k] = Contents[k + 1]
      BY <1>9, <3>1, HeadTailProperties
    <3>3. Tail(Contents) = [k \in 1..n |-> Tail(Contents)[k]]
      <4>1. Tail(Contents) \in [1..n -> Items]
        BY <3>2, LenProperties
      <4>2. QED
        BY <4>1
    <3>4. QED
      BY <3>2, <3>3
  <2> HIDE DEF left, f2
  <2>3. QED
    BY <1>8, <2>1, <2>2
<1>11. Contents # <<>>
  BY <1>2, <1>9
<1>12. Head(Contents) = Contents[1]
  BY <1>9
<1>13. QED
  BY <1>7, <1>8, <1>10, <1>11, <1>12 DEF AsDeque!pop_front

\* front and back read the item that is first or last.
LEMMA PeekStep ==
  ASSUME Legal, QInv
  PROVE  /\ Peek(f) => Shape' /\ AsDeque!front
         /\ Peek(r) => Shape' /\ AsDeque!back
<1> SUFFICES ASSUME num_items > 0, Peek(f) \/ Peek(r)
             PROVE  /\ Peek(f) => Shape' /\ AsDeque!front
                    /\ Peek(r) => Shape' /\ AsDeque!back
  BY DEF Peek
<1>1. /\ cap \in Nat \ {0} /\ f \in 0..(cap - 1)
      /\ num_items \in Nat /\ 1 \in 1..num_items /\ num_items \in 1..num_items
      /\ r = BackOf(f, num_items, cap)
  BY DEF QInv, BackRight, Shape, GoodCap, Legal, WordIsLarge
<1>2. Slot(f) = Contents[1] /\ Contents[1] \in Items
  <2>1. Wrapped(f + 1 - 1, cap) = f
    BY <1>1 DEF Wrapped
  <2>2. QED
    BY <1>1, <2>1, ReadItem DEF QInv
<1>3. Slot(r) = Contents[num_items] /\ Contents[num_items] \in Items
  <2>1. Wrapped(f + num_items - 1, cap) = r
    BY <1>1 DEF BackOf
  <2>2. QED
    BY <1>1, <2>1, ReadItem DEF QInv
<1>4. Contents' = Contents
  BY DEF Peek, Contents, Slot
<1>5. Shape'
  BY <1>2, <1>3 DEF QInv, Peek, Shape
<1>6. /\ Contents \in Seq(Items) /\ Len(Contents) = num_items
      /\ Contents # <<>> /\ Head(Contents) = Contents[1]
  BY <1>1, ContentsSeq DEF QInv
<1>7. QED
  BY <1>2, <1>3, <1>4, <1>5, <1>6 DEF Peek, AsDeque!front, AsDeque!back

\* No slot of a new array is live.
LEMMA NewArray ==
  ASSUME NEW n \in Nat
  PROVE  RawArray(n) \in [0..(n - 1) -> Slots] /\ Alive(RawArray(n), 0, 0, n)
<1>1. \A i \in 0..(n - 1) : RawArray(n)[i] = Raw /\ ~(Offset(i, 0, n) < 0)
  BY DEF RawArray, Offset
<1>2. QED
  BY <1>1 DEF RawArray, Slots, Alive

LEMMA InitStep ==
  ASSUME Legal, Init
  PROVE  Shape /\ BackRight /\ Contents = <<>>
<1>1. MIN_SIZE \in Nat \ {0} /\ WordSize \in Nat /\ MaxItems \in Nat
      /\ MIN_SIZE < WordSize
  BY DEF Legal, MinSizeGrows, WordIsLarge
<1>2. Shape
  BY <1>1, NewArray DEF Init, Shape, GoodCap, Slots
<1>3. BackRight
  BY DEF Init, BackRight, BackOf
<1>4. Contents = <<>>
  BY <1>2, ContentsSeq DEF Init
<1>5. QED
  BY <1>2, <1>3, <1>4

LEMMA ClearStep ==
  ASSUME Legal, clear
  PROVE  Shape' /\ BackRight' /\ AsDeque!Empty
<1>1. Init'
  BY DEF clear, Init
<1>2. (Shape /\ BackRight /\ Contents = <<>>)'
  BY <1>1, InitStep, PTL
<1>3. QED
  BY <1>2 DEF clear, AsDeque!Empty

LEMMA MoveStep ==
  ASSUME Legal, move_away
  PROVE  Shape' /\ BackRight' /\ AsDeque!Empty
<1>1. WordSize \in Nat \ {0} /\ MaxItems \in Nat
  BY DEF Legal, MinSizeGrows, WordIsLarge
<1>2. RawArray(0) \in [0..(0 - 1) -> Slots]
  BY NewArray
<1>3. Shape' /\ BackRight'
  BY <1>1, <1>2 DEF move_away, Shape, BackRight, Slots
<1>4. (Contents \in Seq(Items) /\ Len(Contents) = num_items)'
  BY <1>3, ContentsSeq, PTL
<1>5. Contents' = <<>>
  BY <1>4 DEF move_away
<1>6. QED
  BY <1>3, <1>5 DEF move_away, AsDeque!Empty

\* A copy has its items in the first slots.
LEMMA CopyStep ==
  ASSUME Legal, Shape, copy_queue
  PROVE  /\ QInv' /\ AsDeque!Copied
         /\ num_items > 0 => BackRight'
<1>1. /\ cap \in Nat \ {0} /\ num_items \in Nat /\ num_items < cap
      /\ num_items \in 0..MaxItems
      /\ GoodCap(num_items, cap)
      /\ WordSize \in Nat /\ cap < WordSize
  BY NoOverflow DEF copy_queue, Shape, GoodCap, Legal, WordIsLarge
<1>2. cap' = cap /\ num_items' = num_items /\ f' = 0 /\ out' = "none"
  BY DEF copy_queue
<1>3. r' = IF num_items = 0 THEN WordSize - 1 ELSE num_items - 1
  BY <1>1, LessOne DEF copy_queue
<1>4. /\ Contents \in Seq(Items) /\ Len(Contents) = num_items
      /\ Contents \in [1..num_items -> Items]
  BY ContentsSeq, ContentsAre
<1>5. array' = [i \in 0..(cap - 1) |->
                  IF i < num_items THEN Contents[i + 1] ELSE Raw]
  BY <1>4 DEF copy_queue, Packed
<1>6. ASSUME NEW i \in 0..(cap - 1)
      PROVE  /\ array'[i] \in Slots
             /\ i < num_items => array'[i] = Contents[i + 1]
             /\ array'[i] # Raw <=> i < num_items
  BY <1>1, <1>4, <1>5 DEF Slots, Legal, RawIsNoItem
<1>7. Alive(array', 0, num_items, cap)
  <2>1. ASSUME NEW i \in 0..(cap - 1)
        PROVE  array'[i] # Raw <=> Offset(i, 0, cap) < num_items
    <3>1. Offset(i, 0, cap) = i
      BY DEF Offset
    <3>2. QED
      BY <3>1, <1>6
  <2>2. QED
    BY <2>1 DEF Alive
<1>8. Shape'
  <2>1. array' \in [0..(cap' - 1) -> Items \cup {Raw}]
    BY <1>2, <1>5, <1>6 DEF Slots
  <2>2. Alive(array', f', num_items', cap') /\ GoodCap(num_items', cap')
    BY <1>1, <1>2, <1>7
  <2>3. r' \in 0..(WordSize - 1)
    BY <1>1, <1>3
  <2>4. QED
    BY <1>1, <1>2, <2>1, <2>2, <2>3 DEF Shape
<1>9. num_items > 0 => BackRight'
  BY <1>1, <1>2, <1>3 DEF BackRight, BackOf, Wrapped
<1>10. Contents' = Contents
  <2>1. (Contents = [i \in 1..num_items |-> array[Wrapped(f + i - 1, cap)]])'
    BY <1>8, ContentsAre, PTL
  <2>2. Contents' = [i \in 1..num_items |-> array'[Wrapped(0 + i - 1, cap)]]
    <3>1. Contents' = [i \in 1..num_items' |->
                         array'[Wrapped(f' + i - 1, cap')]]
      BY <2>1
    <3>2. QED
      BY <3>1, <1>2
  <2>3. ASSUME NEW i \in 1..num_items
        PROVE  array'[Wrapped(0 + i - 1, cap)] = Contents[i]
    <3>1. i - 1 \in 0..(cap - 1) /\ i - 1 < num_items /\ (i - 1) + 1 = i
      BY <1>1
    <3>2. Wrapped(0 + i - 1, cap) = i - 1
      BY <1>1, <3>1 DEF Wrapped
    <3>3. QED
      BY <3>1, <3>2, <1>6
  <2>4. Contents = [i \in 1..num_items |-> Contents[i]]
    BY <1>4
  <2>5. QED
    BY <2>2, <2>3, <2>4
<1>11. num_items = 0 => r' = WordSize - 1 /\ num_items' = 0 /\ f' = 0
  BY <1>2, <1>3
<1>12. QED
  BY <1>1, <1>2, <1>8, <1>9, <1>10, <1>11 DEF QInv, AsDeque!Copied

-----------------------------------------------------------------------------
(* The deque. *)

\* Every step of a deque of which no empty copy is made keeps the invariant,
\* and is a step of DequeSpec.
LEMMA DequeStep ==
  ASSUME Legal, ~CopyEmpty, DInv, [Next]_vars
  PROVE  DInv' /\ [AsDeque!Next]_(AsDeque!vars)
<1> QInv
  BY DequeIsQueue
<1>1. CASE UNCHANGED vars
  <2>1. Contents' = Contents
    BY <1>1 DEF vars, Contents, Slot
  <2>2. QED
    BY <1>1, <2>1 DEF vars, DInv, Shape, BackRight, AsDeque!vars
<1>2. ASSUME NEW x \in Items, push_back(x)
      PROVE  DInv' /\ AsDeque!Next
  BY <1>2, PushBackStep DEF DInv, AsDeque!Next
<1>3. ASSUME NEW x \in Items, push_front(x)
      PROVE  DInv' /\ AsDeque!Next
  BY <1>3, PushFrontStep DEF DInv, AsDeque!Next
<1>4. CASE Underflow
  <2>1. Shape' /\ BackRight' /\ AsDeque!Underflow
    BY <1>4, UnderflowStep DEF DInv, BackRight
  <2>2. QED
    BY <2>1 DEF DInv, AsDeque!Next, AsDeque!pop_back
<1>5. CASE Pop(r, f, Before(r))
  BY <1>5, PopBackStep DEF DInv, AsDeque!Next
<1>6. CASE Pop(f, After(f), r)
  BY <1>6, PopFrontStep DEF DInv, AsDeque!Next
<1>7. CASE Peek(f) \/ Peek(r)
  <2>1. Shape' /\ (AsDeque!front \/ AsDeque!back)
    BY <1>7, PeekStep
  <2>2. BackRight'
    BY <1>7 DEF Peek, DInv, BackRight
  <2>3. QED
    BY <2>1, <2>2 DEF DInv, AsDeque!Next
<1>8. CASE clear
  BY <1>8, ClearStep DEF DInv, AsDeque!Next
<1>9. CASE copy_deque
  BY <1>9, CopyStep DEF copy_deque, DInv, QInv, AsDeque!Next
<1>10. CASE move_away
  BY <1>10, MoveStep DEF DInv, AsDeque!Next
<1>11. QED
  BY <1>1, <1>2, <1>3, <1>4, <1>5, <1>6, <1>7, <1>8, <1>9, <1>10
     DEF Next, pop_back, pop_front, front, back

\* Every step of a queue keeps its invariant, and is a step of DequeSpec.
LEMMA QueueStep ==
  ASSUME Legal, QInv, [QueueNext]_vars
  PROVE  QInv' /\ [AsDeque!Next]_(AsDeque!vars)
<1>1. CASE UNCHANGED vars
  <2>1. Contents' = Contents
    BY <1>1 DEF vars, Contents, Slot
  <2>2. QED
    BY <1>1, <2>1 DEF vars, QInv, Shape, BackRight, AsDeque!vars
<1>2. ASSUME NEW x \in Items, put(x)
      PROVE  QInv' /\ AsDeque!Next
  BY <1>2, PushBackStep DEF put, QInv, AsDeque!Next
<1>3. CASE Underflow
  <2>1. QInv' /\ AsDeque!Underflow
    BY <1>3, UnderflowStep DEF QInv, BackRight
  <2>2. QED
    BY <2>1 DEF AsDeque!Next, AsDeque!pop_front
<1>4. CASE Pop(f, After(f), r)
  BY <1>4, PopFrontStep DEF QInv, AsDeque!Next
<1>5. CASE Peek(f) \/ Peek(r)
  <2>1. Shape' /\ (AsDeque!front \/ AsDeque!back)
    BY <1>5, PeekStep
  <2>2. QInv'
    BY <1>5, <2>1 DEF Peek, QInv, BackRight
  <2>3. QED
    BY <2>1, <2>2 DEF AsDeque!Next
<1>6. CASE clear
  BY <1>6, ClearStep DEF QInv, AsDeque!Next
<1>7. CASE copy_queue
  BY <1>7, CopyStep DEF QInv, AsDeque!Next
<1>8. CASE move_away
  BY <1>8, MoveStep DEF QInv, AsDeque!Next
<1>9. QED
  BY <1>1, <1>2, <1>3, <1>4, <1>5, <1>6, <1>7, <1>8
     DEF QueueNext, get, rear, pop_front, front, back

\* What the invariant says in the words of DynDeque.
LEMMA ShapeSays ==
  ASSUME Legal, Shape
  PROVE  TypeOK /\ LiveRange /\ RoomLeft
<1>1. TypeOK
  BY NoOverflow DEF Shape, TypeOK, Legal, WordIsLarge
<1>2. RoomLeft
  BY DEF Shape, RoomLeft, GoodCap
<1>3. CASE cap = 0
  <2>1. DOMAIN array = {} /\ 0..(num_items - 1) = {}
    BY <1>3 DEF Shape
  <2>2. QED
    BY <1>1, <1>2, <2>1 DEF LiveRange
<1>4. CASE cap > 0
  <2>1. /\ cap \in Nat \ {0} /\ f \in 0..(cap - 1) /\ num_items \in 0..cap
        /\ array \in [0..(cap - 1) -> Slots]
        /\ Alive(array, f, num_items, cap)
        /\ DOMAIN array = 0..(cap - 1)
    BY <1>4 DEF Shape, GoodCap, Slots
  <2>2. ASSUME NEW i \in 0..(cap - 1), array[i] # Raw
        PROVE  \E k \in 0..(num_items - 1) : i = (f + k) % cap
    <3> DEFINE k == Offset(i, f, cap)
    <3>1. k < num_items
      BY <2>1, <2>2 DEF Alive
    <3>2. k \in 0..(num_items - 1) /\ Wrapped(f + k, cap) = i
      BY <2>1, <3>1 DEF Offset, Wrapped
    <3> HIDE DEF k
    <3>3. (f + k) % cap = Wrapped(f + k, cap)
      BY <2>1, <3>2, LiveSlot
    <3>4. QED
      BY <3>2, <3>3
  <2>3. ASSUME NEW k \in 0..(num_items - 1)
        PROVE  (f + k) % cap \in 0..(cap - 1) /\ array[(f + k) % cap] # Raw
    <3>1. /\ Wrapped(f + k, cap) \in 0..(cap - 1)
          /\ (f + k) % cap = Wrapped(f + k, cap)
          /\ array[Wrapped(f + k, cap)] \in Items
      BY <2>1, LiveSlot
    <3>2. QED
      BY <3>1 DEF Legal, RawIsNoItem
  <2>4. LiveRange
    BY <2>1, <2>2, <2>3 DEF LiveRange
  <2>5. QED
    BY <1>1, <1>2, <2>4
<1>5. QED
  BY <1>3, <1>4 DEF Shape

\* The indexes of a deque delimit its live slots, whatever was pushed,
\* popped, cleared, copied and moved, as long as no empty deque is copied.
THEOREM DequeInvariance ==
  ASSUME Legal, ~CopyEmpty
  PROVE  Spec => []DInv
<1>1. Init => DInv
  BY InitStep DEF DInv
<1>2. DInv /\ [Next]_vars => DInv'
  BY DequeStep
<1>3. QED
  BY <1>1, <1>2, PTL DEF Spec

\* The same of a queue, which may be copied when it is empty.
THEOREM QueueInvariance ==
  ASSUME Legal
  PROVE  QueueSpec => []QInv
<1>1. Init => QInv
  BY InitStep DEF QInv
<1>2. QInv /\ [QueueNext]_vars => QInv'
  BY QueueStep
<1>3. QED
  BY <1>1, <1>2, PTL DEF QueueSpec

\* Pushes construct in raw slots, pops and destroy_all destroy live ones.
THEOREM DequeSlots ==
  ASSUME Legal, ~CopyEmpty
  PROVE  Spec => [](TypeOK /\ LiveRange /\ RoomLeft)
<1>1. DInv => TypeOK /\ LiveRange /\ RoomLeft
  BY ShapeSays DEF DInv
<1>2. QED
  BY <1>1, DequeInvariance, PTL

THEOREM QueueSlots ==
  ASSUME Legal
  PROVE  QueueSpec => [](TypeOK /\ LiveRange /\ RoomLeft)
<1>1. QInv => TypeOK /\ LiveRange /\ RoomLeft
  BY ShapeSays DEF QInv
<1>2. QED
  BY <1>1, QueueInvariance, PTL

\* DynDeque is a sequence that is used from both ends.
THEOREM DequeIsSequence ==
  ASSUME Legal, ~CopyEmpty
  PROVE  Spec => ImplementsDeque
<1>1. Init => AsDeque!Init
  BY InitStep DEF Init, AsDeque!Init
<1>2. DInv /\ [Next]_vars => [AsDeque!Next]_(AsDeque!vars)
  BY DequeStep
<1>3. QED
  BY <1>1, <1>2, DequeInvariance, PTL DEF Spec, ImplementsDeque, AsDeque!Spec

\* So is DynQueue, at one end for put and at the other for get.
THEOREM QueueIsSequence ==
  ASSUME Legal
  PROVE  QueueSpec => ImplementsDeque
<1>1. Init => AsDeque!Init
  BY InitStep DEF Init, AsDeque!Init
<1>2. QInv /\ [QueueNext]_vars => [AsDeque!Next]_(AsDeque!vars)
  BY QueueStep
<1>3. QED
  BY <1>1, <1>2, QueueInvariance, PTL DEF QueueSpec, ImplementsDeque, AsDeque!Spec
=============================================================================
