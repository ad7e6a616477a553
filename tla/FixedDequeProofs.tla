-------------------------- MODULE FixedDequeProofs --------------------------
(***************************************************************************)
(* Proofs about FixedDeque: the two indexes always delimit the items, and  *)
(* the buffer is a sequence of at most CAP items that refuses one more.    *)
(*                                                                         *)
(* The argument is that of DynDequeProofs without resizes; but slots that  *)
(* hold no item of the deque may hold an object that clear left there.     *)
(***************************************************************************)
EXTENDS FixedDeque, SequenceTheorems, TLAPS

Slots == Items \cup {Raw}

\* An index below 2 * CAP, reduced modulo CAP.
Wrapped(i) == IF i < CAP THEN i ELSE i - CAP

\* How far slot i is behind the front.
Offset(i, f1) == IF f1 <= i THEN i - f1 ELSE i - f1 + CAP

\* The n slots from f1 hold items.
Filled(slots, f1, n) ==
  \A i \in 0..(CAP - 1) : Offset(i, f1) < n => slots[i] # Raw

\* The slot of the last of n items, or the slot before f1 if there is none.
BackOf(f1, n) == IF f1 + n = 0 THEN CAP - 1 ELSE Wrapped(f1 + n - 1)

Shape ==
  /\ num_items \in 0..CAP
  /\ f \in 0..(CAP - 1)
  /\ array \in [0..(CAP - 1) -> Slots]
  /\ Filled(array, f, num_items)

\* A deque knows where its last item is.
BackRight == r = BackOf(f, num_items)

DInv == Shape /\ BackRight

\* A queue may have copied an empty one, which leaves 2^64 - 1 in r.
QInv ==
  /\ Shape
  /\ BackRight \/ (r = WordSize - 1 /\ num_items = 0 /\ f = 0)

-----------------------------------------------------------------------------
(* Arithmetic. *)

LEMMA ModSmall ==
  ASSUME NEW c \in Nat \ {0}, NEW a \in 0..(c - 1)
  PROVE  a % c = a
OBVIOUS

LEMMA ModOnce ==
  ASSUME NEW c \in Nat \ {0}, NEW a \in Nat, c <= a, a < 2 * c
  PROVE  a % c = a - c
OBVIOUS

\* An index that has passed the end of the array at most once.
LEMMA Reduced ==
  ASSUME Legal, NEW i \in 0..(2 * CAP - 1)
  PROVE  i % CAP = Wrapped(i) /\ Wrapped(i) \in 0..(CAP - 1)
<1>1. CAP \in Nat \ {0}
  BY DEF Legal, CapPositive
<1>2. CASE i < CAP
  <2>1. i \in 0..(CAP - 1)
    BY <1>1, <1>2
  <2>2. QED
    BY <2>1, <1>1, <1>2, ModSmall DEF Wrapped
<1>3. CASE i >= CAP
  <2>1. i \in Nat /\ CAP <= i /\ i < 2 * CAP
    BY <1>1, <1>3
  <2>2. i % CAP = i - CAP
    BY <1>1, <2>1, ModOnce
  <2>3. QED
    BY <1>1, <2>1, <2>2 DEF Wrapped
<1>4. QED
  BY <1>1, <1>2, <1>3

\* The slot after and the slot before a slot.
LEMMA Steps ==
  ASSUME Legal, NEW i \in 0..(CAP - 1)
  PROVE  /\ After(i) = Wrapped(i + 1)
         /\ Before(i) = IF i = 0 THEN CAP - 1 ELSE i - 1
<1>1. CAP \in Nat \ {0} /\ WordSize \in Nat \ {0} /\ 2 * CAP < WordSize
  BY DEF Legal, CapPositive, WordIsLarge
<1>2. (i + 1) % WordSize = i + 1 /\ (i + CAP - 1) % WordSize = i + CAP - 1
  <2>1. i + 1 \in 0..(WordSize - 1) /\ i + CAP - 1 \in 0..(WordSize - 1)
    BY <1>1
  <2>2. QED
    BY <2>1, <1>1, ModSmall
<1>3. i + 1 \in 0..(2 * CAP - 1) /\ i + CAP - 1 \in 0..(2 * CAP - 1)
  BY <1>1
<1>4. (i + 1) % CAP = Wrapped(i + 1)
  BY <1>3, Reduced
<1>5. (i + CAP - 1) % CAP = IF i = 0 THEN CAP - 1 ELSE i - 1
  <2>1. (i + CAP - 1) % CAP = Wrapped(i + CAP - 1)
    BY <1>3, Reduced
  <2>2. QED
    BY <1>1, <2>1 DEF Wrapped
<1>6. QED
  BY <1>2, <1>4, <1>5 DEF After, Before

\* The slot after 2^64 - 1 is slot 0.
LEMMA AfterLast ==
  ASSUME Legal
  PROVE  After(WordSize - 1) = 0
<1>1. WordSize \in Nat \ {0} /\ CAP \in Nat \ {0}
  BY DEF Legal, CapPositive, WordIsLarge
<1>2. WordSize % WordSize = 0 /\ 0 % CAP = 0
  BY <1>1
<1>3. (WordSize - 1) + 1 = WordSize
  BY <1>1
<1>4. QED
  BY <1>2, <1>3 DEF After

\* num_items - 1, when there is an item and when there is none.
LEMMA LessOne ==
  ASSUME Legal, NEW n \in 0..CAP
  PROVE  Less(n) = IF n = 0 THEN WordSize - 1 ELSE n - 1
<1>1. WordSize \in Nat \ {0} /\ CAP \in Nat /\ 2 * CAP < WordSize
  BY DEF Legal, CapPositive, WordIsLarge
<1>2. CASE n = 0
  <2>1. n + WordSize - 1 = WordSize - 1 /\ WordSize - 1 \in 0..(WordSize - 1)
    BY <1>1, <1>2
  <2>2. QED
    BY <2>1, <1>1, <1>2, ModSmall DEF Less
<1>3. CASE n # 0
  <2>1. /\ n + WordSize - 1 \in Nat
        /\ WordSize <= n + WordSize - 1
        /\ n + WordSize - 1 < 2 * WordSize
    BY <1>1, <1>3
  <2>2. (n + WordSize - 1) % WordSize = (n + WordSize - 1) - WordSize
    BY <2>1, <1>1, ModOnce
  <2>3. QED
    BY <2>2, <1>1, <1>3 DEF Less
<1>4. QED
  BY <1>2, <1>3

-----------------------------------------------------------------------------
(* Slots and contents. *)

\* The k-th item, and its slot.
LEMMA ReadItem ==
  ASSUME Legal, Shape, NEW k \in 1..num_items
  PROVE  /\ Wrapped(f + k - 1) \in 0..(CAP - 1)
         /\ Contents[k] = array[Wrapped(f + k - 1)]
         /\ Slot(Wrapped(f + k - 1)) = Contents[k]
         /\ Contents[k] \in Items
<1>1. CAP \in Nat \ {0} /\ f \in 0..(CAP - 1) /\ num_items \in 0..CAP
  BY DEF Legal, CapPositive, Shape
<1>2. f + k - 1 \in 0..(2 * CAP - 1)
  BY <1>1
<1>3. /\ Wrapped(f + k - 1) \in 0..(CAP - 1)
      /\ (f + k - 1) % CAP = Wrapped(f + k - 1)
  BY <1>2, Reduced
<1>4. Offset(Wrapped(f + k - 1), f) < num_items
  BY <1>1 DEF Offset, Wrapped
<1>5. array[Wrapped(f + k - 1)] # Raw
  BY <1>3, <1>4 DEF Shape, Filled
<1>6. DOMAIN array = 0..(CAP - 1) /\ array[Wrapped(f + k - 1)] \in Items
  BY <1>3, <1>5 DEF Shape, Slots
<1>7. Slot(Wrapped(f + k - 1)) = array[Wrapped(f + k - 1)]
  BY <1>3, <1>5, <1>6 DEF Slot
<1>8. Contents[k] = Slot((f + k - 1) % CAP)
  BY DEF Contents
<1>9. QED
  BY <1>3, <1>6, <1>7, <1>8

\* Contents, seen as a function and as a sequence.
LEMMA ContentsSeq ==
  ASSUME Legal, Shape
  PROVE  /\ Contents \in Seq(Items)
         /\ Len(Contents) = num_items
         /\ num_items \in Nat
         /\ Contents = [k \in 1..num_items |-> array[Wrapped(f + k - 1)]]
<1>1. num_items \in Nat
  BY DEF Shape, Legal, CapPositive
<1>2. Contents = [k \in 1..num_items |-> Contents[k]]
  BY DEF Contents
<1>3. \A k \in 1..num_items : /\ Contents[k] \in Items
                              /\ Contents[k] = array[Wrapped(f + k - 1)]
  BY ReadItem
<1>4. QED
  BY <1>1, <1>2, <1>3

LEMMA NewContents ==
  ASSUME Legal, Shape'
  PROVE  Contents' = [k \in 1..num_items' |-> array'[Wrapped(f' + k - 1)]]
<1>1. (Contents = [k \in 1..num_items |-> array[Wrapped(f + k - 1)]])'
  BY ContentsSeq, PTL
<1>2. QED
  BY <1>1

\* Where a push at the back stores, also after a copy of an empty queue.
LEMMA AfterBack ==
  ASSUME Legal, QInv, num_items < CAP
  PROVE  /\ After(r) = Wrapped(f + num_items)
         /\ After(r) = BackOf(f, num_items + 1)
         /\ After(r) \in 0..(CAP - 1)
<1>1. CAP \in Nat \ {0} /\ f \in 0..(CAP - 1) /\ num_items \in Nat
  BY DEF QInv, Shape, Legal, CapPositive
<1>2. CASE BackRight
  <2>1. r = BackOf(f, num_items) /\ r \in 0..(CAP - 1)
    BY <1>1, <1>2 DEF BackRight, BackOf, Wrapped
  <2>2. After(r) = Wrapped(r + 1)
    BY <2>1, Steps
  <2>3. QED
    BY <1>1, <2>1, <2>2 DEF BackOf, Wrapped
<1>3. CASE r = WordSize - 1 /\ num_items = 0 /\ f = 0
  <2>1. After(r) = 0
    BY <1>3, AfterLast
  <2>2. QED
    BY <1>1, <1>3, <2>1 DEF BackOf, Wrapped
<1>4. QED
  BY <1>2, <1>3 DEF QInv

-----------------------------------------------------------------------------
(* The operations. *)

\* What changes nothing but out.
LEMMA SameStep ==
  ASSUME Shape, UNCHANGED <<num_items, f, r, array>>
  PROVE  Shape' /\ Contents' = Contents /\ (BackRight => BackRight') /\ (QInv => QInv')
BY DEF Shape, BackRight, QInv, Contents, Slot

\* A full deque refuses a push.
LEMMA OverflowStep ==
  ASSUME Legal, Shape, num_items = CAP, Unchanged("overflow"), NEW s
  PROVE  AsDeque!Push(s)
<1>1. Len(Contents) = CAP /\ Contents' = Contents
  BY ContentsSeq, SameStep DEF Unchanged
<1>2. QED
  BY <1>1 DEF Unchanged, AsDeque!Push

\* A push into a deque with room stores x in the slot behind the items.
LEMMA PushBackStep ==
  ASSUME Legal, QInv, num_items < CAP, NEW x \in Items, push_back(x)
  PROVE  Shape' /\ BackRight' /\ AsDeque!push_back(x)
<1> DEFINE i == After(r)
           n == num_items + 1
<1>1. /\ CAP \in Nat \ {0} /\ f \in 0..(CAP - 1) /\ num_items \in 0..(CAP - 1)
      /\ array \in [0..(CAP - 1) -> Slots] /\ Filled(array, f, num_items)
  BY DEF Legal, CapPositive, QInv, Shape
<1>2. /\ array' = [array EXCEPT ![i] = x] /\ out' = "none"
      /\ num_items' = n /\ f' = f /\ r' = i
  BY <1>1 DEF push_back, Push
<1>3. i = Wrapped(f + num_items) /\ i = BackOf(f, n) /\ i \in 0..(CAP - 1)
  BY AfterBack
<1>4. ASSUME NEW j \in 0..(CAP - 1)
      PROVE  /\ array'[j] \in Slots
             /\ j # i => array'[j] = array[j]
             /\ array'[i] = x
             /\ Offset(j, f) < n => array'[j] # Raw
  <2>1. j # i => array'[j] = array[j]
    BY <1>1, <1>2
  <2>2. array'[i] = x
    BY <1>1, <1>2, <1>3
  <2>3. x \in Slots /\ x # Raw
    BY DEF Slots, Legal, RawIsNoItem
  <2>4. j # i => Offset(j, f) # num_items /\ Offset(j, f) \in Nat
    BY <1>1, <1>3 DEF Offset, Wrapped
  <2>5. j # i /\ Offset(j, f) < n => Offset(j, f) < num_items
    BY <1>1, <2>4
  <2>6. QED
    BY <1>1, <2>1, <2>2, <2>3, <2>5 DEF Filled
<1>5. Shape' /\ BackRight'
  <2>1. array' \in [0..(CAP - 1) -> Slots]
    BY <1>1, <1>2, <1>4
  <2>2. Filled(array', f', num_items')
    BY <1>2, <1>4 DEF Filled
  <2>3. num_items' \in 0..CAP /\ f' \in 0..(CAP - 1)
    BY <1>1, <1>2
  <2>4. QED
    BY <1>2, <1>3, <2>1, <2>2, <2>3 DEF Shape, BackRight
<1>6. Contents \in Seq(Items) /\ Len(Contents) = num_items
  BY ContentsSeq DEF QInv
<1>7. Contents' = Append(Contents, x)
  <2>1. ASSUME NEW k \in 1..n
        PROVE  array'[Wrapped(f + k - 1)] = Append(Contents, x)[k]
    <3>1. CASE k = n
      <4>1. Wrapped(f + k - 1) = i
        BY <1>1, <1>3, <3>1 DEF Wrapped
      <4>2. QED
        BY <1>3, <1>4, <1>6, <3>1, <4>1
    <3>2. CASE k # n
      <4>1. k \in 1..num_items
        BY <1>1, <3>2
      <4>2. Wrapped(f + k - 1) # i /\ Wrapped(f + k - 1) \in 0..(CAP - 1)
        BY <1>1, <1>3, <4>1 DEF Wrapped
      <4>3. Contents[k] = array[Wrapped(f + k - 1)]
        BY <4>1, ReadItem DEF QInv
      <4>4. QED
        BY <1>4, <1>6, <4>1, <4>2, <4>3
    <3>3. QED
      BY <3>1, <3>2
  <2>2. Append(Contents, x) = [k \in 1..n |-> Append(Contents, x)[k]]
    BY <1>1, <1>6
  <2>3. Contents' = [k \in 1..n |-> array'[Wrapped(f + k - 1)]]
    BY <1>2, <1>5, NewContents
  <2>4. QED
    BY <2>1, <2>2, <2>3
<1>8. QED
  BY <1>2, <1>5, <1>6, <1>7 DEF AsDeque!push_back, AsDeque!Push

LEMMA PushFrontStep ==
  ASSUME Legal, DInv, num_items < CAP, NEW x \in Items, push_front(x)
  PROVE  Shape' /\ BackRight' /\ AsDeque!push_front(x)
<1> DEFINE i == Before(f)
           n == num_items + 1
<1>1. /\ CAP \in Nat \ {0} /\ f \in 0..(CAP - 1) /\ num_items \in 0..(CAP - 1)
      /\ array \in [0..(CAP - 1) -> Slots] /\ Filled(array, f, num_items)
      /\ r = BackOf(f, num_items)
  BY DEF Legal, CapPositive, DInv, BackRight, Shape
<1>2. /\ array' = [array EXCEPT ![i] = x] /\ out' = "none"
      /\ num_items' = n /\ f' = i /\ r' = r
  BY <1>1 DEF push_front, Push
<1>3. i = (IF f = 0 THEN CAP - 1 ELSE f - 1) /\ i \in 0..(CAP - 1)
  BY <1>1, Steps
<1>4. ASSUME NEW j \in 0..(CAP - 1)
      PROVE  /\ array'[j] \in Slots
             /\ j # i => array'[j] = array[j]
             /\ array'[i] = x
             /\ Offset(j, i) < n => array'[j] # Raw
  <2>1. j # i => array'[j] = array[j]
    BY <1>1, <1>2
  <2>2. array'[i] = x
    BY <1>1, <1>2, <1>3
  <2>3. x \in Slots /\ x # Raw
    BY DEF Slots, Legal, RawIsNoItem
  <2>4. j # i => Offset(j, i) = Offset(j, f) + 1 /\ Offset(j, f) \in Nat
    BY <1>1, <1>3 DEF Offset, Wrapped
  <2>5. j # i /\ Offset(j, i) < n => Offset(j, f) < num_items
    BY <1>1, <2>4
  <2>6. QED
    BY <1>1, <2>1, <2>2, <2>3, <2>5 DEF Filled
<1>5. Shape' /\ BackRight'
  <2>1. array' \in [0..(CAP - 1) -> Slots]
    BY <1>1, <1>2, <1>4
  <2>2. Filled(array', f', num_items')
    BY <1>2, <1>4 DEF Filled
  <2>3. num_items' \in 0..CAP /\ f' \in 0..(CAP - 1)
    BY <1>1, <1>2, <1>3
  <2>4. r = BackOf(i, n)
    BY <1>1, <1>3 DEF BackOf, Wrapped
  <2>5. QED
    BY <1>2, <2>1, <2>2, <2>3, <2>4 DEF Shape, BackRight
<1>6. Contents \in Seq(Items) /\ Len(Contents) = num_items
  BY ContentsSeq DEF DInv
<1>7. Contents' = <<x>> \o Contents
  <2>1. <<x>> \in Seq(Items) /\ Len(<<x>>) = 1 /\ <<x>>[1] = x
    OBVIOUS
  <2>2. /\ <<x>> \o Contents \in Seq(Items)
        /\ Len(<<x>> \o Contents) = n
        /\ \A k \in 1..n : (<<x>> \o Contents)[k] =
                           IF k <= 1 THEN <<x>>[k] ELSE Contents[k - 1]
    BY <1>1, <1>6, <2>1, ConcatProperties
  <2>3. ASSUME NEW k \in 1..n
        PROVE  array'[Wrapped(i + k - 1)] = (<<x>> \o Contents)[k]
    <3>1. CASE k = 1
      <4>1. Wrapped(i + k - 1) = i
        BY <1>1, <1>3, <3>1 DEF Wrapped
      <4>2. QED
        BY <1>3, <1>4, <2>1, <2>2, <3>1, <4>1
    <3>2. CASE k # 1
      <4>1. k - 1 \in 1..num_items
        BY <1>1, <3>2
      <4>2. /\ Wrapped(i + k - 1) # i
            /\ Wrapped(i + k - 1) \in 0..(CAP - 1)
            /\ Wrapped(i + k - 1) = Wrapped(f + (k - 1) - 1)
        BY <1>1, <1>3, <4>1 DEF Wrapped
      <4>3. Contents[k - 1] = array[Wrapped(i + k - 1)]
        BY <4>1, <4>2, ReadItem DEF DInv
      <4>4. (<<x>> \o Contents)[k] = Contents[k - 1]
        BY <2>2, <3>2
      <4>5. array'[Wrapped(i + k - 1)] = array[Wrapped(i + k - 1)]
        BY <1>4, <4>2
      <4>6. QED
        BY <4>3, <4>4, <4>5
    <3>3. QED
      BY <3>1, <3>2
  <2>4. <<x>> \o Contents = [k \in 1..n |-> (<<x>> \o Contents)[k]]
    BY <1>1, <2>2
  <2>5. Contents' = [k \in 1..n |-> array'[Wrapped(i + k - 1)]]
    BY <1>2, <1>5, NewContents
  <2>6. QED
    BY <2>3, <2>4, <2>5
<1>8. QED
  BY <1>2, <1>5, <1>6, <1>7 DEF AsDeque!push_front, AsDeque!Push

\* A pop of an empty deque reports it and changes nothing.
LEMMA UnderflowStep ==
  ASSUME Legal, Shape, num_items = 0, Unchanged("underflow")
  PROVE  AsDeque!Underflow
<1>1. Contents = <<>> /\ Contents' = Contents
  BY ContentsSeq, SameStep DEF Unchanged
<1>2. QED
  BY <1>1 DEF Unchanged, AsDeque!Underflow

\* What the array is after the item in slot i was moved out.
LEMMA MovedOut ==
  ASSUME Shape, NEW i \in 0..(CAP - 1),
         array' = [j \in DOMAIN array |-> IF j = i THEN Raw ELSE array[j]]
  PROVE  /\ array' \in [0..(CAP - 1) -> Slots]
         /\ \A j \in 0..(CAP - 1) : j # i => array'[j] = array[j]
BY DEF Shape, Slots

LEMMA PopBackStep ==
  ASSUME Legal, DInv, num_items > 0, pop_back
  PROVE  Shape' /\ BackRight' /\ AsDeque!pop_back
<1> DEFINE n == num_items - 1
<1>1. /\ CAP \in Nat \ {0} /\ f \in 0..(CAP - 1) /\ num_items \in 1..CAP
      /\ array \in [0..(CAP - 1) -> Slots] /\ Filled(array, f, num_items)
      /\ r = BackOf(f, num_items)
  BY DEF Legal, CapPositive, DInv, BackRight, Shape
<1>2. /\ array' = [j \in DOMAIN array |-> IF j = r THEN Raw ELSE array[j]]
      /\ out' = Slot(r) /\ num_items' = n /\ f' = f /\ r' = Before(r)
  BY <1>1 DEF pop_back, Pop
<1>3. r = Wrapped(f + num_items - 1) /\ r \in 0..(CAP - 1)
  BY <1>1 DEF BackOf, Wrapped
<1>4. /\ array' \in [0..(CAP - 1) -> Slots]
      /\ \A j \in 0..(CAP - 1) : j # r => array'[j] = array[j]
  BY <1>2, <1>3, MovedOut DEF DInv
<1>5. Before(r) = BackOf(f, n)
  <2>1. Before(r) = IF r = 0 THEN CAP - 1 ELSE r - 1
    BY <1>3, Steps
  <2>2. QED
    BY <2>1, <1>1, <1>3 DEF BackOf, Wrapped
<1>6. out' = Contents[num_items] /\ Contents[num_items] \in Items
  BY <1>1, <1>2, <1>3, ReadItem DEF DInv
<1>7. Shape' /\ BackRight'
  <2>1. ASSUME NEW j \in 0..(CAP - 1), Offset(j, f) < n
        PROVE  array'[j] # Raw
    <3>1. j # r /\ Offset(j, f) < num_items
      BY <1>1, <1>3, <2>1 DEF Offset, Wrapped
    <3>2. QED
      BY <1>1, <1>4, <3>1 DEF Filled
  <2>2. Filled(array', f', num_items')
    BY <1>2, <2>1 DEF Filled
  <2>3. num_items' \in 0..CAP /\ f' \in 0..(CAP - 1)
    BY <1>1, <1>2
  <2>4. QED
    BY <1>2, <1>4, <1>5, <2>2, <2>3 DEF Shape, BackRight
<1>8. Contents \in Seq(Items) /\ Len(Contents) = num_items
  BY ContentsSeq DEF DInv
<1>9. Contents' = SubSeq(Contents, 1, n)
  <2>1. ASSUME NEW k \in 1..n
        PROVE  array'[Wrapped(f + k - 1)] = Contents[k]
    <3>1. Wrapped(f + k - 1) # r /\ Wrapped(f + k - 1) \in 0..(CAP - 1)
      BY <1>1, <1>3 DEF Wrapped
    <3>2. Contents[k] = array[Wrapped(f + k - 1)]
      BY <1>1, ReadItem DEF DInv
    <3>3. QED
      BY <1>4, <3>1, <3>2
  <2>2. SubSeq(Contents, 1, n) = [k \in 1..n |-> Contents[k]]
    BY <1>1, <1>8
  <2>3. Contents' = [k \in 1..n |-> array'[Wrapped(f + k - 1)]]
    BY <1>2, <1>7, NewContents
  <2>4. QED
    BY <2>1, <2>2, <2>3
<1>10. Contents # <<>>
  BY <1>1, <1>8
<1>11. QED
  BY <1>6, <1>7, <1>8, <1>9, <1>10 DEF AsDeque!pop_back

LEMMA PopFrontStep ==
  ASSUME Legal, QInv, num_items > 0, pop_front
  PROVE  Shape' /\ BackRight' /\ AsDeque!pop_front
<1> DEFINE n == num_items - 1
           f2 == After(f)
<1>1. /\ CAP \in Nat \ {0} /\ f \in 0..(CAP - 1) /\ num_items \in 1..CAP
      /\ array \in [0..(CAP - 1) -> Slots] /\ Filled(array, f, num_items)
      /\ r = BackOf(f, num_items)
  BY DEF Legal, CapPositive, QInv, BackRight, Shape
<1>2. /\ array' = [j \in DOMAIN array |-> IF j = f THEN Raw ELSE array[j]]
      /\ out' = Slot(f) /\ num_items' = n /\ f' = f2 /\ r' = r
  BY <1>1 DEF pop_front, Pop
<1>3. f2 = Wrapped(f + 1) /\ f2 \in 0..(CAP - 1)
  BY <1>1, Steps DEF Wrapped
<1>4. /\ array' \in [0..(CAP - 1) -> Slots]
      /\ \A j \in 0..(CAP - 1) : j # f => array'[j] = array[j]
  BY <1>1, <1>2, MovedOut DEF QInv
<1>5. r = BackOf(f2, n)
  BY <1>1, <1>3 DEF BackOf, Wrapped
<1>6. out' = Contents[1] /\ Contents[1] \in Items
  <2>1. Wrapped(f + 1 - 1) = f /\ 1 \in 1..num_items
    BY <1>1 DEF Wrapped
  <2>2. QED
    BY <1>2, <2>1, ReadItem DEF QInv
<1>7. Shape' /\ BackRight'
  <2>1. ASSUME NEW j \in 0..(CAP - 1), Offset(j, f2) < n
        PROVE  array'[j] # Raw
    <3>1. j # f /\ Offset(j, f) < num_items
      BY <1>1, <1>3, <2>1 DEF Offset, Wrapped
    <3>2. QED
      BY <1>1, <1>4, <3>1 DEF Filled
  <2>2. Filled(array', f', num_items')
    BY <1>2, <2>1 DEF Filled
  <2>3. num_items' \in 0..CAP /\ f' \in 0..(CAP - 1)
    BY <1>1, <1>2, <1>3
  <2>4. QED
    BY <1>2, <1>4, <1>5, <2>2, <2>3 DEF Shape, BackRight
<1>8. /\ Contents \in Seq(Items) /\ Len(Contents) = num_items
      /\ Contents # <<>> /\ Head(Contents) = Contents[1]
  BY <1>1, ContentsSeq DEF QInv
<1>9. Contents' = Tail(Contents)
  <2>1. ASSUME NEW k \in 1..n
        PROVE  array'[Wrapped(f2 + k - 1)] = Contents[k + 1]
    <3>1. /\ Wrapped(f2 + k - 1) # f
          /\ Wrapped(f2 + k - 1) \in 0..(CAP - 1)
          /\ Wrapped(f2 + k - 1) = Wrapped(f + (k + 1) - 1)
          /\ k + 1 \in 1..num_items
      BY <1>1, <1>3 DEF Wrapped
    <3>2. Contents[k + 1] = array[Wrapped(f2 + k - 1)]
      BY <3>1, ReadItem DEF QInv
    <3>3. QED
      BY <1>4, <3>1, <3>2
  <2>2. /\ Tail(Contents) \in Seq(Items) /\ Len(Tail(Contents)) = n
        /\ \A k \in 1..Len(Tail(Contents)) : Tail(Contents)[k] = Contents[k + 1]
    BY <1>8, HeadTailProperties
  <2>3. Tail(Contents) \in [1..n -> Items]
    BY <2>2, LenProperties
  <2>4. Contents' = [k \in 1..n |-> array'[Wrapped(f2 + k - 1)]]
    BY <1>2, <1>7, NewContents
  <2>5. QED
    BY <2>1, <2>2, <2>3, <2>4
<1>10. QED
  BY <1>6, <1>7, <1>8, <1>9 DEF AsDeque!pop_front

\* front and back read the item that is first or last.
LEMMA PeekStep ==
  ASSUME Legal, QInv, num_items > 0
  PROVE  /\ Unchanged(Slot(f)) => AsDeque!front
         /\ Unchanged(Slot(r)) => AsDeque!back
<1>1. /\ CAP \in Nat \ {0} /\ f \in 0..(CAP - 1) /\ num_items \in 1..CAP
      /\ r = BackOf(f, num_items)
  BY DEF Legal, CapPositive, QInv, BackRight, Shape
<1>2. Slot(f) = Contents[1]
  <2>1. Wrapped(f + 1 - 1) = f /\ 1 \in 1..num_items
    BY <1>1 DEF Wrapped
  <2>2. QED
    BY <1>1, <2>1, ReadItem DEF QInv
<1>3. Slot(r) = Contents[num_items]
  <2>1. Wrapped(f + num_items - 1) = r /\ num_items \in 1..num_items
    BY <1>1 DEF BackOf
  <2>2. QED
    BY <1>1, <2>1, ReadItem DEF QInv
<1>4. /\ Contents \in Seq(Items) /\ Len(Contents) = num_items
      /\ Contents # <<>> /\ Head(Contents) = Contents[1]
  BY <1>1, ContentsSeq DEF QInv
<1>5. ASSUME UNCHANGED <<num_items, f, r, array>> PROVE Contents' = Contents
  BY <1>5, SameStep DEF QInv
<1>6. QED
  BY <1>2, <1>3, <1>4, <1>5 DEF Unchanged, AsDeque!front, AsDeque!back

\* With no item, f = 0 and r before it, any array will do.
LEMMA Emptied ==
  ASSUME Legal, array \in [0..(CAP - 1) -> Slots],
         num_items = 0, f = 0, r = CAP - 1
  PROVE  Shape /\ BackRight /\ Contents = <<>>
<1>1. CAP \in Nat \ {0}
  BY DEF Legal, CapPositive
<1>2. \A i \in 0..(CAP - 1) : ~(Offset(i, 0) < 0)
  BY <1>1 DEF Offset
<1>3. Shape
  BY <1>1, <1>2 DEF Shape, Filled
<1>4. BackRight
  BY DEF BackRight, BackOf
<1>5. QED
  BY <1>3, <1>4, ContentsSeq

LEMMA InitStep ==
  ASSUME Legal, Init
  PROVE  Shape /\ BackRight /\ Contents = <<>>
<1>1. array \in [0..(CAP - 1) -> Slots]
  BY DEF Init, Slots
<1>2. QED
  BY <1>1, Emptied DEF Init

LEMMA EmptyStep ==
  ASSUME Legal, Shape, clear \/ move_away
  PROVE  Shape' /\ BackRight' /\ AsDeque!Empty
<1>1. (/\ array \in [0..(CAP - 1) -> Slots]
       /\ num_items = 0 /\ f = 0 /\ r = CAP - 1)'
  BY DEF Shape, clear, move_away, Slots
<1>2. (Shape /\ BackRight /\ Contents = <<>>)'
  BY <1>1, Emptied, PTL
<1>3. QED
  BY <1>2 DEF clear, move_away, AsDeque!Empty

\* A copy has its items in the first slots.
LEMMA CopyStep ==
  ASSUME Legal, Shape, copy_queue
  PROVE  /\ QInv' /\ AsDeque!Copied
         /\ num_items > 0 => BackRight'
<1>1. CAP \in Nat \ {0} /\ num_items \in 0..CAP
  BY DEF Shape, Legal, CapPositive
<1>2. num_items' = num_items /\ f' = 0 /\ out' = "none"
  BY DEF copy_queue
<1>3. r' = IF num_items = 0 THEN WordSize - 1 ELSE num_items - 1
  BY <1>1, LessOne DEF copy_queue
<1>4. array' = [i \in 0..(CAP - 1) |->
                  IF i < num_items THEN Contents[i + 1] ELSE Raw]
  BY DEF copy_queue
<1>5. ASSUME NEW i \in 0..(CAP - 1)
      PROVE  /\ array'[i] \in Slots
             /\ i < num_items => array'[i] = Contents[i + 1] /\ array'[i] # Raw
  <2>1. i < num_items => i + 1 \in 1..num_items
    BY <1>1
  <2>2. i < num_items => Contents[i + 1] \in Items
    BY <2>1, ReadItem
  <2>3. QED
    BY <1>4, <2>2 DEF Slots, Legal, RawIsNoItem
<1>6. Shape'
  <2>1. ASSUME NEW i \in 0..(CAP - 1), Offset(i, 0) < num_items
        PROVE  array'[i] # Raw
    <3>1. Offset(i, 0) = i
      BY <1>1 DEF Offset
    <3>2. QED
      BY <2>1, <3>1, <1>5
  <2>2. Filled(array', f', num_items')
    BY <1>2, <2>1 DEF Filled
  <2>3. array' \in [0..(CAP - 1) -> Slots]
    BY <1>4, <1>5
  <2>4. QED
    BY <1>1, <1>2, <2>2, <2>3 DEF Shape
<1>7. num_items > 0 => BackRight'
  BY <1>1, <1>2, <1>3 DEF BackRight, BackOf, Wrapped
<1>8. Contents' = Contents
  <2>1. Contents' = [k \in 1..num_items |-> array'[Wrapped(0 + k - 1)]]
    BY <1>2, <1>6, NewContents
  <2>2. ASSUME NEW k \in 1..num_items
        PROVE  array'[Wrapped(0 + k - 1)] = Contents[k]
    <3>1. k - 1 \in 0..(CAP - 1) /\ k - 1 < num_items /\ (k - 1) + 1 = k
      BY <1>1
    <3>2. Wrapped(0 + k - 1) = k - 1
      BY <1>1, <3>1 DEF Wrapped
    <3>3. QED
      BY <3>1, <3>2, <1>5
  <2>3. Contents = [k \in 1..num_items |-> Contents[k]]
    BY DEF Contents
  <2>4. QED
    BY <2>1, <2>2, <2>3
<1>9. num_items = 0 => r' = WordSize - 1 /\ num_items' = 0 /\ f' = 0
  BY <1>2, <1>3
<1>10. QED
  BY <1>1, <1>2, <1>6, <1>7, <1>8, <1>9 DEF QInv, AsDeque!Copied

-----------------------------------------------------------------------------
LEMMA DequeStep ==
  ASSUME Legal, ~CopyEmpty, DInv, [Next]_vars
  PROVE  DInv' /\ [AsDeque!Next]_(AsDeque!vars)
<1> QInv
  BY DEF DInv, QInv
<1>1. CASE UNCHANGED vars
  BY <1>1, SameStep DEF vars, DInv, AsDeque!vars
<1>2. ASSUME NEW x \in Items, push_back(x) \/ push_front(x)
      PROVE  DInv' /\ AsDeque!Next
  <2>1. CASE num_items = CAP
    <3>1. Unchanged("overflow")
      BY <1>2, <2>1 DEF push_back, push_front, Push, DInv, Shape, Legal, CapPositive
    <3>2. DInv'
      BY <3>1, SameStep DEF Unchanged, DInv
    <3>3. AsDeque!push_back(x)
      BY <2>1, <3>1, OverflowStep DEF DInv, AsDeque!push_back
    <3>4. QED
      BY <3>2, <3>3 DEF AsDeque!Next
  <2>2. CASE num_items < CAP
    BY <1>2, <2>2, PushBackStep, PushFrontStep DEF DInv, AsDeque!Next
  <2>3. QED
    BY <1>2, <2>1, <2>2 DEF push_back, push_front, Push
<1>3. ASSUME num_items = 0, Unchanged("underflow")
      PROVE  DInv' /\ AsDeque!Next
  <2>1. AsDeque!Underflow
    BY <1>3, UnderflowStep DEF DInv
  <2>2. DInv'
    BY <1>3, SameStep DEF Unchanged, DInv
  <2>3. QED
    BY <2>1, <2>2 DEF AsDeque!Next, AsDeque!pop_back
<1>4. ASSUME num_items > 0, pop_back \/ pop_front
      PROVE  DInv' /\ AsDeque!Next
  BY <1>4, PopBackStep, PopFrontStep DEF DInv, AsDeque!Next
<1>5. ASSUME num_items > 0, Unchanged(Slot(f)) \/ Unchanged(Slot(r))
      PROVE  DInv' /\ AsDeque!Next
  <2>1. AsDeque!front \/ AsDeque!back
    BY <1>5, PeekStep
  <2>2. DInv'
    BY <1>5, SameStep DEF Unchanged, DInv
  <2>3. QED
    BY <2>1, <2>2 DEF AsDeque!Next
<1>6. CASE clear \/ move_away
  BY <1>6, EmptyStep DEF DInv, AsDeque!Next
<1>7. CASE copy_deque
  <2>1. copy_queue /\ num_items > 0
    BY <1>7 DEF copy_deque, DInv, Shape
  <2>2. QED
    BY <2>1, CopyStep DEF DInv, QInv, AsDeque!Next
<1>8. ASSUME pop_back \/ pop_front \/ front \/ back
      PROVE  DInv' /\ AsDeque!Next
  BY <1>3, <1>4, <1>5, <1>8 DEF pop_back, pop_front, front, back, Pop, Peek
<1>9. QED
  BY <1>1, <1>2, <1>6, <1>7, <1>8 DEF Next

LEMMA QueueStep ==
  ASSUME Legal, QInv, [QueueNext]_vars
  PROVE  QInv' /\ [AsDeque!Next]_(AsDeque!vars)
<1> Shape
  BY DEF QInv
<1>1. CASE UNCHANGED vars
  BY <1>1, SameStep DEF vars, AsDeque!vars
<1>2. ASSUME NEW x \in Items, put(x)
      PROVE  QInv' /\ AsDeque!Next
  <2>1. CASE num_items = CAP
    <3>1. Unchanged("overflow")
      BY <1>2, <2>1 DEF put, push_back, Push, Shape, Legal, CapPositive
    <3>2. QInv'
      BY <3>1, SameStep DEF Unchanged
    <3>3. AsDeque!push_back(x)
      BY <2>1, <3>1, OverflowStep DEF AsDeque!push_back
    <3>4. QED
      BY <3>2, <3>3 DEF AsDeque!Next
  <2>2. CASE num_items < CAP
    BY <1>2, <2>2, PushBackStep DEF put, QInv, AsDeque!Next
  <2>3. QED
    BY <1>2, <2>1, <2>2 DEF put, push_back, Push
<1>3. ASSUME num_items = 0, Unchanged("underflow")
      PROVE  QInv' /\ AsDeque!Next
  <2>1. AsDeque!Underflow
    BY <1>3, UnderflowStep
  <2>2. QInv'
    BY <1>3, SameStep DEF Unchanged
  <2>3. QED
    BY <2>1, <2>2 DEF AsDeque!Next, AsDeque!pop_back
<1>4. ASSUME num_items > 0, pop_front
      PROVE  QInv' /\ AsDeque!Next
  BY <1>4, PopFrontStep DEF QInv, AsDeque!Next
<1>5. ASSUME num_items > 0, Unchanged(Slot(f)) \/ Unchanged(Slot(r))
      PROVE  QInv' /\ AsDeque!Next
  <2>1. AsDeque!front \/ AsDeque!back
    BY <1>5, PeekStep
  <2>2. QInv'
    BY <1>5, SameStep DEF Unchanged
  <2>3. QED
    BY <2>1, <2>2 DEF AsDeque!Next
<1>6. CASE clear \/ move_away
  BY <1>6, EmptyStep DEF QInv, AsDeque!Next
<1>7. CASE copy_queue
  BY <1>7, CopyStep DEF AsDeque!Next
<1>8. ASSUME get \/ front \/ rear
      PROVE  QInv' /\ AsDeque!Next
  BY <1>3, <1>4, <1>5, <1>8 DEF get, rear, pop_front, front, back, Pop, Peek
<1>9. QED
  BY <1>1, <1>2, <1>6, <1>7, <1>8 DEF QueueNext

\* The indexes of a deque delimit its items, as long as no empty deque is
\* copied.
THEOREM DequeInvariance ==
  ASSUME Legal, ~CopyEmpty
  PROVE  Spec => []DInv
<1>1. Init => DInv
  BY InitStep DEF DInv
<1>2. DInv /\ [Next]_vars => DInv'
  BY DequeStep
<1>3. QED
  BY <1>1, <1>2, PTL DEF Spec

\* The same of a queue, which may be copied when it is empty.
THEOREM QueueInvariance ==
  ASSUME Legal
  PROVE  QueueSpec => []QInv
<1>1. Init => QInv
  BY InitStep DEF QInv
<1>2. QInv /\ [QueueNext]_vars => QInv'
  BY QueueStep
<1>3. QED
  BY <1>1, <1>2, PTL DEF QueueSpec

\* FixedDeque is a sequence of at most CAP items that is used from both ends.
THEOREM DequeIsSequence ==
  ASSUME Legal, ~CopyEmpty
  PROVE  Spec => AsDeque!Spec
<1>1. Init => AsDeque!Init
  BY InitStep DEF Init, AsDeque!Init
<1>2. DInv /\ [Next]_vars => [AsDeque!Next]_(AsDeque!vars)
  BY DequeStep
<1>3. QED
  BY <1>1, <1>2, DequeInvariance, PTL DEF Spec, AsDeque!Spec

\* So is FixedQueue, at one end for put and at the other for get.
THEOREM QueueIsSequence ==
  ASSUME Legal
  PROVE  QueueSpec => AsDeque!Spec
<1>1. Init => AsDeque!Init
  BY InitStep DEF Init, AsDeque!Init
<1>2. QInv /\ [QueueNext]_vars => [AsDeque!Next]_(AsDeque!vars)
  BY QueueStep
<1>3. QED
  BY <1>1, <1>2, QueueInvariance, PTL DEF QueueSpec, AsDeque!Spec
=============================================================================
