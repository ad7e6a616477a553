------------------------------- MODULE Sorting -------------------------------
(***************************************************************************)
(* sort.hpp: the searches and the sorts, on arrays, on a part l..r of an   *)
(* array, and on linked lists.  An item is a record with a key, by which   *)
(* items are compared.  Indices start at 1 here, at 0 in the program.      *)
(***************************************************************************)
EXTENDS Integers, FiniteSets, SequencesExt

CONSTANT QuicksortThreshold    \* bound: 40 in the program

Lt(x, y) == x.key < y.key

FromTo(l, r) == [i \in 1..Max({0, r - l + 1}) |-> l + i - 1]

Swap(a, i, j) == [a EXCEPT ![i] = a[j], ![j] = a[i]]

Part(a, l, r) == SubSeq(a, l, r)
Placed(a, l, r, s) == SubSeq(a, 1, l - 1) \o s \o SubSeq(a, r + 1, Len(a))

-----------------------------------------------------------------------------
\* Where k is, or where it would go.
RECURSIVE binary_search(_, _, _, _)
binary_search(a, k, l, r) ==
  LET m == (l + r) \div 2
  IN  CASE l > r -> l
        [] l <= r /\ k < a[m].key -> binary_search(a, k, l, m - 1)
        [] l <= r /\ a[m].key < k -> binary_search(a, k, m + 1, r)
        [] l <= r /\ k = a[m].key -> m

\* The first item that is greater than k.
RECURSIVE sequential_search(_, _, _, _)
sequential_search(a, k, i, r) ==
  IF i <= r /\ ~(k < a[i].key) THEN sequential_search(a, k, i + 1, r) ELSE i

-----------------------------------------------------------------------------
RECURSIVE Slide(_, _, _, _, _)
Slide(a, x, j, low, gap) ==
  IF j >= low /\ Lt(x, a[j - gap])
  THEN Slide([a EXCEPT ![j] = a[j - gap]], x, j - gap, low, gap)
  ELSE [a EXCEPT ![j] = x]

gapped_insertion_pass(a, l, r, gap) ==
  FoldLeft(LAMBDA b, i : Slide(b, b[i], i, l + gap, gap), a, FromTo(l + gap, r))

insertion_sort(a, l, r) == gapped_insertion_pass(a, l, r, 1)

RECURSIVE Shell(_, _, _, _)
Shell(a, l, r, gap) ==
  IF gap = 0 THEN a ELSE Shell(gapped_insertion_pass(a, l, r, gap), l, r, gap \div 2)
shell_sort(a, l, r) == Shell(a, l, r, (r - l + 1) \div 2)

min_pos(a, i, r) ==
  CHOOSE j \in i..r : /\ \A k \in i..r : ~Lt(a[k], a[j])
                      /\ \A k \in i..(j - 1) : Lt(a[j], a[k])

selection_sort(a, l, r) ==
  FoldLeft(LAMBDA b, i : Swap(b, i, min_pos(b, i, r)), a, FromTo(l, r - 1))

\* A pass that swaps nothing is the last.
RECURSIVE Bubble(_, _, _)
Bubble(a, l, r) ==
  LET b == FoldLeft(LAMBDA c, j : IF Lt(c[j + 1], c[j]) THEN Swap(c, j, j + 1) ELSE c,
                    a, FromTo(l, r - 1))
  IN  IF l >= r \/ a = b THEN a ELSE Bubble(b, l, r - 1)
bubble_sort(a, l, r) == Bubble(a, l, r)

-----------------------------------------------------------------------------
\* The smallest of the first, the middle and the last.
select_pivot(a, l, r) ==
  LET m == (l + r) \div 2
      partial_min == IF Lt(a[l], a[m]) THEN l ELSE m
  IN  IF Lt(a[partial_min], a[r]) THEN partial_min ELSE r

\* The next from the left that is not below the pivot a[r], and from the right not above it.
RECURSIVE FromLeft(_, _, _), FromRight(_, _, _, _)
FromLeft(a, i, r) == IF Lt(a[i + 1], a[r]) THEN FromLeft(a, i + 1, r) ELSE i + 1
FromRight(a, j, l, r) ==
  IF Lt(a[r], a[j - 1]) /\ j - 1 # l THEN FromRight(a, j - 1, l, r) ELSE j - 1

RECURSIVE Cross(_, _, _, _, _)
Cross(a, l, r, i, j) ==
  LET ni == FromLeft(a, i, r)
      nj == FromRight(a, j, l, r)
  IN  IF ni >= nj THEN [array |-> Swap(a, ni, r), pivot |-> ni]
      ELSE Cross(Swap(a, ni, nj), l, r, ni, nj)

partition(a, l, r) == Cross(Swap(a, select_pivot(a, l, r), r), l, r, l - 1, r)

\* The two sides do not meet: which is sorted first is not told apart.
RECURSIVE quicksort(_, _, _)
quicksort(a, l, r) ==
  LET p == partition(a, l, r)
  IN  CASE l >= r -> a
        [] l < r /\ r - l + 1 <= QuicksortThreshold -> insertion_sort(a, l, r)
        [] l < r /\ r - l + 1 > QuicksortThreshold ->
             quicksort(quicksort(p.array, l, p.pivot - 1), p.pivot + 1, r)

\* Of two equal items, the first is the one of the first sequence.
RECURSIVE Merged(_, _)
\* A bug: of equal items the one on the right comes first.
MergedUnstable(s, t) ==
  CASE s = <<>> -> t
    [] t = <<>> -> s
    [] s # <<>> /\ t # <<>> ->
         IF Lt(Head(s), Head(t)) THEN <<Head(s)>> \o Merged(Tail(s), t)
         ELSE <<Head(t)>> \o Merged(s, Tail(t))

Merged(s, t) ==
  CASE s = <<>> -> t
    [] t = <<>> -> s
    [] s # <<>> /\ t # <<>> ->
         IF Lt(Head(t), Head(s)) THEN <<Head(t)>> \o Merged(s, Tail(t))
         ELSE <<Head(s)>> \o Merged(Tail(s), t)

merge(a, l, m, r) == Placed(a, l, r, Merged(Part(a, l, m), Part(a, m + 1, r)))

RECURSIVE merge_sort(_, _, _)
merge_sort(a, l, r) ==
  LET m == l + (r - l) \div 2
  IN  CASE l >= r -> a
        [] l < r /\ r - l + 1 <= QuicksortThreshold -> insertion_sort(a, l, r)
        [] l < r /\ r - l + 1 > QuicksortThreshold ->
             merge(merge_sort(merge_sort(a, l, m), m + 1, r), l, m, r)

-----------------------------------------------------------------------------
(***************************************************************************)
(* The heap of the positions l..r of a, of which position i is the item    *)
(* offset + i; flipped: with the largest first.                            *)
(***************************************************************************)
Before(x, y, flipped) == IF flipped THEN Lt(y, x) ELSE Lt(x, y)

RECURSIVE sift_up(_, _, _, _, _), sift_down(_, _, _, _, _)
sift_up(a, offset, l, i, flipped) ==
  LET u == i \div 2
  IN  IF u >= l /\ Before(a[offset + i], a[offset + u], flipped)
      THEN sift_up(Swap(a, offset + i, offset + u), offset, l, u, flipped)
      ELSE a

sift_down(a, offset, i, r, flipped) ==
  LET c == IF 2 * i < r /\ Before(a[offset + 2 * i + 1], a[offset + 2 * i], flipped)
           THEN 2 * i + 1 ELSE 2 * i
  IN  IF 2 * i <= r /\ Before(a[offset + c], a[offset + i], flipped)
      THEN sift_down(Swap(a, offset + c, offset + i), offset, c, r, flipped)
      ELSE a

heap_sort(a, l, r) ==
  LET n == r - l + 1
      heap == FoldLeft(LAMBDA b, i : sift_up(b, l - 1, 1, i, TRUE), a, FromTo(2, n))
  IN  FoldLeft(LAMBDA b, i : sift_down(Swap(b, l, l + i - 1), l - 1, 1, i - 1, TRUE),
               heap, Reverse(FromTo(2, n)))

-----------------------------------------------------------------------------
\* The pass of counting_sort, and of radix_sort for one digit.
Distributed(a, l, r, top, Digit(_)) ==
  LET count == [d \in 0..top |-> Cardinality({i \in l..r : Digit(a[i]) <= d})]
      Put(s, i) ==
        LET d == Digit(a[i])
        IN  [count |-> [s.count EXCEPT ![d] = @ - 1],
             output |-> [s.output EXCEPT ![s.count[d]] = a[i]]]
      s == FoldLeft(Put, [count |-> count, output |-> Part(a, l, r)], Reverse(FromTo(l, r)))
  IN  Placed(a, l, r, s.output)

counting_sort(a, l, r, max_key) ==
  IF l >= r THEN a ELSE Distributed(a, l, r, max_key, LAMBDA x : x.key)

\* exp is unsigned and has w bits; at 0 the program divides by it: no array.
Crashed == <<>>

RECURSIVE Radix(_, _, _, _, _, _)
Radix(a, l, r, max_val, exp, w) ==
  CASE exp = 0 -> Crashed
    [] exp # 0 /\ max_val \div exp = 0 -> a
    [] exp # 0 /\ max_val \div exp > 0 ->
         Radix(Distributed(a, l, r, 9, LAMBDA x : (x.key \div exp) % 10),
               l, r, max_val, (exp * 10) % 2^w, w)

radix_sort(a, l, r, w) ==
  LET keys == {a[i].key : i \in l..r}
  IN  IF l >= r THEN a ELSE Radix(a, l, r, CHOOSE k \in keys : \A m \in keys : m <= k, 1, w)

\* A key k stands for the number k / unit; the last bucket takes what is not below 1.
bucket_sort(a, l, r, unit) ==
  LET n == r - l + 1
      idx(x) == IF (x.key * n) \div unit >= n THEN n - 1 ELSE (x.key * n) \div unit
      bucket(i) == SelectSeq(Part(a, l, r), LAMBDA x : idx(x) = i - 1)
      sorted(b) == insertion_sort(b, 1, Len(b))
  IN  IF l >= r THEN a
      ELSE Placed(a, l, r, FlattenSeq([i \in 1..n |-> sorted(bucket(i))]))

-----------------------------------------------------------------------------
(***************************************************************************)
(* Linked lists.                                                           *)
(***************************************************************************)
RECURSIVE quicksort_list(_), merge_sort_list(_)
partition_list(s) ==
  [below |-> SelectSeq(Tail(s), LAMBDA x : Lt(x, Head(s))),
   pivot |-> Head(s),
   rest |-> SelectSeq(Tail(s), LAMBDA x : ~Lt(x, Head(s)))]

quicksort_list(s) ==
  LET part == partition_list(s)
  IN  IF Len(s) <= 1 THEN s
      ELSE quicksort_list(part.below) \o <<part.pivot>> \o quicksort_list(part.rest)

\* split() deals the items out, one to each list.
Dealt(s, first) == [i \in 1..((Len(s) + (IF first = 1 THEN 1 ELSE 0)) \div 2) |-> s[2 * i - 2 + first]]

merge_sort_list(s) ==
  IF Len(s) <= 1 THEN s
  ELSE Merged(merge_sort_list(Dealt(s, 1)), merge_sort_list(Dealt(s, 2)))

reverse(a) == [i \in 1..Len(a) |-> a[Len(a) + 1 - i]]

-----------------------------------------------------------------------------
InOrder(s) == \A i \in 2..Len(s) : ~Lt(s[i], s[i - 1])

IsSortOf(s, t) == IsInjective(s) /\ ToSet(s) = ToSet(t) /\ InOrder(s)

\* Among the items, which are distinct, those of one key keep their order.
IsStableSortOf(s, t) ==
  /\ IsSortOf(s, t)
  /\ \A k \in {x.key : x \in ToSet(t)} :
       SelectSeq(s, LAMBDA x : x.key = k) = SelectSeq(t, LAMBDA x : x.key = k)

Others(a, l, r) == <<SubSeq(a, 1, l - 1), SubSeq(a, r + 1, Len(a))>>

\* Each sort on the part l..r of a, and the two searches in what it is sorted to.
SortsRight(a, l, r, unit, w) ==
  LET largest == CHOOSE k \in {x.key : x \in ToSet(a)} : \A x \in ToSet(a) : x.key <= k
      stable == {insertion_sort(a, l, r), bubble_sort(a, l, r), merge_sort(a, l, r),
                 counting_sort(a, l, r, largest), radix_sort(a, l, r, w),
                 bucket_sort(a, l, r, unit)}
      other == {shell_sort(a, l, r), selection_sort(a, l, r), quicksort(a, l, r),
                heap_sort(a, l, r)}
      sorted == insertion_sort(a, l, r)
  IN  /\ \A b \in stable : IsStableSortOf(Part(b, l, r), Part(a, l, r))
      /\ \A b \in other : IsSortOf(Part(b, l, r), Part(a, l, r))
      /\ \A b \in stable \cup other : Others(b, l, r) = Others(a, l, r)
      /\ IsStableSortOf(quicksort_list(a), a) /\ IsSortOf(merge_sort_list(a), a)
      /\ reverse(a) = Reverse(a)
      /\ \A k \in 0..largest + 1 :
           LET p == binary_search(sorted, k, l, r)
               q == sequential_search(sorted, k, l, r)
           IN  /\ p \in l..(r + 1) /\ \A i \in l..(p - 1) : sorted[i].key <= k
               /\ \A i \in p..r : k <= sorted[i].key
               /\ k \in {x.key : x \in ToSet(Part(a, l, r))} => sorted[p].key = k
               /\ q \in l..(r + 1) /\ \A i \in l..(q - 1) : sorted[i].key <= k
               /\ \A i \in q..r : k < sorted[i].key
=============================================================================
