--------------------------- MODULE LRUCacheProofs ---------------------------
(***************************************************************************)
(* Proofs about LRUCache: the list and the index of every cache describe   *)
(* the same entries, every node has one owner, and the caches implement    *)
(* LRUSpec.                                                                *)
(*                                                                         *)
(* The model walks along the links to find the nodes of a cache.  Here     *)
(* IsList says of a sequence that it is what the walk finds; each private  *)
(* operation turns one such sequence into another.                         *)
(***************************************************************************)
EXTENDS LRUCache, FiniteSetTheorems, FunctionTheorems, SequenceTheorems,
        WellFoundedInduction, TLAPS

HeapType == [Nodes -> {None} \cup NodeType]
CacheType == [cap : Nat, num_items : Nat, head : Nodes \cup {None},
              tail : Nodes \cup {None}, index : [Keys -> Nodes \cup {None}]]

\* s is the list of the object o in the heap h, linked both ways.
Linked(h, s) ==
  \A i \in 1..Len(s) :
    /\ h[s[i]] \in NodeType
    /\ h[s[i]].prev = IF i = 1 THEN None ELSE s[i - 1]
    /\ h[s[i]].next = IF i = Len(s) THEN None ELSE s[i + 1]

Distinct(s) == \A i, j \in 1..Len(s) : s[i] = s[j] => i = j

Ends(o, s) ==
  /\ o.head = IF Len(s) = 0 THEN None ELSE s[1]
  /\ o.tail = IF Len(s) = 0 THEN None ELSE s[Len(s)]

IsList(h, o, s) == Distinct(s) /\ Ends(o, s) /\ Linked(h, s)

-----------------------------------------------------------------------------
(* The walk finds the list.                                                  *)

NextIn(h) ==
  [n \in Nodes \cup {None} |-> IF n = None \/ h[n] = None THEN None ELSE h[n].next]

WalkBody(h, o, w) ==
  [i \in 1..Cardinality(Nodes) |-> IF i = 1 THEN o.head ELSE NextIn(h)[w[i - 1]]]

Walk(h, o) == CHOOSE w : w = WalkBody(h, o, w)

Full(s) ==
  [i \in 1..Cardinality(Nodes) |-> IF i <= Len(s) THEN s[i] ELSE None]

LEMMA ListInWalk ==
  ASSUME NEW h, NEW o
  PROVE  ListIn(h, o) =
           SubSeq(Walk(h, o), 1,
                  Cardinality({i \in DOMAIN Walk(h, o) : Walk(h, o)[i] # None}))
BY DEF ListIn, Walk, WalkBody, NextIn

LEMMA Short ==
  ASSUME Legal, NEW s \in Seq(Nodes), Distinct(s)
  PROVE  /\ Len(s) \in Nat /\ Cardinality(Nodes) \in Nat
         /\ Len(s) <= Cardinality(Nodes)
         /\ Cardinality(1..Len(s)) = Len(s)
<1>1. IsFiniteSet(Nodes) BY DEF Legal, NodesFinite
<1>2. Len(s) \in Nat /\ s \in [1..Len(s) -> Nodes] OBVIOUS
<1>3. s \in Injection(1..Len(s), Nodes)
  BY <1>2 DEF Injection, IsInjective, Distinct
<1>4. Cardinality(1..Len(s)) <= Cardinality(Nodes)
  BY <1>1, <1>3, FS_Injection
<1>5. Cardinality(1..Len(s)) = Len(s)
  BY <1>2, FS_Interval
<1>6. QED
  BY <1>1, <1>2, <1>4, <1>5, FS_CardinalityType

LEMMA LeastOf ==
  ASSUME NEW T, T \subseteq Nat, T # {}
  PROVE  \E m \in T : \A n \in T : m <= n
<1>1. PICK m \in T : \A n \in T : ~(<<n, m>> \in OpToRel(<, Nat))
  BY NatLessThanWellFounded, WFMin
<1>2. \A n \in T : ~(n < m)
  BY <1>1 DEF OpToRel
<1>3. QED
  BY <1>2

LEMMA FullIsWalked ==
  ASSUME Legal, NEW h, NEW o, NEW s \in Seq(Nodes), IsList(h, o, s)
  PROVE  Full(s) = WalkBody(h, o, Full(s))
<1> DEFINE N == Cardinality(Nodes)
           W == Full(s)
<1>1. N \in Nat /\ Len(s) \in Nat /\ Len(s) <= N
  BY Short DEF IsList
<1>2. None \notin Nodes /\ None \notin NodeType
  BY DEF Legal, NoneIsNoNode
<1>3. \A i \in 1..Len(s) : s[i] \in Nodes
  OBVIOUS
<1>4. ASSUME NEW i \in 1..N
      PROVE  W[i] = WalkBody(h, o, W)[i]
  <2>1. CASE i = 1
    BY <1>1, <2>1 DEF IsList, Ends, Full, WalkBody
  <2>2. CASE i > 1 /\ i - 1 <= Len(s)
    <3>1. W[i - 1] = s[i - 1] /\ i - 1 \in 1..Len(s)
      BY <1>1, <2>2 DEF Full
    <3>2. NextIn(h)[s[i - 1]] = h[s[i - 1]].next
      BY <1>2, <1>3, <3>1 DEF NextIn, IsList, Linked
    <3>3. h[s[i - 1]].next = IF i - 1 = Len(s) THEN None ELSE s[i]
      BY <1>1, <3>1 DEF IsList, Linked
    <3>4. QED
      BY <1>1, <2>2, <3>1, <3>2, <3>3 DEF Full, WalkBody
  <2>3. CASE i > 1 /\ i - 1 > Len(s)
    <3>1. W[i - 1] = None /\ W[i] = None
      BY <1>1, <2>3 DEF Full
    <3>2. NextIn(h)[None] = None
      BY DEF NextIn
    <3>3. QED
      BY <2>3, <3>1, <3>2 DEF WalkBody
  <2>4. QED
    BY <1>1, <2>1, <2>2, <2>3
<1>5. QED
  BY <1>4 DEF Full, WalkBody

LEMMA WalkIsFull ==
  ASSUME Legal, NEW h, NEW o, NEW s \in Seq(Nodes), IsList(h, o, s)
  PROVE  Walk(h, o) = Full(s)
<1> DEFINE N == Cardinality(Nodes)
           w == Walk(h, o)
           T == {i \in 1..N : w[i] # Full(s)[i]}
<1>1. Full(s) = WalkBody(h, o, Full(s))
  BY FullIsWalked
<1>2. w = WalkBody(h, o, w)
  BY <1>1 DEF Walk
<1>3. N \in Nat
  BY Short DEF IsList
<1>4. ASSUME T # {} PROVE FALSE
  <2> T \subseteq Nat
    BY <1>3
  <2> HIDE DEF T
  <2>1. PICK m \in T : \A n \in T : m <= n
    BY <1>4, LeastOf
  <2> USE DEF T
  <2>2. w[m] = IF m = 1 THEN o.head ELSE NextIn(h)[w[m - 1]]
    BY <1>2 DEF WalkBody
  <2>3. Full(s)[m] = IF m = 1 THEN o.head ELSE NextIn(h)[Full(s)[m - 1]]
    BY <1>1 DEF WalkBody
  <2>4. m # 1 => w[m - 1] = Full(s)[m - 1]
    BY <1>3, <2>1
  <2>5. QED
    BY <2>2, <2>3, <2>4
<1>5. \A i \in 1..N : w[i] = Full(s)[i]
  BY <1>4
<1>6. w = [i \in 1..N |-> w[i]]
  BY <1>2 DEF WalkBody
<1>7. Full(s) = [i \in 1..N |-> Full(s)[i]]
  BY DEF Full
<1> HIDE DEF w
<1>8. QED
  BY <1>5, <1>6, <1>7 DEF w

\* ListIn: the walk along next from the head gives the list of an object.
LEMMA ListIsListed ==
  ASSUME Legal, NEW h, NEW o, NEW s \in Seq(Nodes), IsList(h, o, s)
  PROVE  ListIn(h, o) = s
<1> DEFINE W == Full(s)
<1>1. Len(s) \in Nat /\ Cardinality(Nodes) \in Nat /\ Len(s) <= Cardinality(Nodes)
  BY Short DEF IsList
<1>2. {i \in DOMAIN W : W[i] # None} = 1..Len(s)
  <2>1. \A i \in 1..Len(s) : s[i] # None
    BY DEF Legal, NoneIsNoNode
  <2>2. QED
    BY <1>1, <2>1 DEF Full
<1>3. Cardinality(1..Len(s)) = Len(s)
  BY Short DEF IsList
<1>4. ListIn(h, o) = SubSeq(W, 1, Len(s))
  BY <1>2, <1>3, ListInWalk, WalkIsFull
<1>5. SubSeq(W, 1, Len(s)) = [i \in 1..Len(s) |-> s[i]]
  BY <1>1 DEF Full
<1>6. s = [i \in 1..Len(s) |-> s[i]]
  OBVIOUS
<1>7. QED
  BY <1>4, <1>5, <1>6

-----------------------------------------------------------------------------
(* What unlink and push_front do to the list of an object.                   *)

Gone(s, i) == [j \in 1..(Len(s) - 1) |-> IF j < i THEN s[j] ELSE s[j + 1]]

Pushed(n, s) == [j \in 1..(Len(s) + 1) |-> IF j = 1 THEN n ELSE s[j - 1]]

\* The heaps h and g have the same nodes with the same keys and values.
SameEntries(h, g) ==
  \A n \in Nodes :
    /\ h[n] = None => g[n] = None
    /\ h[n] \in NodeType => /\ g[n] \in NodeType
                            /\ g[n].key = h[n].key
                            /\ g[n].value = h[n].value

SameOutside(h, g, s) ==
  \A n \in Nodes : (\A i \in 1..Len(s) : s[i] # n) => g[n] = h[n]

SameCounters(o, q) ==
  q.cap = o.cap /\ q.num_items = o.num_items /\ q.index = o.index

LEMMA GoneIsSeq ==
  ASSUME NEW s \in Seq(Nodes), NEW i \in 1..Len(s)
  PROVE  /\ Gone(s, i) \in Seq(Nodes)
         /\ Len(s) \in Nat
         /\ Len(Gone(s, i)) = Len(s) - 1
<1>1. Len(s) \in Nat /\ Len(s) - 1 \in Nat
  OBVIOUS
<1>2. Gone(s, i) \in [1..(Len(s) - 1) -> Nodes]
  BY <1>1 DEF Gone
<1>3. QED
  BY <1>1, <1>2

LEMMA PushedIsSeq ==
  ASSUME NEW s \in Seq(Nodes), NEW n \in Nodes
  PROVE  /\ Pushed(n, s) \in Seq(Nodes)
         /\ Len(s) \in Nat
         /\ Len(Pushed(n, s)) = Len(s) + 1
<1>1. Len(s) \in Nat /\ Len(s) + 1 \in Nat
  OBVIOUS
<1>2. Pushed(n, s) \in [1..(Len(s) + 1) -> Nodes]
  BY <1>1 DEF Pushed
<1>3. QED
  BY <1>1, <1>2

\* A node with another prev or next.
SetPrev(r, p) == [r EXCEPT !.prev = p]
SetNext(r, x) == [r EXCEPT !.next = x]

LEMMA SettersFields ==
  \A r, n : r \in NodeType =>
    /\ SetPrev(r, n).key = r.key /\ SetPrev(r, n).value = r.value
    /\ SetPrev(r, n).prev = n /\ SetPrev(r, n).next = r.next
    /\ SetNext(r, n).key = r.key /\ SetNext(r, n).value = r.value
    /\ SetNext(r, n).prev = r.prev /\ SetNext(r, n).next = n
<1> SUFFICES ASSUME NEW r \in NodeType, NEW n
             PROVE  /\ SetPrev(r, n).key = r.key /\ SetPrev(r, n).value = r.value
                    /\ SetPrev(r, n).prev = n /\ SetPrev(r, n).next = r.next
                    /\ SetNext(r, n).key = r.key /\ SetNext(r, n).value = r.value
                    /\ SetNext(r, n).prev = r.prev /\ SetNext(r, n).next = n
  OBVIOUS
<1> QED
  BY DEF SetPrev, SetNext, NodeType

LEMMA SettersType ==
  \A r, n : r \in NodeType /\ n \in Nodes \cup {None} =>
    SetPrev(r, n) \in NodeType /\ SetNext(r, n) \in NodeType
<1> SUFFICES ASSUME NEW r \in NodeType, NEW n \in Nodes \cup {None}
             PROVE  SetPrev(r, n) \in NodeType /\ SetNext(r, n) \in NodeType
  OBVIOUS
<1> QED
  BY DEF SetPrev, SetNext, NodeType

\* The heap after unlink of node i of the list s.
LEMMA UnlinkedHeap ==
  ASSUME Legal, NEW m, m.heap \in HeapType,
         NEW s \in Seq(Nodes), IsList(m.heap, m.obj, s), NEW i \in 1..Len(s)
  PROVE  /\ unlink(m, s[i]).heap \in HeapType
         /\ \A n \in Nodes : unlink(m, s[i]).heap[n] =
              IF n = s[i] THEN SetNext(SetPrev(m.heap[n], None), None)
              ELSE IF i > 1 /\ n = s[i - 1]
                   THEN SetNext(m.heap[n], m.heap[s[i]].next)
              ELSE IF i < Len(s) /\ n = s[i + 1]
                   THEN SetPrev(m.heap[n], m.heap[s[i]].prev)
              ELSE m.heap[n]
<1> DEFINE h == m.heap
           p == h[s[i]].prev
           x == h[s[i]].next
           g1 == IF p = None THEN h ELSE [h EXCEPT ![p] = SetNext(h[p], x)]
           g2 == IF x = None THEN g1 ELSE [g1 EXCEPT ![x] = SetPrev(g1[x], p)]
           g3 == [g2 EXCEPT ![s[i]] = SetNext(SetPrev(g2[s[i]], None), None)]
<1>1. Len(s) \in Nat /\ \A j \in 1..Len(s) : s[j] \in Nodes /\ h[s[j]] \in NodeType
  BY DEF IsList, Linked
<1>2. /\ p = (IF i = 1 THEN None ELSE s[i - 1])
      /\ x = (IF i = Len(s) THEN None ELSE s[i + 1])
  BY DEF IsList, Linked
<1>3. p \in Nodes \cup {None} /\ x \in Nodes \cup {None} /\ None \notin Nodes
  BY <1>1 DEF NodeType, Legal, NoneIsNoNode
<1>4. /\ p # None => p # s[i] /\ h[p] \in NodeType /\ p # x
      /\ x # None => x # s[i] /\ h[x] \in NodeType
      /\ i > 1 <=> p # None
      /\ i < Len(s) <=> x # None
  <2>1. i > 1 => i - 1 \in 1..Len(s) BY <1>1
  <2>2. i < Len(s) => i + 1 \in 1..Len(s) BY <1>1
  <2>3. i > 1 <=> p # None
    BY <1>1, <1>2, <1>3, <2>1
  <2>4. i < Len(s) <=> x # None
    BY <1>1, <1>2, <1>3, <2>2
  <2>5. p # None => p # s[i] /\ h[p] \in NodeType
    BY <1>1, <1>2, <2>1, <2>3 DEF IsList, Distinct
  <2>6. x # None => x # s[i] /\ h[x] \in NodeType
    BY <1>1, <1>2, <2>2, <2>4 DEF IsList, Distinct
  <2>7. p # None => p # x
    <3>1. CASE x = None
      BY <3>1
    <3>2. CASE x # None /\ p # None
      BY <1>1, <1>2, <2>1, <2>2, <2>3, <2>4, <3>2 DEF IsList, Distinct
    <3>3. QED
      BY <3>1, <3>2
  <2>8. QED
    BY <2>3, <2>4, <2>5, <2>6, <2>7
<1>5. unlink(m, s[i]).heap = g3
  <2>1. g1 = IF p = None THEN h ELSE [h EXCEPT ![p].next = x]
    BY DEF SetNext
  <2>2. g2 = IF x = None THEN g1 ELSE [g1 EXCEPT ![x].prev = p]
    BY DEF SetPrev
  <2>3. QED
    BY ZenonT(30) DEF unlink, SetNext, SetPrev
<1> HIDE DEF p, x, h
<1>6. g1 \in [Nodes -> {None} \cup NodeType]
  BY <1>3, <1>4, SettersType DEF HeapType, h
<1>7. \A n \in Nodes : g1[n] = IF n = p THEN SetNext(h[n], x) ELSE h[n]
  BY <1>3 DEF HeapType, h
<1>8. x # None => g1[x] = h[x]
  BY <1>3, <1>4, <1>7
<1>9. g2 \in [Nodes -> {None} \cup NodeType]
  BY <1>3, <1>4, <1>6, <1>8, SettersType
<1> HIDE DEF g1
<1>10. \A n \in Nodes :
         g2[n] = IF n = x THEN SetPrev(h[n], p)
                 ELSE IF n = p THEN SetNext(h[n], x) ELSE h[n]
  BY <1>3, <1>6, <1>7, <1>8
<1>11. g2[s[i]] = h[s[i]] /\ h[s[i]] \in NodeType /\ s[i] \in Nodes
  BY <1>1, <1>3, <1>4, <1>10
<1> HIDE DEF g2
<1>12. g3 \in HeapType
  BY <1>9, <1>11, SettersType DEF HeapType
<1>13. \A n \in Nodes :
         g3[n] = IF n = s[i] THEN SetNext(SetPrev(h[n], None), None) ELSE g2[n]
  BY <1>9, <1>11
<1> HIDE DEF g3
<1>14. ASSUME NEW n \in Nodes
       PROVE  g3[n] = IF n = s[i] THEN SetNext(SetPrev(h[n], None), None)
                      ELSE IF i > 1 /\ n = s[i - 1] THEN SetNext(h[n], x)
                      ELSE IF i < Len(s) /\ n = s[i + 1] THEN SetPrev(h[n], p)
                      ELSE h[n]
  <2>1. CASE n = s[i]
    BY <1>13, <2>1
  <2>2. CASE n # s[i] /\ i > 1 /\ n = s[i - 1]
    BY <1>1, <1>2, <1>3, <1>4, <1>10, <1>13, <2>2
  <2>3. CASE n # s[i] /\ ~(i > 1 /\ n = s[i - 1])
    BY <1>1, <1>2, <1>3, <1>4, <1>10, <1>13, <2>3
  <2>4. QED
    BY <2>1, <2>2, <2>3
<1>15. QED
  BY <1>12, <1>5, <1>14 DEF h, p, x

\* A heap that differs from h as unlink of node i makes it differ.
Unlinks(h, g, s, i) ==
  \A n \in Nodes : g[n] =
    IF n = s[i] THEN SetNext(SetPrev(h[n], None), None)
    ELSE IF i > 1 /\ n = s[i - 1] THEN SetNext(h[n], h[s[i]].next)
    ELSE IF i < Len(s) /\ n = s[i + 1] THEN SetPrev(h[n], h[s[i]].prev)
    ELSE h[n]

LEMMA UnlinkedLinks ==
  ASSUME NEW h, NEW g, NEW s \in Seq(Nodes), Distinct(s), Linked(h, s),
         NEW i \in 1..Len(s), Unlinks(h, g, s, i),
         \A j \in 1..Len(s) : g[s[j]] \in NodeType
  PROVE  Linked(g, Gone(s, i))
<1> DEFINE t == Gone(s, i)
<1>1. Len(s) \in Nat /\ Len(t) = Len(s) - 1
  BY GoneIsSeq
<1>2. \A j \in 1..(Len(s) - 1) : t[j] = IF j < i THEN s[j] ELSE s[j + 1]
  BY DEF Gone
<1> HIDE DEF t
<1>3. SUFFICES ASSUME NEW j \in 1..(Len(s) - 1)
               PROVE  /\ g[t[j]] \in NodeType
                      /\ g[t[j]].prev = IF j = 1 THEN None ELSE t[j - 1]
                      /\ g[t[j]].next = IF j = Len(t) THEN None ELSE t[j + 1]
  BY <1>1 DEF Linked, t
<1> DEFINE k == IF j < i THEN j ELSE j + 1
<1>4. k \in 1..Len(s) /\ k # i /\ t[j] = s[k] /\ s[k] \in Nodes /\ s[k] # s[i]
  BY <1>1, <1>2 DEF Distinct
<1>5. /\ h[s[k]] \in NodeType
      /\ h[s[k]].prev = IF k = 1 THEN None ELSE s[k - 1]
      /\ h[s[k]].next = IF k = Len(s) THEN None ELSE s[k + 1]
      /\ h[s[i]].prev = IF i = 1 THEN None ELSE s[i - 1]
      /\ h[s[i]].next = IF i = Len(s) THEN None ELSE s[i + 1]
  BY <1>4 DEF Linked
<1>6. /\ k = i - 1 <=> (i > 1 /\ s[k] = s[i - 1])
      /\ k = i + 1 <=> (i < Len(s) /\ s[k] = s[i + 1])
  <2>1. i > 1 => i - 1 \in 1..Len(s) BY <1>1
  <2>2. i < Len(s) => i + 1 \in 1..Len(s) BY <1>1
  <2>3. QED BY <1>1, <1>4, <2>1, <2>2 DEF Distinct
<1>7. g[t[j]] \in NodeType
  BY <1>4
<1>8. CASE k = i - 1
  <2>1. g[s[k]] = SetNext(h[s[k]], h[s[i]].next)
    BY <1>4, <1>6, <1>8 DEF Unlinks
  <2>2. g[s[k]].prev = h[s[k]].prev /\ g[s[k]].next = h[s[i]].next
    BY <1>5, <2>1, SettersFields
  <2>3. /\ j # 1 => t[j - 1] = s[k - 1]
        /\ j # Len(t) => t[j + 1] = s[i + 1]
    BY <1>1, <1>2, <1>8
  <2>4. QED
    BY <1>1, <1>4, <1>5, <1>7, <1>8, <2>2, <2>3
<1>9. CASE k = i + 1
  <2>1. g[s[k]] = SetPrev(h[s[k]], h[s[i]].prev)
    BY <1>1, <1>4, <1>6, <1>9 DEF Unlinks
  <2>2. g[s[k]].prev = h[s[i]].prev /\ g[s[k]].next = h[s[k]].next
    BY <1>5, <2>1, SettersFields
  <2>3. /\ j # 1 => t[j - 1] = s[i - 1]
        /\ j # Len(t) => t[j + 1] = s[k + 1]
    BY <1>1, <1>2, <1>9
  <2>4. QED
    BY <1>1, <1>4, <1>5, <1>7, <1>9, <2>2, <2>3
<1>10. CASE k # i - 1 /\ k # i + 1
  <2>1. g[s[k]] = h[s[k]]
    BY <1>4, <1>6, <1>10 DEF Unlinks
  <2>2. /\ j # 1 => t[j - 1] = s[k - 1]
        /\ j # Len(t) => t[j + 1] = s[k + 1]
    <3>1. CASE j < i
      BY <1>1, <1>2, <1>10, <3>1
    <3>2. CASE j > i
      <4>1. t[j - 1] = s[j]
        <5>1. j - 1 \in 1..(Len(s) - 1) /\ ~(j - 1 < i) /\ (j - 1) + 1 = j
          BY <1>1, <3>2
        <5>2. t[j - 1] = s[(j - 1) + 1]
          BY <1>2, <5>1
        <5>3. QED
          BY <5>1, <5>2
      <4>2. ASSUME j # Len(t) PROVE t[j + 1] = s[j + 2]
        <5>1. j + 1 \in 1..(Len(s) - 1) /\ ~(j + 1 < i) /\ (j + 1) + 1 = j + 2
          BY <1>1, <3>2, <4>2
        <5>2. t[j + 1] = s[(j + 1) + 1]
          BY <1>2, <5>1
        <5>3. QED
          BY <5>1, <5>2
      <4>3. k - 1 = j /\ k + 1 = j + 2
        BY <3>2
      <4>4. QED
        BY <4>1, <4>2, <4>3
    <3>3. QED
      BY <1>1, <1>10, <3>1, <3>2
  <2>3. QED
    BY <1>1, <1>4, <1>5, <1>7, <1>10, <2>1, <2>2
<1>11. QED
  BY <1>8, <1>9, <1>10

LEMMA UnlinksKeeps ==
  ASSUME Legal, NEW h \in HeapType, NEW g, NEW s \in Seq(Nodes), Distinct(s),
         Linked(h, s), NEW i \in 1..Len(s), Unlinks(h, g, s, i)
  PROVE  SameEntries(h, g) /\ SameOutside(h, g, s)
<1>1. Len(s) \in Nat /\ \A j \in 1..Len(s) : s[j] \in Nodes /\ h[s[j]] \in NodeType
  BY DEF Linked
<1>2. h[s[i]].prev \in Nodes \cup {None} /\ h[s[i]].next \in Nodes \cup {None}
  BY <1>1 DEF NodeType
<1>3. /\ i > 1 => i - 1 \in 1..Len(s)
      /\ i < Len(s) => i + 1 \in 1..Len(s)
  BY <1>1
<1>4. SameOutside(h, g, s)
  BY <1>1, <1>3 DEF SameOutside, Unlinks
<1>5. ASSUME NEW n \in Nodes
      PROVE  /\ h[n] = None => g[n] = None
             /\ h[n] \in NodeType => /\ g[n] \in NodeType
                                     /\ g[n].key = h[n].key
                                     /\ g[n].value = h[n].value
  <2>1. CASE n = s[i]
    <3>1. h[n] \in NodeType /\ h[n] # None /\ g[n] = SetNext(SetPrev(h[n], None), None)
      BY <1>1, <2>1 DEF Unlinks, Legal, NoneIsNoNode
    <3>2. SetPrev(h[n], None) \in NodeType
      BY <3>1, SettersType
    <3>3. QED
      BY <3>1, <3>2, SettersType, SettersFields
  <2>2. CASE n # s[i] /\ i > 1 /\ n = s[i - 1]
    <3>1. h[n] \in NodeType /\ h[n] # None /\ g[n] = SetNext(h[n], h[s[i]].next)
      BY <1>1, <1>3, <2>2 DEF Unlinks, Legal, NoneIsNoNode
    <3>2. QED
      BY <1>2, <3>1, SettersType, SettersFields
  <2>3. CASE n # s[i] /\ ~(i > 1 /\ n = s[i - 1]) /\ i < Len(s) /\ n = s[i + 1]
    <3>1. h[n] \in NodeType /\ h[n] # None /\ g[n] = SetPrev(h[n], h[s[i]].prev)
      BY <1>1, <1>3, <2>3 DEF Unlinks, Legal, NoneIsNoNode
    <3>2. QED
      BY <1>2, <3>1, SettersType, SettersFields
  <2>4. CASE n # s[i] /\ ~(i > 1 /\ n = s[i - 1]) /\ ~(i < Len(s) /\ n = s[i + 1])
    <3>1. g[n] = h[n]
      BY <2>4 DEF Unlinks
    <3>2. QED
      BY <3>1
  <2>5. QED
    BY <2>1, <2>2, <2>3, <2>4
<1>6. QED
  BY <1>4, <1>5 DEF SameEntries

LEMMA UnlinkedEnds ==
  ASSUME Legal, NEW m, m.obj \in CacheType,
         NEW s \in Seq(Nodes), IsList(m.heap, m.obj, s), NEW i \in 1..Len(s)
  PROVE  /\ unlink(m, s[i]).obj \in CacheType
         /\ SameCounters(m.obj, unlink(m, s[i]).obj)
         /\ Ends(unlink(m, s[i]).obj, Gone(s, i))
<1> DEFINE o == m.obj
           p == m.heap[s[i]].prev
           x == m.heap[s[i]].next
           q == [o EXCEPT !.head = IF p = None THEN x ELSE @,
                          !.tail = IF x = None THEN p ELSE @]
           t == Gone(s, i)
<1>1. Len(s) \in Nat /\ Len(t) = Len(s) - 1
  BY GoneIsSeq
<1>2. /\ p = (IF i = 1 THEN None ELSE s[i - 1])
      /\ x = (IF i = Len(s) THEN None ELSE s[i + 1])
      /\ o.head = s[1] /\ o.tail = s[Len(s)]
  BY <1>1 DEF IsList, Linked, Ends
<1>3. /\ i # 1 => p \in Nodes /\ p # None
      /\ i = 1 => p = None
      /\ i # Len(s) => x \in Nodes /\ x # None
      /\ i = Len(s) => x = None
  <2>1. i > 1 => i - 1 \in 1..Len(s) BY <1>1
  <2>2. i < Len(s) => i + 1 \in 1..Len(s) BY <1>1
  <2>3. QED BY <1>1, <1>2, <2>1, <2>2 DEF Legal, NoneIsNoNode
<1>4. unlink(m, s[i]).obj = q
  BY DEF unlink
<1> HIDE DEF p, x, o
<1>5. /\ q.head = (IF p = None THEN x ELSE o.head)
      /\ q.tail = (IF x = None THEN p ELSE o.tail)
      /\ SameCounters(o, q)
  BY DEF CacheType, o, SameCounters
<1>6. q \in CacheType
  BY <1>3 DEF CacheType, o
<1> HIDE DEF q
<1>7. /\ i = 1 => q.head = x
      /\ i # 1 => q.head = s[1]
      /\ i = Len(s) => q.tail = p
      /\ i # Len(s) => q.tail = s[Len(s)]
  BY <1>2, <1>3, <1>5
<1>8. q.head = IF Len(t) = 0 THEN None ELSE t[1]
  <2>1. CASE Len(s) = 1
    BY <1>1, <1>3, <1>7, <2>1
  <2>2. CASE Len(s) > 1 /\ i = 1
    <3>1. t[1] = s[2]
      BY <1>1, <2>2 DEF Gone
    <3>2. q.head = s[2]
      BY <1>2, <1>7, <2>2
    <3>3. QED
      BY <1>1, <2>2, <3>1, <3>2
  <2>3. CASE Len(s) > 1 /\ i # 1
    <3>1. t[1] = s[1]
      BY <1>1, <2>3 DEF Gone
    <3>2. QED
      BY <1>1, <1>7, <2>3, <3>1
  <2>4. QED
    BY <1>1, <2>1, <2>2, <2>3
<1>9. q.tail = IF Len(t) = 0 THEN None ELSE t[Len(t)]
  <2>1. CASE Len(s) = 1
    BY <1>1, <1>3, <1>7, <2>1
  <2>2. CASE Len(s) > 1 /\ i = Len(s)
    <3>1. t[Len(s) - 1] = s[Len(s) - 1]
      BY <1>1, <2>2 DEF Gone
    <3>2. q.tail = s[Len(s) - 1]
      BY <1>2, <1>7, <2>2
    <3>3. QED
      BY <1>1, <2>2, <3>1, <3>2
  <2>3. CASE Len(s) > 1 /\ i # Len(s)
    <3>1. Len(s) - 1 \in 1..(Len(s) - 1) /\ ~(Len(s) - 1 < i) /\ (Len(s) - 1) + 1 = Len(s)
      BY <1>1, <2>3
    <3>2. t[Len(s) - 1] = s[(Len(s) - 1) + 1]
      BY <3>1 DEF Gone
    <3>3. QED
      BY <1>1, <1>7, <2>3, <3>1, <3>2
  <2>4. QED
    BY <1>1, <2>1, <2>2, <2>3
<1>10. QED
  BY <1>4, <1>5, <1>6, <1>8, <1>9 DEF o, Ends

LEMMA DistinctGone ==
  ASSUME NEW s \in Seq(Nodes), Distinct(s), NEW i \in 1..Len(s)
  PROVE  Distinct(Gone(s, i))
<1> DEFINE t == Gone(s, i)
<1>1. Len(s) \in Nat /\ Len(t) = Len(s) - 1
  BY GoneIsSeq
<1>2. \A j \in 1..(Len(s) - 1) : t[j] = s[IF j < i THEN j ELSE j + 1]
  BY DEF Gone
<1> HIDE DEF t
<1>3. \A a, b \in 1..(Len(s) - 1) : t[a] = t[b] => a = b
  BY <1>1, <1>2 DEF Distinct
<1>4. QED
  BY <1>1, <1>3 DEF Distinct, t

\* unlink of node i takes it off the list and changes nothing else about it.
LEMMA Unlinked ==
  ASSUME Legal, NEW m, m.heap \in HeapType, m.obj \in CacheType,
         NEW s \in Seq(Nodes), IsList(m.heap, m.obj, s), NEW i \in 1..Len(s)
  PROVE  LET u == unlink(m, s[i])
         IN  /\ u.heap \in HeapType /\ u.obj \in CacheType
             /\ SameCounters(m.obj, u.obj)
             /\ IsList(u.heap, u.obj, Gone(s, i))
             /\ SameEntries(m.heap, u.heap)
             /\ SameOutside(m.heap, u.heap, s)
<1> DEFINE g == unlink(m, s[i]).heap
           q == unlink(m, s[i]).obj
<1>1. g \in HeapType /\ Unlinks(m.heap, g, s, i)
  BY UnlinkedHeap DEF Unlinks
<1>2. q \in CacheType /\ SameCounters(m.obj, q) /\ Ends(q, Gone(s, i))
  BY UnlinkedEnds
<1> HIDE DEF g, q
<1>3. Distinct(s) /\ Linked(m.heap, s)
  BY DEF IsList
<1>4. SameEntries(m.heap, g) /\ SameOutside(m.heap, g, s)
  BY <1>1, <1>3, UnlinksKeeps
<1>5. \A j \in 1..Len(s) : g[s[j]] \in NodeType
  BY <1>3, <1>4 DEF SameEntries, Linked
<1>6. Linked(g, Gone(s, i))
  BY <1>1, <1>3, <1>5, UnlinkedLinks
<1>7. IsList(g, q, Gone(s, i))
  BY <1>2, <1>3, <1>6, DistinctGone DEF IsList
<1>8. QED
  BY <1>1, <1>2, <1>4, <1>7 DEF g, q

NotOn(n, s) == \A i \in 1..Len(s) : s[i] # n

\* push_front puts a node that is not on the list in front of it.
LEMMA PushedFrontHeap ==
  ASSUME Legal, NEW m, m.heap \in HeapType,
         NEW s \in Seq(Nodes), IsList(m.heap, m.obj, s),
         NEW n \in Nodes, m.heap[n] \in NodeType, NotOn(n, s)
  PROVE  /\ push_front(m, n).heap \in HeapType
         /\ \A x \in Nodes : push_front(m, n).heap[x] =
              IF x = n
              THEN SetNext(SetPrev(m.heap[x], None),
                           IF Len(s) = 0 THEN None ELSE s[1])
              ELSE IF Len(s) > 0 /\ x = s[1] THEN SetPrev(m.heap[x], n)
              ELSE m.heap[x]
<1> DEFINE h == m.heap
           f == m.obj.head
           g1 == [h EXCEPT ![n] = SetNext(SetPrev(h[n], None), f)]
           g2 == IF f = None THEN g1 ELSE [g1 EXCEPT ![f] = SetPrev(g1[f], n)]
<1>1. Len(s) \in Nat /\ \A j \in 1..Len(s) : s[j] \in Nodes /\ h[s[j]] \in NodeType
  BY DEF IsList, Linked
<1>2. /\ f = IF Len(s) = 0 THEN None ELSE s[1]
      /\ Len(s) # 0 <=> f # None
      /\ f # None => f \in Nodes /\ f # n /\ h[f] \in NodeType
      /\ f \in Nodes \cup {None}
  <2>1. f = IF Len(s) = 0 THEN None ELSE s[1]
    BY DEF IsList, Ends
  <2>2. Len(s) # 0 => 1 \in 1..Len(s)
    BY <1>1
  <2>3. QED
    BY <1>1, <2>1, <2>2 DEF NotOn, Legal, NoneIsNoNode
<1>3. push_front(m, n).heap = g2
  BY DEF push_front, SetNext, SetPrev
<1> HIDE DEF f, h
<1>4. h[n] \in NodeType /\ h \in [Nodes -> {None} \cup NodeType]
  BY DEF h, HeapType
<1>5. SetPrev(h[n], None) \in NodeType
  BY <1>4, SettersType
<1>6. SetNext(SetPrev(h[n], None), f) \in NodeType
  BY <1>2, <1>5, SettersType
<1>7. g1 \in [Nodes -> {None} \cup NodeType]
  BY <1>4, <1>6
<1>8. \A x \in Nodes : g1[x] = IF x = n THEN SetNext(SetPrev(h[x], None), f) ELSE h[x]
  BY <1>4
<1> HIDE DEF g1
<1>9. f # None => g1[f] = h[f] /\ SetPrev(g1[f], n) \in NodeType
  BY <1>2, <1>8, SettersType
<1>10. g2 \in HeapType
  BY <1>2, <1>7, <1>9 DEF HeapType
<1>11. \A x \in Nodes : g2[x] =
         IF x = n THEN SetNext(SetPrev(h[x], None), f)
         ELSE IF f # None /\ x = f THEN SetPrev(h[x], n) ELSE h[x]
  BY <1>2, <1>7, <1>8, <1>9
<1> HIDE DEF g2
<1>12. ASSUME NEW x \in Nodes
       PROVE  g2[x] = IF x = n
                      THEN SetNext(SetPrev(h[x], None),
                                   IF Len(s) = 0 THEN None ELSE s[1])
                      ELSE IF Len(s) > 0 /\ x = s[1] THEN SetPrev(h[x], n)
                      ELSE h[x]
  BY <1>1, <1>2, <1>11
<1>13. QED
  BY <1>3, <1>10, <1>12 DEF h

LEMMA PushedFront ==
  ASSUME Legal, NEW m, m.heap \in HeapType, m.obj \in CacheType,
         NEW s \in Seq(Nodes), IsList(m.heap, m.obj, s),
         NEW n \in Nodes, m.heap[n] \in NodeType, NotOn(n, s)
  PROVE  LET p == push_front(m, n)
         IN  /\ p.heap \in HeapType /\ p.obj \in CacheType
             /\ SameCounters(m.obj, p.obj)
             /\ IsList(p.heap, p.obj, Pushed(n, s))
             /\ SameEntries(m.heap, p.heap)
             /\ SameOutside(m.heap, p.heap, Pushed(n, s))
<1> DEFINE h == m.heap
           o == m.obj
           g == push_front(m, n).heap
           q == push_front(m, n).obj
           t == Pushed(n, s)
<1>1. /\ g \in HeapType
      /\ \A x \in Nodes : g[x] =
              IF x = n
              THEN SetNext(SetPrev(h[x], None),
                           IF Len(s) = 0 THEN None ELSE s[1])
              ELSE IF Len(s) > 0 /\ x = s[1] THEN SetPrev(h[x], n)
              ELSE h[x]
  BY PushedFrontHeap
<1>2. q = [o EXCEPT !.head = n, !.tail = IF @ = None THEN n ELSE @]
  BY DEF push_front
<1> HIDE DEF g, q
<1>3. /\ Len(s) \in Nat /\ t \in Seq(Nodes) /\ Len(t) = Len(s) + 1
      /\ \A j \in 1..Len(s) : s[j] \in Nodes /\ h[s[j]] \in NodeType
  BY PushedIsSeq DEF IsList, Linked
<1>4. \A j \in 1..(Len(s) + 1) : t[j] = IF j = 1 THEN n ELSE s[j - 1]
  BY DEF Pushed
<1>5. /\ o.head = IF Len(s) = 0 THEN None ELSE s[1]
      /\ o.tail = IF Len(s) = 0 THEN None ELSE s[Len(s)]
  BY DEF IsList, Ends
<1> HIDE DEF t
<1>6. q \in CacheType /\ SameCounters(o, q)
      /\ q.head = n /\ q.tail = IF o.tail = None THEN n ELSE o.tail
  BY <1>2 DEF CacheType, SameCounters
<1>7. Ends(q, t)
  <2>1. CASE Len(s) = 0
    BY <1>3, <1>4, <1>5, <1>6, <2>1 DEF Ends
  <2>2. CASE Len(s) # 0
    <3>1. Len(s) \in 1..Len(s) /\ Len(s) + 1 \in 1..(Len(s) + 1) /\ Len(s) + 1 # 1
          /\ 1 \in 1..(Len(s) + 1) /\ (Len(s) + 1) - 1 = Len(s)
      BY <1>3, <2>2
    <3>2. t[Len(s) + 1] = s[(Len(s) + 1) - 1] /\ t[1] = n
      BY <1>4, <3>1
    <3>3. s[Len(s)] # None
      BY <1>3, <3>1 DEF Legal, NoneIsNoNode
    <3>4. QED
      BY <1>3, <1>5, <1>6, <2>2, <3>1, <3>2, <3>3 DEF Ends
  <2>3. QED
    BY <2>1, <2>2
<1>8. Distinct(t)
  <2> SUFFICES ASSUME NEW a \in 1..(Len(s) + 1), NEW b \in 1..(Len(s) + 1), t[a] = t[b]
               PROVE  a = b
    BY <1>3 DEF Distinct
  <2>1. /\ a # 1 => a - 1 \in 1..Len(s)
        /\ b # 1 => b - 1 \in 1..Len(s)
    BY <1>3
  <2>2. a # 1 /\ b # 1 => a - 1 = b - 1
    BY <1>4, <2>1 DEF IsList, Distinct
  <2>3. QED
    BY <1>3, <1>4, <2>1, <2>2 DEF NotOn
<1>9. SameEntries(h, g)
  <2> SUFFICES ASSUME NEW x \in Nodes
               PROVE  /\ h[x] = None => g[x] = None
                      /\ h[x] \in NodeType => /\ g[x] \in NodeType
                                              /\ g[x].key = h[x].key
                                              /\ g[x].value = h[x].value
    BY DEF SameEntries
  <2> DEFINE f == IF Len(s) = 0 THEN None ELSE s[1]
  <2>0. Len(s) > 0 => 1 \in 1..Len(s)
    BY <1>3
  <2>1. f \in Nodes \cup {None}
    BY <1>3, <2>0
  <2>2. CASE x = n
    <3>1. h[x] \in NodeType /\ h[x] # None
          /\ g[x] = SetNext(SetPrev(h[x], None), f)
      BY <1>1, <2>2 DEF Legal, NoneIsNoNode
    <3> HIDE DEF f
    <3>2. SetPrev(h[x], None) \in NodeType
      BY <3>1, SettersType
    <3>3. QED
      BY <2>1, <3>1, <3>2, SettersType, SettersFields
  <2>3. CASE x # n /\ Len(s) > 0 /\ x = s[1]
    <3>1. h[x] \in NodeType /\ h[x] # None /\ g[x] = SetPrev(h[x], n)
      BY <1>1, <1>3, <2>0, <2>3 DEF Legal, NoneIsNoNode
    <3>2. QED
      BY <3>1, SettersType, SettersFields
  <2>4. CASE x # n /\ ~(Len(s) > 0 /\ x = s[1])
    <3>1. g[x] = h[x]
      BY <1>1, <2>4
    <3>2. QED
      BY <3>1
  <2>5. QED
    BY <2>2, <2>3, <2>4
<1>10. SameOutside(h, g, t)
  <2> SUFFICES ASSUME NEW x \in Nodes, \A j \in 1..Len(t) : t[j] # x
               PROVE  g[x] = h[x]
    BY DEF SameOutside
  <2>1. t[1] = n /\ 1 \in 1..Len(t)
    BY <1>3, <1>4
  <2>2. Len(s) > 0 => 2 \in 1..Len(t) /\ t[2] = s[1]
    <3>1. Len(s) > 0 => 2 \in 1..(Len(s) + 1) /\ 2 - 1 = 1
      BY <1>3
    <3>2. Len(s) > 0 => t[2] = s[2 - 1]
      BY <1>4, <3>1
    <3>3. QED
      BY <1>3, <3>1, <3>2
  <2>3. QED
    BY <1>1, <2>1, <2>2
<1>11. Linked(g, t)
  <2> SUFFICES ASSUME NEW j \in 1..(Len(s) + 1)
               PROVE  /\ g[t[j]] \in NodeType
                      /\ g[t[j]].prev = IF j = 1 THEN None ELSE t[j - 1]
                      /\ g[t[j]].next = IF j = Len(t) THEN None ELSE t[j + 1]
    BY <1>3 DEF Linked
  <2>1. CASE j = 1
    <3>1. t[j] = n /\ g[n] = SetNext(SetPrev(h[n], None), IF Len(s) = 0 THEN None ELSE s[1])
      BY <1>1, <1>4, <2>1
    <3>2. SetPrev(h[n], None) \in NodeType /\ SetPrev(h[n], None).prev = None
      BY SettersType, SettersFields
    <3>3. g[n].prev = None /\ g[n].next = IF Len(s) = 0 THEN None ELSE s[1]
      BY <3>1, <3>2, SettersFields
    <3>4. Len(s) # 0 => t[j + 1] = s[1]
      <4>1. Len(s) # 0 => j + 1 \in 1..(Len(s) + 1) /\ (j + 1) - 1 = 1
        BY <1>3, <2>1
      <4>2. Len(s) # 0 => t[j + 1] = s[(j + 1) - 1]
        BY <1>4, <2>1, <4>1
      <4>3. QED
        BY <4>1, <4>2
    <3>5. g[n] \in NodeType
      BY <1>9 DEF SameEntries
    <3>6. j = Len(t) <=> Len(s) = 0
      BY <1>3, <2>1
    <3>7. QED
      BY <2>1, <3>1, <3>3, <3>4, <3>5, <3>6
  <2>2. CASE j # 1
    <3> DEFINE k == j - 1
    <3>1. k \in 1..Len(s) /\ t[j] = s[k] /\ s[k] # n /\ s[k] \in Nodes
      BY <1>3, <1>4, <2>2 DEF NotOn
    <3>2. /\ h[s[k]] \in NodeType
          /\ h[s[k]].prev = IF k = 1 THEN None ELSE s[k - 1]
          /\ h[s[k]].next = IF k = Len(s) THEN None ELSE s[k + 1]
      BY <3>1 DEF IsList, Linked
    <3>3. g[s[k]] \in NodeType
      BY <1>9, <3>1, <3>2 DEF SameEntries
    <3>4. j # Len(t) => t[j + 1] = s[k + 1]
      <4>1. j # Len(t) => j + 1 \in 1..(Len(s) + 1) /\ j + 1 # 1 /\ (j + 1) - 1 = k + 1
        BY <1>3, <2>2
      <4>2. j # Len(t) => t[j + 1] = s[(j + 1) - 1]
        BY <1>4, <4>1
      <4>3. QED
        BY <4>1, <4>2
    <3>5. j = Len(t) <=> k = Len(s)
      BY <1>3
    <3>6. s[k] = s[1] <=> k = 1
      <4>1. 1 \in 1..Len(s)
        BY <1>3, <3>1
      <4>2. QED
        BY <3>1, <4>1 DEF IsList, Distinct
    <3>7. CASE k = 1
      <4>1. g[s[k]] = SetPrev(h[s[k]], n)
        BY <1>1, <1>3, <3>1, <3>6, <3>7
      <4>2. g[s[k]].prev = n /\ g[s[k]].next = h[s[k]].next
        BY <3>2, <4>1, SettersFields
      <4>3. t[j - 1] = n
        BY <1>3, <1>4, <3>7
      <4>4. QED
        BY <2>2, <3>1, <3>2, <3>3, <3>4, <3>5, <4>2, <4>3
    <3>8. CASE k # 1
      <4>1. g[s[k]] = h[s[k]]
        BY <1>1, <1>3, <3>1, <3>6, <3>8
      <4>2. k \in 1..(Len(s) + 1) /\ t[k] = s[k - 1]
        BY <1>3, <1>4, <3>1, <3>8
      <4>3. QED
        BY <2>2, <3>1, <3>2, <3>3, <3>4, <3>5, <3>8, <4>1, <4>2
    <3>9. QED
      BY <3>7, <3>8
  <2>3. QED
    BY <2>1, <2>2
<1>12. QED
  BY <1>1, <1>6, <1>7, <1>8, <1>9, <1>10, <1>11 DEF g, q, t, h, o, IsList

-----------------------------------------------------------------------------
(* The invariant: L[c] is the list of cache c.                               *)

IndexAgrees(h, o, s) ==
  /\ \A k \in Keys : o.index[k] # None =>
       \E i \in 1..Len(s) : s[i] = o.index[k] /\ h[s[i]].key = k
  /\ \A i \in 1..Len(s) : o.index[h[s[i]].key] = s[i]

Fits(o, s) == o.num_items = Len(s) /\ (o.cap > 0 => Len(s) <= o.cap)

Apart(L) ==
  \A c, d \in Caches : c # d => \A i \in 1..Len(L[c]) : NotOn(L[c][i], L[d])

Owned(h, L) ==
  \A n \in Nodes : h[n] # None => \E c \in Caches : ~NotOn(n, L[c])

Good(h, C, mv, L) ==
  /\ h \in HeapType /\ C \in [Caches -> CacheType] /\ L \in [Caches -> Seq(Nodes)]
  /\ mv \in SUBSET Caches
  /\ \A c \in Caches : IsList(h, C[c], L[c]) /\ Fits(C[c], L[c])
  /\ Apart(L) /\ Owned(h, L)
  /\ \A c \in Caches \ mv : IndexAgrees(h, C[c], L[c])
  /\ \A c \in mv : L[c] = <<>>

\* The node at n, in g as in h, whenever n is on s.
SameOn(h, g, s) == \A i \in 1..Len(s) : g[s[i]] = h[s[i]]

LEMMA Untouched ==
  ASSUME NEW h, NEW g, NEW o, NEW s, SameOn(h, g, s)
  PROVE  /\ IsList(h, o, s) => IsList(g, o, s)
         /\ IndexAgrees(h, o, s) => IndexAgrees(g, o, s)
<1>1. Linked(h, s) => Linked(g, s)
  BY DEF SameOn, Linked
<1>2. IndexAgrees(h, o, s) => IndexAgrees(g, o, s)
  BY DEF SameOn, IndexAgrees
<1>3. QED
  BY <1>1, <1>2 DEF IsList

\* One cache's list changes from L[c] to t; what leaves the list is deleted and
\* what comes was not allocated.
LEMMA OneListChanges ==
  ASSUME Legal, NEW h, NEW C, NEW mv, NEW L, Good(h, C, mv, L),
         NEW c \in Caches, NEW g \in HeapType, NEW q \in CacheType,
         NEW t \in Seq(Nodes), IsList(g, q, t), Fits(q, t), IndexAgrees(g, q, t),
         \A n \in Nodes : NotOn(n, t) /\ NotOn(n, L[c]) => g[n] = h[n],
         \A n \in Nodes : NotOn(n, t) /\ ~NotOn(n, L[c]) => g[n] = None,
         \A i \in 1..Len(t) : NotOn(t[i], L[c]) => h[t[i]] = None
  PROVE  Good(g, [C EXCEPT ![c] = q], mv \ {c}, [L EXCEPT ![c] = t])
<1> DEFINE D == [C EXCEPT ![c] = q]
           M == [L EXCEPT ![c] = t]
<1>1. /\ D \in [Caches -> CacheType] /\ M \in [Caches -> Seq(Nodes)]
      /\ D[c] = q /\ M[c] = t
      /\ \A d \in Caches \ {c} : D[d] = C[d] /\ M[d] = L[d]
      /\ mv \ {c} \in SUBSET Caches
  BY DEF Good
<1> HIDE DEF D, M
<1>2. \A d \in Caches : \A i \in 1..Len(L[d]) :
        L[d][i] \in Nodes /\ h[L[d][i]] \in NodeType /\ h[L[d][i]] # None
  BY DEF Good, IsList, Linked, Legal, NoneIsNoNode
<1>3. ASSUME NEW d \in Caches \ {c}, NEW i \in 1..Len(L[d])
      PROVE  NotOn(L[d][i], t) /\ NotOn(L[d][i], L[c])
  <2>1. NotOn(L[d][i], L[c])
    BY DEF Good, Apart
  <2>2. \A j \in 1..Len(t) : t[j] # L[d][i]
    BY <1>2, <2>1
  <2>3. QED
    BY <2>1, <2>2 DEF NotOn
<1>4. \A d \in Caches \ {c} : SameOn(h, g, L[d])
  BY <1>2, <1>3 DEF SameOn
<1>5. \A d \in Caches : IsList(g, D[d], M[d]) /\ Fits(D[d], M[d])
  BY <1>1, <1>4, Untouched DEF Good
<1>6. \A d \in Caches \ (mv \ {c}) : IndexAgrees(g, D[d], M[d])
  BY <1>1, <1>4, Untouched DEF Good
<1>7. Apart(M)
  <2> SUFFICES ASSUME NEW a \in Caches, NEW b \in Caches, a # b,
                      NEW i \in 1..Len(M[a])
               PROVE  NotOn(M[a][i], M[b])
    BY DEF Apart
  <2>1. CASE a # c /\ b # c
    BY <1>1, <2>1 DEF Good, Apart
  <2>2. CASE a # c /\ b = c
    BY <1>1, <1>3, <2>2
  <2>3. CASE a = c
    <3>1. \A j \in 1..Len(M[b]) : NotOn(M[b][j], t)
      BY <1>1, <1>3, <2>3
    <3>2. QED
      BY <1>1, <2>3, <3>1 DEF NotOn
  <2>4. QED
    BY <2>1, <2>2, <2>3
<1>8. Owned(g, M)
  <2> SUFFICES ASSUME NEW n \in Nodes, g[n] # None
               PROVE  \E d \in Caches : ~NotOn(n, M[d])
    BY DEF Owned
  <2>1. CASE ~NotOn(n, t)
    BY <1>1, <2>1
  <2>2. CASE NotOn(n, t)
    <3>1. NotOn(n, L[c]) /\ g[n] = h[n]
      BY <2>2
    <3>2. PICK d \in Caches : ~NotOn(n, L[d])
      BY <3>1 DEF Good, Owned
    <3>3. QED
      BY <1>1, <3>1, <3>2
  <2>3. QED
    BY <2>1, <2>2
<1>9. \A d \in mv \ {c} : M[d] = <<>>
  BY <1>1 DEF Good
<1>10. Good(g, D, mv \ {c}, M)
  BY <1>1, <1>5, <1>6, <1>7, <1>8, <1>9 DEF Good
<1>11. QED
  BY <1>10 DEF D, M

\* The nodes of s are deleted.
Deleted(h, s) == [n \in Nodes |-> IF NotOn(n, s) THEN h[n] ELSE None]

LEMMA EmptyIsList ==
  ASSUME NEW h, NEW o, o.head = None, o.tail = None
  PROVE  /\ IsList(h, o, <<>>)
         /\ o.index = NoIndex => IndexAgrees(h, o, <<>>)
<1>1. Len(<<>>) = 0
  OBVIOUS
<1>2. QED
  BY <1>1 DEF IsList, Distinct, Ends, Linked, IndexAgrees, NoIndex

\* The list of s goes to d, whose own nodes are deleted.
LEMMA ListMoves ==
  ASSUME Legal, NEW h, NEW C, NEW mv, NEW L, Good(h, C, mv, L),
         NEW d \in Caches, NEW s \in Caches \ {d}, s \notin mv,
         NEW q \in CacheType, q.head = None, q.tail = None, q.num_items = 0
  PROVE  Good(Deleted(h, L[d]), [C EXCEPT ![d] = C[s], ![s] = q],
              (mv \cup {s}) \ {d}, [L EXCEPT ![d] = L[s], ![s] = <<>>])
<1> DEFINE D == [C EXCEPT ![d] = C[s], ![s] = q]
           M == [L EXCEPT ![d] = L[s], ![s] = <<>>]
           g == Deleted(h, L[d])
           mw == (mv \cup {s}) \ {d}
<1>1. /\ D \in [Caches -> CacheType] /\ M \in [Caches -> Seq(Nodes)]
      /\ D[d] = C[s] /\ M[d] = L[s] /\ D[s] = q /\ M[s] = <<>>
      /\ \A c \in Caches \ {d, s} : D[c] = C[c] /\ M[c] = L[c]
      /\ mw \in SUBSET Caches
      /\ g \in HeapType
  <2>1. /\ h \in [Nodes -> {None} \cup NodeType] /\ C \in [Caches -> CacheType]
        /\ L \in [Caches -> Seq(Nodes)] /\ mv \in SUBSET Caches
    BY DEF Good, HeapType
  <2>2. g \in HeapType
    BY <2>1 DEF HeapType, Deleted
  <2>3. D \in [Caches -> CacheType] /\ D[d] = C[s] /\ D[s] = q
    BY <2>1
  <2>4. <<>> \in Seq(Nodes)
    OBVIOUS
  <2>5. M \in [Caches -> Seq(Nodes)] /\ M[d] = L[s] /\ M[s] = <<>>
    BY <2>1, <2>4
  <2>6. \A c \in Caches \ {d, s} : D[c] = C[c] /\ M[c] = L[c]
    BY <2>1
  <2>7. QED
    BY <2>1, <2>2, <2>3, <2>5, <2>6
<1>2. \A n \in Nodes : g[n] = IF NotOn(n, L[d]) THEN h[n] ELSE None
  BY DEF Deleted
<1> HIDE DEF D, M, g
<1>3. \A c \in Caches : \A i \in 1..Len(L[c]) :
        L[c][i] \in Nodes /\ h[L[c][i]] \in NodeType /\ h[L[c][i]] # None
  BY DEF Good, IsList, Linked, Legal, NoneIsNoNode
<1>4. \A c \in Caches \ {d} : SameOn(h, g, L[c])
  BY <1>2, <1>3 DEF SameOn, Good, Apart
<1>5. Len(<<>>) = 0
  OBVIOUS
<1>6. IsList(g, q, <<>>) /\ Fits(q, <<>>)
  BY <1>5, EmptyIsList DEF Fits, CacheType
<1>7. ASSUME NEW c \in Caches
      PROVE  IsList(g, D[c], M[c]) /\ Fits(D[c], M[c])
  <2>1. CASE c = s
    BY <1>1, <1>6, <2>1
  <2>2. CASE c # s
    <3>1. PICK b \in Caches \ {d} : D[c] = C[b] /\ M[c] = L[b]
      BY <1>1, <2>2
    <3>2. IsList(h, C[b], L[b]) /\ Fits(C[b], L[b]) /\ SameOn(h, g, L[b])
      BY <1>4 DEF Good
    <3>3. QED
      BY <3>1, <3>2, Untouched
  <2>3. QED
    BY <2>1, <2>2
<1>8. ASSUME NEW c \in Caches \ mw
      PROVE  IndexAgrees(g, D[c], M[c])
  <2>1. c # s
    BY DEF mw
  <2>2. PICK b \in Caches \ ({d} \cup mv) : D[c] = C[b] /\ M[c] = L[b]
    BY <1>1, <2>1 DEF mw
  <2>3. IndexAgrees(h, C[b], L[b]) /\ SameOn(h, g, L[b])
    BY <1>4, <2>2 DEF Good
  <2>4. QED
    BY <2>2, <2>3, Untouched
<1>9. Apart(M)
  <2> SUFFICES ASSUME NEW a \in Caches, NEW b \in Caches, a # b,
                      NEW i \in 1..Len(M[a])
               PROVE  NotOn(M[a][i], M[b])
    BY DEF Apart
  <2>1. CASE a = s \/ b = s
    BY <1>1, <1>5, <2>1 DEF NotOn
  <2>2. CASE a # s /\ b # s
    <3>1. PICK x \in Caches \ {d}, y \in Caches \ {d} : x # y /\ M[a] = L[x] /\ M[b] = L[y]
      BY <1>1, <2>2
    <3>2. QED
      BY <3>1 DEF Good, Apart
  <2>3. QED
    BY <2>1, <2>2
<1>10. Owned(g, M)
  <2> SUFFICES ASSUME NEW n \in Nodes, g[n] # None
               PROVE  \E c \in Caches : ~NotOn(n, M[c])
    BY DEF Owned
  <2>1. NotOn(n, L[d]) /\ h[n] # None
    BY <1>2
  <2>2. PICK c \in Caches \ {d} : ~NotOn(n, L[c])
    BY <2>1 DEF Good, Owned
  <2>3. QED
    BY <1>1, <2>2
<1>11. \A c \in mw : M[c] = <<>>
  BY <1>1 DEF Good
<1>12. Good(g, D, mw, M)
  BY <1>1, <1>7, <1>8, <1>9, <1>10, <1>11 DEF Good
<1>13. QED
  BY <1>12 DEF D, M, g

-----------------------------------------------------------------------------
(* The operations on one cache, each from a list and an index that agree to  *)
(* a list and an index that agree.                                           *)

\* The heaps have the same nodes, with the same keys.
SameKeys(h, g) ==
  \A n \in Nodes :
    /\ h[n] = None => g[n] = None
    /\ h[n] \in NodeType => g[n] \in NodeType /\ g[n].key = h[n].key

LEMMA IndexStillAgrees ==
  ASSUME NEW h, NEW g, NEW o, NEW q, NEW s \in Seq(Nodes), NEW t \in Seq(Nodes),
         Linked(h, s), SameKeys(h, g), q.index = o.index,
         \A n \in Nodes : NotOn(n, t) <=> NotOn(n, s), IndexAgrees(h, o, s)
  PROVE  IndexAgrees(g, q, t)
<1>1. \A i \in 1..Len(s) : s[i] \in Nodes /\ g[s[i]].key = h[s[i]].key
  BY DEF Linked, SameKeys
<1>2. ASSUME NEW j \in 1..Len(t)
      PROVE  \E i \in 1..Len(s) : s[i] = t[j] /\ g[t[j]].key = h[s[i]].key
  <2>1. t[j] \in Nodes /\ ~NotOn(t[j], t)
    BY DEF NotOn
  <2>2. ~NotOn(t[j], s)
    BY <2>1
  <2>3. PICK i \in 1..Len(s) : s[i] = t[j]
    BY <2>2 DEF NotOn
  <2>4. QED
    BY <1>1, <2>3
<1>3. ASSUME NEW i \in 1..Len(s)
      PROVE  \E j \in 1..Len(t) : t[j] = s[i] /\ g[t[j]].key = h[s[i]].key
  <2>1. s[i] \in Nodes /\ ~NotOn(s[i], s)
    BY DEF NotOn
  <2>2. ~NotOn(s[i], t)
    BY <2>1
  <2>3. PICK j \in 1..Len(t) : t[j] = s[i]
    BY <2>2 DEF NotOn
  <2>4. QED
    BY <1>1, <2>3
<1>4. ASSUME NEW j \in 1..Len(t) PROVE q.index[g[t[j]].key] = t[j]
  <2>1. PICK i \in 1..Len(s) : s[i] = t[j] /\ g[t[j]].key = h[s[i]].key
    BY <1>2
  <2>2. o.index[h[s[i]].key] = s[i]
    BY DEF IndexAgrees
  <2>3. QED
    BY <2>1, <2>2
<1>5. ASSUME NEW k \in Keys, q.index[k] # None
      PROVE  \E j \in 1..Len(t) : t[j] = q.index[k] /\ g[t[j]].key = k
  <2>1. PICK i \in 1..Len(s) : s[i] = q.index[k] /\ h[s[i]].key = k
    BY <1>5 DEF IndexAgrees
  <2>2. QED
    BY <1>3, <2>1
<1>6. QED
  BY <1>4, <1>5 DEF IndexAgrees

LEMMA PushedNodes ==
  ASSUME NEW s \in Seq(Nodes), NEW n \in Nodes
  PROVE  \A x \in Nodes : NotOn(x, Pushed(n, s)) <=> x # n /\ NotOn(x, s)
<1> DEFINE u == Pushed(n, s)
<1>1. Len(s) \in Nat /\ u \in Seq(Nodes) /\ Len(u) = Len(s) + 1
  BY PushedIsSeq
<1>2. \A j \in 1..(Len(s) + 1) : u[j] = IF j = 1 THEN n ELSE s[j - 1]
  BY DEF Pushed
<1> HIDE DEF u
<1>3. ASSUME NEW x \in Nodes, NotOn(x, u) PROVE x # n /\ NotOn(x, s)
  <2>1. 1 \in 1..(Len(s) + 1) /\ u[1] = n
    BY <1>1, <1>2
  <2>2. \A j \in 1..Len(s) : j + 1 \in 1..(Len(s) + 1) /\ j + 1 # 1 /\ (j + 1) - 1 = j
    BY <1>1
  <2>3. \A j \in 1..Len(s) : u[j + 1] = s[j]
    BY <1>2, <2>2
  <2>4. QED
    BY <1>1, <1>3, <2>1, <2>2, <2>3 DEF NotOn
<1>4. ASSUME NEW x \in Nodes, x # n, NotOn(x, s) PROVE NotOn(x, u)
  <2>1. \A j \in 1..(Len(s) + 1) : j # 1 => j - 1 \in 1..Len(s)
    BY <1>1
  <2>2. QED
    BY <1>1, <1>2, <1>4, <2>1 DEF NotOn
<1>5. QED
  BY <1>3, <1>4 DEF u

LEMMA RequeuedList ==
  ASSUME NEW s \in Seq(Nodes), Distinct(s), NEW i \in 1..Len(s)
  PROVE  /\ Pushed(s[i], Gone(s, i)) \in Seq(Nodes)
         /\ Len(Pushed(s[i], Gone(s, i))) = Len(s)
         /\ Gone(s, i) \in Seq(Nodes)
         /\ NotOn(s[i], Gone(s, i))
         /\ \A n \in Nodes : NotOn(n, Gone(s, i)) <=> NotOn(n, s) \/ n = s[i]
         /\ \A n \in Nodes : NotOn(n, Pushed(s[i], Gone(s, i))) <=> NotOn(n, s)
<1> DEFINE t == Gone(s, i)
           u == Pushed(s[i], t)
<1>0. /\ Len(s) \in Nat /\ s[i] \in Nodes
      /\ t \in Seq(Nodes) /\ Len(t) = Len(s) - 1
  BY GoneIsSeq
<1>1. /\ Len(s) \in Nat /\ s[i] \in Nodes
      /\ t \in Seq(Nodes) /\ Len(t) = Len(s) - 1
      /\ u \in Seq(Nodes) /\ Len(u) = Len(s)
  <2> HIDE DEF t
  <2>1. u \in Seq(Nodes) /\ Len(u) = Len(t) + 1
    BY <1>0, PushedIsSeq
  <2>2. QED
    BY <1>0, <2>1
<1>2. \A j \in 1..(Len(s) - 1) : t[j] = s[IF j < i THEN j ELSE j + 1]
  BY DEF Gone
<1>3. \A j \in 1..Len(s) : u[j] = IF j = 1 THEN s[i] ELSE t[j - 1]
  BY <1>1 DEF Pushed
<1> HIDE DEF t, u
<1>4. NotOn(s[i], t)
  <2>1. \A j \in 1..(Len(s) - 1) :
          (IF j < i THEN j ELSE j + 1) \in 1..Len(s) /\ (IF j < i THEN j ELSE j + 1) # i
    BY <1>1
  <2>2. \A j \in 1..(Len(s) - 1) : t[j] # s[i]
    BY <1>2, <2>1 DEF Distinct
  <2>3. QED
    BY <1>1, <2>2 DEF NotOn
<1>5. ASSUME NEW n \in Nodes, NotOn(n, t), n # s[i] PROVE NotOn(n, s)
  <2> SUFFICES ASSUME NEW k \in 1..Len(s), k # i PROVE s[k] # n
    BY <1>5 DEF NotOn
  <2>1. CASE k < i
    BY <1>1, <1>2, <1>5, <2>1 DEF NotOn
  <2>2. CASE k > i
    <3>1. k - 1 \in 1..(Len(s) - 1) /\ ~(k - 1 < i) /\ (k - 1) + 1 = k
      BY <1>1, <2>2
    <3>2. t[k - 1] = s[k]
      BY <1>2, <3>1
    <3>3. QED
      BY <1>1, <1>5, <3>1, <3>2 DEF NotOn
  <2>3. QED
    BY <1>1, <2>1, <2>2
<1>6. ASSUME NEW n \in Nodes, NotOn(n, s) PROVE NotOn(n, t)
  <2>1. \A j \in 1..(Len(s) - 1) : (IF j < i THEN j ELSE j + 1) \in 1..Len(s)
    BY <1>1
  <2>2. QED
    BY <1>1, <1>2, <1>6, <2>1 DEF NotOn
<1>7. \A n \in Nodes : NotOn(n, t) <=> NotOn(n, s) \/ n = s[i]
  BY <1>4, <1>5, <1>6
<1>8. \A n \in Nodes : NotOn(n, u) <=> n # s[i] /\ NotOn(n, t)
  BY <1>1, PushedNodes DEF u
<1>9. \A n \in Nodes : NotOn(n, s) => n # s[i]
  BY DEF NotOn
<1>10. QED
  BY <1>1, <1>4, <1>7, <1>8, <1>9 DEF t, u

\* unlink and then push_front, of the same node: it comes to the front.
LEMMA Requeued ==
  ASSUME Legal, NEW m, m.heap \in HeapType, m.obj \in CacheType,
         NEW s \in Seq(Nodes), IsList(m.heap, m.obj, s), NEW i \in 1..Len(s)
  PROVE  LET p == push_front(unlink(m, s[i]), s[i])
             t == Pushed(s[i], Gone(s, i))
         IN  /\ p.heap \in HeapType /\ p.obj \in CacheType
             /\ SameCounters(m.obj, p.obj)
             /\ IsList(p.heap, p.obj, t)
             /\ SameEntries(m.heap, p.heap)
             /\ SameOutside(m.heap, p.heap, s)
<1> DEFINE u == unlink(m, s[i])
           p == push_front(u, s[i])
           t == Pushed(s[i], Gone(s, i))
<1>1. /\ u.heap \in HeapType /\ u.obj \in CacheType
      /\ SameCounters(m.obj, u.obj) /\ IsList(u.heap, u.obj, Gone(s, i))
      /\ SameEntries(m.heap, u.heap) /\ SameOutside(m.heap, u.heap, s)
  BY Unlinked
<1>2. /\ Gone(s, i) \in Seq(Nodes) /\ NotOn(s[i], Gone(s, i)) /\ s[i] \in Nodes
      /\ \A n \in Nodes : NotOn(n, t) <=> NotOn(n, s)
  BY RequeuedList DEF IsList
<1>3. u.heap[s[i]] \in NodeType
  BY <1>1, <1>2 DEF SameEntries, IsList, Linked
<1> HIDE DEF u
<1>4. /\ p.heap \in HeapType /\ p.obj \in CacheType
      /\ SameCounters(u.obj, p.obj) /\ IsList(p.heap, p.obj, t)
      /\ SameEntries(u.heap, p.heap) /\ SameOutside(u.heap, p.heap, t)
  BY <1>1, <1>2, <1>3, PushedFront
<1> HIDE DEF p
<1>5. SameCounters(m.obj, p.obj)
  BY <1>1, <1>4 DEF SameCounters
<1>6. SameEntries(m.heap, p.heap)
  BY <1>1, <1>4 DEF SameEntries
<1>7. SameOutside(m.heap, p.heap, s)
  BY <1>1, <1>2, <1>4 DEF SameOutside, NotOn
<1>8. QED
  BY <1>4, <1>5, <1>6, <1>7 DEF p, u

\* evict_tail: the last node leaves the list, the index and the heap.
LEMMA Evicted ==
  ASSUME Legal, NEW m, m.heap \in HeapType, m.obj \in CacheType,
         NEW s \in Seq(Nodes), IsList(m.heap, m.obj, s),
         IndexAgrees(m.heap, m.obj, s), m.obj.num_items = Len(s), Len(s) # 0
  PROVE  LET e == evict_tail(m)
             t == Gone(s, Len(s))
             victim == s[Len(s)]
         IN  /\ e.heap \in HeapType /\ e.obj \in CacheType
             /\ e.obj.cap = m.obj.cap /\ e.obj.num_items = Len(t)
             /\ \A k \in Keys : m.obj.index[k] = None => e.obj.index[k] = None
             /\ IsList(e.heap, e.obj, t) /\ IndexAgrees(e.heap, e.obj, t)
             /\ e.heap[victim] = None
             /\ \A n \in Nodes \ {victim} : m.heap[n] \in NodeType =>
                  /\ e.heap[n] \in NodeType
                  /\ e.heap[n].key = m.heap[n].key
                  /\ e.heap[n].value = m.heap[n].value
             /\ SameOutside(m.heap, e.heap, s)
<1> DEFINE h == m.heap
           o == m.obj
           z == Len(s)
           victim == s[z]
           u == unlink(m, victim)
           g == [u.heap EXCEPT ![victim] = None]
           q == [u.obj EXCEPT !.index[h[victim].key] = None, !.num_items = @ - 1]
           t == Gone(s, z)
<1>1. z \in 1..Len(s) /\ Len(s) \in Nat /\ victim \in Nodes
      /\ h[victim] \in NodeType /\ h[victim].key \in Keys
  BY DEF IsList, Linked, NodeType
<1>2. o.tail = victim
  BY DEF IsList, Ends
<1>3. evict_tail(m).heap = g /\ evict_tail(m).obj = q
  BY <1>2 DEF evict_tail
<1>4. /\ u.heap \in HeapType /\ u.obj \in CacheType
      /\ SameCounters(o, u.obj) /\ IsList(u.heap, u.obj, t)
      /\ SameEntries(h, u.heap) /\ SameOutside(h, u.heap, s)
  BY <1>1, Unlinked
<1>5. /\ t \in Seq(Nodes) /\ Len(t) = Len(s) - 1
      /\ \A n \in Nodes : NotOn(n, t) <=> NotOn(n, s) \/ n = victim
  BY <1>1, GoneIsSeq, RequeuedList DEF IsList
<1> HIDE DEF u, t
<1>6. /\ g \in HeapType /\ g[victim] = None
      /\ \A n \in Nodes \ {victim} : g[n] = u.heap[n]
  BY <1>1, <1>4 DEF HeapType
<1>7. /\ q \in CacheType /\ q.head = u.obj.head /\ q.tail = u.obj.tail
      /\ q.cap = o.cap /\ q.num_items = Len(t)
      /\ q.index = [o.index EXCEPT ![h[victim].key] = None]
  <2>1. u.obj.num_items = Len(s) /\ Len(s) - 1 \in Nat
    BY <1>1, <1>4 DEF SameCounters
  <2>2. [u.obj.index EXCEPT ![h[victim].key] = None] \in [Keys -> Nodes \cup {None}]
    BY <1>4 DEF CacheType
  <2>3. QED
    BY <1>4, <1>5, <2>1, <2>2 DEF CacheType, SameCounters
<1>8. o.index \in [Keys -> Nodes \cup {None}]
  BY DEF CacheType
<1>9. \A k \in Keys : q.index[k] = IF k = h[victim].key THEN None ELSE o.index[k]
  BY <1>7, <1>8
<1> HIDE DEF g, q
<1>10. \A j \in 1..Len(t) : t[j] \in Nodes /\ t[j] # victim
  BY <1>1, <1>5 DEF NotOn
<1>11. SameOn(u.heap, g, t)
  BY <1>6, <1>10 DEF SameOn
<1>12. IsList(g, q, t)
  <2>1. IsList(g, u.obj, t)
    BY <1>4, <1>11, Untouched
  <2>2. QED
    BY <1>7, <2>1 DEF IsList, Ends
<1>13. \A n \in Nodes \ {victim} : h[n] \in NodeType =>
         g[n] \in NodeType /\ g[n].key = h[n].key /\ g[n].value = h[n].value
  BY <1>4, <1>6 DEF SameEntries
<1>14. \A i \in 1..Len(s) : s[i] \in Nodes /\ h[s[i]] \in NodeType
  BY DEF IsList, Linked
<1>15. IndexAgrees(g, q, t)
  <2>1. ASSUME NEW k \in Keys, q.index[k] # None
        PROVE  \E j \in 1..Len(t) : t[j] = q.index[k] /\ g[t[j]].key = k
    <3>1. k # h[victim].key /\ q.index[k] = o.index[k]
      BY <1>9, <2>1
    <3>2. PICK i \in 1..Len(s) : s[i] = o.index[k] /\ h[s[i]].key = k
      BY <2>1, <3>1 DEF IndexAgrees
    <3>3. s[i] # victim /\ ~NotOn(s[i], s)
      BY <3>1, <3>2 DEF NotOn
    <3>4. PICK j \in 1..Len(t) : t[j] = s[i]
      BY <1>5, <1>14, <3>3 DEF NotOn
    <3>5. QED
      BY <1>13, <1>14, <3>1, <3>2, <3>3, <3>4
  <2>2. ASSUME NEW j \in 1..Len(t)
        PROVE  q.index[g[t[j]].key] = t[j]
    <3>1. ~NotOn(t[j], t)
      BY DEF NotOn
    <3>2. PICK i \in 1..Len(s) : s[i] = t[j] /\ s[i] # victim
      BY <1>5, <1>10, <3>1 DEF NotOn
    <3>3. h[s[i]].key \in Keys /\ o.index[h[s[i]].key] = s[i] /\ g[s[i]].key = h[s[i]].key
      BY <1>13, <1>14, <3>2 DEF IndexAgrees, NodeType
    <3>4. o.index[h[victim].key] = victim
      BY <1>1 DEF IndexAgrees
    <3>5. QED
      BY <1>9, <3>2, <3>3, <3>4
  <2>3. QED
    BY <2>1, <2>2 DEF IndexAgrees
<1>16. SameOutside(h, g, s)
  <2>1. ~NotOn(victim, s)
    BY <1>1 DEF NotOn
  <2>2. QED
    BY <1>4, <1>6, <2>1 DEF SameOutside, NotOn
<1>17. \A k \in Keys : o.index[k] = None => q.index[k] = None
  BY <1>9
<1>18. QED
  BY <1>3, <1>6, <1>7, <1>12, <1>13, <1>15, <1>16, <1>17 DEF t

\* The rest of put_impl for a key without an entry: a new node, in front.
Inserts(m, n, k, v) ==
  LET node == [key |-> k, value |-> v, prev |-> None, next |-> None]
      p == push_front([m EXCEPT !.heap[n] = node], n)
  IN  [p EXCEPT !.obj.index[k] = n, !.obj.num_items = @ + 1]

LEMMA Inserted ==
  ASSUME Legal, NEW h \in HeapType, NEW o \in CacheType,
         NEW s \in Seq(Nodes), IsList(h, o, s), IndexAgrees(h, o, s),
         o.num_items = Len(s), NEW n \in Nodes, h[n] = None,
         NEW k \in Keys, NEW v \in Values, o.index[k] = None
  PROVE  LET r == Inserts([heap |-> h, obj |-> o], n, k, v)
             t == Pushed(n, s)
         IN  /\ r.heap \in HeapType /\ r.obj \in CacheType
             /\ r.obj.cap = o.cap /\ r.obj.num_items = Len(t)
             /\ IsList(r.heap, r.obj, t) /\ IndexAgrees(r.heap, r.obj, t)
             /\ r.heap[n].key = k /\ r.heap[n].value = v
             /\ \A x \in Nodes \ {n} : h[x] \in NodeType =>
                  /\ r.heap[x] \in NodeType
                  /\ r.heap[x].key = h[x].key
                  /\ r.heap[x].value = h[x].value
             /\ SameOutside(h, r.heap, t)
<1> DEFINE node == [key |-> k, value |-> v, prev |-> None, next |-> None]
           f == [h EXCEPT ![n] = node]
           m == [heap |-> f, obj |-> o]
           p == push_front(m, n)
           g == p.heap
           q == [p.obj EXCEPT !.index[k] = n, !.num_items = @ + 1]
           t == Pushed(n, s)
<1>1. node \in NodeType
  BY DEF NodeType
<1>2. f \in HeapType /\ f[n] = node /\ \A x \in Nodes \ {n} : f[x] = h[x]
  BY <1>1 DEF HeapType
<1>3. m = [[heap |-> h, obj |-> o] EXCEPT !.heap[n] = node]
  OBVIOUS
<1>4. p = [heap |-> p.heap, obj |-> p.obj]
  BY DEF push_front
<1>5. m.heap = f /\ m.obj = o
  OBVIOUS
<1> HIDE DEF f
<1>6. /\ Len(s) \in Nat /\ t \in Seq(Nodes) /\ Len(t) = Len(s) + 1
      /\ \A i \in 1..Len(s) : s[i] \in Nodes /\ h[s[i]] \in NodeType /\ s[i] # n
  <2>1. Len(s) \in Nat /\ t \in Seq(Nodes) /\ Len(t) = Len(s) + 1
    BY PushedIsSeq
  <2>2. \A i \in 1..Len(s) : s[i] \in Nodes /\ h[s[i]] \in NodeType /\ s[i] # n
    BY DEF IsList, Linked, Legal, NoneIsNoNode
  <2>3. QED
    BY <2>1, <2>2
<1>7. NotOn(n, s) /\ SameOn(h, f, s)
  BY <1>2, <1>6 DEF NotOn, SameOn
<1>8. IsList(f, o, s)
  BY <1>7, Untouched
<1> HIDE DEF m, node
<1>9. /\ g \in HeapType /\ p.obj \in CacheType /\ SameCounters(o, p.obj)
      /\ IsList(g, p.obj, t) /\ SameEntries(f, g) /\ SameOutside(f, g, t)
  BY <1>1, <1>2, <1>5, <1>7, <1>8, PushedFront
<1>10. Inserts([heap |-> h, obj |-> o], n, k, v) = [heap |-> g, obj |-> q]
  <2>1. Inserts([heap |-> h, obj |-> o], n, k, v)
          = [p EXCEPT !.obj.index[k] = n, !.obj.num_items = @ + 1]
    BY <1>3 DEF Inserts, node
  <2> HIDE DEF p
  <2>2. QED
    BY <1>4, <2>1
<1> HIDE DEF p, t
<1>11. /\ q \in CacheType /\ q.head = p.obj.head /\ q.tail = p.obj.tail
       /\ q.cap = o.cap /\ q.num_items = Len(t)
       /\ q.index = [o.index EXCEPT ![k] = n]
  <2>1. p.obj.num_items = Len(s) /\ Len(s) + 1 \in Nat
    BY <1>6, <1>9 DEF SameCounters
  <2>2. [p.obj.index EXCEPT ![k] = n] \in [Keys -> Nodes \cup {None}]
    BY <1>9 DEF CacheType
  <2>3. QED
    BY <1>6, <1>9, <2>1, <2>2 DEF CacheType, SameCounters
<1>12. o.index \in [Keys -> Nodes \cup {None}]
  BY DEF CacheType
<1>13. \A l \in Keys : q.index[l] = IF l = k THEN n ELSE o.index[l]
  BY <1>11, <1>12
<1> HIDE DEF g, q
<1>14. IsList(g, q, t)
  BY <1>9, <1>11 DEF IsList, Ends
<1>15. g[n].key = k /\ g[n].value = v
  BY <1>1, <1>2, <1>9 DEF SameEntries, node
<1>16. \A x \in Nodes \ {n} : h[x] \in NodeType =>
         g[x] \in NodeType /\ g[x].key = h[x].key /\ g[x].value = h[x].value
  BY <1>2, <1>9 DEF SameEntries
<1>17. /\ \A x \in Nodes : NotOn(x, t) <=> x # n /\ NotOn(x, s)
       /\ 1 \in 1..Len(t) /\ t[1] = n
  <2>1. \A x \in Nodes : NotOn(x, t) <=> x # n /\ NotOn(x, s)
    BY PushedNodes DEF t
  <2>2. 1 \in 1..Len(t) /\ 1 \in 1..(Len(s) + 1)
    BY <1>6
  <2>3. t[1] = n
    BY <2>2 DEF t, Pushed
  <2>4. QED
    BY <2>1, <2>2, <2>3
<1>18. IndexAgrees(g, q, t)
  <2>1. ASSUME NEW l \in Keys, q.index[l] # None
        PROVE  \E j \in 1..Len(t) : t[j] = q.index[l] /\ g[t[j]].key = l
    <3>1. CASE l = k
      BY <1>13, <1>15, <1>17, <3>1
    <3>2. CASE l # k
      <4>1. PICK i \in 1..Len(s) : s[i] = o.index[l] /\ h[s[i]].key = l
        BY <1>13, <2>1, <3>2 DEF IndexAgrees
      <4>2. ~NotOn(s[i], s) /\ s[i] # n /\ g[s[i]].key = l /\ s[i] \in Nodes
        BY <1>6, <1>16, <4>1 DEF NotOn
      <4>3. PICK j \in 1..Len(t) : t[j] = s[i]
        BY <1>17, <4>2 DEF NotOn
      <4>4. QED
        BY <1>13, <3>2, <4>1, <4>2, <4>3
    <3>3. QED
      BY <3>1, <3>2
  <2>2. ASSUME NEW j \in 1..Len(t)
        PROVE  q.index[g[t[j]].key] = t[j]
    <3>1. CASE t[j] = n
      BY <1>13, <1>15, <3>1
    <3>2. CASE t[j] # n
      <4>1. t[j] \in Nodes /\ ~NotOn(t[j], t)
        BY <1>6 DEF NotOn
      <4>2. PICK i \in 1..Len(s) : s[i] = t[j]
        BY <1>17, <3>2, <4>1 DEF NotOn
      <4>3. h[s[i]].key \in Keys /\ o.index[h[s[i]].key] = s[i] /\ g[s[i]].key = h[s[i]].key
        BY <1>6, <1>16, <4>2 DEF IndexAgrees, NodeType
      <4>4. s[i] # None
        BY <1>6 DEF Legal, NoneIsNoNode
      <4>5. QED
        BY <1>13, <4>2, <4>3, <4>4
    <3>3. QED
      BY <3>1, <3>2
  <2>3. QED
    BY <2>1, <2>2 DEF IndexAgrees
<1>19. SameOutside(h, g, t)
  BY <1>2, <1>9, <1>17 DEF SameOutside, NotOn
<1>20. QED
  BY <1>9, <1>10, <1>11, <1>14, <1>15, <1>16, <1>18, <1>19 DEF t

-----------------------------------------------------------------------------
(* What each action does to the lists.                                       *)

CapsKept == \A d \in Caches : cache'[d].cap = cache[d].cap

\* The nodes that stay keep their entries, the one at n perhaps excepted.
KeptBut(n) ==
  \A x \in Nodes \ {n} : heap[x] \in NodeType /\ heap'[x] # None =>
    heap'[x].key = heap[x].key /\ heap'[x].value = heap[x].value

LEMMA DestroyAll ==
  ASSUME Legal, NEW L, Good(heap, cache, moved, L), NEW c \in Caches
  PROVE  destroy_all(cache[c]) = Deleted(heap, L[c])
<1>1. ListOf(cache[c]) = L[c] /\ DOMAIN L[c] = 1..Len(L[c])
  BY ListIsListed DEF Good, ListOf
<1>2. \A n \in Nodes : n \in Elements(L[c]) <=> ~NotOn(n, L[c])
  BY <1>1 DEF Elements, NotOn
<1>3. QED
  BY <1>1, <1>2 DEF destroy_all, Deleted

\* A node of the list, whose value may have changed, comes to the front.
LEMMA Refreshed ==
  ASSUME Legal, NEW L, Good(heap, cache, moved, L), NEW c \in Caches \ moved,
         NEW i \in 1..Len(L[c]), NEW f \in HeapType, Linked(f, L[c]),
         SameKeys(heap, f), \A x \in Nodes \ {L[c][i]} : f[x] = heap[x],
         NEW m, m.heap = f, m.obj = cache[c], NEW p,
         p = push_front(unlink(m, L[c][i]), L[c][i])
  PROVE  /\ Good(p.heap, [cache EXCEPT ![c] = p.obj], moved,
                 [L EXCEPT ![c] = Pushed(L[c][i], Gone(L[c], i))])
         /\ SameEntries(f, p.heap)
         /\ p.obj.cap = cache[c].cap
<1> DEFINE s == L[c]
           o == cache[c]
           t == Pushed(s[i], Gone(s, i))
<1>1. /\ s \in Seq(Nodes) /\ o \in CacheType /\ IsList(heap, o, s)
      /\ Fits(o, s) /\ IndexAgrees(heap, o, s)
  BY DEF Good
<1> HIDE DEF s, o
<1>2. i \in 1..Len(s) /\ Linked(f, s) /\ m.obj = o /\ p = push_front(unlink(m, s[i]), s[i])
  BY DEF s, o
<1>3. IsList(f, o, s)
  BY <1>1, <1>2 DEF IsList
<1>4. /\ p.heap \in HeapType /\ p.obj \in CacheType
      /\ SameCounters(o, p.obj) /\ IsList(p.heap, p.obj, t)
      /\ SameEntries(f, p.heap) /\ SameOutside(f, p.heap, s)
  BY <1>1, <1>2, <1>3, Requeued
<1>5. /\ t \in Seq(Nodes) /\ Len(t) = Len(s)
      /\ \A n \in Nodes : NotOn(n, t) <=> NotOn(n, s)
  BY <1>1, <1>2, RequeuedList DEF IsList
<1> HIDE DEF t
<1>6. Fits(p.obj, t)
  BY <1>1, <1>4, <1>5 DEF Fits, SameCounters
<1>7. SameKeys(heap, p.heap)
  BY <1>4 DEF SameKeys, SameEntries
<1>8. IndexAgrees(p.heap, p.obj, t)
  BY <1>1, <1>4, <1>5, <1>7, IndexStillAgrees DEF IsList, SameCounters
<1>9. ~NotOn(s[i], s)
  BY <1>2 DEF NotOn
<1>10. \A n \in Nodes : NotOn(n, t) /\ NotOn(n, L[c]) => p.heap[n] = heap[n]
  BY <1>4, <1>9 DEF SameOutside, NotOn, s
<1>11. \A n \in Nodes : NotOn(n, t) /\ ~NotOn(n, L[c]) => p.heap[n] = None
  BY <1>5 DEF s
<1>12. \A j \in 1..Len(t) : NotOn(t[j], L[c]) => heap[t[j]] = None
  <2>1. \A j \in 1..Len(t) : t[j] \in Nodes /\ ~NotOn(t[j], t)
    BY <1>5 DEF NotOn
  <2>2. QED
    BY <1>5, <2>1 DEF s
<1>13. moved \ {c} = moved
  OBVIOUS
<1>14. Good(p.heap, [cache EXCEPT ![c] = p.obj], moved \ {c}, [L EXCEPT ![c] = t])
  <2>1. p.heap \in HeapType /\ p.obj \in CacheType /\ IsList(p.heap, p.obj, t)
    BY <1>4
  <2>2. t \in Seq(Nodes)
    BY <1>5
  <2> HIDE DEF s, o
  <2>3. QED
    BY <1>6, <1>8, <1>10, <1>11, <1>12, <2>1, <2>2, OneListChanges, ZenonT(30)
<1>15. QED
  BY <1>4, <1>13, <1>14 DEF t, s, o, SameCounters

SetValue(r, v) == [r EXCEPT !.value = v]

LEMMA PutExistingStep ==
  ASSUME Legal, NEW L, Good(heap, cache, moved, L), NEW c \in Caches \ moved,
         NEW k \in Keys, NEW v \in Values, PutExisting(c, k, v)
  PROVE  \E i \in 1..Len(L[c]) :
           /\ Good(heap', cache', moved',
                   [L EXCEPT ![c] = Pushed(L[c][i], Gone(L[c], i))])
           /\ CapsKept /\ KeptBut(L[c][i])
           /\ heap[L[c][i]].key = k
           /\ heap'[L[c][i]].key = k /\ heap'[L[c][i]].value = v
<1> DEFINE n == cache[c].index[k]
           f == [heap EXCEPT ![n] = SetValue(heap[n], v)]
           m == [Mem(c) EXCEPT !.heap[n].value = v]
           p == push_front(unlink(m, n), n)
<1>1. PICK i \in 1..Len(L[c]) : L[c][i] = n /\ heap[n].key = k
  BY DEF PutExisting, Good, IndexAgrees
<1>2. n \in Nodes /\ heap \in HeapType /\ heap[n] \in NodeType /\ heap[n] # None
  BY <1>1 DEF Good, IsList, Linked, Legal, NoneIsNoNode
<1>3. m.heap = f /\ m.obj = cache[c]
  BY DEF Mem, SetValue
<1>4. /\ SetValue(heap[n], v) \in NodeType
      /\ SetValue(heap[n], v).key = heap[n].key
      /\ SetValue(heap[n], v).value = v
      /\ SetValue(heap[n], v).prev = heap[n].prev
      /\ SetValue(heap[n], v).next = heap[n].next
  BY <1>2 DEF SetValue, NodeType
<1>5. /\ f \in HeapType /\ f[n] = SetValue(heap[n], v)
      /\ \A x \in Nodes \ {n} : f[x] = heap[x]
  BY <1>2, <1>4 DEF HeapType
<1>6. heap' = p.heap /\ cache' = [cache EXCEPT ![c] = p.obj] /\ moved' = moved
  BY DEF PutExisting, Apply
<1> HIDE DEF f, m, p, n
<1>7. SameKeys(heap, f)
  BY <1>2, <1>4, <1>5 DEF SameKeys
<1>8. Linked(f, L[c])
  <2>1. Linked(heap, L[c]) /\ \A j \in 1..Len(L[c]) : L[c][j] \in Nodes
    BY DEF Good, IsList
  <2>2. \A x \in Nodes : heap[x] \in NodeType =>
          f[x] \in NodeType /\ f[x].prev = heap[x].prev /\ f[x].next = heap[x].next
    BY <1>4, <1>5
  <2>3. QED
    BY <2>1, <2>2 DEF Linked
<1>9. p = push_front(unlink(m, L[c][i]), L[c][i])
  BY <1>1 DEF p
<1>10. \A x \in Nodes \ {L[c][i]} : f[x] = heap[x]
  BY <1>1, <1>5
<1>11. /\ Good(p.heap, [cache EXCEPT ![c] = p.obj], moved,
               [L EXCEPT ![c] = Pushed(L[c][i], Gone(L[c], i))])
       /\ SameEntries(f, p.heap) /\ p.obj.cap = cache[c].cap
  BY <1>3, <1>5, <1>7, <1>8, <1>9, <1>10, Refreshed
<1>12. CapsKept
  BY <1>6, <1>11 DEF CapsKept, Good
<1>13. KeptBut(n)
  BY <1>5, <1>6, <1>11 DEF KeptBut, SameEntries
<1>14. heap'[n].key = k /\ heap'[n].value = v
  BY <1>1, <1>2, <1>4, <1>5, <1>6, <1>11 DEF SameEntries
<1>15. QED
  BY <1>1, <1>6, <1>11, <1>12, <1>13, <1>14

LEMMA GetHitStep ==
  ASSUME Legal, NEW L, Good(heap, cache, moved, L), NEW c \in Caches,
         NEW k \in Keys, get(c, k), cache[c].index[k] # None
  PROVE  \E i \in 1..Len(L[c]) :
           /\ Good(heap', cache', moved',
                   [L EXCEPT ![c] = Pushed(L[c][i], Gone(L[c], i))])
           /\ CapsKept /\ KeptBut(None)
           /\ heap[L[c][i]].key = k /\ reply' = heap[L[c][i]].value
<1> DEFINE n == cache[c].index[k]
           m == Mem(c)
           p == push_front(unlink(m, n), n)
<1>0. c \in Caches \ moved
  BY DEF get, Usable
<1>1. PICK i \in 1..Len(L[c]) : L[c][i] = n /\ heap[n].key = k
  BY <1>0 DEF Good, IndexAgrees
<1>2. m.heap = heap /\ m.obj = cache[c] /\ heap \in HeapType
  BY DEF Mem, Good
<1>3. /\ heap' = p.heap /\ cache' = [cache EXCEPT ![c] = p.obj] /\ moved' = moved
      /\ reply' = heap[n].value
  BY DEF get, Apply
<1> HIDE DEF m, p, n
<1>4. SameKeys(heap, heap) /\ Linked(heap, L[c])
  BY DEF SameKeys, Good, IsList
<1>5. p = push_front(unlink(m, L[c][i]), L[c][i])
  BY <1>1 DEF p
<1>6. /\ Good(p.heap, [cache EXCEPT ![c] = p.obj], moved,
              [L EXCEPT ![c] = Pushed(L[c][i], Gone(L[c], i))])
      /\ SameEntries(heap, p.heap) /\ p.obj.cap = cache[c].cap
  BY <1>0, <1>2, <1>4, <1>5, Refreshed
<1>7. CapsKept /\ KeptBut(None)
  BY <1>3, <1>6 DEF CapsKept, Good, KeptBut, SameEntries
<1>8. QED
  BY <1>1, <1>3, <1>6, <1>7

LEMMA NoEntry ==
  ASSUME Legal, NEW L, Good(heap, cache, moved, L), NEW c \in Caches \ moved,
         NEW k \in Keys, cache[c].index[k] = None
  PROVE  \A i \in 1..Len(L[c]) : heap[L[c][i]].key # k
BY DEF Good, IndexAgrees, IsList, Linked, Legal, NoneIsNoNode

\* What put_impl leaves of the list before it puts the new node in front.
Kept(s, o) == IF o.cap > 0 /\ Len(s) = o.cap THEN Gone(s, Len(s)) ELSE s

\* The state of the cache then.
Trimmed(c) ==
  IF cache[c].cap > 0 /\ cache[c].num_items = cache[c].cap
  THEN evict_tail(Mem(c)) ELSE Mem(c)

LEMMA TrimmedCache ==
  ASSUME Legal, NEW L, Good(heap, cache, moved, L), NEW c \in Caches \ moved
  PROVE  LET m == Trimmed(c)
             s == Kept(L[c], cache[c])
         IN  /\ m = [heap |-> m.heap, obj |-> m.obj]
             /\ m.heap \in HeapType /\ m.obj \in CacheType
             /\ s \in Seq(Nodes) /\ Len(s) + 1 \in Nat
             /\ m.obj.cap = cache[c].cap /\ m.obj.num_items = Len(s)
             /\ m.obj.cap > 0 => Len(s) + 1 <= m.obj.cap
             /\ \A k \in Keys : cache[c].index[k] = None => m.obj.index[k] = None
             /\ IsList(m.heap, m.obj, s) /\ IndexAgrees(m.heap, m.obj, s)
             /\ SameOutside(heap, m.heap, L[c])
             /\ \A n \in Nodes : NotOn(n, L[c]) => NotOn(n, s)
             /\ \A n \in Nodes : ~NotOn(n, L[c]) /\ NotOn(n, s) => m.heap[n] = None
             /\ \A n \in Nodes : heap[n] \in NodeType /\ m.heap[n] # None =>
                  /\ m.heap[n] \in NodeType
                  /\ m.heap[n].key = heap[n].key
                  /\ m.heap[n].value = heap[n].value
<1> DEFINE z == L[c]
           o == cache[c]
           m == Trimmed(c)
           s == Kept(z, o)
<1>1. /\ heap \in HeapType /\ o \in CacheType /\ z \in Seq(Nodes) /\ Len(z) \in Nat
      /\ IsList(heap, o, z) /\ IndexAgrees(heap, o, z)
      /\ o.num_items = Len(z) /\ (o.cap > 0 => Len(z) <= o.cap) /\ o.cap \in Nat
  BY DEF Good, Fits, CacheType
<1>2. Mem(c).heap = heap /\ Mem(c).obj = o /\ Mem(c) = [heap |-> heap, obj |-> o]
  BY DEF Mem
<1>3. CASE o.cap > 0 /\ Len(z) = o.cap
  <2> DEFINE victim == z[Len(z)]
             e == evict_tail(Mem(c))
  <2>1. m = e /\ s = Gone(z, Len(z)) /\ Len(z) # 0 /\ Len(z) \in 1..Len(z)
    BY <1>1, <1>3 DEF Trimmed, Kept
  <2>2. e = [heap |-> e.heap, obj |-> e.obj]
    BY DEF evict_tail
  <2> HIDE DEF z, o, m, s
  <2>3. /\ e.heap \in HeapType /\ e.obj \in CacheType
        /\ e.obj.cap = o.cap /\ e.obj.num_items = Len(s)
        /\ \A k \in Keys : o.index[k] = None => e.obj.index[k] = None
        /\ IsList(e.heap, e.obj, s) /\ IndexAgrees(e.heap, e.obj, s)
        /\ e.heap[victim] = None
        /\ \A n \in Nodes \ {victim} : heap[n] \in NodeType =>
             /\ e.heap[n] \in NodeType
             /\ e.heap[n].key = heap[n].key
             /\ e.heap[n].value = heap[n].value
        /\ SameOutside(heap, e.heap, z)
    BY <1>1, <1>2, <2>1, Evicted
  <2>4. /\ s \in Seq(Nodes) /\ Len(s) = Len(z) - 1
        /\ \A n \in Nodes : NotOn(n, s) <=> NotOn(n, z) \/ n = victim
    BY <1>1, <2>1, GoneIsSeq, RequeuedList DEF IsList
  <2>5. Len(s) + 1 = Len(z)
    BY <1>1, <2>4
  <2> HIDE DEF e, victim
  <2>6. /\ \A n \in Nodes : NotOn(n, z) => NotOn(n, s)
        /\ \A n \in Nodes : ~NotOn(n, z) /\ NotOn(n, s) => e.heap[n] = None
        /\ \A n \in Nodes : heap[n] \in NodeType /\ e.heap[n] # None =>
             /\ e.heap[n] \in NodeType
             /\ e.heap[n].key = heap[n].key
             /\ e.heap[n].value = heap[n].value
    BY <2>3, <2>4
  <2>7. e.obj.cap > 0 => Len(s) + 1 <= e.obj.cap
    BY <1>1, <1>3, <2>3, <2>5
  <2>8. QED
    BY <1>1, <2>1, <2>2, <2>3, <2>4, <2>5, <2>6, <2>7 DEF m, s, z, o
<1>4. CASE ~(o.cap > 0 /\ Len(z) = o.cap)
  <2>1. m = [heap |-> heap, obj |-> o] /\ s = z
    BY <1>1, <1>2, <1>4 DEF Trimmed, Kept
  <2>2. o.cap > 0 => Len(z) + 1 <= o.cap
    BY <1>1, <1>4
  <2>3. SameOutside(heap, heap, z)
    BY DEF SameOutside
  <2>4. Len(z) + 1 \in Nat
    BY <1>1
  <2> HIDE DEF z, o, m, s
  <2>5. m.heap = heap /\ m.obj = o
    BY <2>1
  <2>6. QED
    BY <1>1, <2>1, <2>2, <2>3, <2>4, <2>5, Zenon DEF m, s, z, o
<1>5. QED
  BY <1>3, <1>4

LEMMA PutNewStep ==
  ASSUME Legal, NEW L, Good(heap, cache, moved, L), NEW c \in Caches \ moved,
         NEW k \in Keys, NEW v \in Values, PutNew(c, k, v)
  PROVE  \E n \in Nodes :
           /\ Good(heap', cache', moved',
                   [L EXCEPT ![c] = Pushed(n, Kept(L[c], cache[c]))])
           /\ CapsKept /\ KeptBut(n)
           /\ NotOn(n, Kept(L[c], cache[c]))
           /\ heap'[n].key = k /\ heap'[n].value = v
           /\ \A i \in 1..Len(L[c]) : heap[L[c][i]].key # k
<1> DEFINE m == Trimmed(c)
           s == Kept(L[c], cache[c])
<1>1. /\ m = [heap |-> m.heap, obj |-> m.obj]
      /\ m.heap \in HeapType /\ m.obj \in CacheType
      /\ s \in Seq(Nodes) /\ Len(s) + 1 \in Nat
      /\ m.obj.cap = cache[c].cap /\ m.obj.num_items = Len(s)
      /\ m.obj.cap > 0 => Len(s) + 1 <= m.obj.cap
      /\ \A l \in Keys : cache[c].index[l] = None => m.obj.index[l] = None
      /\ IsList(m.heap, m.obj, s) /\ IndexAgrees(m.heap, m.obj, s)
      /\ SameOutside(heap, m.heap, L[c])
      /\ \A n \in Nodes : NotOn(n, L[c]) => NotOn(n, s)
      /\ \A n \in Nodes : ~NotOn(n, L[c]) /\ NotOn(n, s) => m.heap[n] = None
      /\ \A n \in Nodes : heap[n] \in NodeType /\ m.heap[n] # None =>
           /\ m.heap[n] \in NodeType
           /\ m.heap[n].key = heap[n].key
           /\ m.heap[n].value = heap[n].value
  BY TrimmedCache
<1>2. PICK n \in Nodes :
        /\ m.heap[n] = None
        /\ Apply(c, Inserts(m, n, k, v))
  BY DEF PutNew, Trimmed, Inserts
<1>3. cache[c].index[k] = None
  BY DEF PutNew
<1> DEFINE r == Inserts(m, n, k, v)
           t == Pushed(n, s)
<1>4. heap' = r.heap /\ cache' = [cache EXCEPT ![c] = r.obj] /\ moved' = moved
  BY <1>2 DEF Apply
<1> HIDE DEF m, s
<1>5. m.obj.index[k] = None /\ r = Inserts([heap |-> m.heap, obj |-> m.obj], n, k, v)
  BY <1>1, <1>3
<1> HIDE DEF r
<1>6. /\ r.heap \in HeapType /\ r.obj \in CacheType
      /\ r.obj.cap = m.obj.cap /\ r.obj.num_items = Len(t)
      /\ IsList(r.heap, r.obj, t) /\ IndexAgrees(r.heap, r.obj, t)
      /\ r.heap[n].key = k /\ r.heap[n].value = v
      /\ \A x \in Nodes \ {n} : m.heap[x] \in NodeType =>
           /\ r.heap[x] \in NodeType
           /\ r.heap[x].key = m.heap[x].key
           /\ r.heap[x].value = m.heap[x].value
      /\ SameOutside(m.heap, r.heap, t)
  BY <1>1, <1>2, <1>5, Inserted
<1>7. /\ t \in Seq(Nodes) /\ Len(t) = Len(s) + 1
      /\ \A x \in Nodes : NotOn(x, t) <=> x # n /\ NotOn(x, s)
  BY <1>1, PushedIsSeq, PushedNodes
<1> HIDE DEF t
<1>8. Fits(r.obj, t)
  BY <1>1, <1>6, <1>7 DEF Fits
<1>9. NotOn(n, s)
  BY <1>1, <1>2 DEF NotOn, IsList, Linked, Legal, NoneIsNoNode
<1>10. \A x \in Nodes : NotOn(x, t) /\ NotOn(x, L[c]) => r.heap[x] = heap[x]
  BY <1>1, <1>6 DEF SameOutside, NotOn
<1>11. \A x \in Nodes : NotOn(x, t) /\ ~NotOn(x, L[c]) => r.heap[x] = None
  BY <1>1, <1>6, <1>7 DEF SameOutside, NotOn
<1>12. ASSUME NEW j \in 1..Len(t), NotOn(t[j], L[c]) PROVE heap[t[j]] = None
  <2>1. t[j] \in Nodes /\ ~NotOn(t[j], t)
    BY <1>7 DEF NotOn
  <2>2. t[j] = n
    BY <1>1, <1>7, <1>12, <2>1
  <2>3. NotOn(n, L[c]) /\ m.heap[n] = None
    BY <1>2, <1>12, <2>2
  <2>4. m.heap[n] = heap[n]
    BY <1>1, <2>3 DEF SameOutside, NotOn
  <2>5. QED
    BY <2>2, <2>3, <2>4
<1>13. moved \ {c} = moved
  OBVIOUS
<1>14. Good(r.heap, [cache EXCEPT ![c] = r.obj], moved \ {c}, [L EXCEPT ![c] = t])
  <2>1. /\ r.heap \in HeapType /\ r.obj \in CacheType
        /\ IsList(r.heap, r.obj, t) /\ IndexAgrees(r.heap, r.obj, t)
    BY <1>6
  <2>2. t \in Seq(Nodes)
    BY <1>7
  <2>3. QED
    BY <1>8, <1>10, <1>11, <1>12, <2>1, <2>2, OneListChanges, ZenonT(30)
<1>15. CapsKept
  BY <1>1, <1>4, <1>6 DEF CapsKept, Good
<1>16. KeptBut(n)
  <2> SUFFICES ASSUME NEW x \in Nodes \ {n}, heap[x] \in NodeType, r.heap[x] # None
               PROVE  r.heap[x].key = heap[x].key /\ r.heap[x].value = heap[x].value
    BY <1>4 DEF KeptBut
  <2>1. m.heap[x] # None
    <3>1. ASSUME m.heap[x] = None PROVE FALSE
      <4>1. \A j \in 1..Len(s) : s[j] # x
        BY <1>1, <3>1 DEF IsList, Linked, Legal, NoneIsNoNode
      <4>2. NotOn(x, t)
        BY <1>7, <4>1 DEF NotOn
      <4>3. QED
        BY <1>6, <3>1, <4>2 DEF SameOutside, NotOn
    <3>2. QED
      BY <3>1
  <2>2. QED
    BY <1>1, <1>6, <2>1
<1>17. \A i \in 1..Len(L[c]) : heap[L[c][i]].key # k
  BY <1>3, NoEntry
<1>18. QED
  BY <1>4, <1>6, <1>9, <1>13, <1>14, <1>15, <1>16, <1>17 DEF t, s

LEMMA ClearStep ==
  ASSUME Legal, NEW L, Good(heap, cache, moved, L), NEW c \in Caches, clear(c)
  PROVE  /\ Good(heap', cache', moved', [L EXCEPT ![c] = <<>>])
         /\ CapsKept /\ KeptBut(None)
<1> DEFINE q == [cache[c] EXCEPT !.head = None, !.tail = None,
                                 !.index = NoIndex, !.num_items = 0]
           g == Deleted(heap, L[c])
<1>1. heap' = g /\ moved' = moved \ {c}
  BY DestroyAll DEF clear
<1>2. cache' = [cache EXCEPT ![c] = q] /\ cache[c] \in CacheType
  BY DEF clear, Good
<1>3. q \in CacheType /\ q.head = None /\ q.tail = None /\ q.index = NoIndex
      /\ q.num_items = 0 /\ q.cap = cache[c].cap
  BY <1>2 DEF CacheType, NoIndex
<1>4. /\ g \in HeapType
      /\ \A n \in Nodes : g[n] = IF NotOn(n, L[c]) THEN heap[n] ELSE None
  BY DEF Deleted, Good, HeapType
<1> HIDE DEF q, g
<1>5. Len(<<>>) = 0 /\ <<>> \in Seq(Nodes)
  OBVIOUS
<1>6. IsList(g, q, <<>>) /\ IndexAgrees(g, q, <<>>) /\ Fits(q, <<>>)
  BY <1>3, <1>5, EmptyIsList DEF Fits, CacheType
<1>7. \A n \in Nodes : NotOn(n, <<>>)
  BY <1>5 DEF NotOn
<1>8. Good(g, [cache EXCEPT ![c] = q], moved \ {c}, [L EXCEPT ![c] = <<>>])
  <2> DEFINE t == <<>>
  <2>1. t \in Seq(Nodes) /\ \A i \in 1..Len(t) : FALSE
    BY <1>5
  <2>2. IsList(g, q, t) /\ Fits(q, t) /\ IndexAgrees(g, q, t)
    BY <1>6
  <2> HIDE DEF t
  <2>3. Good(g, [cache EXCEPT ![c] = q], moved \ {c}, [L EXCEPT ![c] = t])
    BY <1>3, <1>4, <2>1, <2>2, OneListChanges, ZenonT(30)
  <2>4. QED
    BY <2>3 DEF t
<1>9. CapsKept
  <2>1. cache \in [Caches -> CacheType]
    BY DEF Good
  <2>2. \A d \in Caches : cache'[d] = IF d = c THEN q ELSE cache[d]
    BY <1>2, <2>1
  <2>3. QED
    BY <1>3, <2>2 DEF CapsKept
<1>10. KeptBut(None)
  BY <1>1, <1>4 DEF KeptBut
<1>11. QED
  BY <1>1, <1>2, <1>8, <1>9, <1>10

LEMMA MoveStep ==
  ASSUME Legal, NEW L, Good(heap, cache, moved, L), NEW d \in Caches,
         NEW s \in Caches \ {d}, move_construct(d, s) \/ move_assign(d, s)
  PROVE  /\ Good(heap', cache', moved', [L EXCEPT ![d] = L[s], ![s] = <<>>])
         /\ cache'[d].cap = cache[s].cap
         /\ \A c \in Caches \ {d} : cache'[c].cap = cache[c].cap
         /\ KeptBut(None)
<1> DEFINE g == Deleted(heap, L[d])
<1>1. heap' = g /\ moved' = (moved \cup {s}) \ {d} /\ s \notin moved
  BY DestroyAll DEF move_construct, move_assign, Usable
<1>2. /\ cache \in [Caches -> CacheType] /\ cache[s] \in CacheType
      /\ cache[d] \in CacheType /\ DOMAIN cache = Caches
      /\ s \in Caches /\ s # d
  BY DEF Good
<1>3. PICK j \in [Keys -> Nodes \cup {None}] :
        cache' = [cache EXCEPT ![d] = cache[s],
                               ![s].head = None, ![s].tail = None,
                               ![s].num_items = 0, ![s].index = j]
  <2>1. NoIndex \in [Keys -> Nodes \cup {None}] /\ cache[d].index \in [Keys -> Nodes \cup {None}]
    BY <1>2 DEF NoIndex, CacheType
  <2>2. QED
    BY <2>1 DEF move_construct, move_assign
<1> DEFINE r == [cache[s] EXCEPT !.head = None, !.tail = None,
                                 !.num_items = 0, !.index = j]
<1>4. cache' = [cache EXCEPT ![d] = cache[s], ![s] = r]
  <2> DEFINE b == [cache EXCEPT ![d] = cache[s]]
  <2>1. b[s] = cache[s] /\ s \in DOMAIN b
    BY <1>2
  <2>2. cache' = [b EXCEPT ![s] = [b[s] EXCEPT !.head = None, !.tail = None,
                                               !.num_items = 0, !.index = j]]
    BY <1>3, <2>1
  <2> HIDE DEF b
  <2>3. cache' = [b EXCEPT ![s] = r]
    BY <2>1, <2>2
  <2>4. QED
    BY <2>3 DEF b
<1>5. r \in CacheType /\ r.head = None /\ r.tail = None /\ r.num_items = 0
      /\ r.cap = cache[s].cap
  BY <1>2 DEF CacheType
<1> HIDE DEF r, g
<1>6. Good(g, [cache EXCEPT ![d] = cache[s], ![s] = r],
           (moved \cup {s}) \ {d}, [L EXCEPT ![d] = L[s], ![s] = <<>>])
  BY <1>1, <1>5, ListMoves DEF g
<1>7. KeptBut(None)
  BY <1>1 DEF KeptBut, g, Deleted
<1>8. QED
  BY <1>1, <1>2, <1>4, <1>5, <1>6, <1>7

-----------------------------------------------------------------------------
(* The entries of a list, and what the operations make of them.              *)

EntriesOf(h, s) == [i \in DOMAIN s |-> <<h[s[i]].key, h[s[i]].value>>]

LEMMA ListsAre ==
  ASSUME Legal, NEW h, NEW C, NEW mv, NEW L, Good(h, C, mv, L)
  PROVE  L = [c \in Caches |-> ListIn(h, C[c])]
<1>1. \A c \in Caches : ListIn(h, C[c]) = L[c]
  BY ListIsListed DEF Good
<1>2. L \in [Caches -> Seq(Nodes)]
  BY DEF Good
<1>3. QED
  BY <1>1, <1>2

LEMMA EntriesAre ==
  ASSUME Legal, NEW L
  PROVE  /\ Good(heap, cache, moved, L) =>
              Entries = [c \in Caches |-> EntriesOf(heap, L[c])]
         /\ Good(heap', cache', moved', L) =>
              Entries' = [c \in Caches |-> EntriesOf(heap', L[c])]
<1>1. ASSUME Good(heap, cache, moved, L)
      PROVE  Entries = [c \in Caches |-> EntriesOf(heap, L[c])]
  <2>1. \A c \in Caches : ListOf(cache[c]) = L[c]
    BY <1>1, ListIsListed DEF Good, ListOf
  <2>2. QED
    BY <2>1 DEF Entries, EntriesOf
<1>2. ASSUME Good(heap', cache', moved', L)
      PROVE  Entries' = [c \in Caches |-> EntriesOf(heap', L[c])]
  <2>1. \A c \in Caches : ListOf(cache[c])' = L[c]
    BY <1>2, ListIsListed DEF Good, ListOf
  <2>2. QED
    BY <2>1 DEF Entries, EntriesOf
<1>3. QED
  BY <1>1, <1>2

LEMMA EntriesSeq ==
  ASSUME NEW h, NEW s \in Seq(Nodes)
  PROVE  /\ DOMAIN EntriesOf(h, s) = 1..Len(s)
         /\ Len(EntriesOf(h, s)) = Len(s)
         /\ \A i \in 1..Len(s) : EntriesOf(h, s)[i] = <<h[s[i]].key, h[s[i]].value>>
<1>1. DOMAIN s = 1..Len(s) /\ Len(s) \in Nat
  OBVIOUS
<1>2. QED
  BY <1>1 DEF EntriesOf

LEMMA EntriesPushed ==
  ASSUME NEW h, NEW s \in Seq(Nodes), NEW n \in Nodes
  PROVE  EntriesOf(h, Pushed(n, s)) =
           << <<h[n].key, h[n].value>> >> \o EntriesOf(h, s)
<1> DEFINE t == Pushed(n, s)
           e == EntriesOf(h, s)
           d == << <<h[n].key, h[n].value>> >> \o e
<1>1. Len(s) \in Nat /\ t \in Seq(Nodes) /\ Len(t) = Len(s) + 1
  BY PushedIsSeq
<1>2. \A j \in 1..(Len(s) + 1) : t[j] = IF j = 1 THEN n ELSE s[j - 1]
  BY DEF Pushed
<1> HIDE DEF t
<1>3. /\ DOMAIN e = 1..Len(s) /\ Len(e) = Len(s)
      /\ \A i \in 1..Len(s) : e[i] = <<h[s[i]].key, h[s[i]].value>>
  BY EntriesSeq
<1>4. EntriesOf(h, t) = [j \in 1..(Len(s) + 1) |-> <<h[t[j]].key, h[t[j]].value>>]
  BY <1>1 DEF EntriesOf
<1> HIDE DEF e
<1>5. d = [j \in 1..(Len(s) + 1) |-> IF j = 1 THEN <<h[n].key, h[n].value>> ELSE e[j - 1]]
  BY <1>1, <1>3
<1> HIDE DEF d
<1>6. ASSUME NEW j \in 1..(Len(s) + 1)
      PROVE  <<h[t[j]].key, h[t[j]].value>> =
               IF j = 1 THEN <<h[n].key, h[n].value>> ELSE e[j - 1]
  <2>1. j # 1 => j - 1 \in 1..Len(s)
    BY <1>1
  <2>2. QED
    BY <1>2, <1>3, <2>1
<1>7. EntriesOf(h, t) = d
  BY <1>4, <1>5, <1>6
<1>8. QED
  BY <1>7 DEF t, d, e

LEMMA EntriesGone ==
  ASSUME NEW h, NEW s \in Seq(Nodes), NEW i \in 1..Len(s)
  PROVE  EntriesOf(h, Gone(s, i)) = LRU!WithoutAt(EntriesOf(h, s), i)
<1> DEFINE t == Gone(s, i)
           e == EntriesOf(h, s)
<1>1. Len(s) \in Nat /\ t \in Seq(Nodes) /\ Len(t) = Len(s) - 1
  BY GoneIsSeq
<1>2. \A j \in 1..(Len(s) - 1) : t[j] = s[IF j < i THEN j ELSE j + 1]
  BY DEF Gone
<1> HIDE DEF t
<1>3. /\ DOMAIN e = 1..Len(s) /\ Len(e) = Len(s)
      /\ \A j \in 1..Len(s) : e[j] = <<h[s[j]].key, h[s[j]].value>>
  BY EntriesSeq
<1>4. EntriesOf(h, t) = [j \in 1..(Len(s) - 1) |-> <<h[t[j]].key, h[t[j]].value>>]
  BY <1>1 DEF EntriesOf
<1> HIDE DEF e
<1>5. SubSeq(e, 1, i - 1) = [j \in 1..(i - 1) |-> e[j]]
  BY <1>1
<1>6. SubSeq(e, i + 1, Len(e)) = [j \in 1..(Len(s) - i) |-> e[i + j]]
  BY <1>1, <1>3
<1>7. Len([j \in 1..(i - 1) |-> e[j]]) = i - 1 /\ i - 1 \in Nat
  BY <1>1
<1>8. Len([j \in 1..(Len(s) - i) |-> e[i + j]]) = Len(s) - i /\ Len(s) - i \in Nat
  BY <1>1
<1>9. [j \in 1..(i - 1) |-> e[j]] \o [j \in 1..(Len(s) - i) |-> e[i + j]]
        = [j \in 1..(Len(s) - 1) |-> e[IF j < i THEN j ELSE j + 1]]
  BY <1>1, <1>7, <1>8
<1>10. LRU!WithoutAt(e, i) = [j \in 1..(Len(s) - 1) |-> e[IF j < i THEN j ELSE j + 1]]
  BY <1>5, <1>6, <1>9 DEF LRU!WithoutAt
<1>11. ASSUME NEW j \in 1..(Len(s) - 1)
       PROVE  <<h[t[j]].key, h[t[j]].value>> = e[IF j < i THEN j ELSE j + 1]
  <2>1. (IF j < i THEN j ELSE j + 1) \in 1..Len(s)
    BY <1>1
  <2>2. QED
    BY <1>2, <1>3, <2>1
<1>12. QED
  BY <1>4, <1>10, <1>11 DEF t, e

LEMMA EntriesKept ==
  ASSUME NEW n, KeptBut(n), NEW s \in Seq(Nodes), NotOn(n, s),
         \A i \in 1..Len(s) : heap[s[i]] \in NodeType /\ heap'[s[i]] # None
  PROVE  EntriesOf(heap', s) = EntriesOf(heap, s)
<1>1. DOMAIN s = 1..Len(s) /\ \A i \in 1..Len(s) : s[i] \in Nodes \ {n}
  BY DEF NotOn
<1>2. \A i \in 1..Len(s) : heap'[s[i]].key = heap[s[i]].key
                           /\ heap'[s[i]].value = heap[s[i]].value
  BY <1>1 DEF KeptBut
<1>3. QED
  BY <1>1, <1>2 DEF EntriesOf

Capacity == [c \in Caches |-> cache[c].cap]

\* A step that puts node n in front of s, of the nodes of the list, is a use.
LEMMA UsesStep ==
  ASSUME Legal, NEW L, Good(heap, cache, moved, L), NEW c \in Caches,
         NEW n \in Nodes, NEW s \in Seq(Nodes),
         \A x \in Nodes : NotOn(x, L[c]) => NotOn(x, s),
         Good(heap', cache', moved', [L EXCEPT ![c] = Pushed(n, s)]),
         NotOn(n, s), CapsKept, KeptBut(n)
  PROVE  /\ LRU!Uses(c, <<heap'[n].key, heap'[n].value>>, EntriesOf(heap, s))
         /\ Capacity' = Capacity
<1> DEFINE t == Pushed(n, s)
           M == [L EXCEPT ![c] = t]
<1>1. /\ L \in [Caches -> Seq(Nodes)] /\ M[c] = t
      /\ \A d \in Caches \ {c} : M[d] = L[d]
  BY DEF Good
<1>2. /\ Entries = [d \in Caches |-> EntriesOf(heap, L[d])]
      /\ Entries' = [d \in Caches |-> EntriesOf(heap', M[d])]
  BY EntriesAre
<1>3. \A x \in Nodes : NotOn(x, t) <=> x # n /\ NotOn(x, s)
  BY PushedNodes
<1> HIDE DEF M, t
<1>4. \A d \in Caches : \A i \in 1..Len(L[d]) :
        L[d][i] \in Nodes /\ heap[L[d][i]] \in NodeType
  BY DEF Good, IsList, Linked
<1>5. \A d \in Caches : \A i \in 1..Len(M[d]) : heap'[M[d][i]] # None
  BY DEF Good, IsList, Linked, M, t, Legal, NoneIsNoNode
<1>6. EntriesOf(heap', s) = EntriesOf(heap, s)
  <2>1. ASSUME NEW i \in 1..Len(s) PROVE heap[s[i]] \in NodeType /\ heap'[s[i]] # None
    <3>1. s[i] \in Nodes /\ ~NotOn(s[i], s)
      BY DEF NotOn
    <3>2. ~NotOn(s[i], L[c]) /\ ~NotOn(s[i], t)
      BY <1>3, <3>1
    <3>3. QED
      BY <1>1, <1>4, <1>5, <3>2 DEF NotOn
  <2>2. QED
    BY <2>1, EntriesKept
<1>7. ASSUME NEW d \in Caches \ {c}
      PROVE  EntriesOf(heap', L[d]) = EntriesOf(heap, L[d])
  <2>1. ~NotOn(n, t)
    BY <1>3
  <2>2. \A i \in 1..Len(t) : NotOn(t[i], L[d])
    BY <1>1 DEF Good, Apart, M, t
  <2>3. NotOn(n, L[d])
    BY <2>1, <2>2 DEF NotOn
  <2>4. \A i \in 1..Len(L[d]) : heap[L[d][i]] \in NodeType /\ heap'[L[d][i]] # None
    BY <1>1, <1>4, <1>5
  <2>5. QED
    BY <1>1, <2>3, <2>4, EntriesKept
<1>8. EntriesOf(heap', t) = << <<heap'[n].key, heap'[n].value>> >> \o EntriesOf(heap, s)
  BY <1>6, EntriesPushed DEF t
<1>9. Entries' = [Entries EXCEPT ![c] =
                    << <<heap'[n].key, heap'[n].value>> >> \o EntriesOf(heap, s)]
  BY <1>1, <1>2, <1>7, <1>8
<1>10. QED
  BY <1>9 DEF LRU!Uses, CapsKept, Capacity

\* Whose key a list has, its entries have.
LEMMA HoldsKey ==
  ASSUME NEW h, NEW s \in Seq(Nodes), NEW k
  PROVE  LRU!Holds(EntriesOf(h, s), k) <=> \E i \in 1..Len(s) : h[s[i]].key = k
<1> DEFINE e == EntriesOf(h, s)
<1>1. DOMAIN e = 1..Len(s) /\ \A i \in 1..Len(s) : e[i] = <<h[s[i]].key, h[s[i]].value>>
  BY EntriesSeq
<1> HIDE DEF e
<1>2. \A i \in 1..Len(s) : e[i][1] = h[s[i]].key
  BY <1>1
<1>3. LRU!Holds(e, k) <=> \E i \in 1..Len(s) : h[s[i]].key = k
  BY <1>1, <1>2 DEF LRU!Holds
<1>4. QED
  BY <1>3 DEF e

LEMMA PutRefines ==
  ASSUME Legal, NEW L, Good(heap, cache, moved, L), NEW c \in Caches,
         NEW k \in Keys, NEW v \in Values, put_impl(c, k, v)
  PROVE  /\ \E M : Good(heap', cache', moved', M)
         /\ CapsKept
         /\ LRU!put(c, k, v)
<1>1. /\ c \in Caches \ moved /\ reply' = NoValue
      /\ PutExisting(c, k, v) \/ PutNew(c, k, v)
  BY DEF put_impl, Usable
<1>2. L[c] \in Seq(Nodes) /\ Distinct(L[c])
  BY DEF Good, IsList
<1>3. Entries[c] = EntriesOf(heap, L[c])
  BY EntriesAre
<1>4. /\ DOMAIN Entries[c] = 1..Len(L[c]) /\ Len(Entries[c]) = Len(L[c])
      /\ \A i \in 1..Len(L[c]) : Entries[c][i] = <<heap[L[c][i]].key, heap[L[c][i]].value>>
  BY <1>2, <1>3, EntriesSeq
<1>5. CASE PutExisting(c, k, v)
  <2>1. PICK i \in 1..Len(L[c]) :
           /\ Good(heap', cache', moved',
                   [L EXCEPT ![c] = Pushed(L[c][i], Gone(L[c], i))])
           /\ CapsKept /\ KeptBut(L[c][i])
           /\ heap[L[c][i]].key = k
           /\ heap'[L[c][i]].key = k /\ heap'[L[c][i]].value = v
    BY <1>1, <1>5, PutExistingStep
  <2> DEFINE n == L[c][i]
             s == Gone(L[c], i)
  <2>2. /\ s \in Seq(Nodes) /\ n \in Nodes /\ NotOn(n, s)
        /\ \A x \in Nodes : NotOn(x, L[c]) => NotOn(x, s)
    BY <1>2, RequeuedList
  <2> HIDE DEF s
  <2>3. LRU!Uses(c, <<k, v>>, EntriesOf(heap, s)) /\ Capacity' = Capacity
    BY <2>1, <2>2, UsesStep DEF s
  <2>4. EntriesOf(heap, s) = LRU!WithoutAt(Entries[c], i)
    BY <1>2, <1>3, EntriesGone DEF s
  <2>5. i \in DOMAIN Entries[c] /\ Entries[c][i][1] = k
    BY <1>4, <2>1
  <2>6. LRU!put(c, k, v)
    BY <1>1, <2>3, <2>4, <2>5 DEF LRU!put, Capacity
  <2>7. QED
    BY <2>1, <2>6
<1>6. CASE PutNew(c, k, v)
  <2> DEFINE s == Kept(L[c], cache[c])
  <2>1. PICK n \in Nodes :
           /\ Good(heap', cache', moved', [L EXCEPT ![c] = Pushed(n, s)])
           /\ CapsKept /\ KeptBut(n)
           /\ NotOn(n, s)
           /\ heap'[n].key = k /\ heap'[n].value = v
           /\ \A i \in 1..Len(L[c]) : heap[L[c][i]].key # k
    BY <1>1, <1>6, PutNewStep
  <2>2. s \in Seq(Nodes) /\ \A x \in Nodes : NotOn(x, L[c]) => NotOn(x, s)
    BY <1>1, TrimmedCache
  <2> HIDE DEF s
  <2>3. LRU!Uses(c, <<k, v>>, EntriesOf(heap, s)) /\ Capacity' = Capacity
    BY <2>1, <2>2, UsesStep
  <2>4. ~LRU!Holds(Entries[c], k)
    BY <1>2, <1>3, <2>1, HoldsKey
  <2>5. Capacity[c] = cache[c].cap /\ Capacity[c] \in Nat /\ Len(L[c]) \in Nat
    BY <1>2 DEF Capacity, Good, CacheType
  <2>6. CASE Capacity[c] > 0 /\ Len(L[c]) = Capacity[c]
    <3>1. s = Gone(L[c], Len(L[c])) /\ Len(L[c]) \in 1..Len(L[c])
      BY <2>5, <2>6 DEF s, Kept
    <3>2. EntriesOf(heap, s) = LRU!WithoutAt(Entries[c], Len(Entries[c]))
      BY <1>2, <1>3, <1>4, <3>1, EntriesGone
    <3>3. QED
      BY <1>1, <1>4, <2>1, <2>3, <2>4, <2>6, <3>2 DEF LRU!put, Capacity
  <2>7. CASE ~(Capacity[c] > 0 /\ Len(L[c]) = Capacity[c])
    <3>1. s = L[c]
      BY <2>5, <2>7 DEF s, Kept
    <3>2. QED
      BY <1>1, <1>3, <1>4, <2>1, <2>3, <2>4, <2>7, <3>1 DEF LRU!put, Capacity
  <2>8. QED
    BY <2>6, <2>7
<1>7. QED
  BY <1>1, <1>5, <1>6

LEMMA GetRefines ==
  ASSUME Legal, NEW L, Good(heap, cache, moved, L), NEW c \in Caches,
         NEW k \in Keys, get(c, k)
  PROVE  /\ \E M : Good(heap', cache', moved', M)
         /\ CapsKept
         /\ reply' \in Values \cup {NoValue}
         /\ LRU!get(c, k)
<1>1. c \in Caches \ moved
  BY DEF get, Usable
<1>2. L[c] \in Seq(Nodes) /\ Distinct(L[c])
  BY DEF Good, IsList
<1>3. Entries[c] = EntriesOf(heap, L[c])
  BY EntriesAre
<1>4. /\ DOMAIN Entries[c] = 1..Len(L[c]) /\ Len(Entries[c]) = Len(L[c])
      /\ \A i \in 1..Len(L[c]) : Entries[c][i] = <<heap[L[c][i]].key, heap[L[c][i]].value>>
  BY <1>2, <1>3, EntriesSeq
<1>5. CASE cache[c].index[k] # None
  <2>1. PICK i \in 1..Len(L[c]) :
           /\ Good(heap', cache', moved',
                   [L EXCEPT ![c] = Pushed(L[c][i], Gone(L[c], i))])
           /\ CapsKept /\ KeptBut(None)
           /\ heap[L[c][i]].key = k /\ reply' = heap[L[c][i]].value
    BY <1>5, GetHitStep
  <2> DEFINE n == L[c][i]
             s == Gone(L[c], i)
  <2>2. /\ s \in Seq(Nodes) /\ n \in Nodes /\ NotOn(n, s)
        /\ \A x \in Nodes : NotOn(x, L[c]) => NotOn(x, s)
    BY <1>2, RequeuedList
  <2> HIDE DEF s
  <2>3. KeptBut(n) /\ n # None
    BY <2>1, <2>2 DEF KeptBut, Legal, NoneIsNoNode
  <2>4. /\ LRU!Uses(c, <<heap'[n].key, heap'[n].value>>, EntriesOf(heap, s))
        /\ Capacity' = Capacity
    BY <2>1, <2>2, <2>3, UsesStep DEF s
  <2>5. heap[n] \in NodeType /\ heap'[n] # None
    <3>1. heap[n] \in NodeType
      BY DEF Good, IsList, Linked
    <3> DEFINE t == Pushed(n, s)
               M == [L EXCEPT ![c] = t]
    <3>2. M[c] = t
      BY DEF Good
    <3>3. ~NotOn(n, t)
      BY <2>2, PushedNodes
    <3>4. \A j \in 1..Len(M[c]) : heap'[M[c][j]] # None
      BY <2>1 DEF Good, IsList, Linked, Legal, NoneIsNoNode, s
    <3> HIDE DEF M, t
    <3>5. heap'[n] # None
      BY <3>2, <3>3, <3>4 DEF NotOn
    <3>6. QED
      BY <3>1, <3>5
  <2>6. <<heap'[n].key, heap'[n].value>> = Entries[c][i]
    BY <1>4, <2>1, <2>2, <2>3, <2>5 DEF KeptBut
  <2>7. EntriesOf(heap, s) = LRU!WithoutAt(Entries[c], i)
    BY <1>2, <1>3, EntriesGone DEF s
  <2>8. i \in DOMAIN Entries[c] /\ Entries[c][i][1] = k /\ Entries[c][i][2] = reply'
    BY <1>4, <2>1
  <2>9. LRU!get(c, k)
    BY <2>4, <2>6, <2>7, <2>8 DEF LRU!get, Capacity
  <2>10. reply' \in Values
    BY <2>1, <2>5 DEF NodeType
  <2>11. QED
    BY <2>1, <2>9, <2>10
<1>6. CASE cache[c].index[k] = None
  <2>1. UNCHANGED <<heap, cache, moved>> /\ reply' = NoValue
    BY <1>6 DEF get
  <2>2. Good(heap', cache', moved', L) /\ CapsKept
    BY <2>1 DEF CapsKept
  <2>3. Entries' = Entries /\ Capacity' = Capacity
    BY <2>1, <2>2, EntriesAre DEF Capacity
  <2>4. ~LRU!Holds(Entries[c], k)
    BY <1>1, <1>2, <1>3, <1>6, NoEntry, HoldsKey
  <2>5. LRU!get(c, k)
    BY <2>1, <2>3, <2>4 DEF LRU!get, Capacity
  <2>6. QED
    BY <2>1, <2>2, <2>5
<1>7. QED
  BY <1>5, <1>6

LEMMA ClearRefines ==
  ASSUME Legal, NEW L, Good(heap, cache, moved, L), NEW c \in Caches, clear(c)
  PROVE  /\ \E M : Good(heap', cache', moved', M)
         /\ CapsKept
         /\ LRU!clear(c)
<1> DEFINE M == [L EXCEPT ![c] = <<>>]
<1>1. Good(heap', cache', moved', M) /\ CapsKept /\ KeptBut(None) /\ reply' = NoValue
  BY ClearStep DEF clear
<1>2. /\ L \in [Caches -> Seq(Nodes)] /\ M[c] = <<>>
      /\ \A d \in Caches \ {c} : M[d] = L[d]
  BY DEF Good
<1> HIDE DEF M
<1>3. /\ Entries = [d \in Caches |-> EntriesOf(heap, L[d])]
      /\ Entries' = [d \in Caches |-> EntriesOf(heap', M[d])]
  BY <1>1, EntriesAre
<1>4. ASSUME NEW d \in Caches \ {c}
      PROVE  EntriesOf(heap', M[d]) = EntriesOf(heap, L[d])
  <2>1. NotOn(None, L[d])
    BY <1>2 DEF NotOn, Legal, NoneIsNoNode
  <2>2. \A i \in 1..Len(L[d]) : heap[L[d][i]] \in NodeType /\ heap'[L[d][i]] # None
    BY <1>1, <1>2 DEF Good, IsList, Linked, Legal, NoneIsNoNode
  <2>3. QED
    BY <1>1, <1>2, <2>1, <2>2, EntriesKept
<1>5. EntriesOf(heap', <<>>) = <<>>
  BY DEF EntriesOf
<1>6. Entries' = [Entries EXCEPT ![c] = <<>>]
  BY <1>2, <1>3, <1>4, <1>5
<1>7. Capacity' = Capacity
  BY <1>1 DEF Capacity, CapsKept
<1>8. QED
  BY <1>1, <1>6, <1>7 DEF LRU!clear, Capacity

LEMMA MoveRefines ==
  ASSUME Legal, NEW L, Good(heap, cache, moved, L), NEW d \in Caches,
         NEW s \in Caches \ {d}, move_construct(d, s) \/ move_assign(d, s)
  PROVE  /\ \E M : Good(heap', cache', moved', M)
         /\ \A c \in Caches : \E b \in Caches : cache'[c].cap = cache[b].cap
         /\ LRU!move(d, s)
<1> DEFINE M == [L EXCEPT ![d] = L[s], ![s] = <<>>]
<1>1. /\ Good(heap', cache', moved', M)
      /\ cache'[d].cap = cache[s].cap
      /\ \A c \in Caches \ {d} : cache'[c].cap = cache[c].cap
      /\ KeptBut(None)
  BY MoveStep
<1>2. reply' = NoValue
  BY DEF move_construct, move_assign
<1>3. /\ L \in [Caches -> Seq(Nodes)] /\ M[d] = L[s] /\ M[s] = <<>>
      /\ \A c \in Caches \ {d, s} : M[c] = L[c]
  BY DEF Good
<1> HIDE DEF M
<1>4. /\ Entries = [c \in Caches |-> EntriesOf(heap, L[c])]
      /\ Entries' = [c \in Caches |-> EntriesOf(heap', M[c])]
  BY <1>1, EntriesAre
<1>5. ASSUME NEW a \in Caches, NEW c \in Caches, M[a] = L[c]
      PROVE  EntriesOf(heap', M[a]) = EntriesOf(heap, L[c])
  <2>1. NotOn(None, L[c])
    BY <1>3 DEF NotOn, Legal, NoneIsNoNode
  <2>2. \A i \in 1..Len(L[c]) : heap[L[c][i]] \in NodeType /\ heap'[L[c][i]] # None
    BY <1>1, <1>3, <1>5 DEF Good, IsList, Linked, Legal, NoneIsNoNode
  <2>3. QED
    BY <1>1, <1>3, <1>5, <2>1, <2>2, EntriesKept
<1>6. EntriesOf(heap', <<>>) = <<>>
  BY DEF EntriesOf
<1>7. Entries' = [Entries EXCEPT ![d] = Entries[s], ![s] = <<>>]
  BY <1>3, <1>4, <1>5, <1>6
<1>8. Capacity' = [Capacity EXCEPT ![d] = Capacity[s]]
  BY <1>1 DEF Capacity
<1>9. \A c \in Caches : \E b \in Caches : cache'[c].cap = cache[b].cap
  BY <1>1
<1>10. QED
  BY <1>1, <1>2, <1>7, <1>8, <1>9 DEF LRU!move, Capacity

-----------------------------------------------------------------------------
Lists == [c \in Caches |-> ListOf(cache[c])]

CacheInv ==
  /\ Good(heap, cache, moved, Lists)
  /\ reply \in Values \cup {NoValue}
  /\ \A c \in Caches : cache[c].cap \in Caps

LEMMA InitStep ==
  ASSUME Legal, Init
  PROVE  CacheInv /\ LRU!Init
<1> DEFINE L == [c \in Caches |-> <<>>]
<1>1. /\ heap = [n \in Nodes |-> None] /\ moved = {} /\ reply = NoValue
      /\ \A c \in Caches :
           /\ cache[c] \in CacheType /\ cache[c].cap \in Caps
           /\ cache[c].num_items = 0 /\ cache[c].head = None
           /\ cache[c].tail = None /\ cache[c].index = NoIndex
      /\ cache \in [Caches -> CacheType]
  <2>1. cache \in [Caches -> [cap : Caps, num_items : {0}, head : {None},
                               tail : {None}, index : {NoIndex}]]
    BY DEF Init
  <2>2. NoIndex \in [Keys -> Nodes \cup {None}]
    BY DEF NoIndex
  <2>3. ASSUME NEW c \in Caches
        PROVE  /\ cache[c] \in CacheType /\ cache[c].cap \in Caps
               /\ cache[c].num_items = 0 /\ cache[c].head = None
               /\ cache[c].tail = None /\ cache[c].index = NoIndex
    <3>1. cache[c] \in [cap : Caps, num_items : {0}, head : {None},
                        tail : {None}, index : {NoIndex}]
      BY <2>1
    <3>2. /\ cache[c].cap \in Caps /\ cache[c].num_items = 0 /\ cache[c].head = None
          /\ cache[c].tail = None /\ cache[c].index = NoIndex
      BY <3>1
    <3>3. Caps \subseteq Nat
      BY DEF Legal, CapsNat
    <3>4. cache[c] \in CacheType
      <4>1. PICK k \in Caps :
              cache[c] = [cap |-> k, num_items |-> 0, head |-> None,
                          tail |-> None, index |-> NoIndex]
        BY <3>1
      <4>2. k \in Nat
        BY <3>3
      <4>3. QED
        BY <2>2, <4>1, <4>2 DEF CacheType
    <3>5. QED
      BY <3>2, <3>4
  <2>4. cache \in [Caches -> CacheType]
    BY <2>1, <2>3
  <2>5. heap = [n \in Nodes |-> None] /\ moved = {} /\ reply = NoValue
    BY DEF Init
  <2>6. QED
    BY <2>3, <2>4, <2>5
<1>2. Len(<<>>) = 0 /\ <<>> \in Seq(Nodes)
  OBVIOUS
<1>3. L \in [Caches -> Seq(Nodes)] /\ \A c \in Caches : L[c] = <<>>
  BY <1>2
<1> HIDE DEF L
<1>4. ASSUME NEW c \in Caches
      PROVE  /\ IsList(heap, cache[c], L[c]) /\ Fits(cache[c], L[c])
             /\ IndexAgrees(heap, cache[c], L[c])
  <2>1. IsList(heap, cache[c], <<>>) /\ IndexAgrees(heap, cache[c], <<>>)
    BY <1>1, EmptyIsList
  <2>2. Fits(cache[c], <<>>)
    BY <1>1, <1>2 DEF Fits, CacheType
  <2>3. QED
    BY <1>3, <2>1, <2>2
<1>5. Apart(L) /\ Owned(heap, L)
  BY <1>1, <1>2, <1>3 DEF Apart, Owned
<1>6. Good(heap, cache, moved, L)
  BY <1>1, <1>3, <1>4, <1>5 DEF Good, HeapType
<1>7. CacheInv
  BY <1>1, <1>6, ListsAre DEF CacheInv, Lists, ListOf
<1>8. Entries = [c \in Caches |-> <<>>]
  <2>1. EntriesOf(heap, <<>>) = <<>>
    BY DEF EntriesOf
  <2>2. QED
    BY <1>3, <1>6, <2>1, EntriesAre
<1>9. [c \in Caches |-> cache[c].cap] \in [Caches -> Nat]
  BY <1>1 DEF CacheType
<1>10. QED
  BY <1>1, <1>7, <1>8, <1>9 DEF LRU!Init

LEMMA NextStep ==
  ASSUME Legal, CacheInv, [Next]_vars
  PROVE  CacheInv' /\ [LRU!Next]_(LRU!vars)
<1>1. Good(heap, cache, moved, Lists)
  BY DEF CacheInv
<1> DEFINE After == /\ \E M : Good(heap', cache', moved', M)
                    /\ \A c \in Caches : \E b \in Caches : cache'[c].cap = cache[b].cap
                    /\ reply' \in Values \cup {NoValue}
<1>2. ASSUME After PROVE CacheInv'
  <2>1. PICK M : Good(heap', cache', moved', M)
    BY <1>2
  <2>2. M = Lists'
    BY <2>1, ListsAre DEF Lists, ListOf
  <2>3. \A c \in Caches : cache'[c].cap \in Caps
    BY <1>2 DEF CacheInv
  <2>4. QED
    BY <1>2, <2>1, <2>2, <2>3 DEF CacheInv
<1>3. ASSUME NEW c \in Caches, NEW k \in Keys, NEW v \in Values, put_impl(c, k, v)
      PROVE  After /\ LRU!put(c, k, v)
  <2>1. reply' = NoValue
    BY <1>3 DEF put_impl
  <2>2. QED
    BY <1>1, <1>3, <2>1, PutRefines DEF CapsKept
<1>4. ASSUME NEW c \in Caches, NEW k \in Keys, get(c, k)
      PROVE  After /\ LRU!get(c, k)
  BY <1>1, <1>4, GetRefines DEF CapsKept
<1>5. ASSUME NEW c \in Caches, clear(c)
      PROVE  After /\ LRU!clear(c)
  <2>1. reply' = NoValue
    BY <1>5 DEF clear
  <2>2. QED
    BY <1>1, <1>5, <2>1, ClearRefines DEF CapsKept
<1>6. ASSUME NEW c \in Caches, NEW s \in Caches \ {c},
             move_construct(c, s) \/ move_assign(c, s)
      PROVE  After /\ LRU!move(c, s)
  <2>1. reply' = NoValue
    BY <1>6 DEF move_construct, move_assign
  <2>2. QED
    BY <1>1, <1>6, <2>1, MoveRefines
<1>7. ASSUME UNCHANGED vars
      PROVE  After /\ UNCHANGED LRU!vars
  <2>1. UNCHANGED <<heap, cache, moved, reply>>
    BY <1>7 DEF vars
  <2>2. Good(heap', cache', moved', Lists)
    BY <1>1, <2>1
  <2>3. Entries' = Entries /\ Capacity' = Capacity
    BY <1>1, <2>1, <2>2, EntriesAre DEF Capacity
  <2>4. reply' \in Values \cup {NoValue}
    BY <2>1 DEF CacheInv
  <2>5. QED
    BY <2>1, <2>2, <2>3, <2>4 DEF LRU!vars, Capacity
<1> HIDE DEF After
<1>8. After /\ [LRU!Next]_(LRU!vars)
  BY <1>3, <1>4, <1>5, <1>6, <1>7 DEF Next, LRU!Next
<1>9. QED
  BY <1>2, <1>8

\* The list and the index of every cache agree and are well linked, lists are
\* disjoint and own every node, whatever the number of caches, keys and nodes.
THEOREM CacheInvariance ==
  ASSUME Legal
  PROVE  Spec => []CacheInv
<1>1. Init => CacheInv
  BY InitStep
<1>2. CacheInv /\ [Next]_vars => CacheInv'
  BY NextStep
<1>3. QED
  BY <1>1, <1>2, PTL DEF Spec

\* The caches are least-recently-used caches.
THEOREM CacheIsLRU ==
  ASSUME Legal
  PROVE  Spec => ImplementsLRU
<1>1. Init => LRU!Init
  BY InitStep
<1>2. CacheInv /\ [Next]_vars => [LRU!Next]_(LRU!vars)
  BY NextStep
<1>3. QED
  BY <1>1, <1>2, CacheInvariance, PTL DEF Spec, ImplementsLRU, LRU!Spec

-----------------------------------------------------------------------------
(* What the invariant says of the properties that the runs check.            *)

LEMMA InvType == Legal /\ CacheInv => TypeOK
<1> SUFFICES ASSUME Legal, CacheInv PROVE TypeOK
  OBVIOUS
<1>1. heap \in HeapType /\ cache \in [Caches -> CacheType] /\ moved \in SUBSET Caches
  BY DEF CacheInv, Good
<1>2. ASSUME NEW c \in Caches
      PROVE  cache[c] \in [cap : Caps, num_items : 0..Cardinality(Nodes),
                           head : Nodes \cup {None}, tail : Nodes \cup {None},
                           index : [Keys -> Nodes \cup {None}]]
  <2>1. Lists[c] \in Seq(Nodes) /\ Distinct(Lists[c])
        /\ cache[c].num_items = Len(Lists[c])
    BY DEF CacheInv, Good, IsList, Fits
  <2>2. cache[c].num_items \in 0..Cardinality(Nodes)
    BY <2>1, Short
  <2>3. cache[c].cap \in Caps
    BY DEF CacheInv
  <2>4. QED
    BY <1>1, <2>2, <2>3 DEF CacheType
<1>3. QED
  BY <1>1, <1>2 DEF TypeOK, CacheInv, HeapType

LEMMA ListLength ==
  ASSUME Legal, NEW s \in Seq(Nodes), Distinct(s)
  PROVE  Cardinality(Elements(s)) = Len(s)
<1>1. /\ Len(s) \in Nat /\ DOMAIN s = 1..Len(s)
      /\ IsFiniteSet(1..Len(s)) /\ Cardinality(1..Len(s)) = Len(s)
  BY Short, FS_Interval
<1>2. s \in [1..Len(s) -> Elements(s)] /\ \A x \in Elements(s) : \E i \in 1..Len(s) : s[i] = x
  BY <1>1 DEF Elements
<1>3. s \in Bijection(1..Len(s), Elements(s))
  BY <1>2 DEF Bijection, Injection, Surjection, IsInjective, Distinct
<1>4. QED
  BY <1>1, <1>3, FS_Bijection DEF ExistsBijection

LEMMA InvConsistent ==
  ASSUME Legal, CacheInv, NEW c \in Caches \ moved
  PROVE  Consistent(c)
<1> DEFINE s == ListOf(cache[c])
           n == Len(s)
<1>1. s = Lists[c]
  BY DEF Lists
<1>2. /\ s \in Seq(Nodes) /\ IsList(heap, cache[c], s) /\ cache[c].num_items = n
      /\ IndexAgrees(heap, cache[c], s)
  BY <1>1 DEF CacheInv, Good, Fits
<1>3. Cardinality(Elements(s)) = n /\ DOMAIN s = 1..n
  BY <1>2, ListLength DEF IsList
<1> HIDE DEF s
<1>4. \A i \in 1..n :
        /\ heap[s[i]] # None
        /\ heap[s[i]].prev = IF i = 1 THEN None ELSE s[i - 1]
        /\ heap[s[i]].next = IF i = n THEN None ELSE s[i + 1]
  BY <1>2 DEF IsList, Linked, Legal, NoneIsNoNode
<1>5. ASSUME NEW k \in Keys, cache[c].index[k] # None
      PROVE  cache[c].index[k] \in Elements(s) /\ heap[cache[c].index[k]].key = k
  <2>1. PICK i \in 1..n : s[i] = cache[c].index[k] /\ heap[s[i]].key = k
    BY <1>2, <1>5 DEF IndexAgrees
  <2>2. s[i] \in Elements(s)
    BY <1>3 DEF Elements
  <2>3. QED
    BY <2>1, <2>2
<1>6. ASSUME NEW m \in Elements(s)
      PROVE  cache[c].index[heap[m].key] = m
  <2>1. PICK i \in 1..n : s[i] = m
    BY <1>3 DEF Elements
  <2>2. cache[c].index[heap[s[i]].key] = s[i]
    BY <1>2 DEF IndexAgrees
  <2>3. QED
    BY <2>1, <2>2
<1>7. cache[c].tail = IF n = 0 THEN None ELSE s[n]
  BY <1>2 DEF IsList, Ends
<1>8. QED
  BY <1>2, <1>3, <1>4, <1>5, <1>6, <1>7 DEF Consistent, s

LEMMA InvOwned == Legal /\ CacheInv => NodesOwnedOnce
<1> SUFFICES ASSUME Legal, CacheInv, NEW n \in Nodes
             PROVE  Cardinality({c \in Caches : n \in Listed(c)})
                      = IF heap[n] = None THEN 0 ELSE 1
  BY DEF NodesOwnedOnce
<1> DEFINE owners == {c \in Caches : n \in Listed(c)}
<1>1. \A c \in Caches : n \in Listed(c) <=> ~NotOn(n, Lists[c])
  <2>1. \A c \in Caches : DOMAIN Lists[c] = 1..Len(Lists[c]) /\ Lists[c] = ListOf(cache[c])
    BY DEF CacheInv, Good, Lists
  <2>2. QED
    BY <2>1 DEF Listed, Elements, NotOn
<1>2. \A c, d \in owners : c = d
  BY <1>1 DEF CacheInv, Good, Apart, NotOn
<1>3. CASE heap[n] = None
  <2>1. \A c \in Caches : NotOn(n, Lists[c])
    BY <1>3 DEF CacheInv, Good, IsList, Linked, NotOn, Legal, NoneIsNoNode
  <2>2. owners = {}
    BY <1>1, <2>1
  <2>3. QED
    BY <1>3, <2>2, FS_EmptySet
<1>4. CASE heap[n] # None
  <2>1. PICK c \in Caches : ~NotOn(n, Lists[c])
    BY <1>4 DEF CacheInv, Good, Owned
  <2>2. owners = {c}
    BY <1>1, <1>2, <2>1
  <2>3. QED
    BY <1>4, <2>2, FS_Singleton
<1>5. QED
  BY <1>3, <1>4

\* Type correctness, and what the invariant says to a caller.
THEOREM CacheSays ==
  ASSUME Legal
  PROVE  Spec => [](TypeOK /\ ListAndIndexAgree /\ NodesOwnedOnce)
<1>1. CacheInv => TypeOK
  BY InvType
<1>2. CacheInv => ListAndIndexAgree
  BY InvConsistent DEF ListAndIndexAgree
<1>3. CacheInv => NodesOwnedOnce
  BY InvOwned
<1>4. QED
  BY <1>1, <1>2, <1>3, CacheInvariance, PTL
=============================================================================
