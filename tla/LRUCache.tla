------------------------------ MODULE LRUCache ------------------------------
(***************************************************************************)
(* LRUCache<Key, Value> of lrucache.hpp, pointer by pointer: heap-allocated*)
(* nodes on a doubly-linked list by recency of use, and a HashMap from key *)
(* to node.  The HashMap is a function from keys to nodes (None where      *)
(* there is no entry); assigning it by move exchanges two of them, which   *)
(* is what HashMap::operator=(HashMap&&) does.                             *)
(*                                                                         *)
(* A caller may only clear a cache it has moved from, assign to it or      *)
(* destroy it.                                                             *)
(***************************************************************************)
EXTENDS Naturals, Sequences, FiniteSets

CONSTANTS Caches,      \* the cache objects
          Keys, Values,
          Nodes,       \* bound: addresses a node can have
          None,        \* nullptr
          NoValue,     \* no value returned
          Caps         \* the capacities a cache is constructed with

NodeType == [key : Keys, value : Values, prev : Nodes \cup {None},
             next : Nodes \cup {None}]

\* nullptr is neither an address nor what is at one.
CapsNat == Caps \subseteq Nat
NodesFinite == IsFiniteSet(Nodes)
NoneIsNoNode == None \notin Nodes /\ None \notin NodeType
Legal == CapsNat /\ NodesFinite /\ NoneIsNoNode

VARIABLES heap,        \* heap[n]: the node at address n, or None
          cache,       \* cache[c]: the members of object c
          moved,       \* the objects whose contents were moved away
          reply        \* what the last get returned

vars == <<heap, cache, moved, reply>>

NoIndex == [k \in Keys |-> None]

Init ==
  /\ heap = [n \in Nodes |-> None]
  /\ cache \in [Caches -> [cap : Caps, num_items : {0}, head : {None},
                           tail : {None}, index : {NoIndex}]]
  /\ moved = {}
  /\ reply = NoValue

-----------------------------------------------------------------------------
(* The private operations, on a state m = [heap |-> ..., obj |-> ...] of the *)
(* heap and one object.                                                      *)
unlink(m, n) ==
  LET p == m.heap[n].prev
      x == m.heap[n].next
      afterPrev == IF p = None THEN m.heap ELSE [m.heap EXCEPT ![p].next = x]
      afterNext == IF x = None THEN afterPrev
                   ELSE [afterPrev EXCEPT ![x].prev = p]
  IN  [heap |-> [afterNext EXCEPT ![n].prev = None, ![n].next = None],
       obj |-> [m.obj EXCEPT !.head = IF p = None THEN x ELSE @,
                             !.tail = IF x = None THEN p ELSE @]]

push_front(m, n) ==
  LET h == m.obj.head
      linked == [m.heap EXCEPT ![n].prev = None, ![n].next = h]
  IN  [heap |-> IF h = None THEN linked ELSE [linked EXCEPT ![h].prev = n],
       obj |-> [m.obj EXCEPT !.head = n,
                             !.tail = IF @ = None THEN n ELSE @]]

\* Mutant of evict_tail: the entry stays in the index.
evict_tail_only(m) ==
  LET victim == m.obj.tail
      u == unlink(m, victim)
  IN  [heap |-> [u.heap EXCEPT ![victim] = None],
       obj |-> [u.obj EXCEPT !.num_items = @ - 1]]

evict_tail(m) ==
  LET victim == m.obj.tail
      u == unlink(m, victim)
  IN  [heap |-> [u.heap EXCEPT ![victim] = None],
       obj |-> [u.obj EXCEPT !.index[m.heap[victim].key] = None,
                             !.num_items = @ - 1]]

\* The nodes on the list of obj in the heap h, from its head; at most one per
\* address.
ListIn(h, obj) ==
  LET next == [n \in Nodes \cup {None} |->
                 IF n = None \/ h[n] = None THEN None ELSE h[n].next]
      walk[i \in 1..Cardinality(Nodes)] ==
        IF i = 1 THEN obj.head ELSE next[walk[i - 1]]
  IN  SubSeq(walk, 1, Cardinality({i \in DOMAIN walk : walk[i] # None}))

ListOf(obj) == ListIn(heap, obj)

Elements(s) == {s[i] : i \in DOMAIN s}

\* destroy_all: every node on the list of the object is deleted.
destroy_all(obj) ==
  LET deleted == Elements(ListOf(obj))
  IN  [n \in Nodes |-> IF n \in deleted THEN None ELSE heap[n]]

-----------------------------------------------------------------------------
Usable(c) == c \notin moved

Apply(c, m) ==
  /\ heap' = m.heap
  /\ cache' = [cache EXCEPT ![c] = m.obj]
  /\ UNCHANGED moved

Mem(c) == [heap |-> heap, obj |-> cache[c]]

PutExisting(c, k, v) ==
  LET n == cache[c].index[k]
      m == [Mem(c) EXCEPT !.heap[n].value = v]
  IN  n # None /\ Apply(c, push_front(unlink(m, n), n))

PutNew(c, k, v) ==
  LET full == cache[c].cap > 0 /\ cache[c].num_items = cache[c].cap
      m == IF full THEN evict_tail(Mem(c)) ELSE Mem(c)
      node == [key |-> k, value |-> v, prev |-> None, next |-> None]
  IN  /\ cache[c].index[k] = None
      /\ \E n \in Nodes :
           /\ m.heap[n] = None
           /\ LET p == push_front([m EXCEPT !.heap[n] = node], n)
              IN  Apply(c, [p EXCEPT !.obj.index[k] = n,
                                     !.obj.num_items = @ + 1])

put_impl(c, k, v) ==
  /\ Usable(c)
  /\ PutExisting(c, k, v) \/ PutNew(c, k, v)
  /\ reply' = NoValue

\* Mutant of get: reading an entry does not count as a use.
get_unmoved(c, k) ==
  LET n == cache[c].index[k]
  IN  /\ Usable(c)
      /\ reply' = IF n = None THEN NoValue ELSE heap[n].value
      /\ UNCHANGED <<heap, cache, moved>>

get(c, k) ==
  LET n == cache[c].index[k]
  IN  /\ Usable(c)
      /\ \/ /\ n = None
            /\ reply' = NoValue
            /\ UNCHANGED <<heap, cache, moved>>
         \/ /\ n # None
            /\ reply' = heap[n].value
            /\ Apply(c, push_front(unlink(Mem(c), n), n))

clear(c) ==
  /\ heap' = destroy_all(cache[c])
  /\ cache' = [cache EXCEPT ![c].head = None, ![c].tail = None,
                            ![c].index = NoIndex, ![c].num_items = 0]
  /\ moved' = moved \ {c}
  /\ reply' = NoValue

\* LRUCache(LRUCache&&): a new object takes the place of d.
move_construct(d, s) ==
  /\ Usable(s)
  /\ heap' = destroy_all(cache[d])
  /\ cache' = [cache EXCEPT ![d] = cache[s],
                            ![s].head = None, ![s].tail = None,
                            ![s].num_items = 0, ![s].index = NoIndex]
  /\ moved' = (moved \cup {s}) \ {d}
  /\ reply' = NoValue

\* Mutant of move_assign: the nodes of d are not deleted.
move_assign_leaks(d, s) ==
  /\ Usable(s)
  /\ cache' = [cache EXCEPT ![d] = cache[s],
                            ![s].head = None, ![s].tail = None,
                            ![s].num_items = 0, ![s].index = cache[d].index]
  /\ moved' = (moved \cup {s}) \ {d}
  /\ reply' = NoValue
  /\ UNCHANGED heap

\* operator=(LRUCache&&): d's nodes are deleted, and the index of s becomes
\* what the index of d was.
move_assign(d, s) ==
  /\ Usable(s)
  /\ heap' = destroy_all(cache[d])
  /\ cache' = [cache EXCEPT ![d] = cache[s],
                            ![s].head = None, ![s].tail = None,
                            ![s].num_items = 0, ![s].index = cache[d].index]
  /\ moved' = (moved \cup {s}) \ {d}
  /\ reply' = NoValue

Next ==
  \E c \in Caches :
    \/ \E k \in Keys, v \in Values : put_impl(c, k, v)
    \/ \E k \in Keys : get(c, k)
    \/ clear(c)
    \/ \E s \in Caches \ {c} : move_construct(c, s) \/ move_assign(c, s)

Spec == Init /\ [][Next]_vars

-----------------------------------------------------------------------------
TypeOK ==
  /\ heap \in [Nodes -> {None} \cup NodeType]
  /\ cache \in [Caches -> [cap : Caps, num_items : 0..Cardinality(Nodes),
                           head : Nodes \cup {None}, tail : Nodes \cup {None},
                           index : [Keys -> Nodes \cup {None}]]]
  /\ moved \in SUBSET Caches
  /\ reply \in Values \cup {NoValue}

Listed(c) == Elements(ListOf(cache[c]))

\* One cache whose list and index agree: following next from head and prev
\* from tail visits the same nodes, and the index maps each of their keys to
\* the node and no other key to anything.
Consistent(c) ==
  LET s == ListOf(cache[c])
      n == Len(s)
      listed == Elements(s)
  IN  /\ cache[c].num_items = n
      /\ Cardinality(listed) = n
      /\ cache[c].tail = IF n = 0 THEN None ELSE s[n]
      /\ \A i \in 1..n :
           /\ heap[s[i]] # None
           /\ heap[s[i]].prev = IF i = 1 THEN None ELSE s[i - 1]
           /\ heap[s[i]].next = IF i = n THEN None ELSE s[i + 1]
      /\ \A k \in Keys :
           cache[c].index[k] # None =>
             cache[c].index[k] \in listed /\ heap[cache[c].index[k]].key = k
      /\ \A m \in listed : cache[c].index[heap[m].key] = m

(***************************************************************************)
(* Through any mixture of puts, gets, evictions, clears and moves the two  *)
(* structures of a cache describe the same entries.                        *)
(***************************************************************************)
ListAndIndexAgree == \A c \in Caches \ moved : Consistent(c)

(***************************************************************************)
(* Every allocated node belongs to exactly one cache: no node is leaked by *)
(* an assignment or an eviction, and none will be deleted twice.           *)
(***************************************************************************)
NodesOwnedOnce ==
  \A n \in Nodes :
    Cardinality({c \in Caches : n \in Listed(c)}) = IF heap[n] = None THEN 0 ELSE 1

(***************************************************************************)
(* The cache is a least-recently-used cache: list and index together       *)
(* behave as one sequence of entries, latest use first, which a put or a   *)
(* get reorders and a put into a full cache shortens at its end.           *)
(***************************************************************************)
Entries ==
  [c \in Caches |->
     LET s == ListOf(cache[c])
     IN  [i \in DOMAIN s |-> <<heap[s[i]].key, heap[s[i]].value>>]]

LRU == INSTANCE LRUSpec WITH
         entries <- Entries,
         capacity <- [c \in Caches |-> cache[c].cap]

ImplementsLRU == LRU!Spec
=============================================================================
