--------------------------- MODULE SortedBagSpec ---------------------------
(***************************************************************************)
(* What the search trees, the skip list and the heaps promise: a bag of    *)
(* keys kept in order, with the answers to the last operation, a second    *)
(* bag that a split leaves and a join takes, and an iterator that visits   *)
(* the keys in order and may delete the one it is at.  A container that    *)
(* moves its nodes may lose the iterator in a deletion: where it goes from *)
(* there is not promised, but what it deletes is the key it answers.       *)
(***************************************************************************)
EXTENDS Integers, Sequences, SequencesExt

CONSTANTS Keys,          \* positive integers
          Repeats        \* whether insert may repeat a key that is there

VARIABLES keys,          \* the keys in order
          others,        \* the keys in the second half of a split, in order
          at,            \* the key the iterator is at, 0 at the end, -1: no iterator
          lost,          \* whether a deletion has lost the iterator
          reply,         \* the key (or position) the last operation answered; 0: none
          multi          \* whether it is used as a bag, with insert_dup, or as a set

vars == <<keys, others, at, lost, reply, multi>>

Sorted(s) == SortSeq(s, LAMBDA a, b : a < b)
Holds(k) == k \in ToSet(keys)
Below(k) == SelectSeq(keys, LAMBDA x : x < k)
UpTo(k) == SelectSeq(keys, LAMBDA x : x <= k)
After(k) == SelectSeq(keys, LAMBDA x : x > k)
With(k) == UpTo(k) \o <<k>> \o After(k)
Without(k) == RemoveFirst(keys, k)

\* The answers to the questions; position: one of these.
search(k) == IF Holds(k) THEN k ELSE 0
select(i) == keys[i + 1]
position(k) == IF Holds(k) THEN {i - 1 : i \in {j \in DOMAIN keys : keys[j] = k}} ELSE {-1}

Init ==
  /\ keys = <<>> /\ others = <<>> /\ at = -1 /\ lost = FALSE /\ reply = 0
  /\ multi \in BOOLEAN

-----------------------------------------------------------------------------
Same == UNCHANGED <<others, at, lost, multi>>

\* The call answers a and leaves ks.
Gives(a, ks) == reply' = a /\ Same /\ keys' = ks

Nothing(a) == Gives(a, keys)

insert(k) ==
  \/ Holds(k) /\ Nothing(0)
  \/ (~Holds(k) \/ Repeats) /\ Gives(k, With(k))

insert_dup(k) == multi /\ Gives(k, With(k))

search_or_insert(k) == IF Holds(k) THEN Nothing(k) ELSE Gives(k, With(k))

remove(k) == IF Holds(k) THEN Gives(k, Without(k)) ELSE Nothing(0)

remove_pos(i) == Gives(keys[i + 1], RemoveAt(keys, i + 1))

\* A heap changes the key of an item that it holds.
change_key(k, new) == reply' = new /\ Holds(k) /\ Gives(new, Sorted(Append(Without(k), new)))

\* A search that restructures a tree is a step that changes nothing here.
look(k) == Nothing(search(k))

get == keys # <<>> /\ Gives(Head(keys), Tail(keys))

clear == Gives(0, <<>>)

copy == Nothing(0)

-----------------------------------------------------------------------------
\* The split into the first keys and the rest, by position or by key.
Split(first, rest) ==
  reply' = 0 /\ UNCHANGED <<at, lost, multi>> /\ keys' = first /\ others' = rest

split_pos(i) == Split(SubSeq(keys, 1, i), SubSeq(keys, i + 1, Len(keys)))

split_key(k) == Split(Below(k), After(k)) /\ ~Holds(k)

split_key_dup(k) == Split(UpTo(k), After(k))

\* A join of any two bags; of bags that are apart, it is their concatenation.
join_dup == Split(Sorted(keys \o others), <<>>)

swap == Split(others, keys)

-----------------------------------------------------------------------------
\* The iterator goes to the first of a sequence of keys, and ks stay.
Visit(s, ks, a) ==
  /\ at' = IF s = <<>> THEN 0 ELSE Head(s)
  /\ keys' = ks
  /\ reply' = a
  /\ UNCHANGED <<others, multi>>

\* From a lost iterator it may go anywhere, also back.
Stray(ks, a) == lost /\ \E k \in Keys \cup {0} : Visit(<<k>>, ks, a)

begin == at = -1 /\ ~lost' /\ Visit(keys, keys, 0)

next ==
  \/ ~lost /\ at > 0 /\ ~lost' /\ Visit(After(at), keys, 0)
  \/ /\ at >= 0 /\ keys # <<>> /\ ~lost'
     /\ Visit(keys, keys, 0) \/ Visit(<<Last(keys)>>, keys, 0)
  \/ at >= 0 /\ lost' \in BOOLEAN /\ Stray(keys, 0)

\* The key after the deleted one is reached also when the way on is lost.
del ==
  /\ Holds(at) /\ lost' \in BOOLEAN
  /\ (~lost /\ Visit(After(at), Without(at), at)) \/ Stray(Without(at), at)

end == at >= 0 /\ at' = -1 /\ ~lost' /\ UNCHANGED <<keys, others, reply, multi>>

Next ==
  \/ \E k \in Keys :
       \/ insert(k) \/ insert_dup(k) \/ search_or_insert(k) \/ remove(k)
       \/ look(k) \/ split_key(k) \/ split_key_dup(k)
  \/ \E i \in 0..(Len(keys) - 1) : remove_pos(i) \/ split_pos(i)
  \/ clear \/ copy \/ join_dup \/ swap
  \/ begin \/ next \/ del \/ end

\* A heap: it repeats keys, and it gives the first one.
HeapNext ==
  \/ \E k \in Keys :
       insert_dup(k) \/ remove(k) \/ \E new \in Keys : new <= k /\ change_key(k, new)
  \/ get \/ clear \/ copy

Spec == Init /\ [][Next]_vars
=============================================================================
