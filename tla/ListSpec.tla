------------------------------ MODULE ListSpec ------------------------------
(***************************************************************************)
(* What the linked lists promise: two sequences of items, and an iterator  *)
(* at a place of the first, or past its end.                               *)
(***************************************************************************)
EXTENDS Integers, Sequences, SequencesExt

CONSTANT Items

VARIABLES items,      \* for -1 and -2, the two lists
          place,      \* the place of the iterator in items[-1]; 0: there is none
          answer      \* the item that the last call answered; 0: none

vars == <<items, place, answer>>

Other(o) == -3 - o

Init == items = [o \in {-1, -2} |-> <<>>] /\ place = 0 /\ answer = 0

Gives(o, s, a) == items' = [items EXCEPT ![o] = s] /\ answer' = a /\ UNCHANGED place

insert(o, i) == Gives(o, <<i>> \o items[o], i)

append(o, i) == Gives(o, Append(items[o], i), i)

remove_first(o) == items[o] # <<>> /\ Gives(o, Tail(items[o]), Head(items[o]))

remove_last(o) == items[o] # <<>> /\ Gives(o, Front(items[o]), Last(items[o]))

remove(o, i) == i \in ToSet(items[o]) /\ Gives(o, Remove(items[o], i), i)

clear(o) == Gives(o, <<>>, 0)

copy(o) == Gives(o, items[o], 0)

swap ==
  items' = [o \in DOMAIN items |-> items[Other(o)]] /\ answer' = 0 /\ UNCHANGED place

concat(o) ==
  /\ items' = [items EXCEPT ![o] = @ \o items[Other(o)], ![Other(o)] = <<>>]
  /\ answer' = 0 /\ UNCHANGED place

\* The iterator goes to p, and the first list is s.
Iterate(s, p, a) == items' = [items EXCEPT ![-1] = s] /\ place' = p /\ answer' = a

Size == Len(items[-1])
AtEnd == place = Size + 1

begin == place = 0 /\ Iterate(items[-1], 1, 0)

next == place > 0 /\ Iterate(items[-1], IF AtEnd THEN place ELSE place + 1, 0)

prev == place > 0 /\ Iterate(items[-1], IF place = 1 THEN place ELSE place - 1, 0)

reset == place > 0 /\ \E p \in {1, IF Size = 0 THEN 1 ELSE Size} : Iterate(items[-1], p, 0)

del == place \in 1..Size /\ Iterate(RemoveAt(items[-1], place), place, items[-1][place])

\* Past the end it appends, or in a ring, where the first item comes next, inserts.
insert_next(i) ==
  \/ place \in 1..Size /\ Iterate(InsertAt(items[-1], place + 1, i), place, i)
  \/ AtEnd /\ Iterate(Append(items[-1], i), place + 1, i)
  \/ AtEnd /\ Iterate(<<i>> \o items[-1], place + 1, i)

\* In a singly linked list, past the end of an empty one is past the end of the longer one.
insert_prev(i) == place > 0 /\ Iterate(InsertAt(items[-1], place, i), place + 1, i)

end == place > 0 /\ place' = 0 /\ UNCHANGED <<items, answer>>

Next ==
  \/ \E o \in {-1, -2} :
       \/ \E i \in Items : insert(o, i) \/ append(o, i) \/ remove(o, i)
       \/ remove_first(o) \/ remove_last(o) \/ clear(o) \/ copy(o) \/ concat(o)
  \/ \E i \in Items : insert_next(i) \/ insert_prev(i)
  \/ swap \/ begin \/ next \/ prev \/ reset \/ del \/ end

Spec == Init /\ [][Next]_vars
=============================================================================
