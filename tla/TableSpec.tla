----------------------------- MODULE TableSpec -----------------------------
(***************************************************************************)
(* What a hash table promises: a bag of keys, in which a key normally      *)
(* occurs at most once, and the answer to the last operation.  The keys    *)
(* that insert_dup added again may lose their duplicates whenever the      *)
(* table reorganises itself.                                               *)
(***************************************************************************)
EXTENDS Naturals

CONSTANT Keys

VARIABLES bag,      \* bag[k]: how often k is in the table
          reply     \* the answer of the last operation

vars == <<bag, reply>>

Empty == [k \in Keys |-> 0]

Init == bag = Empty /\ reply = "no"

\* A bag as it is, or after the table reorganised itself.
Kept(b) == {b, [k \in Keys |-> IF b[k] = 0 THEN 0 ELSE 1]}

Add(k) == \E b \in Kept(bag) : bag' = [b EXCEPT ![k] = @ + 1]

insert(k) ==
  \/ bag[k] = 0 /\ Add(k) /\ reply' = "yes"
  \/ bag[k] > 0 /\ bag' = bag /\ reply' = "no"

insert_dup(k) == Add(k) /\ reply' = "yes"

remove(k) ==
  \/ bag[k] = 0 /\ bag' = bag /\ reply' = "no"
  \/ bag[k] > 0 /\ bag' \in Kept([bag EXCEPT ![k] = @ - 1]) /\ reply' = "yes"

search(k) == reply' = (IF bag[k] > 0 THEN "yes" ELSE "no") /\ bag' = bag

clear == bag' = Empty /\ reply' = "yes"

copy == bag' = bag /\ reply' = "yes"

\* Another table with the keys ks is assigned to this one.
assign(ks) ==
  /\ bag' = [k \in Keys |-> IF k \in ks THEN 1 ELSE 0]
  /\ reply' = "yes"

Next ==
  \/ \E k \in Keys : insert(k) \/ insert_dup(k) \/ remove(k) \/ search(k)
  \/ \E ks \in SUBSET Keys : assign(ks)
  \/ clear \/ copy

Spec == Init /\ [][Next]_vars
=============================================================================
