------------------------------ MODULE DequeSpec ------------------------------
(***************************************************************************)
(* What a double-ended queue of at most Capacity items promises: a         *)
(* sequence, and what the last operation gave back.  A copy behaves as its *)
(* original; an object whose contents were moved away is empty.            *)
(***************************************************************************)
EXTENDS Naturals, Sequences

CONSTANTS Items,      \* what can be stored
          Capacity    \* the most items it holds before it refuses

VARIABLES seq,        \* the items, front first
          out         \* an item, "underflow", "overflow" or "none"

vars == <<seq, out>>

Init == seq = <<>> /\ out = "none"

Push(longer) ==
  \/ Len(seq) < Capacity /\ seq' = longer /\ out' = "none"
  \/ Len(seq) = Capacity /\ seq' = seq /\ out' = "overflow"

push_back(x) == Push(Append(seq, x))

push_front(x) == Push(<<x>> \o seq)

Underflow == seq = <<>> /\ out' = "underflow" /\ seq' = seq

pop_back ==
  \/ Underflow
  \/ /\ seq # <<>>
     /\ out' = seq[Len(seq)]
     /\ seq' = SubSeq(seq, 1, Len(seq) - 1)

pop_front ==
  \/ Underflow
  \/ seq # <<>> /\ out' = Head(seq) /\ seq' = Tail(seq)

front == Underflow \/ (seq # <<>> /\ out' = Head(seq) /\ seq' = seq)

back == Underflow \/ (seq # <<>> /\ out' = seq[Len(seq)] /\ seq' = seq)

Empty == seq' = <<>> /\ out' = "none"

Copied == seq' = seq /\ out' = "none"

Next ==
  \/ \E x \in Items : push_back(x) \/ push_front(x)
  \/ pop_back \/ pop_front \/ front \/ back \/ Empty \/ Copied

Spec == Init /\ [][Next]_vars
=============================================================================
