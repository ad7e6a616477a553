------------------------------- MODULE LRUSpec -------------------------------
(***************************************************************************)
(* What least-recently-used caches promise: each is the sequence of its    *)
(* entries, most recently used first, no longer than its capacity (0 means *)
(* without limit).  Moving a cache leaves nothing behind.                  *)
(***************************************************************************)
EXTENDS Naturals, Sequences

CONSTANTS Caches, Keys, Values, NoValue

VARIABLES entries,     \* entries[c]: <<key, value>> pairs, latest use first
          capacity,    \* capacity[c]
          reply        \* what the last get returned, or NoValue

vars == <<entries, capacity, reply>>

Init ==
  /\ entries = [c \in Caches |-> <<>>]
  /\ capacity \in [Caches -> Nat]
  /\ reply = NoValue

WithoutAt(s, i) == SubSeq(s, 1, i - 1) \o SubSeq(s, i + 1, Len(s))

\* The entry e, the latest used, comes in front of the entries s.
Uses(c, e, s) == entries' = [entries EXCEPT ![c] = <<e>> \o s]

Holds(s, k) == \E i \in DOMAIN s : s[i][1] = k

put(c, k, v) ==
  /\ LET s == entries[c]
         full == capacity[c] > 0 /\ Len(s) = capacity[c]
     IN  \/ \E i \in DOMAIN s :
              s[i][1] = k /\ Uses(c, <<k, v>>, WithoutAt(s, i))
         \/ ~Holds(s, k) /\ full /\ Uses(c, <<k, v>>, WithoutAt(s, Len(s)))
         \/ ~Holds(s, k) /\ ~full /\ Uses(c, <<k, v>>, s)
  /\ reply' = NoValue
  /\ UNCHANGED capacity

get(c, k) ==
  /\ LET s == entries[c]
     IN  \/ \E i \in DOMAIN s :
              s[i][1] = k /\ reply' = s[i][2] /\ Uses(c, s[i], WithoutAt(s, i))
         \/ ~Holds(s, k) /\ reply' = NoValue /\ UNCHANGED entries
  /\ UNCHANGED capacity

clear(c) ==
  /\ entries' = [entries EXCEPT ![c] = <<>>]
  /\ reply' = NoValue
  /\ UNCHANGED capacity

move(d, s) ==
  /\ entries' = [entries EXCEPT ![d] = entries[s], ![s] = <<>>]
  /\ capacity' = [capacity EXCEPT ![d] = capacity[s]]
  /\ reply' = NoValue

Next ==
  \E c \in Caches :
    \/ \E k \in Keys, v \in Values : put(c, k, v)
    \/ \E k \in Keys : get(c, k)
    \/ clear(c)
    \/ \E s \in Caches \ {c} : move(c, s)

Spec == Init /\ [][Next]_vars
=============================================================================
