----------------------------- MODULE GraphSpec -----------------------------
(***************************************************************************)
(* What Graph and Digraph promise: a list of nodes, here distinct          *)
(* integers, and a list of arcs, which are pairs of nodes.                 *)
(***************************************************************************)
EXTENDS Integers, Sequences, SequencesExt

CONSTANT NodeInfos

VARIABLES nodes,     \* for -1 and -2, the nodes of the two graphs
          arcs       \* and their arcs

vars == <<nodes, arcs>>

Other(o) == -3 - o

Init == nodes = [o \in {-1, -2} |-> <<>>] /\ arcs = nodes

Becomes(o, ns, as) == nodes' = [nodes EXCEPT ![o] = ns] /\ arcs' = [arcs EXCEPT ![o] = as]

insert_node(o, x) == Becomes(o, Append(nodes[o], x), arcs[o])

insert_arc(o, x, y) == {x, y} \subseteq ToSet(nodes[o]) /\ Becomes(o, nodes[o], Append(arcs[o], <<x, y>>))

\* A node goes with its arcs, and no other arc does.
remove_node(o, x) ==
  x \in ToSet(nodes[o])
    /\ Becomes(o, Remove(nodes[o], x), SelectSeq(arcs[o], LAMBDA a : x \notin {a[1], a[2]}))

remove_arc(o, i) == Becomes(o, nodes[o], RemoveAt(arcs[o], i))

clear(o) == Becomes(o, <<>>, <<>>)

assign(o) == Becomes(o, nodes[Other(o)], arcs[Other(o)])

swap ==
  /\ nodes' = [o \in DOMAIN nodes |-> nodes[Other(o)]]
  /\ arcs' = [o \in DOMAIN arcs |-> arcs[Other(o)]]

Ascending == SetToSortSeq(NodeInfos, LAMBDA x, y : x < y)

sort_nodes(o) ==
  Becomes(o, SelectSeq(Ascending, LAMBDA x : x \in ToSet(nodes[o])), arcs[o])

\* Arcs of the same source stay in order.
sort_arcs(o) ==
  LET from == [i \in DOMAIN Ascending |->
                 SelectSeq(arcs[o], LAMBDA a : a[1] = Ascending[i])]
  IN  Becomes(o, nodes[o], FlattenSeq(from))

Next ==
  \/ \E o \in {-1, -2} :
       \/ \E x \in NodeInfos : insert_node(o, x) \/ remove_node(o, x)
       \/ \E x, y \in NodeInfos : insert_arc(o, x, y)
       \/ \E i \in DOMAIN arcs[o] : remove_arc(o, i)
       \/ clear(o) \/ assign(o) \/ sort_nodes(o) \/ sort_arcs(o)
  \/ swap

Spec == Init /\ [][Next]_vars
=============================================================================
