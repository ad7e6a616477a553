-------------------------------- MODULE Graph --------------------------------
(***************************************************************************)
(* graph.hpp: Graph and Digraph.  Two objects, -1 and -2, of one of the    *)
(* classes.  A node that carries x is named x or -x, an arc by a positive  *)
(* integer, and a name that was freed is given again.  The DL lists are    *)
(* sequences: that the links are such is the subject of Lists.  An         *)
(* iterator walks a list of graph -1; while there is one, the graphs are   *)
(* changed through it only.                                                *)
(***************************************************************************)
EXTENDS Integers, Sequences, SequencesExt

CONSTANTS Directed,        \* the classes: FALSE for Graph, TRUE for Digraph
          NodeInfos,       \* what nodes carry: positive integers, distinct in a graph
          MaxArcs,         \* bound on the arcs of a graph
          AdjacentDel      \* whether remove_adjacent_arc_if is called

VARIABLES graph,           \* the members of both objects, their nodes and arcs
          cursor           \* the iterator

graphVars == <<graph, cursor>>

Objects == {-1, -2}
Other(o) == -3 - o

GraphNodes == NodeInfos \cup {-x : x \in NodeInfos}
Arcs == 1 .. 2 * MaxArcs

NoCursor == [over |-> "nothing", node |-> 0, curr |-> 0]

Init ==
  /\ \E directed \in Directed :
       graph = [directed |-> directed,
                node_list |-> [o \in Objects |-> <<>>], num_nodes |-> [o \in Objects |-> 0],
                arc_list |-> [o \in Objects |-> <<>>], num_arcs |-> [o \in Objects |-> 0],
                adjacent |-> [n \in GraphNodes |-> <<>>], degree |-> [n \in GraphNodes |-> 0],
                info |-> [n \in GraphNodes |-> 0],
                src |-> [a \in Arcs |-> 0], tgt |-> [a \in Arcs |-> 0]]
  /\ cursor = NoCursor

-----------------------------------------------------------------------------
\* The name of a new node, or arc.
Least(S) == CHOOSE i \in S : \A j \in S : i <= j
NewNode(g, x) == IF g.info[x] = 0 THEN x ELSE -x
NewArc(g) == Least({a \in Arcs : g.src[a] = 0})

insert_gnode(g, o, x) ==
  LET n == NewNode(g, x)
  IN  [g EXCEPT !.info[n] = x, !.node_list[o] = Append(@, n), !.num_nodes[o] = @ + 1]

Enter(g, a, n) == [g EXCEPT !.adjacent[n] = Append(@, a), !.degree[n] = @ + 1]
Leave(g, a, n) == [g EXCEPT !.adjacent[n] = Remove(@, a), !.degree[n] = @ - 1]

\* A bug: an arc from a node to itself enters its list twice.
insert_loop_twice(g, o, s, t) ==
  LET a == NewArc(g)
      at == Enter([g EXCEPT !.src[a] = s, !.tgt[a] = t], a, s)
      both == IF g.directed THEN at ELSE Enter(at, a, t)
  IN  [both EXCEPT !.arc_list[o] = Append(@, a), !.num_arcs[o] = @ + 1]

insert_garc(g, o, s, t) ==
  LET a == NewArc(g)
      at == Enter([g EXCEPT !.src[a] = s, !.tgt[a] = t], a, s)
      both == IF g.directed \/ s = t THEN at ELSE Enter(at, a, t)
  IN  [both EXCEPT !.arc_list[o] = Append(@, a), !.num_arcs[o] = @ + 1]

remove_arc(g, o, a) ==
  LET at == Leave(g, a, g.src[a])
      both == IF g.directed \/ g.src[a] = g.tgt[a] THEN at ELSE Leave(at, a, g.tgt[a])
  IN  [both EXCEPT !.arc_list[o] = Remove(@, a), !.num_arcs[o] = @ - 1,
                   !.src[a] = 0, !.tgt[a] = 0]

Delete(g, o, n) ==
  [g EXCEPT !.node_list[o] = Remove(@, n), !.num_nodes[o] = @ - 1,
            !.info[n] = 0, !.adjacent[n] = <<>>, !.degree[n] = 0]

\* Graph: the arcs of the node, from the front of its list.
RECURSIVE UndirectedRemoveNode(_, _, _)
UndirectedRemoveNode(g, o, n) ==
  IF g.adjacent[n] = <<>> THEN Delete(g, o, n)
  ELSE UndirectedRemoveNode(remove_arc(g, o, Head(g.adjacent[n])), o, n)

\* A bug: only the arcs that leave it.
DirectedRemoveLeaving(g, o, n) ==
  Delete(FoldLeft(LAMBDA h, a : remove_arc(h, o, a), g, g.adjacent[n]), o, n)

\* Digraph: the arcs that leave or enter it, from the list of all arcs.
DirectedRemoveNode(g, o, n) ==
  LET Detach(h, a) == IF n \in {h.src[a], h.tgt[a]} THEN remove_arc(h, o, a) ELSE h
  IN  Delete(FoldLeft(Detach, g, g.arc_list[o]), o, n)

remove_node(g, o, n) ==
  IF g.directed THEN DirectedRemoveNode(g, o, n) ELSE UndirectedRemoveNode(g, o, n)

UndirectedClear(g, o) ==
  FoldLeft(LAMBDA h, n : remove_node(h, o, n), g, g.node_list[o])

DirectedClear(g, o) ==
  LET bare == FoldLeft(LAMBDA h, a : remove_arc(h, o, a), g, g.arc_list[o])
  IN  FoldLeft(LAMBDA h, n : remove_node(h, o, n), bare, bare.node_list[o])

clear(g, o) == IF g.directed THEN DirectedClear(g, o) ELSE UndirectedClear(g, o)

\* map_nodes takes the nodes of the one to those of the other.
copy_graph(g, o) ==
  LET CopyNode(m, n) == [g |-> insert_gnode(m.g, o, m.g.info[n]),
                         map_nodes |-> [m.map_nodes EXCEPT ![n] = NewNode(m.g, m.g.info[n])]]
      nodes == FoldLeft(CopyNode, [g |-> g, map_nodes |-> g.info], g.node_list[Other(o)])
      CopyArc(h, a) == insert_garc(h, o, nodes.map_nodes[h.src[a]], nodes.map_nodes[h.tgt[a]])
  IN  FoldLeft(CopyArc, nodes.g, g.arc_list[Other(o)])

\* The quicksort of a DL: it splits at the first item.
RECURSIVE quicksort(_, _)
quicksort(l, key) ==
  IF Len(l) < 2 THEN l
  ELSE quicksort(SelectSeq(Tail(l), LAMBDA p : key[p] < key[l[1]]), key)
         \o <<l[1]>> \o quicksort(SelectSeq(Tail(l), LAMBDA p : key[p] >= key[l[1]]), key)

get_connected_node(g, a, n) == IF n = g.src[a] THEN g.tgt[a] ELSE g.src[a]

FirstTo(g, s, t) ==
  LET found == SelectSeq(g.adjacent[s], LAMBDA a : get_connected_node(g, a, s) = t)
  IN  IF found = <<>> THEN 0 ELSE found[1]

search_arc(g, s, t) ==
  IF g.directed \/ FirstTo(g, s, t) # 0 THEN FirstTo(g, s, t) ELSE FirstTo(g, t, s)

-----------------------------------------------------------------------------
Calm == cursor = NoCursor

Do(g) == Calm /\ graph' = g /\ UNCHANGED cursor

Infos(g, o) == {g.info[n] : n \in ToSet(g.node_list[o])}

\* Bound: while both have nodes, only assign, swap and clear are called.
Alone == graph.num_nodes[-2] = 0

insert_node(x) == Alone /\ x \notin Infos(graph, -1) /\ Do(insert_gnode(graph, -1, x))

insert_arc(s, t) ==
  /\ Alone /\ {s, t} \subseteq ToSet(graph.node_list[-1]) /\ graph.num_arcs[-1] < MaxArcs
  /\ Do(insert_garc(graph, -1, s, t))

RemoveArc(a) == Alone /\ a \in ToSet(graph.arc_list[-1]) /\ Do(remove_arc(graph, -1, a))

RemoveNode(n) == Alone /\ n \in ToSet(graph.node_list[-1]) /\ Do(remove_node(graph, -1, n))

Clear(o) == Do(clear(graph, o))

\* operator=; the copy constructor is the same with nothing to clear.
assign(o) == Do(copy_graph(clear(graph, o), o))

\* swap; the move constructor and move assignment are this swap too.
swap ==
  LET Flip(f) == [o \in Objects |-> f[Other(o)]]
  IN  Do([graph EXCEPT !.node_list = Flip(@), !.num_nodes = Flip(@),
                       !.arc_list = Flip(@), !.num_arcs = Flip(@)])

sort_nodes == Alone /\ Do([graph EXCEPT !.node_list[-1] = quicksort(@, graph.info)])

\* By the source of the arcs.  Of Graph only: that of Digraph does not compile,
\* as no quicksort takes its list of arcs.
sort_arcs ==
  LET key == [a \in Arcs |-> IF graph.src[a] = 0 THEN 0 ELSE graph.info[graph.src[a]]]
  IN  /\ ~graph.directed /\ Alone
      /\ Do([graph EXCEPT !.arc_list[-1] = quicksort(@, key)])

-----------------------------------------------------------------------------
Walked(g, c) ==
  CASE c.over = "nothing" -> <<>>
    [] c.over = "nodes" -> g.node_list[-1]
    [] c.over = "arcs" -> g.arc_list[-1]
    [] c.over = "adjacent" -> g.adjacent[c.node]

\* The end of a list is 0.
After(l, i) == IF i \in {0, Last(l)} THEN 0 ELSE l[Least({j \in DOMAIN l : l[j] = i}) + 1]

First(l) == IF l = <<>> THEN 0 ELSE Head(l)

Begin(over, n) ==
  LET c == [over |-> over, node |-> n, curr |-> 0]
  IN  Calm /\ Alone /\ cursor' = [c EXCEPT !.curr = First(Walked(graph, c))] /\ UNCHANGED graph

nodes_begin == Begin("nodes", 0)
arcs_begin == Begin("arcs", 0)
adjacent_arcs_begin(n) == n \in ToSet(graph.node_list[-1]) /\ Begin("adjacent", n)

next ==
  /\ cursor.curr # 0
  /\ cursor' = [cursor EXCEPT !.curr = After(Walked(graph, cursor), @)] /\ UNCHANGED graph

prev ==
  LET l == Reverse(Walked(graph, cursor))
  IN  /\ l # <<>> /\ cursor.curr # Last(l)
      /\ cursor' = [cursor EXCEPT !.curr = IF @ = 0 THEN Head(l) ELSE After(l, @)]
      /\ UNCHANGED graph

\* The iterator moves on, then the item is removed.
DelBy(g) == graph' = g /\ cursor' = [cursor EXCEPT !.curr = After(Walked(graph, cursor), @)]

NodeDel == cursor.over = "nodes" /\ cursor.curr # 0 /\ DelBy(remove_node(graph, -1, cursor.curr))

ArcDel == cursor.over = "arcs" /\ cursor.curr # 0 /\ DelBy(remove_arc(graph, -1, cursor.curr))

\* AdjacentArcIterator has the del() of DL::Iterator, which unlinks only.
AdjacentArcDel ==
  /\ AdjacentDel /\ cursor.over = "adjacent" /\ cursor.curr # 0
  /\ DelBy([graph EXCEPT !.adjacent[cursor.node] = Remove(@, cursor.curr)])

end == ~Calm /\ cursor' = NoCursor /\ UNCHANGED graph

Next ==
  \/ \E x \in NodeInfos : insert_node(x)
  \/ \E s, t \in GraphNodes : insert_arc(s, t)
  \/ \E a \in Arcs : RemoveArc(a)
  \/ \E n \in GraphNodes : RemoveNode(n) \/ adjacent_arcs_begin(n)
  \/ \E o \in Objects : Clear(o) \/ assign(o)
  \/ sort_nodes \/ sort_arcs \/ swap \/ nodes_begin \/ arcs_begin \/ next \/ prev
  \/ NodeDel \/ ArcDel \/ AdjacentArcDel \/ end

-----------------------------------------------------------------------------
\* The arcs that the comments say are in the adjacency list of n.
Incident(g, o, n) ==
  {a \in ToSet(g.arc_list[o]) : n = g.src[a] \/ (~g.directed /\ n = g.tgt[a])}

(***************************************************************************)
(* An arc is in the list of arcs of its graph, once in the adjacency list  *)
(* of each of its ends (of its source only in a Digraph), and nowhere      *)
(* else; its ends are nodes of the graph; the three counters are right;    *)
(* search_arc finds an arc where there is one; the iterator is at an item  *)
(* of the list that it walks.                                              *)
(***************************************************************************)
ListsAgree ==
  /\ \A o \in Objects :
       LET nodes == graph.node_list[o]
           arcs == graph.arc_list[o]
       IN  /\ IsInjective(nodes) /\ graph.num_nodes[o] = Len(nodes)
           /\ IsInjective(arcs) /\ graph.num_arcs[o] = Len(arcs)
           /\ \A a \in ToSet(arcs) : {graph.src[a], graph.tgt[a]} \subseteq ToSet(nodes)
           /\ \A n \in ToSet(nodes) :
                /\ IsInjective(graph.adjacent[n])
                /\ ToSet(graph.adjacent[n]) = Incident(graph, o, n)
                /\ graph.degree[n] = Len(graph.adjacent[n])
           /\ \A s, t \in ToSet(nodes) :
                LET a == search_arc(graph, s, t)
                IN  IF a = 0 THEN \A b \in Incident(graph, o, s) :
                                    get_connected_node(graph, b, s) # t
                    ELSE a \in Incident(graph, o, s) /\ get_connected_node(graph, a, s) = t
  /\ ToSet(graph.node_list[-1]) \cap ToSet(graph.node_list[-2]) = {}
  /\ cursor.curr \in {0} \cup ToSet(Walked(graph, cursor))

Pair(a) == <<graph.info[graph.src[a]], graph.info[graph.tgt[a]]>>

AsLists == INSTANCE GraphSpec
  WITH nodes <- [o \in Objects |-> [i \in DOMAIN graph.node_list[o] |->
                                      graph.info[graph.node_list[o][i]]]],
       arcs <- [o \in Objects |-> [i \in DOMAIN graph.arc_list[o] |->
                                     Pair(graph.arc_list[o][i])]]
=============================================================================
