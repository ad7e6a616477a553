----------------------------- MODULE GraphSearch -----------------------------
(***************************************************************************)
(* The searches of graphalgorithms.hpp and bridges.hpp, as functions of a  *)
(* graph and of the tags that earlier algorithms left on its nodes and     *)
(* arcs.  A graph g has the nodes and the arcs in the order of its lists,  *)
(* adjacent[n] the arcs in the adjacency list of n, and for an arc its     *)
(* ends src and tgt.  A traversal keeps [nodes, arcs], what has been       *)
(* visited, and what it has found.                                         *)
(***************************************************************************)
EXTENDS Integers, Sequences, SequencesExt, FiniteSetsExt

get_tgt_node(g, a, p) == IF p = g.src[a] THEN g.tgt[a] ELSE g.src[a]

\* The arcs are put into the adjacency lists in the order of arcs.
Adjacency(g) ==
  [g EXCEPT !.adjacent = [n \in ToSet(g.nodes) |->
     SelectSeq(g.arcs, LAMBDA a : g.src[a] = n \/ (~g.directed /\ g.tgt[a] = n))]]

\* A bug: the arcs keep their tags.
reset_nodes_only(tags) == [tags EXCEPT !.nodes = {}]

reset_tag(tags) == [tags EXCEPT !.nodes = {}, !.arcs = {}]

VisitNode(t, p) == [t EXCEPT !.nodes = @ \cup {p}]
VisitArc(t, a) == [t EXCEPT !.arcs = @ \cup {a}]

-----------------------------------------------------------------------------
(***************************************************************************)
(* Depth first, recursive: the prefix and suffix traversals.               *)
(***************************************************************************)
Found(t) == [nodes |-> t.nodes, arcs |-> t.arcs, prefix |-> <<>>, suffix |-> <<>>,
             path |-> <<>>, done |-> FALSE]

RECURSIVE depth_first_traverse_rec(_, _, _)
depth_first_traverse_rec(g, t, p) ==
  LET Along(u, a) == IF a \in u.arcs THEN u
                     ELSE depth_first_traverse_rec(g, VisitArc(u, a), get_tgt_node(g, a, p))
      at == [VisitNode(t, p) EXCEPT !.prefix = Append(@, p)]
      left == FoldLeft(Along, at, g.adjacent[p])
  IN  IF p \in t.nodes THEN t ELSE [left EXCEPT !.suffix = Append(@, p)]

depth_first_traverse(g, tags) ==
  FoldLeft(LAMBDA t, p : depth_first_traverse_rec(g, t, p), reset_tag(Found(tags)), g.nodes)

\* The path is followed down and given up again, until it is at the end.
RECURSIVE depth_first_search_path_rec(_, _, _, _)
depth_first_search_path_rec(g, t, p, e) ==
  LET Along(u, a) ==
        IF u.done \/ a \in u.arcs THEN u
        ELSE depth_first_search_path_rec(g, VisitArc(u, a), get_tgt_node(g, a, p), e)
      at == [VisitNode(t, p) EXCEPT !.path = Append(@, p)]
      left == FoldLeft(Along, at, g.adjacent[p])
  IN  CASE p \in t.nodes -> t
        [] p \notin t.nodes /\ p = e -> [at EXCEPT !.done = TRUE]
        [] p \notin t.nodes /\ p # e -> IF left.done THEN left
                                        ELSE [left EXCEPT !.path = Front(@)]

depth_first_search_path(g, tags, b, e) ==
  IF b = e THEN <<b>> ELSE depth_first_search_path_rec(g, reset_tag(Found(tags)), b, e).path

\* done: a node of the path has been met again.  A node that is left is unvisited.
RECURSIVE test_for_cycle(_, _, _)
test_for_cycle(g, t, p) ==
  LET Along(u, a) == IF u.done \/ a \in u.arcs THEN u
                     ELSE test_for_cycle(g, VisitArc(u, a), get_tgt_node(g, a, p))
      left == FoldLeft(Along, VisitNode(t, p), g.adjacent[p])
  IN  CASE p \in t.nodes -> [t EXCEPT !.done = TRUE]
        [] p \notin t.nodes /\ left.done -> left
        [] p \notin t.nodes /\ ~left.done -> [left EXCEPT !.nodes = @ \ {p}]

HasCycleFrom(g, tags, p) == test_for_cycle(g, reset_tag(Found(tags)), p).done

\* Undirected graphs with as many arcs as nodes are not searched.
has_cycle(g, tags) ==
  \/ ~g.directed /\ Len(g.arcs) >= Len(g.nodes)
  \/ \E p \in ToSet(g.nodes) : HasCycleFrom(g, tags, p)

is_acyclique(g, tags) ==
  /\ g.directed \/ Len(g.arcs) < Len(g.nodes)
  /\ \A p \in ToSet(g.nodes) : ~HasCycleFrom(g, tags, p)

-----------------------------------------------------------------------------
(***************************************************************************)
(* Depth first, with a stack of frames [node, it]: it counts the arcs      *)
(* of the node that have been taken.                                       *)
(***************************************************************************)
FrameOf(p) == [node |-> p, it |-> 1]

Enter(t, p) == [VisitNode(t, p) EXCEPT !.prefix = Append(@, p), !.path = Append(@, p)]
Leave(t, p) == [t EXCEPT !.suffix = Append(@, p), !.path = Front(@)]

RECURSIVE Pending(_, _, _, _)
Pending(g, t, pending, e) ==
  LET p == Last(pending).node
      taken == [pending EXCEPT ![Len(pending)].it = @ + 1]
      a == g.adjacent[p][Last(pending).it]
      q == get_tgt_node(g, a, p)
  IN  CASE pending = <<>> \/ t.done -> t
        [] pending # <<>> /\ ~t.done /\ Last(pending).it > Len(g.adjacent[p]) ->
             Pending(g, Leave(t, p), Front(pending), e)
        [] OTHER ->
             IF a \in t.arcs \/ q \in t.nodes THEN Pending(g, VisitArc(t, a), taken, e)
             ELSE Pending(g, [Enter(VisitArc(t, a), q) EXCEPT !.done = (q = e)],
                          Append(taken, FrameOf(q)), e)

IterativeFrom(g, t, p, e) ==
  IF p \in t.nodes THEN t ELSE Pending(g, Enter(t, p), <<FrameOf(p)>>, e)

depth_first_traverse_iterative(g, tags) ==
  FoldLeft(LAMBDA t, p : IterativeFrom(g, t, p, 0), reset_tag(Found(tags)), g.nodes)

depth_first_search_path_iterative(g, tags, b, e) ==
  IF b = e THEN <<b>> ELSE IterativeFrom(g, reset_tag(Found(tags)), b, e).path

RECURSIVE CyclePending(_, _, _)
CyclePending(g, t, pending) ==
  LET p == Last(pending).node
      taken == [pending EXCEPT ![Len(pending)].it = @ + 1]
      a == g.adjacent[p][Last(pending).it]
      q == get_tgt_node(g, a, p)
  IN  CASE pending = <<>> -> FALSE
        [] pending # <<>> /\ Last(pending).it > Len(g.adjacent[p]) ->
             CyclePending(g, [t EXCEPT !.nodes = @ \ {p}], Front(pending))
        [] OTHER ->
             IF a \in t.arcs THEN CyclePending(g, t, taken)
             ELSE \/ q \in t.nodes
                  \/ CyclePending(g, VisitArc(VisitNode(t, q), a), Append(taken, FrameOf(q)))

HasCycleFromIterative(g, tags, p) ==
  CyclePending(g, VisitNode(reset_tag(tags), p), <<FrameOf(p)>>)

has_cycle_iterative(g, tags) ==
  \/ ~g.directed /\ Len(g.arcs) >= Len(g.nodes)
  \/ \E p \in ToSet(g.nodes) : HasCycleFromIterative(g, tags, p)

-----------------------------------------------------------------------------
(***************************************************************************)
(* Breadth first.                                                          *)
(***************************************************************************)
RECURSIVE Queued(_, _, _, _)
Queued(g, t, queue, e) ==
  LET p == Head(queue)
      Along(u, a) ==
        LET q == get_tgt_node(g, a, p)
        IN  IF a \in u.arcs \/ q \in u.nodes THEN VisitArc(u, a)
            ELSE [VisitArc(VisitNode(u, q), a) EXCEPT !.prefix = Append(@, q), !.cookie[q] = p]
      after == FoldLeft(Along, t, g.adjacent[p])
      new == SubSeq(after.prefix, Len(t.prefix) + 1, Len(after.prefix))
  IN  IF queue = <<>> \/ Head(queue) = e THEN t ELSE Queued(g, after, Tail(queue) \o new, e)

BreadthFirst(g, tags, b, e) ==
  LET t == reset_tag(tags)
  IN  Queued(g, [nodes |-> t.nodes \cup {b}, arcs |-> t.arcs, prefix |-> <<b>>,
                 cookie |-> [n \in ToSet(g.nodes) |-> 0]], <<b>>, e)

breadth_first_traverse(g, tags, b) == BreadthFirst(g, tags, b, 0).prefix

RECURSIVE BackTo(_, _, _)
BackTo(cookie, p, b) == IF p = b THEN <<b>> ELSE Append(BackTo(cookie, cookie[p], b), p)

breadth_first_search_path(g, tags, b, e) ==
  LET cookie == BreadthFirst(g, tags, b, e).cookie
  IN  CASE b = e -> <<b>>
        [] b # e /\ cookie[e] = 0 -> <<>>
        [] b # e /\ cookie[e] # 0 -> BackTo(cookie, e, b)

-----------------------------------------------------------------------------
(***************************************************************************)
(* Connected components of an undirected graph: [nodes, arcs] of each.     *)
(***************************************************************************)
\* The part that is built: its nodes, and an arc after the search along it.
RECURSIVE build_subgraph_rec(_, _, _)
build_subgraph_rec(g, t, p) ==
  LET Along(u, a) ==
        IF a \in u.arcs THEN u
        ELSE LET there == build_subgraph_rec(g, VisitArc(u, a), get_tgt_node(g, a, p))
             IN  [there EXCEPT !.part.arcs = Append(@, a)]
      at == [VisitNode(t, p) EXCEPT !.part.nodes = Append(@, p)]
  IN  IF p \in t.nodes THEN t ELSE FoldLeft(Along, at, g.adjacent[p])

NoPart == [nodes |-> <<>>, arcs |-> <<>>]

compute_connected_components(g, tags) ==
  LET t == reset_tag(tags)
      Component(u, p) ==
        LET v == build_subgraph_rec(g, [u EXCEPT !.part = NoPart], p)
        IN  IF p \in u.nodes THEN u ELSE [v EXCEPT !.ret = Append(@, v.part)]
  IN  FoldLeft(Component, [nodes |-> t.nodes, arcs |-> t.arcs, part |-> NoPart, ret |-> <<>>],
               g.nodes).ret

connected_components_node_list(g, tags) ==
  LET parts == compute_connected_components(g, tags)
  IN  [i \in DOMAIN parts |-> parts[i].nodes]

-----------------------------------------------------------------------------
(***************************************************************************)
(* Cut nodes and bridges: df numbers the nodes as they are met, low is the *)
(* least number that is reached from below.                                *)
(***************************************************************************)
Numbered(g) ==
  [nodes |-> {}, arcs |-> {}, df |-> [n \in ToSet(g.nodes) |-> 0],
   low |-> [n \in ToSet(g.nodes) |-> -1], counter |-> 0, list |-> <<>>]

Number(t, p) ==
  [VisitNode(t, p) EXCEPT !.df[p] = t.counter, !.low[p] = t.counter, !.counter = @ + 1]

Lower(t, p, i) == [t EXCEPT !.low[p] = IF i < @ THEN i ELSE @]

RECURSIVE compute_cut_nodes_rec(_, _, _, _)
compute_cut_nodes_rec(g, t, p, parent) ==
  LET Along(u, arc) ==
        LET q == get_tgt_node(g, arc, p)
            v == compute_cut_nodes_rec(g, VisitArc(u.t, arc), q, arc)
        IN  CASE arc = parent \/ (arc \in u.t.arcs) -> u
              [] arc # parent /\ arc \notin u.t.arcs /\ q \in u.t.nodes ->
                   [u EXCEPT !.t = Lower(@, p, u.t.df[q])]
              [] OTHER -> [t |-> Lower(v, p, v.low[q]),
                           is_cut |-> u.is_cut \/ (v.low[q] >= v.df[p] /\ v.df[q] # 0)]
      left == FoldLeft(Along, [t |-> Number(t, p), is_cut |-> FALSE], g.adjacent[p])
  IN  IF left.is_cut THEN [left.t EXCEPT !.list = Append(@, p)] ELSE left.t

\* A bug: the first node counts with one subtree.
cut_nodes_with_root(g) ==
  LET start == Head(g.nodes)
      Along(u, a) ==
        IF get_tgt_node(g, a, start) \in u.t.nodes \/ a \in u.t.arcs THEN u
        ELSE [t |-> compute_cut_nodes_rec(g, VisitArc(u.t, a), get_tgt_node(g, a, start), a),
              calls |-> u.calls + 1]
      at == [VisitNode(Numbered(g), start) EXCEPT !.counter = 1]
      left == FoldLeft(Along, [t |-> at, calls |-> 0], g.adjacent[start])
  IN  IF left.calls > 0 THEN Append(left.t.list, start) ELSE left.t.list

\* From the first node only.
compute_cut_nodes(g) ==
  LET start == Head(g.nodes)
      Along(u, a) ==
        IF get_tgt_node(g, a, start) \in u.t.nodes \/ a \in u.t.arcs THEN u
        ELSE [t |-> compute_cut_nodes_rec(g, VisitArc(u.t, a), get_tgt_node(g, a, start), a),
              calls |-> u.calls + 1]
      at == [VisitNode(Numbered(g), start) EXCEPT !.counter = 1]
      left == FoldLeft(Along, [t |-> at, calls |-> 0], g.adjacent[start])
  IN  IF left.calls > 1 THEN Append(left.t.list, start) ELSE left.t.list

RECURSIVE BridgesFrom(_, _, _, _)
BridgesFrom(g, t, p, parent) ==
  LET Along(u, arc) ==
        LET q == get_tgt_node(g, arc, p)
            v == BridgesFrom(g, VisitArc(u, arc), q, arc)
            w == Lower(v, p, v.low[q])
        IN  CASE arc = parent \/ arc \in u.arcs -> u
              [] arc # parent /\ arc \notin u.arcs /\ q \in u.nodes -> Lower(u, p, u.df[q])
              [] OTHER -> IF w.low[q] > w.df[p] THEN [w EXCEPT !.list = Append(@, arc)] ELSE w
  IN  FoldLeft(Along, Number(t, p), g.adjacent[p])

find_bridges(g) ==
  FoldLeft(LAMBDA t, p : IF p \in t.nodes THEN t ELSE BridgesFrom(g, t, p, 0),
           Numbered(g), g.nodes).list

-----------------------------------------------------------------------------
(***************************************************************************)
(* What is left of a graph without its cut nodes.  Nodes and arcs get the  *)
(* number of their part, an arc between a cut node and another node gets   *)
(* -1, an arc between cut nodes the tag CUT.  t has the tags COMPONENT.    *)
(***************************************************************************)
RECURSIVE paint_cut_nodes_connected_components_rec(_, _, _, _, _)
paint_cut_nodes_connected_components_rec(g, cut, c, p, color) ==
  LET Along(u, a) ==
        LET q == get_tgt_node(g, a, p)
        IN  IF u.arc[a] > 0 \/ q \in cut THEN u
            ELSE paint_cut_nodes_connected_components_rec(
                   g, cut, [u EXCEPT !.arc[a] = color], q, color)
  IN  IF c.node[p] > 0 THEN c ELSE FoldLeft(Along, [c EXCEPT !.node[p] = color], g.adjacent[p])

paint_from_cut_node(g, cut, c, p) ==
  LET Along(u, a) ==
        LET q == get_tgt_node(g, a, p)
            v == [u EXCEPT !.arc[a] = -1]
        IN  CASE q \in cut -> [u EXCEPT !.cut = @ \cup {a}]
              [] q \notin cut /\ u.node[q] > 0 -> v
              [] q \notin cut /\ u.node[q] <= 0 ->
                   [paint_cut_nodes_connected_components_rec(g, cut, v, q, u.color)
                      EXCEPT !.color = @ + 1]
  IN  FoldLeft(Along, c, g.adjacent[p])

paint_cut_nodes_subgraphs(g, l) ==
  FoldLeft(LAMBDA c, p : paint_from_cut_node(g, ToSet(l), c, p),
           [node |-> [n \in ToSet(g.nodes) |-> 0], arc |-> [a \in ToSet(g.arcs) |-> 0],
            cut |-> {}, color |-> 1], l)

RECURSIVE build_cut_nodes_subgraph_rec(_, _, _, _)
build_cut_nodes_subgraph_rec(g, c, t, p) ==
  LET Along(u, a) ==
        LET q == get_tgt_node(g, a, p)
            v == [VisitArc(VisitNode(u, q), a) EXCEPT
                    !.part.nodes = IF q \in u.nodes THEN @ ELSE Append(@, q),
                    !.part.arcs = Append(@, a)]
        IN  IF c.arc[a] # c.node[p] \/ a \in u.arcs THEN u
            ELSE build_cut_nodes_subgraph_rec(g, c, v, q)
  IN  FoldLeft(Along, t, g.adjacent[p])

\* Its tags are those that compute_cut_nodes, which is called before, has taken away.
build_cut_nodes_subgraphs(g, c) ==
  LET Part(u, p) ==
        LET v == build_cut_nodes_subgraph_rec(
                   g, c, [VisitNode(u, p) EXCEPT !.part = [nodes |-> <<p>>, arcs |-> <<>>]], p)
        IN  IF c.node[p] = 0 \/ p \in u.nodes THEN u ELSE [v EXCEPT !.ret = Append(@, v.part)]
  IN  FoldLeft(Part, [nodes |-> {}, arcs |-> {}, part |-> NoPart, ret |-> <<>>], g.nodes).ret

build_cut_graph(g, c, cut_nodes) ==
  [cut_graph |-> [nodes |-> cut_nodes,
                  arcs |-> SelectSeq(g.arcs, LAMBDA a : c.arc[a] # -1 /\ a \in c.cut)],
   cross_arcs |-> SelectSeq(g.arcs, LAMBDA a : c.arc[a] = -1)]

compute_cut_nodes_connected_components(g, cut_nodes) ==
  LET c == paint_cut_nodes_subgraphs(g, cut_nodes)
  IN  [subgraphs |-> build_cut_nodes_subgraphs(g, c),
       cut |-> build_cut_graph(g, c, cut_nodes)]

-----------------------------------------------------------------------------
(***************************************************************************)
(* Strong components and orders of a digraph.                              *)
(***************************************************************************)
\* The inverted graph has the nodes in the order in which arcs name them.
invert_digraph(g) ==
  LET ends == FlattenSeq([i \in DOMAIN g.arcs |-> <<g.src[g.arcs[i]], g.tgt[g.arcs[i]]>>])
      new == FoldLeft(LAMBDA l, n : IF n \in ToSet(l) THEN l ELSE Append(l, n), <<>>, ends)
  IN  Adjacency([g EXCEPT !.nodes = new, !.src = g.tgt, !.tgt = g.src])

RECURSIVE Kosaraju_build_subgraph_rec(_, _, _)
Kosaraju_build_subgraph_rec(inv_g, t, p) ==
  LET Along(u, a) ==
        LET q == inv_g.tgt[a]
            v == Kosaraju_build_subgraph_rec(inv_g, u, q)
        IN  IF v.counter[p] # v.counter[q] THEN v
            ELSE [v EXCEPT !.part.arcs = Append(@, a)]
      at == [VisitNode(t, p) EXCEPT !.part.nodes = Append(@, p), !.counter[p] = t.num]
  IN  IF p \in t.nodes THEN t ELSE FoldLeft(Along, at, inv_g.adjacent[p])

\* Bound: a node without arcs is not in the inverted graph, and the program stops there.
Kosaraju_compute_strong_connected_components(g, tags) ==
  LET df == depth_first_traverse(g, tags).suffix
      ig == invert_digraph(g)
      Component(u, v) ==
        LET w == Kosaraju_build_subgraph_rec(ig, [u EXCEPT !.part = NoPart], v)
        IN  IF v \in u.nodes THEN u
            ELSE [w EXCEPT !.ret = Append(@, w.part), !.num = @ + 1]
  IN  FoldLeft(Component, [nodes |-> {}, counter |-> [n \in ToSet(ig.nodes) |-> 0], num |-> 1,
                           part |-> NoPart, ret |-> <<>>], Reverse(df)).ret

RECURSIVE tarjan_scc_rec(_, _, _)
tarjan_scc_rec(g, t, p) ==
  LET Along(u, a) ==
        LET q == g.tgt[a]
            v == tarjan_scc_rec(g, u, q)
        IN  CASE q \notin u.nodes -> Lower(v, p, v.low[q])
              [] q \in u.nodes /\ q \in ToSet(u.stack) -> Lower(u, p, u.df[q])
              [] OTHER -> u
      left == FoldLeft(Along, [Number(t, p) EXCEPT !.stack = <<p>> \o @], g.adjacent[p])
      size == CHOOSE i \in DOMAIN left.stack : left.stack[i] = p
  IN  IF left.low[p] # left.df[p] THEN left
      ELSE [left EXCEPT !.list = Append(@, SubSeq(left.stack, 1, size)),
                        !.stack = SubSeq(@, size + 1, Len(@))]

strongly_connected_components(g) ==
  FoldLeft(LAMBDA t, p : IF p \in t.nodes THEN t ELSE tarjan_scc_rec(g, t, p),
           [nodes |-> {}, arcs |-> {}, df |-> [n \in ToSet(g.nodes) |-> -1],
            low |-> [n \in ToSet(g.nodes) |-> -1], counter |-> 0, list |-> <<>>, stack |-> <<>>],
           g.nodes).list

df_topological_sort(g, tags) == Reverse(depth_first_traverse(g, tags).suffix)

Entering(g) ==
  [n \in ToSet(g.nodes) |-> Len(SelectSeq(g.arcs, LAMBDA a : g.tgt[a] = n))]

\* The arcs of p are taken away; the nodes that no arc enters any more are put in the queue.
Relieve(g, t, p) ==
  LET Along(u, a) ==
        LET q == g.tgt[a]
        IN  [counter |-> [u.counter EXCEPT ![q] = @ - 1],
             queue |-> IF u.counter[q] = 1 THEN Append(u.queue, q) ELSE u.queue]
  IN  FoldLeft(Along, t, g.adjacent[p])

Free(g) ==
  [counter |-> Entering(g), queue |-> SelectSeq(g.nodes, LAMBDA n : Entering(g)[n] = 0)]

RECURSIVE Sorted(_, _)
Sorted(g, t) ==
  LET p == Head(t.queue)
  IN  IF t.queue = <<>> THEN <<>>
      ELSE <<p>> \o Sorted(g, Relieve(g, [t EXCEPT !.queue = Tail(@)], p))

bf_topological_sort(g) == Sorted(g, Free(g))

RECURSIVE Ranks(_, _)
Ranks(g, t) ==
  IF t.queue = <<>> THEN <<>>
  ELSE <<t.queue>> \o Ranks(g, FoldLeft(LAMBDA u, p : Relieve(g, u, p),
                                        [t EXCEPT !.queue = <<>>], t.queue))

topological_ranks(g) == Ranks(g, Free(g))

-----------------------------------------------------------------------------
(***************************************************************************)
(* What the searches are to find, by reachability.                         *)
(***************************************************************************)
NodeSet(g) == ToSet(g.nodes)
ArcSet(g) == ToSet(g.arcs)

Steps(g, arcs, S) ==
  {g.tgt[a] : a \in {b \in arcs : g.src[b] \in S}}
    \cup (IF g.directed THEN {} ELSE {g.src[a] : a \in {b \in arcs : g.tgt[b] \in S}})

\* What is reached from S along the arcs, without entering the nodes of out.
RECURSIVE Reached(_, _, _, _)
Reached(g, arcs, S, out) ==
  LET T == S \cup (Steps(g, arcs, S) \ out)
  IN  IF T = S THEN S ELSE Reached(g, arcs, T, out)

Reach(g, p) == Reached(g, ArcSet(g), {p}, {})

\* The components of the nodes that are not in out.
Components(g, arcs, out) ==
  {Reached(g, arcs, {p}, out) : p \in NodeSet(g) \ out}

Connected(g) == Cardinality(Components(g, ArcSet(g), {})) = 1

\* A digraph: a node that reaches itself; a graph: more arcs than a forest has.
Cyclic(g) ==
  IF g.directed
  THEN \E p \in NodeSet(g) : p \in Reached(g, ArcSet(g), Steps(g, ArcSet(g), {p}), {})
  ELSE Len(g.arcs) > Len(g.nodes) - Cardinality(Components(g, ArcSet(g), {}))

RECURSIVE Within(_, _, _)
Within(g, p, k) ==
  IF k = 0 THEN {p} ELSE LET S == Within(g, p, k - 1) IN S \cup Steps(g, ArcSet(g), S)

Distance(g, p, q) ==
  CHOOSE k \in 0..Len(g.nodes) : q \in Within(g, p, k) /\ (k > 0 => q \notin Within(g, p, k - 1))

IsPath(g, path, b, e) ==
  IF e \notin Reach(g, b) THEN path = <<>>
  ELSE /\ path # <<>> /\ Head(path) = b /\ Last(path) = e /\ IsInjective(path)
       /\ \A i \in 2..Len(path) : path[i] \in Steps(g, ArcSet(g), {path[i - 1]})

At(s, x) == CHOOSE i \in DOMAIN s : s[i] = x

IsOrderOf(s, S) == IsInjective(s) /\ ToSet(s) = S

\* Each part has the nodes of a set of parts, once, and the arcs between them, once.
ArePartsOf(g, parts, sets) ==
  /\ Len(parts) = Cardinality(sets)
  /\ {ToSet(parts[i].nodes) : i \in DOMAIN parts} = sets
  /\ \A i \in DOMAIN parts :
       LET S == ToSet(parts[i].nodes)
       IN  /\ IsInjective(parts[i].nodes)
           /\ IsOrderOf(parts[i].arcs, {a \in ArcSet(g) : {g.src[a], g.tgt[a]} \subseteq S})

-----------------------------------------------------------------------------
(***************************************************************************)
(* Depth first: every node once; a node is left after those behind its     *)
(* arcs, except where an arc leads back to a node that is not left yet.    *)
(***************************************************************************)
TraversalRight(g, tags) ==
  LET t == depth_first_traverse(g, tags)
      i == depth_first_traverse_iterative(g, tags)
  IN  /\ IsOrderOf(t.prefix, NodeSet(g)) /\ IsOrderOf(t.suffix, NodeSet(g))
      /\ \A p \in NodeSet(g) : \A q \in Steps(g, ArcSet(g), {p}) :
           At(t.suffix, p) < At(t.suffix, q) => At(t.prefix, q) < At(t.prefix, p)
      /\ i.prefix = t.prefix /\ i.suffix = t.suffix

\* Breadth first: the nodes in the order of their distance.
BreadthRight(g, tags) ==
  \A b \in NodeSet(g) :
    LET s == breadth_first_traverse(g, tags, b)
    IN  /\ IsOrderOf(s, Reach(g, b))
        /\ \A i \in 2..Len(s) : Distance(g, b, s[i - 1]) <= Distance(g, b, s[i])

\* A path is found where there is one, and breadth first finds a shortest one.
PathsRight(g, tags) ==
  \A b, e \in NodeSet(g) :
    LET d == depth_first_search_path(g, tags, b, e)
        f == breadth_first_search_path(g, tags, b, e)
    IN  /\ IsPath(g, d, b, e) /\ IsPath(g, f, b, e)
        /\ f # <<>> => Len(f) = Distance(g, b, e) + 1
        /\ depth_first_search_path_iterative(g, tags, b, e) = d

CyclesRight(g, tags) ==
  /\ has_cycle(g, tags) = Cyclic(g) /\ has_cycle_iterative(g, tags) = Cyclic(g)
  /\ is_acyclique(g, tags) = ~Cyclic(g)

PartsRight(g, tags) ==
  ~g.directed =>
    LET sets == Components(g, ArcSet(g), {})
        parts == compute_connected_components(g, tags)
        bridges == {a \in ArcSet(g) : Components(g, ArcSet(g) \ {a}, {}) # sets}
    IN  /\ ArePartsOf(g, parts, sets)
        /\ connected_components_node_list(g, tags) = [i \in DOMAIN parts |-> parts[i].nodes]
        /\ IsOrderOf(find_bridges(g), bridges)

\* Of a connected graph; what compute_cut_nodes finds is given to the function that cuts.
CutsRight(g) ==
  ~g.directed /\ Connected(g) =>
    LET l == compute_cut_nodes(g)
        c == compute_cut_nodes_connected_components(g, l)
        Ends(a) == {g.src[a], g.tgt[a]}
        between == {a \in ArcSet(g) : Ends(a) \cap ToSet(l) # {}}
    IN  /\ IsOrderOf(l, {n \in NodeSet(g) : Cardinality(Components(g, ArcSet(g), {n})) > 1})
        /\ l # <<>> => ArePartsOf(g, c.subgraphs, Components(g, ArcSet(g), ToSet(l)))
        /\ c.cut.cut_graph.nodes = l
        /\ IsOrderOf(c.cut.cut_graph.arcs, {a \in between : Ends(a) \subseteq ToSet(l)})
        /\ IsOrderOf(c.cut.cross_arcs, {a \in between : ~(Ends(a) \subseteq ToSet(l))})

StrongParts(g) ==
  {{q \in Reach(g, p) : p \in Reach(g, q)} : p \in NodeSet(g)}

\* Both algorithms, and the components of the second with those they reach first.
StrongRight(g, tags) ==
  g.directed =>
    LET parts == strongly_connected_components(g)
        isolated == {n \in NodeSet(g) : \A a \in ArcSet(g) : n \notin {g.src[a], g.tgt[a]}}
    IN  /\ {ToSet(parts[i]) : i \in DOMAIN parts} = StrongParts(g)
        /\ IsOrderOf(FlattenSeq(parts), NodeSet(g))
        /\ \A i, j \in DOMAIN parts : parts[j][1] \in Reach(g, parts[i][1]) => j <= i
        /\ isolated = {} => ArePartsOf(g, Kosaraju_compute_strong_connected_components(g, tags),
                                       StrongParts(g))

RECURSIVE LongestTo(_, _)
LongestTo(g, n) ==
  LET before == {a \in ArcSet(g) : g.tgt[a] = n}
  IN  IF before = {} THEN 0 ELSE 1 + Max({LongestTo(g, g.src[a]) : a \in before})

\* Without a cycle: both orders, and the ranks, which count the longest path to a node.
OrdersRight(g, tags) ==
  g.directed /\ ~Cyclic(g) =>
    LET Before(s) == \A a \in ArcSet(g) : At(s, g.src[a]) < At(s, g.tgt[a])
        d == df_topological_sort(g, tags)
        b == bf_topological_sort(g)
        ranks == topological_ranks(g)
    IN  /\ IsOrderOf(d, NodeSet(g)) /\ Before(d)
        /\ IsOrderOf(b, NodeSet(g)) /\ Before(b)
        /\ FlattenSeq(ranks) = b
        /\ \A i \in DOMAIN ranks : \A n \in ToSet(ranks[i]) : LongestTo(g, n) = i - 1
=============================================================================
