-------------------------------- MODULE Lists --------------------------------
(***************************************************************************)
(* list.hpp, nodesdef.hpp: SLList over NodeSLList, and DLList over DL.     *)
(*                                                                         *)
(* A node is named by its item: no item is in the two lists twice.  The    *)
(* lists are -1 and -2, which also name the head nodes of the DLLists; 0   *)
(* is nullptr.  An iterator walks list -1; while there is one, the lists   *)
(* are changed through it only.                                            *)
(***************************************************************************)
EXTENDS Integers, Sequences, SequencesExt

CONSTANT Items       \* positive integers

VARIABLES list,      \* the nodes and the members of the lists
          it,        \* the iterator
          answer     \* what the last call answered

listVars == <<list, it, answer>>

Objects == {-1, -2}
Other(o) == -3 - o

NoIterator == [curr |-> -9, pred |-> 0]
Walking == it # NoIterator

Do(s, a) == list' = s /\ answer' = a /\ UNCHANGED it

\* The assignments <<member, node, value>>, one after the other.
Assign(s, w) == FoldLeft(LAMBDA t, a : [t EXCEPT ![a[1]][a[2]] = a[3]], s, w)

-----------------------------------------------------------------------------
(***************************************************************************)
(* SLList                                                                  *)
(***************************************************************************)
Zeros == [o \in Objects |-> 0]

Init ==
  /\ list = [head |-> Zeros, tail |-> Zeros, num_items |-> Zeros, next |-> [n \in Items |-> 0]]
  /\ it = NoIterator /\ answer = 0

RECURSIVE Chain(_, _)
Chain(s, n) == IF n = 0 THEN <<>> ELSE <<n>> \o Chain(s, s.next[n])

Content(s, o) == Chain(s, s.head[o])

Used == ToSet(Content(list, -1)) \cup ToSet(Content(list, -2))
New(n) == n \in Items \ Used

Counted(s, o, d) == [s EXCEPT !.num_items[o] = @ + d]

is_empty(s, o) == s.head[o] = 0

add_to_empty_list(s, o, n) == [s EXCEPT !.head[o] = n, !.tail[o] = n]

NodeInsert(s, o, n) ==
  IF is_empty(s, o) THEN add_to_empty_list(s, o, n)
  ELSE Assign(s, <<<<"next", n, s.head[o]>>, <<"head", o, n>>>>)

SetNext(s, p, n) == Assign(s, <<<<"next", n, s.next[p]>>, <<"next", p, n>>>>)

NodeAppend(s, o, n) ==
  IF is_empty(s, o) THEN add_to_empty_list(s, o, n)
  ELSE [SetNext(s, s.tail[o], n) EXCEPT !.tail[o] = n]

NodeRemoveFirst(s, o) ==
  LET n == s.head[o]
  IN  [s EXCEPT !.head[o] = s.next[n], !.next[n] = 0,
                !.tail[o] = IF s.next[n] = 0 THEN 0 ELSE @]

NodeConcat(s, o) ==
  LET l == Other(o)
      joined == IF is_empty(s, o) THEN [s EXCEPT !.head[o] = s.head[l], !.tail[o] = s.tail[l]]
                ELSE [s EXCEPT !.next[s.tail[o]] = s.head[l], !.tail[o] = s.tail[l]]
  IN  IF is_empty(s, l) THEN s ELSE [joined EXCEPT !.head[l] = 0, !.tail[l] = 0]

-----------------------------------------------------------------------------
insert(o, n) == ~Walking /\ New(n) /\ Do(Counted(NodeInsert(list, o, n), o, 1), n)

append(o, n) == ~Walking /\ New(n) /\ Do(Counted(NodeAppend(list, o, n), o, 1), n)

remove_first(o) ==
  /\ ~Walking /\ list.num_items[o] # 0
  /\ Do(Counted(NodeRemoveFirst(list, o), o, -1), list.head[o])

RECURSIVE empty_list(_, _)
empty_list(s, o) ==
  IF is_empty(s, o) THEN s ELSE empty_list(Counted(NodeRemoveFirst(s, o), o, -1), o)

clear(o) == ~Walking /\ Do(empty_list(list, o), 0)

concat(o) ==
  LET s == Counted(list, o, list.num_items[Other(o)])
  IN  ~Walking /\ Do([NodeConcat(s, o) EXCEPT !.num_items[Other(o)] = 0], 0)

swap ==
  LET Flip(f) == [o \in Objects |-> f[Other(o)]]
  IN  /\ ~Walking
      /\ Do([list EXCEPT !.head = Flip(@), !.tail = Flip(@), !.num_items = Flip(@)], 0)

\* A copy is made of new nodes; it takes the place of the list it copies.
copy_list(o) ==
  LET Add(s, n) == Counted(NodeAppend(s, o, n), o, 1)
  IN  ~Walking /\ Do(FoldLeft(Add, empty_list(list, o), Content(list, o)), 0)

RECURSIVE Nth(_, _, _)
Nth(s, n, i) == IF i = 0 THEN n ELSE Nth(s, s.next[n], i - 1)
select(o, i) == Nth(list, list.head[o], i)

get_first(o) == list.head[o]
get_last(o) == list.tail[o]

-----------------------------------------------------------------------------
Step(s, curr, pred, a) == list' = s /\ it' = [curr |-> curr, pred |-> pred] /\ answer' = a

begin == ~Walking /\ Step(list, list.head[-1], 0, 0)

next ==
  Walking /\ IF it.curr = 0 THEN Step(list, 0, it.pred, 0)
             ELSE Step(list, list.next[it.curr], it.curr, 0)

\* Bound: it leaves pred as it is, and is not called once pred is set.
reset_first == Walking /\ it.pred = 0 /\ Step(list, list.head[-1], it.pred, 0)

del ==
  LET curr == list.next[it.curr]
      s == IF curr = 0 THEN [list EXCEPT !.tail[-1] = it.pred] ELSE list
      p == list.next[it.pred]
      first == Counted(NodeRemoveFirst(list, -1), -1, -1)
  IN  /\ Walking /\ it.curr # 0
      /\ IF it.pred = 0 THEN Step(first, first.head[-1], 0, it.curr)
         ELSE Step(Counted(Assign(s, <<<<"next", it.pred, list.next[p]>>, <<"next", p, 0>>>>), -1, -1),
                   curr, it.pred, p)

\* Past the end it appends; pred stays behind then.
link_next(n) ==
  LET s == IF it.curr = 0 THEN NodeAppend(list, -1, n) ELSE SetNext(list, it.curr, n)
      t == IF it.curr # 0 /\ it.curr = list.tail[-1] THEN [s EXCEPT !.tail[-1] = n] ELSE s
  IN  Walking /\ New(n) /\ Step(Counted(t, -1, 1), it.curr, it.pred, n)

end == Walking /\ it' = NoIterator /\ UNCHANGED <<list, answer>>

Next ==
  \/ \E o \in Objects :
       \/ \E n \in Items : insert(o, n) \/ append(o, n)
       \/ remove_first(o) \/ clear(o) \/ concat(o) \/ copy_list(o)
  \/ \E n \in Items : link_next(n)
  \/ swap \/ begin \/ next \/ reset_first \/ del \/ end

Place(content) ==
  CASE ~Walking -> 0
    [] Walking /\ it.curr \in Items -> CHOOSE i \in DOMAIN content : content[i] = it.curr
    [] Walking /\ it.curr \notin Items -> Len(content) + 1

\* tail is the last node, nothing follows it, and the counter is right.
Verified ==
  /\ \A o \in Objects :
       LET c == Content(list, o)
       IN  /\ list.tail[o] = IF c = <<>> THEN 0 ELSE Last(c)
           /\ list.num_items[o] = Len(c)
           /\ IsInjective(c)
           /\ \A i \in DOMAIN c : select(o, i - 1) = c[i]
  /\ \A n \in Items \ Used : list.next[n] = 0

Sequences == INSTANCE ListSpec
  WITH items <- [o \in Objects |-> Content(list, o)], place <- Place(Content(list, -1))

-----------------------------------------------------------------------------
(***************************************************************************)
(* DLList: a ring through its head node.                                   *)
(***************************************************************************)
DlInit ==
  /\ list = LET self == [n \in Items \cup Objects |-> n]
            IN  [next |-> self, prev |-> self, num_items |-> Zeros]
  /\ it = NoIterator /\ answer = 0

RECURSIVE Ring(_, _, _)
Ring(s, o, n) == IF n = o THEN <<>> ELSE <<n>> \o Ring(s, o, s.next[n])

DlContent(s, o) == Ring(s, o, s.next[o])

DlNew(n) == n \in Items \ (ToSet(DlContent(list, -1)) \cup ToSet(DlContent(list, -2)))

DlEmpty(s, p) == s.next[p] = s.prev[p] /\ s.next[p] = p

DlReset(p) == <<<<"next", p, p>>, <<"prev", p, p>>>>

insert_next(s, p, n) ==
  Assign(s, <<<<"next", n, s.next[p]>>, <<"prev", n, p>>, <<"prev", s.next[p], n>>, <<"next", p, n>>>>)

insert_prev(s, p, n) ==
  Assign(s, <<<<"next", n, p>>, <<"prev", n, s.prev[p]>>, <<"next", s.prev[p], n>>, <<"prev", p, n>>>>)

Unlink(s, p) ==
  Assign(s, <<<<"prev", s.next[p], s.prev[p]>>, <<"next", s.prev[p], s.next[p]>>>> \o DlReset(p))

\* The ring of q becomes that of p.
Take(s, p, q) ==
  Assign(s, <<<<"next", p, s.next[q]>>, <<"prev", p, s.prev[q]>>,
              <<"prev", s.next[q], p>>, <<"next", s.prev[q], p>>>> \o DlReset(q))

SwapRings(s, p, q) ==
  CASE DlEmpty(s, p) /\ DlEmpty(s, q) -> s
    [] DlEmpty(s, p) /\ ~DlEmpty(s, q) -> Take(s, p, q)
    [] ~DlEmpty(s, p) /\ DlEmpty(s, q) -> Take(s, q, p)
    [] ~DlEmpty(s, p) /\ ~DlEmpty(s, q) ->
         Assign(s, <<<<"prev", s.next[p], q>>, <<"prev", s.next[q], p>>,
                     <<"next", s.prev[p], q>>, <<"next", s.prev[q], p>>,
                     <<"next", p, s.next[q]>>, <<"next", q, s.next[p]>>,
                     <<"prev", p, s.prev[q]>>, <<"prev", q, s.prev[p]>>>>)

-----------------------------------------------------------------------------
DlInsert(o, n) == ~Walking /\ DlNew(n) /\ Do(Counted(insert_next(list, o, n), o, 1), n)

DlAppend(o, n) == ~Walking /\ DlNew(n) /\ Do(Counted(insert_prev(list, o, n), o, 1), n)

Drop(o, n) == ~Walking /\ n # o /\ Do(Counted(Unlink(list, n), o, -1), n)

DlRemoveFirst(o) == Drop(o, list.next[o])

remove_last(o) == Drop(o, list.prev[o])

remove(o, n) == n \in ToSet(DlContent(list, o)) /\ Drop(o, n)

RECURSIVE DlEmptyList(_, _)
DlEmptyList(s, o) ==
  IF DlEmpty(s, o) THEN s ELSE DlEmptyList(Counted(Unlink(s, s.next[o]), o, -1), o)

DlClear(o) == ~Walking /\ Do(DlEmptyList(list, o), 0)

DlSwap ==
  LET s == SwapRings(list, -1, -2)
  IN  ~Walking /\ Do([s EXCEPT !.num_items = [o \in Objects |-> @[Other(o)]]], 0)

DlCopyList(o) ==
  LET Add(s, n) == Counted(insert_prev(s, o, n), o, 1)
  IN  ~Walking /\ Do(FoldLeft(Add, DlEmptyList(list, o), DlContent(list, o)), 0)

DlSelect(o, i) == Nth(list, list.next[o], i)

DlBegin == ~Walking /\ Step(list, list.next[-1], 0, 0)

DlNext == Walking /\ Step(list, IF it.curr = -1 THEN -1 ELSE list.next[it.curr], 0, 0)

prev ==
  Walking /\ Step(list, IF it.curr = list.next[-1] THEN it.curr ELSE list.prev[it.curr], 0, 0)

DlResetFirst == Walking /\ Step(list, list.next[-1], 0, 0)

reset_last == Walking /\ Step(list, list.prev[-1], 0, 0)

\* At the end it would unlink and free the head: it is not called there.
DlDel ==
  /\ Walking /\ it.curr # -1
  /\ Step(Counted(Unlink(list, it.curr), -1, -1), list.next[it.curr], 0, it.curr)

ItInsertNext(n) ==
  Walking /\ DlNew(n) /\ Step(Counted(insert_next(list, it.curr, n), -1, 1), it.curr, 0, n)

ItInsertPrev(n) ==
  Walking /\ DlNew(n) /\ Step(Counted(insert_prev(list, it.curr, n), -1, 1), it.curr, 0, n)

DlEnd == Walking /\ it' = NoIterator /\ UNCHANGED <<list, answer>>

DlNextState ==
  \/ \E o \in Objects :
       \/ \E n \in Items : DlInsert(o, n) \/ DlAppend(o, n) \/ remove(o, n)
       \/ DlRemoveFirst(o) \/ remove_last(o) \/ DlClear(o) \/ DlCopyList(o)
  \/ \E n \in Items : ItInsertNext(n) \/ ItInsertPrev(n)
  \/ DlSwap \/ DlBegin \/ DlNext \/ prev \/ DlResetFirst \/ reset_last \/ DlDel \/ DlEnd

\* prev is next turned round, and the counter is right.
DlVerified ==
  \A o \in Objects :
    LET c == DlContent(list, o)
    IN  /\ \A n \in ToSet(c) \cup {o} : list.prev[list.next[n]] = n /\ list.next[list.prev[n]] = n
        /\ list.num_items[o] = Len(c)
        /\ \A i \in DOMAIN c : DlSelect(o, i - 1) = c[i]

DlSequences == INSTANCE ListSpec
  WITH items <- [o \in Objects |-> DlContent(list, o)], place <- Place(DlContent(list, -1))
=============================================================================
