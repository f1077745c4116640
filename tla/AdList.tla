-------------------------------- MODULE AdList --------------------------------
(***************************************************************************)
(* The doubly linked list of adlist.c, node by node.  mem is the memory    *)
(* the functions work on, and each function is an operator from the memory *)
(* before to the memory after a call.  The actions are what one thread may *)
(* call, with an iteration that can be under way while it calls the rest.  *)
(***************************************************************************)
EXTENDS Integers, Sequences, FiniteSets, SequencesExt

CONSTANTS
  Node,    (* addresses at which nodes are allocated                       *)
  Value,   (* what value pointers point to                                 *)
  List,    (* the lists of the program                                     *)
  NULL     (* the null pointer, and the field of something not allocated   *)

Pointer == Node \union {NULL}
ListNode == [prev : Pointer, next : Pointer, value : Value]
ListHeader == [head : Pointer, tail : Pointer, len : Nat, owns : BOOLEAN]
ListIter == [list : List, direction : {"head", "tail"}, next : Pointer, current : Pointer]

\* Nothing that may be in memory is mistaken for nothing.
ASSUME ListAssumption ==
  /\ IsFiniteSet(Node)
  /\ NULL \notin Node \union Value
  /\ NULL \notin ListNode \union ListHeader \union ListIter \union Seq(Value)

VARIABLES
  mem,      (* node: what is at each address, NULL when it is free;
               list: head, tail, len of each list and whether it owns its values
               (has a dup and a free method, like a client's reply list), or NULL;
               refs: the references to each value the owning lists have      *)
  iter,     (* the iterator of the iteration under way, and the list and the
               node it returned last; NULL when there is none                *)
  start,    (* history: the nodes listed when the iteration began, in its
               direction, without those removed since                        *)
  visited   (* history: the nodes it has returned, without those removed     *)

vars == <<mem, iter, start, visited>>

Allocated(m) == {n \in Node : m.node[n] # NULL}
Live(m) == {l \in List : m.list[l] # NULL}

Init ==
  /\ mem = [node |-> [n \in Node |-> NULL], list |-> [l \in List |-> NULL],
            refs |-> [v \in Value |-> 0]]
  /\ iter = NULL
  /\ start = <<>>
  /\ visited = <<>>

-------------------------------------------------------------------------------
(* Walking: the nodes met from n on, forward or backward, and one more than
   there are when the pointers run in a circle. *)

Walk(m, n, dir) ==
  LET at[i \in 1 .. Cardinality(Node) + 1] ==
        IF i = 1 THEN n
        ELSE IF at[i - 1] = NULL THEN NULL
        ELSE IF dir = "head" THEN m.node[at[i - 1]].next ELSE m.node[at[i - 1]].prev
      size == Cardinality({i \in DOMAIN at : at[i] # NULL})
  IN  [i \in 1 .. size |-> at[i]]

First(m, l, dir) == IF dir = "head" THEN m.list[l].head ELSE m.list[l].tail
Nodes(m, l) == Walk(m, m.list[l].head, "head")

-------------------------------------------------------------------------------
(* The functions of adlist.c, from memory to memory. *)

listCreate(m, l, owning) ==
  [m EXCEPT !.list[l] = [head |-> NULL, tail |-> NULL, len |-> 0, owns |-> owning]]

\* The caller hands a reference over with the value it adds to an owning list.
Taken(m, l, v) == [m.refs EXCEPT ![v] = IF m.list[l].owns THEN @ + 1 ELSE @]
Released(m, l, n) ==
  [m.refs EXCEPT ![m.node[n].value] = IF m.list[l].owns THEN @ - 1 ELSE @]

\* Mutant: the old head is not linked back to the new one.
listAddNodeHeadOneWay(m, l, v, n) ==
  LET list == m.list[l] IN
  [m EXCEPT !.refs = Taken(m, l, v),
            !.node = [@ EXCEPT ![n] = [prev |-> NULL, next |-> list.head, value |-> v]],
            !.list[l] = [list EXCEPT !.head = n, !.len = @ + 1,
                                     !.tail = IF list.len = 0 THEN n ELSE @]]

listAddNodeHead(m, l, v, n) ==
  LET list == m.list[l]
      new == [prev |-> NULL, next |-> list.head, value |-> v]
      empty == list.len = 0
  IN  [m EXCEPT !.refs = Taken(m, l, v),
                !.node = IF empty THEN [@ EXCEPT ![n] = new]
                                  ELSE [@ EXCEPT ![n] = new, ![list.head].prev = n],
                !.list[l] = [list EXCEPT !.head = n, !.len = @ + 1,
                                         !.tail = IF empty THEN n ELSE @]]

listAddNodeTail(m, l, v, n) ==
  LET list == m.list[l]
      new == [prev |-> list.tail, next |-> NULL, value |-> v]
      empty == list.len = 0
  IN  [m EXCEPT !.refs = Taken(m, l, v),
                !.node = IF empty THEN [@ EXCEPT ![n] = new]
                                  ELSE [@ EXCEPT ![n] = new, ![list.tail].next = n],
                !.list[l] = [list EXCEPT !.tail = n, !.len = @ + 1,
                                         !.head = IF empty THEN n ELSE @]]

\* Makes q follow p, either of which may be NULL.
Link(node, p, q) ==
  [x \in Node |-> IF x = p THEN [node[x] EXCEPT !.next = q]
                  ELSE IF x = q THEN [node[x] EXCEPT !.prev = p] ELSE node[x]]

listInsertNode(m, l, old, v, after, n) ==
  LET list == m.list[l]
      p == IF after THEN old ELSE m.node[old].prev
      q == IF after THEN m.node[old].next ELSE old
      new == [m.node EXCEPT ![n] = [prev |-> p, next |-> q, value |-> v]]
  IN  [m EXCEPT !.refs = Taken(m, l, v),
                !.node = Link(Link(new, p, n), n, q),
                !.list[l] = [list EXCEPT !.len = @ + 1,
                                         !.tail = IF after /\ @ = old THEN n ELSE @,
                                         !.head = IF ~after /\ @ = old THEN n ELSE @]]

listDelNode(m, l, n) ==
  LET list == m.list[l]
      p == m.node[n].prev
      q == m.node[n].next
  IN  [m EXCEPT !.refs = Released(m, l, n),
                !.node = [Link(m.node, p, q) EXCEPT ![n] = NULL],
                !.list[l] = [list EXCEPT !.len = @ - 1,
                                         !.head = IF p = NULL THEN q ELSE @,
                                         !.tail = IF q = NULL THEN p ELSE @]]

\* len nodes are freed, counted and not looked for.
listRelease(m, l) ==
  LET freed == Range(SubSeq(Nodes(m, l), 1, m.list[l].len))
      holders(v) == IF m.list[l].owns THEN {n \in freed : m.node[n].value = v} ELSE {}
  IN  [m EXCEPT !.refs = [v \in Value |-> m.refs[v] - Cardinality(holders(v))],
                !.node = [n \in Node |-> IF n \in freed THEN NULL ELSE m.node[n]],
                !.list[l] = NULL]

\* Mutant: the new tail still points to the node that became the head.
listRotateCircle(m, l) ==
  LET list == m.list[l]
      last == list.tail
  IN  IF list.len <= 1 THEN m
      ELSE [m EXCEPT !.node = [@ EXCEPT ![list.head].prev = last,
                                        ![last].prev = NULL, ![last].next = list.head],
                     !.list[l] = [list EXCEPT !.tail = m.node[last].prev, !.head = last]]

listRotate(m, l) ==
  LET list == m.list[l]
      last == list.tail
      detached == [m.node EXCEPT ![m.node[last].prev].next = NULL]
  IN  IF list.len <= 1 THEN m
      ELSE [m EXCEPT !.node = [detached EXCEPT ![list.head].prev = last,
                                               ![last].prev = NULL, ![last].next = list.head],
                     !.list[l] = [list EXCEPT !.tail = m.node[last].prev, !.head = last]]

\* The first k nodes of l have been copied to c, into the nodes fresh.
Copied(m, l, c, fresh, k) ==
  LET from == Nodes(m, l)
      copy[i \in 0 .. k] ==
        IF i = 0 THEN listCreate(m, c, m.list[l].owns)
        ELSE listAddNodeTail(copy[i - 1], c, m.node[from[i]].value, fresh[i])
  IN  copy[k]

listDup(m, l, c, fresh) == Copied(m, l, c, fresh, m.list[l].len)

\* The dup method fails at the value behind the k-th: what was copied is released.
listDupFails(m, l, c, fresh, k) == listRelease(Copied(m, l, c, fresh, k), c)

listSearchKey(m, l, key) ==
  LET at == SelectInSeq(Nodes(m, l), LAMBDA n : m.node[n].value = key)
  IN  IF at = 0 THEN NULL ELSE Nodes(m, l)[at]

listIndex(m, l, index) ==
  LET steps == IF index < 0 THEN (-index) - 1 ELSE index
      dir == IF index < 0 THEN "tail" ELSE "head"
      from == Walk(m, First(m, l, dir), dir)
  IN  IF steps < Len(from) THEN from[steps + 1] ELSE NULL

-------------------------------------------------------------------------------
(* The calls of a program.  The iterator's contract (adlist.c:338-340) is  *)
(* the guard Removable: while it goes through a list only the node it has  *)
(* returned may be removed; adding is not restricted.                      *)

Iterates(l) == iter # NULL /\ iter.list = l
Removable(l) == IF Iterates(l) THEN {iter.current} \ {NULL} ELSE Range(Nodes(mem, l))

Create(l) ==
  /\ mem.list[l] = NULL
  /\ \E owning \in BOOLEAN : mem' = listCreate(mem, l, owning)
  /\ UNCHANGED <<iter, start, visited>>

Release(l) ==
  /\ l \in Live(mem)
  /\ ~Iterates(l)
  /\ mem' = listRelease(mem, l)
  /\ UNCHANGED <<iter, start, visited>>

AddNode(l) ==
  /\ l \in Live(mem)
  /\ \E n \in Node \ Allocated(mem), v \in Value :
       \/ mem' = listAddNodeHead(mem, l, v, n)
       \/ mem' = listAddNodeTail(mem, l, v, n)
       \/ \E old \in Range(Nodes(mem, l)), after \in BOOLEAN :
            mem' = listInsertNode(mem, l, old, v, after, n)
  /\ UNCHANGED <<iter, start, visited>>

Without(s, n) == RemoveFirst(s, n)

\* The node comes from a search, an index or the iterator.
DelNode(l) ==
  /\ l \in Live(mem)
  /\ \E n \in Removable(l) :
       /\ mem' = listDelNode(mem, l, n)
       /\ IF Iterates(l)
          THEN /\ iter' = [iter EXCEPT !.current = NULL]
               /\ start' = Without(start, n)
               /\ visited' = Without(visited, n)
          ELSE UNCHANGED <<iter, start, visited>>

RotateList(l) ==
  /\ l \in Live(mem)
  /\ ~Iterates(l)
  /\ mem' = listRotate(mem, l)
  /\ UNCHANGED <<iter, start, visited>>

Injections(k) ==
  {f \in [1 .. k -> Node \ Allocated(mem)] : \A i, j \in 1 .. k : f[i] = f[j] => i = j}

Dup(l, c) ==
  /\ l \in Live(mem)
  /\ c \notin Live(mem)
  /\ \/ \E fresh \in Injections(mem.list[l].len) : mem' = listDup(mem, l, c, fresh)
     \/ /\ mem.list[l].owns
        /\ \E k \in 0 .. mem.list[l].len - 1 : \E fresh \in Injections(k) :
             mem' = listDupFails(mem, l, c, fresh, k)
  /\ UNCHANGED <<iter, start, visited>>

\* listGetIterator, listRewind and listRewindTail.
StartIteration(l) ==
  /\ iter = NULL
  /\ l \in Live(mem)
  /\ \E dir \in {"head", "tail"} :
       /\ iter' = [list |-> l, direction |-> dir, next |-> First(mem, l, dir), current |-> NULL]
       /\ start' = Walk(mem, First(mem, l, dir), dir)
  /\ visited' = <<>>
  /\ UNCHANGED mem

\* Mutant: the node behind the one returned is looked for in the next call.
NextNodeLate ==
  /\ iter # NULL
  /\ iter.next # NULL
  /\ LET link(n) == IF iter.direction = "head" THEN mem.node[n].next ELSE mem.node[n].prev
         n == IF visited = <<>> \/ mem.node[iter.next] = NULL THEN iter.next ELSE link(iter.next)
     IN  /\ iter' = [iter EXCEPT !.current = n, !.next = n]
         /\ visited' = Append(visited, n)
  /\ UNCHANGED <<mem, start>>

\* listNext: the iterator has gone on before the node is returned.
NextNode ==
  /\ iter # NULL
  /\ iter.next # NULL
  /\ iter' = [iter EXCEPT !.current = iter.next,
                          !.next = IF iter.direction = "head" THEN mem.node[iter.next].next
                                                              ELSE mem.node[iter.next].prev]
  /\ visited' = Append(visited, iter.next)
  /\ UNCHANGED <<mem, start>>

\* listNext has returned NULL, or the caller breaks off: listReleaseIterator.
EndIteration ==
  /\ iter # NULL
  /\ iter' = NULL
  /\ start' = <<>>
  /\ visited' = <<>>
  /\ UNCHANGED mem

Next ==
  \/ \E l \in List :
       \/ Create(l) \/ Release(l) \/ AddNode(l) \/ DelNode(l) \/ RotateList(l)
       \/ StartIteration(l)
       \/ \E c \in List : Dup(l, c)
  \/ NextNode
  \/ EndIteration

Spec == Init /\ [][Next]_vars

-------------------------------------------------------------------------------
(* Properties. *)

\* listIndex counts from either end to the same element, and listSearchKey finds the
\* first element with the key.
LookupFits(l, chain) ==
  LET len == Len(chain) IN
  /\ \A i \in -(len + 1) .. len :
       listIndex(mem, l, i) = IF i \in 0 .. len - 1 THEN chain[i + 1]
                              ELSE IF i \in -len .. -1 THEN chain[len + i + 1] ELSE NULL
  /\ \A v \in Value :
       LET n == listSearchKey(mem, l, v) IN
       IF n = NULL THEN \A x \in Range(chain) : mem.node[x].value # v
       ELSE \E i \in 1 .. len : /\ chain[i] = n /\ mem.node[n].value = v
                                /\ \A j \in 1 .. i - 1 : mem.node[chain[j]].value # v

\* Every list is one chain, the same in both directions, from its head to its tail
\* and as long as len says; the chains are disjoint and no other node is allocated;
\* the owning lists hold one reference to a value for each node that has it, also
\* after a copy that failed half-way (listDup) and after a list was released.  What is
\* looked up in a list is what it contains.
ListInv ==
  /\ \A l \in Live(mem) :
       LET list == mem.list[l]
           chain == Nodes(mem, l) IN
       /\ Len(chain) = list.len
       /\ IsInjective(chain)
       /\ Walk(mem, list.tail, "tail") = Reverse(chain)
       /\ \A k \in Live(mem) \ {l} : Range(chain) \intersect Range(Nodes(mem, k)) = {}
       /\ LookupFits(l, chain)
  /\ Allocated(mem) = UNION {Range(Nodes(mem, l)) : l \in Live(mem)}
  /\ \A v \in Value :
       mem.refs[v] = Cardinality({n \in Allocated(mem) : /\ mem.node[n].value = v
                                   /\ \E l \in Live(mem) : mem.list[l].owns /\ n \in Range(Nodes(mem, l))})

Before(s, x, y) == \E i, j \in DOMAIN s : i < j /\ s[i] = x /\ s[j] = y

\* An iterator never stands at a freed node, and whatever is added, removed or freed
\* and allocated again while it goes through the list, what it has returned and what it
\* will return are different nodes, among them all the list began with, in their order.
IterInv ==
  iter # NULL =>
    LET all == visited \o Walk(mem, iter.next, iter.direction) IN
    /\ iter.next \in {NULL} \union Range(Nodes(mem, iter.list))
    /\ IsInjective(all) /\ IsInjective(start)
    /\ Range(start) \subseteq Range(all)
    /\ \A i, j \in DOMAIN start : i < j => Before(all, start[i], start[j])

Values(l) ==
  LET chain == Nodes(mem, l) IN
  IF mem.list[l] = NULL THEN NULL
  ELSE [i \in DOMAIN chain |-> mem.node[chain[i]].value]

Contents == INSTANCE ListContents WITH Absent <- NULL, contents <- [l \in List |-> Values(l)]

\* The nodes and pointers implement a sequence of values: no call loses, repeats or
\* reorders an element, or changes a list other than its own.
ImplementsContents == Contents!ContentsSpec
==============================================================================
