----------------------------- MODULE AdListProofs -----------------------------
(***************************************************************************)
(* Proofs about the linked list, for any number of lists, nodes and        *)
(* values.  A list in memory is described by its chain, the sequence of    *)
(* its nodes, and each function by what it makes of the chain.             *)
(***************************************************************************)
EXTENDS AdList, QueueLemmas, TLAPS

\* The i-th node of a chain, and what the pointers next to its ends hold.
At(s, i) == IF i \in 1 .. Len(s) THEN s[i] ELSE NULL

(* Each node of the chain points to its neighbours, the header to its ends. *)
Linked(node, c) ==
  \A i \in 1 .. Len(c) : node[c[i]].prev = At(c, i - 1) /\ node[c[i]].next = At(c, i + 1)
Headed(h, c) == h.head = At(c, 1) /\ h.tail = At(c, Len(c)) /\ h.len = Len(c)

Memory ==
  [node : [Node -> ListNode \union {NULL}], list : [List -> ListHeader \union {NULL}],
   refs : [Value -> Int]]

Chained(m, l, c) ==
  /\ Distinct(c)
  /\ m.list[l] = NULL => c = <<>>
  /\ m.list[l] # NULL => Headed(m.list[l], c) /\ Linked(m.node, c)

(* ch holds the chains of the lists: disjoint, and all that is allocated.   *)
Shape(m, ch) ==
  /\ m \in Memory
  /\ ch \in [List -> Seq(Node)]
  /\ \A l \in List : Chained(m, l, ch[l])
  /\ \A k, l \in List : k # l => Elems(ch[k]) \intersect Elems(ch[l]) = {}
  /\ \A n \in Node : m.node[n] # NULL <=> \E l \in List : n \in Elems(ch[l])

-------------------------------------------------------------------------------
(* Walks.                                                                   *)

(* Sequences over a set, and the constants.                                 *)
LEMMA SeqFacts ==
  ASSUME NEW S, NEW s \in Seq(S)
  PROVE  /\ Len(s) \in Nat /\ DOMAIN s = 1 .. Len(s)
         /\ \A i \in 1 .. Len(s) : s[i] \in S /\ s[i] \in Elems(s)
         /\ \A e \in Elems(s) : \E i \in 1 .. Len(s) : s[i] = e
         /\ Elems(s) \subseteq S
         /\ s = [i \in 1 .. Len(s) |-> s[i]]
BY DEF Elems

LEMMA NodeFacts ==
  /\ IsFiniteSet(Node) /\ Cardinality(Node) \in Nat
  /\ NULL \notin Node
  /\ \A x \in ListNode : x # NULL
  /\ \A x \in ListHeader : x # NULL
  /\ \A x \in ListIter : x # NULL
  /\ \A x \in Seq(Value) : x # NULL
BY ListAssumption, FS_CardinalityType

LEMMA UpToFinite ==
  ASSUME NEW n \in Nat
  PROVE  IsFiniteSet(1 .. n) /\ Cardinality(1 .. n) = n
BY FS_Interval

(* A sequence of different nodes is no longer than there are nodes.         *)
LEMMA ChainLength ==
  ASSUME NEW c \in Seq(Node), Distinct(c)
  PROVE  Len(c) <= Cardinality(Node)
<1> DEFINE I == 1 .. Len(c)
<1>1. Len(c) \in Nat /\ DOMAIN c = I /\ c \in [I -> Node]
  OBVIOUS
<1>2. IsFiniteSet(I) /\ Cardinality(I) = Len(c)
  BY <1>1, UpToFinite
<1>3. c \in Injection(I, Node)
  BY <1>1 DEF Distinct, Injection, IsInjective
<1>4. Cardinality(I) <= Cardinality(Node)
  BY <1>2, <1>3, NodeFacts, FS_Injection
<1>5. QED
  BY <1>2, <1>4

Follow(m, x, dir) == IF dir = "head" THEN m.node[x].next ELSE m.node[x].prev

Leads(m, d, dir) == \A j \in 1 .. Len(d) : Follow(m, d[j], dir) = At(d, j + 1)

(* A walk along the nodes of a sequence, each of which leads to the next,   *)
(* meets exactly these.                                                     *)
LEMMA WalkAlong ==
  ASSUME NEW m, NEW dir, NEW d \in Seq(Node), Len(d) <= Cardinality(Node), Leads(m, d, dir)
  PROVE  Walk(m, At(d, 1), dir) = d
<1> DEFINE N == Cardinality(Node)
           K == 1 .. N + 1
           Rule(f) == [i \in K |-> IF i = 1 THEN At(d, 1)
                                   ELSE IF f[i - 1] = NULL THEN NULL
                                   ELSE IF dir = "head" THEN m.node[f[i - 1]].next
                                   ELSE m.node[f[i - 1]].prev]
           W == [i \in K |-> At(d, i)]
           at == CHOOSE f : f = Rule(f)
<1>0. /\ Len(d) \in Nat /\ N \in Nat /\ Len(d) <= N /\ NULL \notin Node
      /\ \A i \in 1 .. Len(d) : d[i] \in Node
  BY NodeFacts
<1>1. ASSUME NEW i \in K PROVE W[i] = Rule(W)[i]
  <2>1. CASE i = 1
    BY <2>1
  <2>2. CASE i # 1 /\ i - 1 <= Len(d)
    <3>1. i - 1 \in 1 .. Len(d) /\ i - 1 \in K /\ (i - 1) + 1 = i
      BY <1>0, <2>2
    <3>2. W[i - 1] = d[i - 1] /\ d[i - 1] # NULL
      BY <1>0, <3>1 DEF At
    <3>3. Follow(m, d[i - 1], dir) = At(d, i)
      BY <3>1 DEF Leads
    <3>4. QED
      BY <2>2, <3>2, <3>3 DEF Follow
  <2>3. CASE i # 1 /\ i - 1 > Len(d)
    <3>1. i - 1 \in K /\ i - 1 \notin 1 .. Len(d) /\ i \notin 1 .. Len(d)
      BY <1>0, <2>3
    <3>2. W[i - 1] = NULL /\ W[i] = NULL
      BY <3>1 DEF At
    <3>3. QED
      BY <2>3, <3>2
  <2>4. QED
    BY <1>0, <2>1, <2>2, <2>3
<1>2. W = Rule(W)
  BY <1>1
<1>3. at = Rule(at)
  BY <1>2
<1>4. Walk(m, At(d, 1), dir) = [i \in 1 .. Cardinality({j \in DOMAIN at : at[j] # NULL}) |-> at[i]]
  BY DEF Walk
<1> HIDE DEF at
<1> DEFINE T == {n \in Nat : n + 1 \in K => at[n + 1] = At(d, n + 1)}
<1>5. 0 \in T
  BY <1>0, <1>3
<1>6. ASSUME NEW n \in Nat, n \in T PROVE n + 1 \in T
  <2>1. SUFFICES ASSUME (n + 1) + 1 \in K PROVE at[(n + 1) + 1] = At(d, (n + 1) + 1)
    OBVIOUS
  <2>2. n + 1 \in K /\ (n + 1) + 1 # 1 /\ ((n + 1) + 1) - 1 = n + 1
    BY <1>0, <2>1
  <2>3. at[n + 1] = W[n + 1]
    BY <1>6, <2>2
  <2>4. at[(n + 1) + 1] = Rule(at)[(n + 1) + 1]
    BY <1>3
  <2>5. Rule(at)[(n + 1) + 1] = Rule(W)[(n + 1) + 1]
    BY <2>1, <2>2, <2>3
  <2>6. Rule(W)[(n + 1) + 1] = W[(n + 1) + 1]
    BY <1>2
  <2>7. W[(n + 1) + 1] = At(d, (n + 1) + 1)
    BY <2>1
  <2>8. QED
    BY <2>4, <2>5, <2>6, <2>7
<1> HIDE DEF T
<1>7. Nat \subseteq T
  BY <1>5, <1>6, Induct
<1>8. ASSUME NEW i \in K PROVE at[i] = At(d, i)
  <2>1. i - 1 \in Nat /\ (i - 1) + 1 = i
    BY <1>0
  <2>2. i - 1 \in T
    BY <1>7, <2>1
  <2>3. QED
    BY <2>1, <2>2 DEF T
<1>9. DOMAIN at = K
  BY <1>3
<1>10. {j \in DOMAIN at : at[j] # NULL} = 1 .. Len(d)
  <2>1. ASSUME NEW j \in K PROVE at[j] # NULL <=> j \in 1 .. Len(d)
    <3>1. at[j] = At(d, j)
      BY <1>8
    <3>2. QED
      BY <1>0, <3>1 DEF At
  <2>2. 1 .. Len(d) \subseteq K
    BY <1>0
  <2> HIDE DEF K
  <2>3. QED
    BY <1>9, <2>1, <2>2
<1>11. Cardinality(1 .. Len(d)) = Len(d)
  BY <1>0, UpToFinite
<1>12. ASSUME NEW i \in 1 .. Len(d) PROVE at[i] = d[i]
  <2>1. i \in K
    BY <1>0
  <2>2. at[i] = At(d, i)
    BY <1>8, <2>1
  <2>3. QED
    BY <2>2 DEF At
<1>13. Walk(m, At(d, 1), dir) = [i \in 1 .. Len(d) |-> at[i]]
  BY <1>4, <1>10, <1>11
<1>14. [i \in 1 .. Len(d) |-> at[i]] = [i \in 1 .. Len(d) |-> d[i]]
  BY <1>12
<1>15. QED
  BY <1>13, <1>14, SeqFacts

(* A chain in the direction of an iterator.                                 *)

Facing(c, dir) == IF dir = "head" THEN c ELSE Reverse(c)

LEMMA ReverseFacts ==
  ASSUME NEW S, NEW s \in Seq(S)
  PROVE  /\ Reverse(s) \in Seq(S) /\ Len(Reverse(s)) = Len(s)
         /\ \A i \in 1 .. Len(s) : Reverse(s)[i] = s[Len(s) + 1 - i]
         /\ \A i \in 1 .. Len(s) : Reverse(s)[Len(s) + 1 - i] = s[i]
         /\ Elems(Reverse(s)) = Elems(s)
         /\ Distinct(s) => Distinct(Reverse(s))
<1> DEFINE n == Len(s)
           r == Reverse(s)
<1>1. n \in Nat /\ DOMAIN s = 1 .. n /\ \A i \in 1 .. n : s[i] \in S
  OBVIOUS
<1>2. \A i \in 1 .. n : n + 1 - i \in 1 .. n /\ (n - i) + 1 = n + 1 - i /\ n + 1 - (n + 1 - i) = i
  BY <1>1
<1>3. r = [i \in 1 .. n |-> s[n + 1 - i]]
  BY <1>2 DEF Reverse
<1> HIDE DEF n, r
<1>4. r \in [1 .. n -> S]
  BY <1>1, <1>2, <1>3
<1>5. r \in Seq(S) /\ Len(r) = n /\ DOMAIN r = 1 .. n
  BY <1>1, <1>4
<1>6. \A i \in 1 .. n : r[i] = s[n + 1 - i]
  BY <1>3
<1>7. \A i \in 1 .. n : r[n + 1 - i] = s[i]
  BY <1>2, <1>6
<1>8. Elems(r) = Elems(s)
  BY <1>1, <1>2, <1>5, <1>6, <1>7, SMTT(30) DEF Elems
<1>9. ASSUME Distinct(s), NEW i \in 1 .. n, NEW j \in 1 .. n, r[i] = r[j] PROVE i = j
  <2>1. n + 1 - i = n + 1 - j
    BY <1>1, <1>2, <1>6, <1>9 DEF Distinct
  <2>2. QED
    BY <1>2, <2>1
<1>10. QED
  BY <1>5, <1>6, <1>7, <1>8, <1>9 DEF n, r, Distinct

LEMMA FacingFacts ==
  ASSUME NEW S, NEW c \in Seq(S), NEW dir
  PROVE  /\ Facing(c, dir) \in Seq(S) /\ Len(Facing(c, dir)) = Len(c)
         /\ Elems(Facing(c, dir)) = Elems(c)
         /\ Distinct(c) => Distinct(Facing(c, dir))
BY ReverseFacts DEF Facing

(* Each node of a chain leads to the next, in either direction, and the     *)
(* header leads to the first.                                               *)
LEMMA FacingLeads ==
  ASSUME NEW m, NEW c \in Seq(Node), Linked(m.node, c), NEW dir \in {"head", "tail"}
  PROVE  /\ Leads(m, Facing(c, dir), dir)
         /\ At(Facing(c, dir), 1) = IF dir = "head" THEN At(c, 1) ELSE At(c, Len(c))
<1>1. CASE dir = "head"
  BY <1>1 DEF Facing, Leads, Linked, Follow
<1>2. CASE dir = "tail"
  <2> DEFINE n == Len(c)
             r == Reverse(c)
  <2>1. n \in Nat /\ r \in Seq(Node) /\ Len(r) = n /\ \A i \in 1 .. n : r[i] = c[n + 1 - i]
    BY ReverseFacts
  <2>2. \A j \in 1 .. n : m.node[c[j]].prev = At(c, j - 1)
    BY DEF Linked
  <2>3. dir # "head"
    BY <1>2
  <2> HIDE DEF n, r
  <2>4. ASSUME NEW i \in 1 .. n PROVE m.node[r[i]].prev = At(r, i + 1)
    <3>1. n + 1 - i \in 1 .. n /\ (n + 1 - i) - 1 = n - i
      BY <2>1
    <3>2. m.node[r[i]].prev = At(c, n - i)
      BY <2>1, <2>2, <3>1
    <3>3. CASE i = n
      <4>1. n - i \notin 1 .. n /\ i + 1 \notin 1 .. n
        BY <2>1, <3>3
      <4>2. QED
        BY <2>1, <3>2, <4>1 DEF At, n
    <3>4. CASE i # n
      <4>1. n - i \in 1 .. n /\ i + 1 \in 1 .. n /\ n + 1 - (i + 1) = n - i
        BY <2>1, <3>4
      <4>2. r[i + 1] = c[n - i]
        BY <2>1, <4>1
      <4>3. QED
        BY <2>1, <3>2, <4>1, <4>2 DEF At, n
    <3>5. QED
      BY <3>3, <3>4
  <2>5. At(r, 1) = At(c, n)
    <3>1. CASE n = 0
      <4>1. 1 \notin 1 .. n /\ n \notin 1 .. n
        BY <3>1
      <4>2. QED
        BY <2>1, <4>1 DEF At, n
    <3>2. CASE n # 0
      <4>1. 1 \in 1 .. n /\ n \in 1 .. n /\ n + 1 - 1 = n
        BY <2>1, <3>2
      <4>2. QED
        BY <2>1, <4>1 DEF At, n
    <3>3. QED
      BY <3>1, <3>2
  <2>6. Facing(c, dir) = r
    BY <2>3 DEF Facing, r
  <2>7. Leads(m, r, dir)
    BY <2>1, <2>3, <2>4 DEF Leads, Follow
  <2>8. QED
    BY <2>3, <2>5, <2>6, <2>7 DEF n
<1>3. QED
  BY <1>1, <1>2

(* A walk from the i-th node of such a sequence on.                         *)
LEMMA WalkFrom ==
  ASSUME NEW m, NEW dir, NEW s \in Seq(Node), Distinct(s), Leads(m, s, dir),
         NEW i \in 1 .. Len(s) + 1
  PROVE  Walk(m, At(s, i), dir) = SubSeq(s, i, Len(s))
<1> DEFINE d == SubSeq(s, i, Len(s))
<1>0. Len(s) \in Nat /\ i \in Nat /\ i >= 1 /\ i <= Len(s) + 1 /\ Len(s) <= Cardinality(Node)
      /\ Cardinality(Node) \in Nat
  BY ChainLength, NodeFacts
<1>1. /\ d \in Seq(Node) /\ Len(d) = Len(s) + 1 - i
      /\ \A k \in 1 .. Len(d) : d[k] = s[i + k - 1]
  BY <1>0
<1> HIDE DEF d
<1>2. ASSUME NEW k \in Nat, k >= 1 PROVE At(d, k) = At(s, i + k - 1)
  <2>1. k \in 1 .. Len(d) <=> i + k - 1 \in 1 .. Len(s)
    BY <1>0, <1>1, <1>2
  <2>2. QED
    BY <1>1, <2>1 DEF At
<1>3. ASSUME NEW k \in 1 .. Len(d) PROVE Follow(m, d[k], dir) = At(d, k + 1)
  <2>1. i + k - 1 \in 1 .. Len(s) /\ (i + k - 1) + 1 = i + (k + 1) - 1 /\ k + 1 \in Nat /\ k + 1 >= 1
    BY <1>0, <1>1
  <2>2. Follow(m, s[i + k - 1], dir) = At(s, (i + k - 1) + 1)
    BY <2>1 DEF Leads
  <2>3. At(d, k + 1) = At(s, i + (k + 1) - 1)
    BY <1>2, <2>1
  <2>4. QED
    BY <1>1, <2>1, <2>2, <2>3
<1>4. Len(d) <= Cardinality(Node)
  BY <1>0, <1>1
<1>5. Walk(m, At(d, 1), dir) = d
  BY <1>1, <1>3, <1>4, WalkAlong DEF Leads
<1>6. At(d, 1) = At(s, i)
  <2>1. i + 1 - 1 = i
    BY <1>0
  <2>2. QED
    BY <1>2, <2>1
<1>7. QED
  BY <1>5, <1>6 DEF d

LEMMA WalkAll ==
  ASSUME NEW m, NEW ch, Shape(m, ch), NEW l \in List, m.list[l] # NULL, NEW dir \in {"head", "tail"}
  PROVE  /\ Leads(m, Facing(ch[l], dir), dir)
         /\ At(Facing(ch[l], dir), 1) = First(m, l, dir)
         /\ Walk(m, First(m, l, dir), dir) = Facing(ch[l], dir)
         /\ m.list[l].len = Len(ch[l])
<1> DEFINE c == ch[l]
           d == Facing(c, dir)
<1>1. /\ c \in Seq(Node) /\ Distinct(c) /\ Linked(m.node, c) /\ m.list[l].len = Len(c)
      /\ First(m, l, dir) = IF dir = "head" THEN At(c, 1) ELSE At(c, Len(c))
  BY DEF Shape, Chained, Headed, First
<1>2. Leads(m, d, dir) /\ At(d, 1) = First(m, l, dir)
  BY <1>1, FacingLeads
<1>3. d \in Seq(Node) /\ Distinct(d)
  BY <1>1, FacingFacts
<1> HIDE DEF c, d
<1>4. Len(d) <= Cardinality(Node)
  BY <1>3, ChainLength
<1>5. Walk(m, At(d, 1), dir) = d
  BY <1>2, <1>3, <1>4, WalkAlong
<1>6. QED
  BY <1>1, <1>2, <1>5 DEF c, d

LEMMA NodesAre ==
  ASSUME NEW m, NEW ch, Shape(m, ch), NEW l \in List, m.list[l] # NULL
  PROVE  /\ Nodes(m, l) = ch[l]
         /\ Walk(m, m.list[l].tail, "tail") = Reverse(ch[l])
         /\ m.list[l].len = Len(ch[l])
<1>1. \A dir \in {"head", "tail"} :
        Walk(m, First(m, l, dir), dir) = Facing(ch[l], dir) /\ m.list[l].len = Len(ch[l])
  BY WalkAll
<1>2. First(m, l, "head") = m.list[l].head /\ First(m, l, "tail") = m.list[l].tail
  BY DEF First
<1>3. Facing(ch[l], "head") = ch[l] /\ Facing(ch[l], "tail") = Reverse(ch[l])
  BY DEF Facing
<1>4. QED
  BY <1>1, <1>2, <1>3 DEF Nodes

-------------------------------------------------------------------------------
(* Sequences of which one is the other without the element at i.            *)

Shortened(d, i, s) ==
  /\ i \in 1 .. Len(d) /\ Len(s) = Len(d) - 1
  /\ \A k \in 1 .. Len(s) : s[k] = IF k < i THEN d[k] ELSE d[k + 1]

(* The elements of the two, by their places.                                *)
LEMMA ShortElements ==
  ASSUME NEW S, NEW d \in Seq(S), NEW s \in Seq(S), NEW i, Shortened(d, i, s)
  PROVE  /\ i \in Nat /\ i >= 1 /\ i <= Len(d) /\ Len(d) \in Nat /\ Len(s) = Len(d) - 1
         /\ d[i] \in S
         /\ \A k \in 1 .. Len(d) : k < i => k \in 1 .. Len(s) /\ s[k] = d[k]
         /\ \A k \in 1 .. Len(d) : k > i => k - 1 \in 1 .. Len(s) /\ s[k - 1] = d[k]
         /\ \A k \in 1 .. Len(s) : k < i => k \in 1 .. Len(d) /\ d[k] = s[k]
         /\ \A k \in 1 .. Len(s) : k >= i => k + 1 \in 1 .. Len(d) /\ d[k + 1] = s[k]
<1>1. Len(d) \in Nat /\ Len(s) \in Nat /\ Len(s) = Len(d) - 1 /\ i \in 1 .. Len(d)
  BY DEF Shortened
<1>2. i \in Nat /\ i >= 1 /\ i <= Len(d) /\ d[i] \in S
  BY <1>1
<1>3. ASSUME NEW k \in 1 .. Len(d), k < i PROVE k \in 1 .. Len(s) /\ s[k] = d[k]
  <2>1. k \in 1 .. Len(s)
    BY <1>1, <1>2, <1>3
  <2>2. QED
    BY <1>3, <2>1 DEF Shortened
<1>4. ASSUME NEW k \in 1 .. Len(d), k > i PROVE k - 1 \in 1 .. Len(s) /\ s[k - 1] = d[k]
  <2>1. k - 1 \in 1 .. Len(s) /\ ~ (k - 1 < i) /\ (k - 1) + 1 = k
    BY <1>1, <1>2, <1>4
  <2>2. s[k - 1] = d[(k - 1) + 1]
    BY <2>1 DEF Shortened
  <2>3. QED
    BY <2>1, <2>2
<1>5. ASSUME NEW k \in 1 .. Len(s) PROVE /\ k < i => k \in 1 .. Len(d) /\ d[k] = s[k]
                                         /\ k >= i => k + 1 \in 1 .. Len(d) /\ d[k + 1] = s[k]
  <2>1. k \in 1 .. Len(d) /\ k + 1 \in 1 .. Len(d) /\ (k >= i <=> ~ (k < i))
    BY <1>1, <1>2
  <2>2. s[k] = IF k < i THEN d[k] ELSE d[k + 1]
    BY DEF Shortened
  <2>3. QED
    BY <2>1, <2>2
<1>6. QED
  BY <1>1, <1>2, <1>3, <1>4, <1>5

(* The longer one has one element more.                                     *)
LEMMA ShortSets ==
  ASSUME NEW S, NEW d \in Seq(S), NEW s \in Seq(S), NEW i, Shortened(d, i, s)
  PROVE  /\ Elems(d) = Elems(s) \union {d[i]}
         /\ Distinct(d) <=> Distinct(s) /\ d[i] \notin Elems(s)
<1>1. /\ i \in Nat /\ i \in 1 .. Len(d) /\ Len(d) \in Nat /\ DOMAIN d = 1 .. Len(d) /\ DOMAIN s = 1 .. Len(s)
      /\ Len(s) \in Nat
      /\ \A k \in 1 .. Len(d) : k < i => k \in 1 .. Len(s) /\ s[k] = d[k]
      /\ \A k \in 1 .. Len(d) : k > i => k - 1 \in 1 .. Len(s) /\ s[k - 1] = d[k]
      /\ \A k \in 1 .. Len(s) : k < i => k \in 1 .. Len(d) /\ d[k] = s[k]
      /\ \A k \in 1 .. Len(s) : k >= i => k + 1 \in 1 .. Len(d) /\ d[k + 1] = s[k]
  BY ShortElements
<1>2. ASSUME NEW k \in 1 .. Len(d), k # i PROVE d[k] \in Elems(s)
  <2>1. k < i \/ k > i
    BY <1>1, <1>2
  <2>2. QED
    BY <1>1, <2>1 DEF Elems
<1>3. ASSUME NEW k \in 1 .. Len(s) PROVE s[k] \in Elems(d)
  <2>1. k < i \/ k >= i
    BY <1>1
  <2>2. QED
    BY <1>1, <2>1 DEF Elems
<1>4. Elems(d) = Elems(s) \union {d[i]}
  <2>1. ASSUME NEW e \in Elems(d) PROVE e \in Elems(s) \union {d[i]}
    BY <1>1, <1>2 DEF Elems
  <2>2. ASSUME NEW e \in Elems(s) PROVE e \in Elems(d)
    BY <1>1, <1>3 DEF Elems
  <2>3. d[i] \in Elems(d)
    BY <1>1 DEF Elems
  <2>4. QED
    BY <2>1, <2>2, <2>3
<1>5. ASSUME Distinct(d) PROVE Distinct(s) /\ d[i] \notin Elems(s)
  <2>1. ASSUME NEW j \in 1 .. Len(s), NEW k \in 1 .. Len(s), s[j] = s[k] PROVE j = k
    <3> DEFINE To(x) == IF x < i THEN x ELSE x + 1
    <3>1. To(j) \in 1 .. Len(d) /\ d[To(j)] = s[j] /\ To(k) \in 1 .. Len(d) /\ d[To(k)] = s[k]
      <4>1. (j < i \/ j >= i) /\ (k < i \/ k >= i)
        BY <1>1
      <4>2. QED
        BY <1>1, <4>1
    <3>2. To(j) \in DOMAIN d /\ To(k) \in DOMAIN d /\ d[To(j)] = d[To(k)]
      BY <1>1, <2>1, <3>1
    <3> HIDE DEF To
    <3>3. To(j) = To(k)
      BY <1>5, <3>2 DEF Distinct
    <3> USE DEF To
    <3>4. QED
      BY <1>1, <3>3
  <2>2. ASSUME NEW k \in 1 .. Len(s), s[k] = d[i] PROVE FALSE
    <3>1. k < i \/ k >= i
      BY <1>1
    <3>2. CASE k < i
      <4>1. k \in 1 .. Len(d) /\ d[k] = d[i] /\ k # i
        BY <1>1, <2>2, <3>2
      <4>2. QED
        BY <1>1, <1>5, <4>1 DEF Distinct
    <3>3. CASE k >= i
      <4>1. k + 1 \in 1 .. Len(d) /\ d[k + 1] = d[i] /\ k + 1 # i
        BY <1>1, <2>2, <3>3
      <4>2. QED
        BY <1>1, <1>5, <4>1 DEF Distinct
    <3>4. QED
      BY <3>1, <3>2, <3>3
  <2>3. QED
    BY <1>1, <2>1, <2>2 DEF Distinct, Elems
<1>6. ASSUME Distinct(s), d[i] \notin Elems(s) PROVE Distinct(d)
  <2>1. ASSUME NEW j \in 1 .. Len(d), NEW k \in 1 .. Len(d), d[j] = d[k] PROVE j = k
    <3> DEFINE To(x) == IF x < i THEN x ELSE x - 1
    <3>1. j = i <=> k = i
      BY <1>1, <1>2, <1>6, <2>1
    <3>2. CASE j # i
      <4>1. /\ To(j) \in 1 .. Len(s) /\ s[To(j)] = d[j]
            /\ To(k) \in 1 .. Len(s) /\ s[To(k)] = d[k]
        <5>1. (j < i \/ j > i) /\ (k < i \/ k > i)
          BY <1>1, <3>1, <3>2
        <5>2. ASSUME NEW z \in 1 .. Len(d), z < i \/ z > i
              PROVE  To(z) \in 1 .. Len(s) /\ s[To(z)] = d[z]
          <6>1. z > i => ~ (z < i)
            BY <1>1
          <6>2. QED
            BY <1>1, <5>2, <6>1
        <5>3. QED
          BY <5>1, <5>2
      <4>2. To(j) = To(k)
        <5> HIDE DEF To
        <5>1. \A a, b \in 1 .. Len(s) : s[a] = s[b] => a = b
          BY <1>1, <1>6 DEF Distinct
        <5>2. QED
          BY <2>1, <4>1, <5>1
      <4>3. j # i /\ k # i /\ j \in Nat /\ k \in Nat
        BY <3>1, <3>2
      <4>4. QED
        BY <1>1, <4>2, <4>3
    <3>3. QED
      BY <3>1, <3>2
  <2>2. QED
    BY <1>1, <2>1 DEF Distinct
<1>7. QED
  BY <1>4, <1>5, <1>6

LEMMA ShortAt ==
  ASSUME NEW S, NEW d \in Seq(S), NEW s \in Seq(S), NEW i, Shortened(d, i, s)
  PROVE  \A k \in Nat : At(s, k) = IF k < i THEN At(d, k) ELSE At(d, k + 1)
<1>1. /\ i \in Nat /\ i >= 1 /\ i <= Len(d) /\ Len(d) \in Nat /\ Len(s) = Len(d) - 1
      /\ \A k \in 1 .. Len(s) : k < i => d[k] = s[k]
      /\ \A k \in 1 .. Len(s) : k >= i => d[k + 1] = s[k]
  BY ShortElements
<1>2. TAKE k \in Nat
<1>3. CASE k < i
  <2>1. k \in 1 .. Len(s) <=> k \in 1 .. Len(d)
    BY <1>1, <1>3
  <2>2. QED
    BY <1>1, <1>3, <2>1 DEF At
<1>4. CASE k >= i
  <2>1. k \in 1 .. Len(s) <=> k + 1 \in 1 .. Len(d)
    BY <1>1, <1>4
  <2>2. ~ (k < i)
    BY <1>1, <1>4
  <2>3. QED
    BY <1>1, <1>4, <2>1, <2>2 DEF At
<1>5. QED
  BY <1>1, <1>3, <1>4

(* InsertAt and RemoveAt are the two ways to such a pair.                   *)
LEMMA InsertIs ==
  ASSUME NEW S, NEW s \in Seq(S), NEW e \in S, NEW i \in 1 .. Len(s) + 1
  PROVE  /\ InsertAt(s, i, e) \in Seq(S)
         /\ Shortened(InsertAt(s, i, e), i, s)
         /\ InsertAt(s, i, e)[i] = e
<1> DEFINE a == SubSeq(s, 1, i - 1)
           b == SubSeq(s, i, Len(s))
           n == Len(s)
<1>0. n \in Nat /\ i \in Nat /\ i >= 1 /\ i <= n + 1
  OBVIOUS
<1>1. /\ a \in Seq(S) /\ Len(a) = i - 1 /\ (\A k \in 1 .. (i - 1) : a[k] = s[k])
      /\ b \in Seq(S) /\ Len(b) = n + 1 - i
  BY <1>0
<1>2. \A k \in 1 .. (n + 1 - i) : b[k] = s[k + i - 1]
  BY <1>0
<1>3. <<e>> \in Seq(S) /\ Len(<<e>>) = 1 /\ <<e>>[1] = e
  OBVIOUS
<1> DEFINE u == <<e>>
<1> HIDE DEF a, b, u
<1> DEFINE f == a \o u
<1>4. /\ f \in Seq(S) /\ Len(f) = i
      /\ (\A k \in 1 .. (i - 1) : f[k] = a[k])
      /\ f[i] = e
  <2>1. /\ f \in Seq(S) /\ Len(f) = (i - 1) + 1
        /\ (\A k \in 1 .. (i - 1) : f[k] = a[k]) /\ f[(i - 1) + 1] = u[1]
    BY <1>1, <1>3, ConcatFacts DEF u
  <2>2. (i - 1) + 1 = i
    BY <1>0
  <2>3. QED
    BY <1>3, <2>1, <2>2 DEF u
<1> HIDE DEF f
<1> DEFINE r == f \o b
<1>5. /\ r \in Seq(S) /\ Len(r) = n + 1
      /\ (\A k \in 1 .. i : r[k] = f[k])
      /\ (\A k \in 1 .. (n + 1 - i) : r[i + k] = b[k])
  <2>1. /\ r \in Seq(S) /\ Len(r) = i + (n + 1 - i)
        /\ (\A k \in 1 .. i : r[k] = f[k])
        /\ (\A k \in 1 .. (n + 1 - i) : r[i + k] = b[k])
    BY <1>1, <1>4, ConcatFacts
  <2>2. QED
    BY <1>0, <2>1
<1>6. InsertAt(s, i, e) = r
  BY DEF InsertAt, a, b, u, f
<1> HIDE DEF r
<1>7. r[i] = e
  BY <1>0, <1>4, <1>5
<1>8. ASSUME NEW k \in 1 .. n PROVE s[k] = IF k < i THEN r[k] ELSE r[k + 1]
  <2>1. CASE k < i
    <3>1. k \in 1 .. (i - 1) /\ k \in 1 .. i
      BY <1>0, <2>1
    <3>2. QED
      BY <1>1, <1>4, <1>5, <2>1, <3>1
  <2>2. CASE ~ (k < i)
    <3>1. k + 1 - i \in 1 .. (n + 1 - i) /\ i + (k + 1 - i) = k + 1 /\ (k + 1 - i) + i - 1 = k
      BY <1>0, <2>2
    <3>2. r[i + (k + 1 - i)] = b[k + 1 - i]
      BY <1>5, <3>1
    <3>3. b[k + 1 - i] = s[(k + 1 - i) + i - 1]
      BY <1>2, <3>1
    <3>4. QED
      BY <2>2, <3>1, <3>2, <3>3
  <2>3. QED
    BY <2>1, <2>2
<1>9. i \in 1 .. Len(r) /\ Len(s) = Len(r) - 1
  BY <1>0, <1>5
<1>10. QED
  BY <1>5, <1>6, <1>7, <1>8, <1>9 DEF Shortened

LEMMA RemoveIs ==
  ASSUME NEW S, NEW d \in Seq(S), NEW i \in 1 .. Len(d)
  PROVE  RemoveAt(d, i) \in Seq(S) /\ Shortened(d, i, RemoveAt(d, i))
<1>1. /\ RemoveAt(d, i) \in Seq(S)
      /\ Len(RemoveAt(d, i)) = Len(d) - 1
      /\ \A k \in 1 .. (Len(d) - 1) : RemoveAt(d, i)[k] = IF k < i THEN d[k] ELSE d[k + 1]
  BY RemoveAtFacts
<1>2. QED
  BY <1>1 DEF Shortened

LEMMA ShortIs ==
  ASSUME NEW S, NEW d \in Seq(S), NEW s \in Seq(S), NEW i, Shortened(d, i, s)
  PROVE  s = RemoveAt(d, i) /\ i \in 1 .. Len(s) + 1 /\ d = InsertAt(s, i, d[i])
<1>1. /\ i \in Nat /\ i >= 1 /\ i <= Len(d) /\ Len(d) \in Nat /\ Len(s) = Len(d) - 1 /\ d[i] \in S
      /\ \A k \in 1 .. Len(d) : k < i => k \in 1 .. Len(s) /\ s[k] = d[k]
      /\ \A k \in 1 .. Len(d) : k > i => k - 1 \in 1 .. Len(s) /\ s[k - 1] = d[k]
      /\ \A k \in 1 .. Len(s) : k < i => d[k] = s[k]
      /\ \A k \in 1 .. Len(s) : k >= i => d[k + 1] = s[k]
  BY ShortElements
<1>2. i \in 1 .. Len(s) + 1 /\ i \in 1 .. Len(d)
  BY <1>1
<1> DEFINE r == RemoveAt(d, i)
           t == InsertAt(s, i, d[i])
<1>3. r \in Seq(S) /\ Len(r) = Len(d) - 1
      /\ \A k \in 1 .. (Len(d) - 1) : r[k] = IF k < i THEN d[k] ELSE d[k + 1]
  BY <1>2, RemoveAtFacts
<1>4. t \in Seq(S) /\ Shortened(t, i, s) /\ t[i] = d[i]
  BY <1>1, <1>2, InsertIs
<1> HIDE DEF r, t
<1>5. \A k \in 1 .. Len(s) : r[k] = s[k]
  BY <1>1, <1>3 DEF Shortened
<1>6. r = s
  BY <1>1, <1>3, <1>5, SeqEqual
<1>7. /\ Len(s) = Len(t) - 1 /\ Len(t) \in Nat
      /\ \A k \in 1 .. Len(t) : k < i => s[k] = t[k]
      /\ \A k \in 1 .. Len(t) : k > i => s[k - 1] = t[k]
  BY <1>4, ShortElements
<1>8. Len(t) = Len(d)
  BY <1>1, <1>7
<1>9. \A k \in 1 .. Len(d) : t[k] = d[k]
  BY <1>1, <1>4, <1>7, <1>8, SMTT(30)
<1>10. t = d
  BY <1>4, <1>8, <1>9, SeqEqual
<1>11. QED
  BY <1>2, <1>6, <1>10 DEF r, t

(* The order of what is in both is the same.                                *)
LEMMA ShortBefore ==
  ASSUME NEW S, NEW d \in Seq(S), NEW s \in Seq(S), NEW i, Shortened(d, i, s), NEW x, NEW y
  PROVE  /\ Before(s, x, y) => Before(d, x, y)
         /\ Before(d, x, y) /\ x # d[i] /\ y # d[i] => Before(s, x, y)
<1>1. /\ i \in Nat /\ i \in 1 .. Len(d) /\ Len(d) \in Nat /\ DOMAIN d = 1 .. Len(d) /\ DOMAIN s = 1 .. Len(s)
      /\ Len(s) \in Nat
      /\ \A k \in 1 .. Len(d) : k < i => k \in 1 .. Len(s) /\ s[k] = d[k]
      /\ \A k \in 1 .. Len(d) : k > i => k - 1 \in 1 .. Len(s) /\ s[k - 1] = d[k]
      /\ \A k \in 1 .. Len(s) : k < i => k \in 1 .. Len(d) /\ d[k] = s[k]
      /\ \A k \in 1 .. Len(s) : k >= i => k + 1 \in 1 .. Len(d) /\ d[k + 1] = s[k]
  BY ShortElements
<1>2. ASSUME NEW j \in 1 .. Len(s), NEW k \in 1 .. Len(s), j < k, s[j] = x, s[k] = y PROVE Before(d, x, y)
  <2> DEFINE To(z) == IF z < i THEN z ELSE z + 1
  <2>1. To(j) \in 1 .. Len(d) /\ d[To(j)] = x /\ To(k) \in 1 .. Len(d) /\ d[To(k)] = y
    <3>1. (j < i \/ j >= i) /\ (k < i \/ k >= i) /\ (j >= i => ~ (j < i)) /\ (k >= i => ~ (k < i))
      BY <1>1
    <3>2. QED
      BY <1>1, <1>2, <3>1
  <2>2. To(j) < To(k)
    BY <1>1, <1>2
  <2> HIDE DEF To
  <2>3. QED
    BY <1>1, <2>1, <2>2 DEF Before
<1>3. ASSUME NEW j \in 1 .. Len(d), NEW k \in 1 .. Len(d), j < k, d[j] = x, d[k] = y, x # d[i], y # d[i]
      PROVE  Before(s, x, y)
  <2> DEFINE To(z) == IF z < i THEN z ELSE z - 1
  <2>0. j # i /\ k # i
    BY <1>3
  <2>1. To(j) \in 1 .. Len(s) /\ s[To(j)] = x /\ To(k) \in 1 .. Len(s) /\ s[To(k)] = y
    <3>1. (j < i \/ j > i) /\ (k < i \/ k > i) /\ (j > i => ~ (j < i)) /\ (k > i => ~ (k < i))
      BY <1>1, <2>0
    <3>2. QED
      BY <1>1, <1>3, <3>1
  <2>2. To(j) < To(k)
    BY <1>1, <1>3, <2>0
  <2> HIDE DEF To
  <2>3. QED
    BY <1>1, <2>1, <2>2 DEF Before
<1>4. QED
  BY <1>1, <1>2, <1>3 DEF Before

(* Also seen from the other end.                                            *)
LEMMA FacingShort ==
  ASSUME NEW S, NEW d \in Seq(S), NEW s \in Seq(S), NEW i, Shortened(d, i, s), NEW dir
  PROVE  \E j : Shortened(Facing(d, dir), j, Facing(s, dir)) /\ Facing(d, dir)[j] = d[i]
<1>1. CASE dir = "head"
  BY <1>1 DEF Facing
<1>2. CASE dir # "head"
  <2> DEFINE n == Len(d)
             j == n + 1 - i
             e == Reverse(d)
             t == Reverse(s)
  <2>1. /\ i \in Nat /\ i >= 1 /\ i <= n /\ n \in Nat /\ Len(s) = n - 1
        /\ \A k \in 1 .. Len(s) : k < i => d[k] = s[k]
        /\ \A k \in 1 .. Len(s) : k >= i => d[k + 1] = s[k]
    BY ShortElements
  <2>2. /\ Len(e) = n /\ Len(t) = Len(s)
        /\ \A k \in 1 .. n : e[k] = d[n + 1 - k]
        /\ \A k \in 1 .. Len(s) : t[k] = s[Len(s) + 1 - k]
        /\ \A k \in 1 .. n : e[n + 1 - k] = d[k]
    BY ReverseFacts
  <2> HIDE DEF n, e, t
  <2>3. j \in 1 .. n /\ e[j] = d[i]
    BY <2>1, <2>2
  <2>4. ASSUME NEW k \in 1 .. n - 1 PROVE t[k] = IF k < j THEN e[k] ELSE e[k + 1]
    <3>1. n - k \in 1 .. n - 1 /\ Len(s) + 1 - k = n - k /\ k \in 1 .. n /\ k + 1 \in 1 .. n
          /\ n + 1 - k = (n - k) + 1 /\ n + 1 - (k + 1) = n - k /\ (k < j <=> n - k >= i)
          /\ (n - k >= i <=> ~ (n - k < i))
      BY <2>1
    <3>2. t[k] = s[n - k]
      BY <2>1, <2>2, <3>1
    <3>3. e[k] = d[(n - k) + 1] /\ e[k + 1] = d[n - k]
      BY <2>2, <3>1
    <3>4. n - k \in 1 .. Len(s)
      BY <2>1, <3>1
    <3> HIDE DEF j
    <3>5. CASE k < j
      BY <2>1, <3>1, <3>2, <3>3, <3>4, <3>5
    <3>6. CASE ~ (k < j)
      BY <2>1, <3>1, <3>2, <3>3, <3>4, <3>6
    <3>7. QED
      BY <3>5, <3>6
  <2> HIDE DEF j
  <2>5. Shortened(e, j, t)
    BY <2>1, <2>2, <2>3, <2>4 DEF Shortened
  <2>6. QED
    BY <1>2, <2>3, <2>5 DEF Facing, e, t
<1>3. QED
  BY <1>1, <1>2

-------------------------------------------------------------------------------
(* What a call that changes one list leaves as it was.                      *)

Reshapes(m, n, ch, l, c) ==
  /\ n \in Memory /\ c \in Seq(Node) /\ Chained(n, l, c)
  /\ \A k \in List \ {l} : n.list[k] = m.list[k]
  /\ \A x \in Node : x \notin Elems(ch[l]) \union Elems(c) => n.node[x] = m.node[x]
  /\ \A x \in Elems(c) : n.node[x] # NULL /\ (x \in Elems(ch[l]) \/ m.node[x] = NULL)
  /\ \A x \in Elems(ch[l]) : x \notin Elems(c) => n.node[x] = NULL

(* The chains of the other lists are chains still.                          *)
LEMMA Reshaped ==
  ASSUME NEW m, NEW n, NEW ch, NEW l \in List, NEW c, Shape(m, ch), Reshapes(m, n, ch, l, c)
  PROVE  /\ Shape(n, [ch EXCEPT ![l] = c])
         /\ \A k \in List \ {l} : \A x \in Elems(ch[k]) : n.node[x] = m.node[x] /\ x \notin Elems(c)
<1> DEFINE new == [ch EXCEPT ![l] = c]
<1>1. /\ ch \in [List -> Seq(Node)] /\ c \in Seq(Node)
      /\ new \in [List -> Seq(Node)] /\ new[l] = c /\ \A k \in List \ {l} : new[k] = ch[k]
  BY DEF Shape, Reshapes
<1> HIDE DEF new
<1>2. \A k \in List : Elems(ch[k]) \subseteq Node
  BY <1>1, SeqFacts
<1>3. \A x \in Elems(c) : x \in Node
  BY <1>1, SeqFacts
<1>4. ASSUME NEW k \in List \ {l}, NEW x \in Elems(ch[k])
      PROVE  x \in Node /\ m.node[x] # NULL /\ x \notin Elems(ch[l]) /\ x \notin Elems(c)
             /\ n.node[x] = m.node[x]
  <2>1. x \in Node /\ m.node[x] # NULL /\ x \notin Elems(ch[l])
    BY <1>2 DEF Shape
  <2>2. x \notin Elems(c)
    BY <2>1 DEF Reshapes
  <2>3. QED
    BY <2>1, <2>2 DEF Reshapes
<1>5. ASSUME NEW k \in List \ {l} PROVE Chained(n, k, ch[k])
  <2>1. Chained(m, k, ch[k]) /\ n.list[k] = m.list[k]
    BY DEF Shape, Reshapes
  <2>2. \A i \in 1 .. Len(ch[k]) : n.node[ch[k][i]] = m.node[ch[k][i]]
    <3>1. \A i \in 1 .. Len(ch[k]) : ch[k][i] \in Elems(ch[k])
      BY <1>1, SeqFacts
    <3>2. QED
      BY <1>4, <3>1
  <2>3. QED
    BY <2>1, <2>2 DEF Chained, Linked
<1>6. Chained(n, l, c) /\ n \in Memory
  BY DEF Reshapes
<1>7. \A k \in List : Chained(n, k, new[k])
  BY <1>1, <1>5, <1>6
<1>8. ASSUME NEW j \in List, NEW k \in List, j # k PROVE Elems(new[j]) \intersect Elems(new[k]) = {}
  <2>1. CASE j # l /\ k # l
    BY <1>1, <1>8, <2>1 DEF Shape
  <2>2. CASE j = l
    BY <1>1, <1>4, <1>8, <2>2
  <2>3. CASE k = l
    BY <1>1, <1>4, <1>8, <2>3
  <2>4. QED
    BY <2>1, <2>2, <2>3
<1>9. ASSUME NEW x \in Node PROVE n.node[x] # NULL <=> \E k \in List : x \in Elems(new[k])
  <2>1. CASE \E k \in List \ {l} : x \in Elems(ch[k])
    BY <1>1, <1>4, <2>1
  <2>2. CASE x \in Elems(c)
    BY <1>1, <2>2 DEF Reshapes
  <2>3. CASE x \in Elems(ch[l]) /\ x \notin Elems(c)
    <3>1. n.node[x] = NULL
      BY <2>3 DEF Reshapes
    <3>2. \A k \in List : x \notin Elems(new[k])
      BY <1>1, <1>4, <2>3
    <3>3. QED
      BY <3>1, <3>2
  <2>4. CASE x \notin Elems(c) /\ \A k \in List : x \notin Elems(ch[k])
    <3>1. n.node[x] = m.node[x]
      BY <2>4 DEF Reshapes
    <3>2. m.node[x] = NULL
      BY <2>4 DEF Shape
    <3>3. \A k \in List : x \notin Elems(new[k])
      BY <1>1, <2>4
    <3>4. QED
      BY <3>1, <3>2, <3>3
  <2>5. QED
    BY <2>1, <2>2, <2>3, <2>4
<1>10. Shape(n, new)
  BY <1>1, <1>6, <1>7, <1>8, <1>9 DEF Shape
<1>11. QED
  BY <1>4, <1>10 DEF new

(* The nodes of a chain that hold v, if the list owns its values, and those *)
(* of all lists: each has a reference.                                      *)
Owned(m, l, c, v) ==
  {x \in Elems(c) : m.list[l] # NULL /\ m.list[l].owns /\ m.node[x].value = v}
Holders(m, ch, v) == UNION {Owned(m, l, ch[l], v) : l \in List}
RefsFit(m, ch) == \A v \in Value : m.refs[v] = Cardinality(Holders(m, ch, v))

LEMMA OwnedFinite ==
  ASSUME NEW m, NEW l, NEW c \in Seq(Node), NEW v
  PROVE  /\ Owned(m, l, c, v) \subseteq Node
         /\ IsFiniteSet(Owned(m, l, c, v)) /\ Cardinality(Owned(m, l, c, v)) \in Nat
<1>1. Owned(m, l, c, v) \subseteq Node
  BY SeqFacts DEF Owned
<1>2. QED
  BY <1>1, NodeFacts, FS_Subset, FS_CardinalityType

Counts(m, n, ch, l, c) ==
  \A v \in Value : n.refs[v] = m.refs[v] - Cardinality(Owned(m, l, ch[l], v))
                                         + Cardinality(Owned(n, l, c, v))

(* The references fit when they fit for the list that changed.              *)
LEMMA Recounted ==
  ASSUME NEW m, NEW n, NEW ch, NEW l \in List, NEW c, Shape(m, ch), RefsFit(m, ch),
         Reshapes(m, n, ch, l, c), Counts(m, n, ch, l, c)
  PROVE  RefsFit(n, [ch EXCEPT ![l] = c])
<1> DEFINE new == [ch EXCEPT ![l] = c]
<1>1. /\ ch \in [List -> Seq(Node)] /\ c \in Seq(Node)
      /\ new \in [List -> Seq(Node)] /\ new[l] = c /\ \A k \in List \ {l} : new[k] = ch[k]
  BY DEF Shape, Reshapes
<1> HIDE DEF new
<1>2. SUFFICES ASSUME NEW v \in Value PROVE n.refs[v] = Cardinality(Holders(n, new, v))
  BY DEF RefsFit, new
<1> DEFINE A == Owned(m, l, ch[l], v)
           B == Owned(n, l, c, v)
           H == Holders(m, ch, v)
           R == UNION {Owned(m, k, ch[k], v) : k \in List \ {l}}
<1>3. H = A \union R /\ A \subseteq H
  BY DEF Holders
<1>0. \A k \in List \ {l} : \A x \in Elems(ch[k]) : n.node[x] = m.node[x] /\ x \notin Elems(c)
  BY Reshaped
<1>4. ASSUME NEW k \in List \ {l} PROVE Owned(n, k, new[k], v) = Owned(m, k, ch[k], v)
  <2>1. n.list[k] = m.list[k] /\ new[k] = ch[k] /\ \A x \in Elems(ch[k]) : n.node[x] = m.node[x]
    BY <1>0, <1>1 DEF Reshapes
  <2>2. QED
    BY <2>1 DEF Owned
<1>5. Holders(n, new, v) = B \union R
  BY <1>1, <1>4 DEF Holders
<1>6. ASSUME NEW k \in List \ {l}, NEW x \in Owned(m, k, ch[k], v) PROVE x \notin A /\ x \notin B
  <2>1. x \in Elems(ch[k])
    BY DEF Owned
  <2>2. x \notin Elems(c) /\ x \notin Elems(ch[l])
    BY <1>0, <2>1 DEF Shape
  <2>3. QED
    BY <2>2 DEF Owned
<1>7. A \intersect R = {} /\ B \intersect R = {}
  BY <1>6
<1>8. IsFiniteSet(A) /\ Cardinality(A) \in Nat /\ IsFiniteSet(B) /\ Cardinality(B) \in Nat
  BY <1>1, OwnedFinite
<1>9. IsFiniteSet(R) /\ Cardinality(R) \in Nat
  <2>1. R \subseteq Node
    BY <1>1, OwnedFinite
  <2>2. QED
    BY <2>1, NodeFacts, FS_Subset, FS_CardinalityType
<1> HIDE DEF A, B, H, R
<1>10. Cardinality(H) = Cardinality(A) + Cardinality(R)
  <2>1. Cardinality(A \union R) = Cardinality(A) + Cardinality(R) - Cardinality(A \intersect R)
    BY <1>8, <1>9, FS_Union
  <2>2. Cardinality(A \intersect R) = 0
    BY <1>7, FS_EmptySet
  <2>3. QED
    BY <1>3, <1>8, <1>9, <2>1, <2>2
<1>11. Cardinality(Holders(n, new, v)) = Cardinality(B) + Cardinality(R)
  <2>1. Cardinality(B \union R) = Cardinality(B) + Cardinality(R) - Cardinality(B \intersect R)
    BY <1>8, <1>9, FS_Union
  <2>2. Cardinality(B \intersect R) = 0
    BY <1>7, FS_EmptySet
  <2>3. QED
    BY <1>5, <1>8, <1>9, <2>1, <2>2
<1>12. m.refs[v] = Cardinality(H)
  BY DEF RefsFit, H
<1>13. n.refs[v] = m.refs[v] - Cardinality(A) + Cardinality(B)
  BY DEF Counts, A, B
<1>14. QED
  BY <1>8, <1>9, <1>10, <1>11, <1>12, <1>13

Mem(m, ch) == Shape(m, ch) /\ RefsFit(m, ch)

(* Values stay where they are.                                              *)
Keeps(m, n) ==
  \A x \in Node : m.node[x] # NULL /\ n.node[x] # NULL => n.node[x].value = m.node[x].value

(* A call that makes c the chain of list l, and leaves the others alone.    *)
Makes(m, n, ch, l, c) ==
  /\ Mem(n, [ch EXCEPT ![l] = c])
  /\ Keeps(m, n)
  /\ \A k \in List \ {l} : n.list[k] = m.list[k]

(* A call that does both.                                                   *)
LEMMA Made ==
  ASSUME NEW m, NEW n, NEW ch, NEW l \in List, NEW c, Mem(m, ch), Reshapes(m, n, ch, l, c),
         Counts(m, n, ch, l, c),
         \A x \in Elems(c) : x \in Elems(ch[l]) => n.node[x].value = m.node[x].value
  PROVE  Makes(m, n, ch, l, c)
<1>1. Mem(n, [ch EXCEPT ![l] = c])
  BY Reshaped, Recounted DEF Mem
<1>2. ASSUME NEW x \in Node, m.node[x] # NULL, n.node[x] # NULL PROVE n.node[x].value = m.node[x].value
  <2>1. CASE x \in Elems(c)
    BY <1>2, <2>1 DEF Reshapes
  <2>2. CASE x \notin Elems(c)
    BY <1>2, <2>2 DEF Reshapes
  <2>3. QED
    BY <2>1, <2>2
<1>3. QED
  BY <1>1, <1>2 DEF Makes, Keeps, Reshapes

Changed(m, n, refs, node, l, h) == n = [m EXCEPT !.refs = refs, !.node = node, !.list[l] = h]

LEMMA MemoryChanged ==
  ASSUME NEW m \in Memory, NEW refs \in [Value -> Int],
         NEW node \in [Node -> ListNode \union {NULL}],
         NEW l \in List, NEW h \in ListHeader \union {NULL}, NEW n,
         Changed(m, n, refs, node, l, h)
  PROVE  /\ n \in Memory /\ n.refs = refs /\ n.node = node
         /\ n.list[l] = h /\ \A k \in List \ {l} : n.list[k] = m.list[k]
BY DEF Memory, Changed

(* A new list has no nodes.                                                 *)
LEMMA CreateMakes ==
  ASSUME NEW m, NEW ch, Mem(m, ch), NEW l \in List, m.list[l] = NULL, NEW owning \in BOOLEAN
  PROVE  /\ Makes(m, listCreate(m, l, owning), ch, l, <<>>)
         /\ listCreate(m, l, owning).list[l] # NULL
         /\ listCreate(m, l, owning).list[l].owns = owning
         /\ listCreate(m, l, owning).node = m.node
         /\ ch[l] = <<>>
<1> DEFINE n == listCreate(m, l, owning)
           h == [head |-> NULL, tail |-> NULL, len |-> 0, owns |-> owning]
<1>1. m \in Memory /\ ch[l] = <<>>
  BY DEF Mem, Shape, Chained
<1>2. h \in ListHeader /\ h.head = NULL /\ h.tail = NULL /\ h.len = 0 /\ h # NULL /\ h.owns = owning
  <2>1. h \in ListHeader
    BY DEF ListHeader, Pointer
  <2>2. QED
    BY <2>1, NodeFacts
<1> HIDE DEF h
<1>3. /\ n \in Memory /\ n.refs = m.refs /\ n.node = m.node
      /\ n.list[l] = h /\ \A k \in List \ {l} : n.list[k] = m.list[k]
  BY <1>1, <1>2 DEF Memory, listCreate, h
<1> HIDE DEF n
<1>4. Elems(<<>>) = {} /\ Len(<<>>) = 0 /\ <<>> \in Seq(Node)
  BY DEF Elems
<1>5. Chained(n, l, <<>>)
  BY <1>2, <1>3, <1>4 DEF Chained, Headed, Linked, At, Distinct
<1>6. Reshapes(m, n, ch, l, <<>>)
  BY <1>1, <1>3, <1>4, <1>5 DEF Reshapes
<1>7. Counts(m, n, ch, l, <<>>)
  <2>1. SUFFICES ASSUME NEW v \in Value
                 PROVE  n.refs[v] = m.refs[v] - Cardinality(Owned(m, l, <<>>, v))
                                              + Cardinality(Owned(n, l, <<>>, v))
    BY <1>1 DEF Counts
  <2>2. Owned(m, l, <<>>, v) = {} /\ Owned(n, l, <<>>, v) = {}
    BY <1>4 DEF Owned
  <2>3. Cardinality({}) = 0
    BY FS_EmptySet
  <2>4. m.refs[v] \in Int
    BY <1>1 DEF Memory
  <2>5. n.refs[v] = m.refs[v] /\ m.refs[v] = m.refs[v] - 0 + 0
    BY <1>3, <2>4
  <2>6. QED
    BY <2>2, <2>3, <2>5
<1>8. Makes(m, n, ch, l, <<>>)
  BY <1>4, <1>6, <1>7, Made
<1>9. QED
  BY <1>1, <1>2, <1>3, <1>8 DEF n

-------------------------------------------------------------------------------
(* Adding a node.                                                           *)

(* What memory holds of a list.                                             *)
LEMMA ListFacts ==
  ASSUME NEW m, NEW ch, Mem(m, ch), NEW l \in List, m.list[l] # NULL
  PROVE  /\ m \in Memory /\ ch \in [List -> Seq(Node)] /\ ch[l] \in Seq(Node)
         /\ m.node \in [Node -> ListNode \union {NULL}] /\ m.refs \in [Value -> Int]
         /\ m.list[l] \in ListHeader
         /\ m.list[l].head = At(ch[l], 1) /\ m.list[l].tail = At(ch[l], Len(ch[l]))
         /\ m.list[l].len = Len(ch[l]) /\ Len(ch[l]) \in Nat
         /\ Linked(m.node, ch[l]) /\ Distinct(ch[l])
         /\ \A i \in 1 .. Len(ch[l]) : ch[l][i] \in Node /\ m.node[ch[l][i]] \in ListNode
                                       /\ m.node[ch[l][i]] # NULL
         /\ \A x \in Elems(ch[l]) : x \in Node /\ m.node[x] \in ListNode /\ m.node[x] # NULL
<1>1. /\ m \in Memory /\ ch \in [List -> Seq(Node)] /\ Chained(m, l, ch[l])
      /\ \A x \in Node : x \in Elems(ch[l]) => m.node[x] # NULL
  BY DEF Mem, Shape
<1>2. /\ m.node \in [Node -> ListNode \union {NULL}] /\ m.refs \in [Value -> Int]
      /\ m.list \in [List -> ListHeader \union {NULL}]
  BY <1>1 DEF Memory
<1>3. /\ ch[l] \in Seq(Node) /\ Len(ch[l]) \in Nat /\ Elems(ch[l]) \subseteq Node
      /\ \A i \in 1 .. Len(ch[l]) : ch[l][i] \in Elems(ch[l])
  BY <1>1, SeqFacts
<1>4. \A x \in Elems(ch[l]) : x \in Node /\ m.node[x] \in ListNode /\ m.node[x] # NULL
  BY <1>1, <1>2, <1>3
<1>5. \A i \in 1 .. Len(ch[l]) : ch[l][i] \in Node /\ m.node[ch[l][i]] \in ListNode
                                 /\ m.node[ch[l][i]] # NULL
  BY <1>3, <1>4
<1>6. QED
  BY <1>1, <1>2, <1>3, <1>4, <1>5 DEF Chained, Headed

(* n is m with the node x for v between the places i - 1 and i of list l.   *)
Inserts(m, n, c, l, i, x, v) ==
  /\ n \in Memory
  /\ n.refs = Taken(m, l, v)
  /\ \A k \in List \ {l} : n.list[k] = m.list[k]
  /\ n.list[l] \in ListHeader /\ n.list[l].owns = m.list[l].owns
  /\ n.list[l].head = IF i = 1 THEN x ELSE m.list[l].head
  /\ n.list[l].tail = IF i = Len(c) + 1 THEN x ELSE m.list[l].tail
  /\ n.list[l].len = m.list[l].len + 1
  /\ n.node[x] \in ListNode
  /\ n.node[x].prev = At(c, i - 1) /\ n.node[x].next = At(c, i) /\ n.node[x].value = v
  /\ \A y \in Elems(c) :
       /\ n.node[y] \in ListNode /\ n.node[y].value = m.node[y].value
       /\ n.node[y].next = IF y = At(c, i - 1) THEN x ELSE m.node[y].next
       /\ n.node[y].prev = IF y = At(c, i) THEN x ELSE m.node[y].prev
  /\ \A y \in Node : y \notin Elems(c) /\ y # x => n.node[y] = m.node[y]

LEMMA TakenIs ==
  ASSUME NEW m \in Memory, NEW l, NEW v \in Value
  PROVE  /\ Taken(m, l, v) \in [Value -> Int]
         /\ \A w \in Value : Taken(m, l, v)[w] = IF w = v /\ m.list[l].owns THEN m.refs[w] + 1
                                                 ELSE m.refs[w]
BY DEF Taken, Memory

(* The neighbours of the new node point to it.                              *)
LEMMA InsertedLinks ==
  ASSUME NEW m, NEW n, NEW c \in Seq(Node), NEW l, NEW i, NEW x \in Node, NEW v,
         NEW d \in Seq(Node), Shortened(d, i, c), d[i] = x, Distinct(c), x \notin Elems(c),
         Linked(m.node, c), Inserts(m, n, c, l, i, x, v)
  PROVE  Linked(n.node, d)
<1>1. /\ i \in Nat /\ i >= 1 /\ i <= Len(d) /\ Len(d) \in Nat /\ Len(c) = Len(d) - 1
      /\ \A k \in 1 .. Len(d) : k < i => k \in 1 .. Len(c) /\ c[k] = d[k]
      /\ \A k \in 1 .. Len(d) : k > i => k - 1 \in 1 .. Len(c) /\ c[k - 1] = d[k]
  BY ShortElements
<1>2. \A k \in Nat : At(c, k) = IF k < i THEN At(d, k) ELSE At(d, k + 1)
  BY ShortAt
<1>3. At(d, i) = x /\ NULL \notin Node
  BY <1>1, NodeFacts DEF At
<1>4. SUFFICES ASSUME NEW k \in 1 .. Len(d)
               PROVE  n.node[d[k]].prev = At(d, k - 1) /\ n.node[d[k]].next = At(d, k + 1)
  BY DEF Linked
<1>5. CASE k = i
  <2>1. n.node[x].prev = At(c, i - 1) /\ n.node[x].next = At(c, i)
    BY DEF Inserts
  <2>2. At(c, i - 1) = At(d, i - 1)
    <3>1. i - 1 \in Nat /\ i - 1 < i
      BY <1>1
    <3>2. QED
      BY <1>2, <3>1
  <2>3. At(c, i) = At(d, i + 1)
    BY <1>1, <1>2
  <2>4. QED
    BY <1>5, <2>1, <2>2, <2>3
<1> DEFINE Place(j) ==
      /\ j \in 1 .. Len(c) /\ c[j] = d[k]
      /\ n.node[d[k]].next = IF j = i - 1 THEN x ELSE At(c, j + 1)
      /\ n.node[d[k]].prev = IF j = i THEN x ELSE At(c, j - 1)
<1>6. ASSUME NEW j \in 1 .. Len(c), c[j] = d[k] PROVE Place(j)
  <2>1. c[j] \in Elems(c) /\ DOMAIN c = 1 .. Len(c) /\ Len(c) \in Nat
    BY SeqFacts
  <2>2. m.node[c[j]].prev = At(c, j - 1) /\ m.node[c[j]].next = At(c, j + 1)
    BY DEF Linked
  <2>3. ASSUME NEW a \in Nat PROVE c[j] = At(c, a) <=> j = a
    <3>1. c[j] # NULL
      BY <1>3
    <3>2. QED
      BY <2>1, <3>1 DEF At, Distinct
  <2>4. i - 1 \in Nat /\ i \in Nat
    BY <1>1
  <2>5. (c[j] = At(c, i - 1) <=> j = i - 1) /\ (c[j] = At(c, i) <=> j = i)
    BY <2>3, <2>4
  <2>6. /\ n.node[c[j]].next = IF c[j] = At(c, i - 1) THEN x ELSE m.node[c[j]].next
        /\ n.node[c[j]].prev = IF c[j] = At(c, i) THEN x ELSE m.node[c[j]].prev
    BY <2>1 DEF Inserts
  <2>7. QED
    BY <1>6, <2>2, <2>5, <2>6
<1>7. CASE k < i
  <2>1. Place(k)
    BY <1>1, <1>6, <1>7
  <2>2. k \in Nat /\ k # i /\ k - 1 \in Nat /\ k - 1 < i /\ k + 1 \in Nat
    BY <1>1, <1>7
  <2>3. At(c, k - 1) = At(d, k - 1)
    BY <1>2, <2>2
  <2>4. CASE k = i - 1
    <3>1. k + 1 = i
      BY <1>1, <2>4
    <3>2. QED
      BY <1>3, <2>1, <2>2, <2>3, <2>4, <3>1
  <2>5. CASE k # i - 1
    <3>1. k + 1 < i
      BY <1>1, <1>7, <2>5
    <3>2. At(c, k + 1) = At(d, k + 1)
      BY <1>2, <2>2, <3>1
    <3>3. QED
      BY <2>1, <2>2, <2>3, <2>5, <3>2
  <2>6. QED
    BY <2>4, <2>5
<1>8. CASE k > i
  <2>1. Place(k - 1)
    BY <1>1, <1>6, <1>8
  <2>2. k - 1 # i - 1 /\ (k - 1) + 1 = k /\ k \in Nat /\ ~ (k < i) /\ (k - 1) - 1 = k - 2
    BY <1>1, <1>8
  <2>3. At(c, k) = At(d, k + 1)
    BY <1>2, <2>2
  <2>4. CASE k - 1 = i
    BY <1>3, <2>1, <2>2, <2>3, <2>4
  <2>5. CASE k - 1 # i
    <3>1. k - 2 \in Nat /\ ~ (k - 2 < i) /\ (k - 2) + 1 = k - 1
      BY <1>1, <1>8, <2>5
    <3>2. At(c, k - 2) = At(d, k - 1)
      BY <1>2, <3>1
    <3>3. QED
      BY <2>1, <2>2, <2>3, <2>5, <3>2
  <2>6. QED
    BY <2>4, <2>5
<1>9. QED
  BY <1>1, <1>5, <1>7, <1>8

(* One node more.                                                           *)
LEMMA InsertMakes ==
  ASSUME NEW m, NEW ch, Mem(m, ch), NEW l \in List, m.list[l] # NULL,
         NEW x \in Node, m.node[x] = NULL, NEW v \in Value, NEW i \in 1 .. Len(ch[l]) + 1,
         NEW n, Inserts(m, n, ch[l], l, i, x, v)
  PROVE  /\ Makes(m, n, ch, l, InsertAt(ch[l], i, x))
         /\ n.list[l] # NULL /\ n.list[l].owns = m.list[l].owns /\ n.node[x].value = v
<1> DEFINE c == ch[l]
           d == InsertAt(c, i, x)
<1>1. /\ m \in Memory /\ c \in Seq(Node) /\ Len(c) \in Nat /\ i \in Nat /\ i >= 1 /\ i <= Len(c) + 1
      /\ m.list[l].head = At(c, 1) /\ m.list[l].tail = At(c, Len(c)) /\ m.list[l].len = Len(c)
      /\ Linked(m.node, c) /\ Distinct(c)
      /\ \A y \in Elems(c) : y \in Node /\ m.node[y] # NULL
  BY ListFacts
<1>2. x \notin Elems(c)
  BY <1>1
<1>3. d \in Seq(Node) /\ Shortened(d, i, c) /\ d[i] = x
  BY <1>1, InsertIs
<1>4. Inserts(m, n, c, l, i, x, v)
  OBVIOUS
<1> HIDE DEF c, d
<1>5. Elems(d) = Elems(c) \union {x} /\ Distinct(d)
  BY <1>1, <1>2, <1>3, ShortSets
<1>6. Linked(n.node, d)
  BY <1>1, <1>2, <1>3, <1>4, InsertedLinks
<1>7. Len(d) = Len(c) + 1
  BY <1>1, <1>3, ShortElements
<1>8. \A k \in Nat : At(c, k) = IF k < i THEN At(d, k) ELSE At(d, k + 1)
  BY <1>1, <1>3, ShortAt
<1>9. At(d, i) = x
  BY <1>1, <1>3, <1>7 DEF At
<1>10. At(d, 1) = IF i = 1 THEN x ELSE At(c, 1)
  <2>1. CASE i = 1
    BY <1>9, <2>1
  <2>2. CASE i # 1
    <3>1. 1 < i /\ 1 \in Nat
      BY <1>1, <2>2
    <3>2. At(c, 1) = At(d, 1)
      BY <1>8, <3>1
    <3>3. QED
      BY <2>2, <3>2
  <2>3. QED
    BY <2>1, <2>2
<1>11. At(d, Len(d)) = IF i = Len(c) + 1 THEN x ELSE At(c, Len(c))
  <2>1. CASE i = Len(c) + 1
    BY <1>7, <1>9, <2>1
  <2>2. CASE i # Len(c) + 1
    <3>1. ~ (Len(c) < i)
      BY <1>1, <2>2
    <3>2. QED
      BY <1>1, <1>7, <1>8, <2>2, <3>1
  <2>3. QED
    BY <2>1, <2>2
<1>12. n.list[l] # NULL
  BY <1>4, NodeFacts DEF Inserts
<1>13. Headed(n.list[l], d)
  BY <1>1, <1>4, <1>7, <1>10, <1>11 DEF Inserts, Headed
<1>14. Chained(n, l, d)
  BY <1>5, <1>6, <1>12, <1>13 DEF Chained
<1>15. \A y \in Elems(d) : n.node[y] # NULL
  BY <1>4, <1>5, NodeFacts DEF Inserts
<1>16. Reshapes(m, n, ch, l, d)
  <2>1. n \in Memory /\ \A k \in List \ {l} : n.list[k] = m.list[k]
    BY <1>4 DEF Inserts
  <2>2. \A y \in Node : y \notin Elems(c) \union Elems(d) => n.node[y] = m.node[y]
    BY <1>4, <1>5 DEF Inserts
  <2>3. \A y \in Elems(d) : y \in Elems(c) \/ m.node[y] = NULL
    BY <1>5
  <2>4. QED
    BY <1>3, <1>5, <1>14, <1>15, <2>1, <2>2, <2>3 DEF Reshapes, c
<1>17. Counts(m, n, ch, l, d)
  <2>1. SUFFICES ASSUME NEW w \in Value
                 PROVE  n.refs[w] = m.refs[w] - Cardinality(Owned(m, l, c, w))
                                              + Cardinality(Owned(n, l, d, w))
    BY DEF Counts, c
  <2> DEFINE A == Owned(m, l, c, w)
             B == Owned(n, l, d, w)
  <2>2. n.refs[w] = IF w = v /\ m.list[l].owns THEN m.refs[w] + 1 ELSE m.refs[w]
    BY <1>1, <1>4, TakenIs DEF Inserts
  <2>3. n.list[l].owns = m.list[l].owns /\ n.node[x].value = v
        /\ \A y \in Elems(c) : n.node[y].value = m.node[y].value
    BY <1>4 DEF Inserts
  <2>4. B = IF w = v /\ m.list[l].owns THEN A \union {x} ELSE A
    <3>1. \A y \in Elems(c) : y \in A <=> y \in B
      BY <1>5, <1>12, <2>3 DEF Owned
    <3>2. x \in B <=> w = v /\ m.list[l].owns
      BY <1>5, <1>12, <2>3 DEF Owned
    <3>3. A \subseteq Elems(c) /\ B \subseteq Elems(c) \union {x}
      BY <1>5 DEF Owned
    <3> HIDE DEF A, B
    <3>4. CASE w = v /\ m.list[l].owns
      BY <3>1, <3>2, <3>3, <3>4
    <3>5. CASE ~ (w = v /\ m.list[l].owns)
      BY <1>2, <3>1, <3>2, <3>3, <3>5
    <3>6. QED
      BY <3>4, <3>5
  <2>5. IsFiniteSet(A) /\ Cardinality(A) \in Nat
    BY <1>1, OwnedFinite
  <2>6. x \notin A
    BY <1>2 DEF Owned
  <2>7. m.refs[w] \in Int
    BY <1>1 DEF Memory
  <2> HIDE DEF A, B
  <2>8. CASE w = v /\ m.list[l].owns
    <3>1. Cardinality(B) = Cardinality(A) + 1
      BY <2>4, <2>5, <2>6, <2>8, FS_AddElement
    <3>2. QED
      BY <2>2, <2>5, <2>7, <2>8, <3>1 DEF A, B
  <2>9. CASE ~ (w = v /\ m.list[l].owns)
    <3>1. B = A /\ n.refs[w] = m.refs[w]
      BY <2>2, <2>4, <2>9
    <3>2. m.refs[w] = m.refs[w] - Cardinality(A) + Cardinality(A)
      BY <2>5, <2>7
    <3>3. QED
      BY <3>1, <3>2 DEF A, B
  <2>10. QED
    BY <2>8, <2>9
<1>18. \A y \in Elems(d) : y \in Elems(c) => n.node[y].value = m.node[y].value
  BY <1>4 DEF Inserts
<1>19. Makes(m, n, ch, l, d)
  BY <1>16, <1>17, <1>18, Made DEF c
<1>20. QED
  BY <1>4, <1>12, <1>19 DEF Inserts, c, d

NextSet(r, p, s) == s = [r EXCEPT !.next = p]
PrevSet(r, p, s) == s = [r EXCEPT !.prev = p]

LEMMA NextRelinked ==
  ASSUME NEW r \in ListNode, NEW p \in Pointer, NEW s, NextSet(r, p, s)
  PROVE  s \in ListNode /\ s.next = p /\ s.prev = r.prev /\ s.value = r.value
BY DEF ListNode, NextSet

LEMMA PrevRelinked ==
  ASSUME NEW r \in ListNode, NEW p \in Pointer, NEW s, PrevSet(r, p, s)
  PROVE  s \in ListNode /\ s.prev = p /\ s.next = r.next /\ s.value = r.value
BY DEF ListNode, PrevSet

LEMMA NewNode ==
  ASSUME NEW p \in Pointer, NEW q \in Pointer, NEW v \in Value, NEW r,
         r = [prev |-> p, next |-> q, value |-> v]
  PROVE  r \in ListNode /\ r.prev = p /\ r.next = q /\ r.value = v
BY DEF ListNode

LEMMA AtPointer ==
  ASSUME NEW c \in Seq(Node), NEW i
  PROVE  At(c, i) \in Pointer
BY DEF At, Pointer

Grown(h, p, q, g) == g = [h EXCEPT !.head = p, !.tail = q, !.len = h.len + 1]

(* The header of a list that has grown.                                     *)
LEMMA HeaderGrown ==
  ASSUME NEW h \in ListHeader, NEW p \in Pointer, NEW q \in Pointer, NEW g, Grown(h, p, q, g)
  PROVE  /\ g \in ListHeader /\ g.head = p /\ g.tail = q /\ g.len = h.len + 1 /\ g.owns = h.owns
<1>1. h.len + 1 \in Nat
  BY DEF ListHeader
<1> DEFINE k == h.len + 1
<1>2. g = [h EXCEPT !.head = p, !.tail = q, !.len = k] /\ k \in Nat
  BY <1>1 DEF Grown
<1> HIDE DEF k
<1>3. g \in ListHeader /\ g.head = p /\ g.tail = q /\ g.len = k /\ g.owns = h.owns
  BY <1>2 DEF ListHeader
<1>4. QED
  BY <1>3 DEF k

(* Each of the functions that add a node puts it at its place.              *)
LEMMA AddHeadInserts ==
  ASSUME NEW m, NEW ch, Mem(m, ch), NEW l \in List, m.list[l] # NULL,
         NEW x \in Node, m.node[x] = NULL, NEW v \in Value
  PROVE  Inserts(m, listAddNodeHead(m, l, v, x), ch[l], l, 1, x, v)
<1> DEFINE c == ch[l]
           h == m.list[l]
           new == [prev |-> NULL, next |-> h.head, value |-> v]
           node == IF h.len = 0 THEN [m.node EXCEPT ![x] = new]
                                ELSE [m.node EXCEPT ![x] = new, ![h.head].prev = x]
           g == [h EXCEPT !.head = x, !.tail = IF h.len = 0 THEN x ELSE h.tail, !.len = h.len + 1]
           n == listAddNodeHead(m, l, v, x)
<1>1. /\ m \in Memory /\ c \in Seq(Node) /\ Len(c) \in Nat
      /\ m.node \in [Node -> ListNode \union {NULL}]
      /\ h \in ListHeader /\ h.head = At(c, 1) /\ h.tail = At(c, Len(c)) /\ h.len = Len(c)
      /\ \A i \in 1 .. Len(c) : c[i] \in Node /\ m.node[c[i]] \in ListNode /\ m.node[c[i]] # NULL
      /\ \A y \in Elems(c) : y \in Node /\ m.node[y] \in ListNode /\ m.node[y] # NULL
  BY ListFacts
<1>2. x \notin Elems(c) /\ NULL \notin Node
  BY <1>1, NodeFacts
<1>3. Changed(m, n, Taken(m, l, v), node, l, g)
  BY <1>1 DEF listAddNodeHead, ListHeader, Changed
<1>4. At(c, 0) = NULL /\ At(c, 1) \in Pointer /\ At(c, Len(c)) \in Pointer
  BY <1>1, AtPointer DEF At
<1>5. new \in ListNode /\ new.prev = NULL /\ new.next = At(c, 1) /\ new.value = v
  BY <1>1, <1>4, NewNode DEF Pointer
<1>6. /\ g \in ListHeader /\ g.head = x /\ g.tail = (IF h.len = 0 THEN x ELSE h.tail)
      /\ g.len = h.len + 1 /\ g.owns = h.owns
  <2>1. Grown(h, x, IF h.len = 0 THEN x ELSE h.tail, g)
    BY DEF Grown
  <2>2. x \in Pointer /\ (IF h.len = 0 THEN x ELSE h.tail) \in Pointer
    BY <1>1, <1>4 DEF Pointer
  <2>3. QED
    BY <1>1, <2>1, <2>2, HeaderGrown
<1> DEFINE Good == /\ node \in [Node -> ListNode \union {NULL}] /\ node[x] = new
                   /\ \A y \in Node : y # x =>
                        node[y] = IF y = At(c, 1) THEN [m.node[y] EXCEPT !.prev = x] ELSE m.node[y]
<1> HIDE DEF c, g, new, n
<1>7. Good
  <2>1. CASE h.len = 0
    <3>1. At(c, 1) = NULL
      BY <1>1, <2>1 DEF At
    <3>2. QED
      BY <1>1, <1>2, <1>5, <2>1, <3>1
  <2>2. CASE h.len # 0
    <3>1. 1 \in 1 .. Len(c) /\ At(c, 1) = c[1]
      BY <1>1, <2>2 DEF At
    <3>2. /\ At(c, 1) \in Node /\ m.node[At(c, 1)] \in ListNode /\ m.node[At(c, 1)] # NULL
          /\ At(c, 1) # x
      BY <1>1, <3>1
    <3>3. [m.node[At(c, 1)] EXCEPT !.prev = x] \in ListNode
      BY <3>2 DEF ListNode, Pointer
    <3>4. node = [m.node EXCEPT ![x] = new, ![At(c, 1)] = [m.node[At(c, 1)] EXCEPT !.prev = x]]
      BY <1>1, <2>2, <3>2
    <3> HIDE DEF node
    <3>5. QED
      BY <1>1, <1>5, <3>2, <3>3, <3>4
  <2>3. QED
    BY <2>1, <2>2
<1> HIDE DEF node
<1>8. Taken(m, l, v) \in [Value -> Int]
  BY <1>1, TakenIs
<1>9. /\ n \in Memory /\ n.refs = Taken(m, l, v) /\ n.node = node
      /\ n.list[l] = g /\ \A k \in List \ {l} : n.list[k] = m.list[k]
  <2>1. node \in [Node -> ListNode \union {NULL}] /\ g \in ListHeader \union {NULL} /\ m \in Memory
    BY <1>1, <1>6, <1>7
  <2> HIDE DEF Good, h
  <2>2. QED
    BY <1>3, <1>8, <2>1, MemoryChanged
<1>10. ASSUME NEW y \in Elems(c)
       PROVE  /\ node[y] \in ListNode /\ node[y].value = m.node[y].value
              /\ node[y].next = m.node[y].next
              /\ node[y].prev = IF y = At(c, 1) THEN x ELSE m.node[y].prev
  <2>1. y \in Node /\ y # x /\ m.node[y] \in ListNode /\ x \in Pointer
    BY <1>1, <1>2 DEF Pointer
  <2>2. node[y] = IF y = At(c, 1) THEN [m.node[y] EXCEPT !.prev = x] ELSE m.node[y]
    BY <1>7, <2>1
  <2>3. CASE y = At(c, 1)
    <3>1. PrevSet(m.node[y], x, node[y])
      BY <2>2, <2>3 DEF PrevSet
    <3>2. QED
      BY <2>1, <2>3, <3>1, PrevRelinked
  <2>4. CASE y # At(c, 1)
    BY <2>1, <2>2, <2>4
  <2>5. QED
    BY <2>3, <2>4
<1>11. \A y \in Elems(c) : y # At(c, 0)
  BY <1>1, <1>2, <1>4
<1>12. At(c, 1) \notin Elems(c) => At(c, 1) = NULL
  BY <1>1, SeqFacts DEF At
<1>13. \A y \in Node : y \notin Elems(c) /\ y # x => node[y] = m.node[y]
  BY <1>2, <1>7, <1>12
<1>14. g.tail = IF 1 = Len(c) + 1 THEN x ELSE h.tail
  BY <1>1, <1>6
<1>15. node[x] \in ListNode /\ node[x].prev = At(c, 1 - 1) /\ node[x].next = At(c, 1) /\ node[x].value = v
  BY <1>4, <1>5, <1>7
<1>16. \A y \in Elems(c) : node[y].next = IF y = At(c, 1 - 1) THEN x ELSE m.node[y].next
  BY <1>10, <1>11
<1>17. QED
  BY <1>6, <1>9, <1>10, <1>13, <1>14, <1>15, <1>16 DEF Inserts, c, n

LEMMA AddTailInserts ==
  ASSUME NEW m, NEW ch, Mem(m, ch), NEW l \in List, m.list[l] # NULL,
         NEW x \in Node, m.node[x] = NULL, NEW v \in Value
  PROVE  Inserts(m, listAddNodeTail(m, l, v, x), ch[l], l, Len(ch[l]) + 1, x, v)
<1> DEFINE c == ch[l]
           h == m.list[l]
           new == [prev |-> h.tail, next |-> NULL, value |-> v]
           node == IF h.len = 0 THEN [m.node EXCEPT ![x] = new]
                                ELSE [m.node EXCEPT ![x] = new, ![h.tail].next = x]
           g == [h EXCEPT !.head = IF h.len = 0 THEN x ELSE h.head, !.tail = x, !.len = h.len + 1]
           n == listAddNodeTail(m, l, v, x)
<1>1. /\ m \in Memory /\ c \in Seq(Node) /\ Len(c) \in Nat
      /\ m.node \in [Node -> ListNode \union {NULL}]
      /\ h \in ListHeader /\ h.head = At(c, 1) /\ h.tail = At(c, Len(c)) /\ h.len = Len(c)
      /\ \A i \in 1 .. Len(c) : c[i] \in Node /\ m.node[c[i]] \in ListNode /\ m.node[c[i]] # NULL
      /\ \A y \in Elems(c) : y \in Node /\ m.node[y] \in ListNode /\ m.node[y] # NULL
  BY ListFacts
<1>2. x \notin Elems(c) /\ NULL \notin Node
  BY <1>1, NodeFacts
<1>3. Changed(m, n, Taken(m, l, v), node, l, g)
  BY <1>1 DEF listAddNodeTail, ListHeader, Changed
<1>4. At(c, Len(c) + 1) = NULL /\ At(c, 1) \in Pointer /\ At(c, Len(c)) \in Pointer
  BY <1>1, AtPointer DEF At
<1>5. new \in ListNode /\ new.prev = At(c, Len(c)) /\ new.next = NULL /\ new.value = v
  BY <1>1, <1>4, NewNode DEF Pointer
<1>6. /\ g \in ListHeader /\ g.tail = x /\ g.head = (IF h.len = 0 THEN x ELSE h.head)
      /\ g.len = h.len + 1 /\ g.owns = h.owns
  <2>1. Grown(h, IF h.len = 0 THEN x ELSE h.head, x, g)
    BY DEF Grown
  <2>2. x \in Pointer /\ (IF h.len = 0 THEN x ELSE h.head) \in Pointer
    BY <1>1, <1>4 DEF Pointer
  <2>3. QED
    BY <1>1, <2>1, <2>2, HeaderGrown
<1> DEFINE Good == /\ node \in [Node -> ListNode \union {NULL}] /\ node[x] = new
                   /\ \A y \in Node : y # x =>
                        node[y] = IF y = At(c, Len(c)) THEN [m.node[y] EXCEPT !.next = x] ELSE m.node[y]
<1> HIDE DEF c, g, new, n
<1>7. Good
  <2>1. CASE h.len = 0
    <3>1. At(c, Len(c)) = NULL
      BY <1>1, <2>1 DEF At
    <3>2. QED
      BY <1>1, <1>2, <1>5, <2>1, <3>1
  <2>2. CASE h.len # 0
    <3>1. Len(c) \in 1 .. Len(c) /\ At(c, Len(c)) = c[Len(c)]
      BY <1>1, <2>2 DEF At
    <3>2. /\ At(c, Len(c)) \in Node /\ m.node[At(c, Len(c))] \in ListNode /\ m.node[At(c, Len(c))] # NULL
          /\ At(c, Len(c)) # x
      BY <1>1, <3>1
    <3>3. [m.node[At(c, Len(c))] EXCEPT !.next = x] \in ListNode
      BY <3>2 DEF ListNode, Pointer
    <3>4. node = [m.node EXCEPT ![x] = new, ![At(c, Len(c))] = [m.node[At(c, Len(c))] EXCEPT !.next = x]]
      BY <1>1, <2>2, <3>2
    <3> HIDE DEF node
    <3>5. QED
      BY <1>1, <1>5, <3>2, <3>3, <3>4
  <2>3. QED
    BY <2>1, <2>2
<1> HIDE DEF node
<1>8. Taken(m, l, v) \in [Value -> Int]
  BY <1>1, TakenIs
<1>9. /\ n \in Memory /\ n.refs = Taken(m, l, v) /\ n.node = node
      /\ n.list[l] = g /\ \A k \in List \ {l} : n.list[k] = m.list[k]
  <2>1. node \in [Node -> ListNode \union {NULL}] /\ g \in ListHeader \union {NULL} /\ m \in Memory
    BY <1>1, <1>6, <1>7
  <2> HIDE DEF Good, h
  <2>2. QED
    BY <1>3, <1>8, <2>1, MemoryChanged
<1>10. ASSUME NEW y \in Elems(c)
       PROVE  /\ node[y] \in ListNode /\ node[y].value = m.node[y].value
              /\ node[y].prev = m.node[y].prev
              /\ node[y].next = IF y = At(c, Len(c)) THEN x ELSE m.node[y].next
  <2>1. y \in Node /\ y # x /\ m.node[y] \in ListNode /\ x \in Pointer
    BY <1>1, <1>2 DEF Pointer
  <2>2. node[y] = IF y = At(c, Len(c)) THEN [m.node[y] EXCEPT !.next = x] ELSE m.node[y]
    BY <1>7, <2>1
  <2>3. CASE y = At(c, Len(c))
    <3>1. NextSet(m.node[y], x, node[y])
      BY <2>2, <2>3 DEF NextSet
    <3>2. QED
      BY <2>1, <2>3, <3>1, NextRelinked
  <2>4. CASE y # At(c, Len(c))
    BY <2>1, <2>2, <2>4
  <2>5. QED
    BY <2>3, <2>4
<1>11. \A y \in Elems(c) : y # At(c, Len(c) + 1)
  BY <1>1, <1>2, <1>4
<1>12. At(c, Len(c)) \notin Elems(c) => At(c, Len(c)) = NULL
  BY <1>1, SeqFacts DEF At
<1>13. \A y \in Node : y \notin Elems(c) /\ y # x => node[y] = m.node[y]
  BY <1>2, <1>7, <1>12
<1>14. g.head = IF Len(c) + 1 = 1 THEN x ELSE h.head
  BY <1>1, <1>6
<1>15. node[x] \in ListNode /\ node[x].prev = At(c, (Len(c) + 1) - 1) /\ node[x].next = At(c, Len(c) + 1) /\ node[x].value = v
  BY <1>1, <1>4, <1>5, <1>7
<1>16. \A y \in Elems(c) : node[y].prev = IF y = At(c, Len(c) + 1) THEN x ELSE m.node[y].prev
  BY <1>10, <1>11
<1>17. (Len(c) + 1) - 1 = Len(c)
  BY <1>1
<1>18. QED
  BY <1>1, <1>6, <1>9, <1>10, <1>13, <1>14, <1>15, <1>16, <1>17 DEF Inserts, c, n

Relinks(node, p, q, s) == s = Link(node, p, q)

LEMMA LinkIs ==
  ASSUME NEW node, NEW p, NEW q, NEW s, Relinks(node, p, q, s)
  PROVE  /\ \A y \in Node : y = p => NextSet(node[y], q, s[y])
         /\ \A y \in Node \ {p} : y = q => PrevSet(node[y], p, s[y])
         /\ \A y \in Node \ {p, q} : s[y] = node[y]
BY DEF Relinks, Link, NextSet, PrevSet

(* Linking two nodes keeps memory what it is.                               *)
LEMMA LinkKeeps ==
  ASSUME NEW node \in [Node -> ListNode \union {NULL}], NEW p \in Pointer, NEW q \in Pointer,
         p \in Node => node[p] \in ListNode, q \in Node => node[q] \in ListNode
  PROVE  Link(node, p, q) \in [Node -> ListNode \union {NULL}]
<1>1. ASSUME NEW y \in Node PROVE Link(node, p, q)[y] \in ListNode \union {NULL}
  <2>0. Relinks(node, p, q, Link(node, p, q))
    BY DEF Relinks
  <2>1. /\ y = p => NextSet(node[y], q, Link(node, p, q)[y])
        /\ y # p /\ y = q => PrevSet(node[y], p, Link(node, p, q)[y])
        /\ y # p /\ y # q => Link(node, p, q)[y] = node[y]
    BY <2>0, LinkIs
  <2> DEFINE s == Link(node, p, q)[y]
  <2> HIDE DEF s
  <2>2. CASE y = p
    <3>1. node[y] \in ListNode /\ NextSet(node[y], q, s)
      BY <2>1, <2>2 DEF s
    <3>2. s \in ListNode
      BY <3>1, NextRelinked
    <3>3. QED
      BY <3>2 DEF s
  <2>3. CASE y # p /\ y = q
    <3>1. node[y] \in ListNode /\ PrevSet(node[y], p, s)
      BY <2>1, <2>3 DEF s
    <3>2. s \in ListNode
      BY <3>1, PrevRelinked
    <3>3. QED
      BY <3>2 DEF s
  <2>4. CASE y # p /\ y # q
    BY <2>1, <2>4
  <2>5. QED
    BY <2>2, <2>3, <2>4
<1>2. QED
  BY <1>1 DEF Link

(* What linking a new node x between p and q does to the nodes.             *)
LEMMA LinkedBetween ==
  ASSUME NEW node \in [Node -> ListNode \union {NULL}], NEW p \in Pointer, NEW q \in Pointer,
         NEW x \in Node, NEW v \in Value, x # p, x # q, p = q => p = NULL,
         p \in Node => node[p] \in ListNode, q \in Node => node[q] \in ListNode,
         NEW r \in ListNode, r.prev = p, r.next = q, r.value = v,
         NEW new \in [Node -> ListNode \union {NULL}], new[x] = r,
         \A y \in Node \ {x} : new[y] = node[y],
         NEW w, Relinks(new, p, x, w), NEW z, Relinks(w, x, q, z)
  PROVE  /\ z \in [Node -> ListNode \union {NULL}]
         /\ z[x] \in ListNode /\ z[x].prev = p /\ z[x].next = q /\ z[x].value = v
         /\ \A y \in Node : y = p => NextSet(node[y], x, z[y])
         /\ \A y \in Node : y = q => PrevSet(node[y], x, z[y])
         /\ \A y \in Node : y # p /\ y # q /\ y # x => z[y] = node[y]
<1>1. NULL \notin Node
  BY NodeFacts
<1>2. p \in Node => new[p] \in ListNode
  OBVIOUS
<1>3. w \in [Node -> ListNode \union {NULL}]
  <2>1. x \in Pointer /\ new[x] \in ListNode
    BY <1>1 DEF Pointer
  <2>2. Link(new, p, x) \in [Node -> ListNode \union {NULL}]
    BY <1>2, <2>1, LinkKeeps
  <2>3. QED
    BY <2>2 DEF Relinks
<1>4. /\ \A y \in Node : y = p => NextSet(new[y], x, w[y])
      /\ \A y \in Node \ {p} : y = x => PrevSet(new[y], p, w[y])
      /\ \A y \in Node \ {p, x} : w[y] = new[y]
  BY LinkIs
<1>5. /\ \A y \in Node : y = x => NextSet(w[y], q, z[y])
      /\ \A y \in Node \ {x} : y = q => PrevSet(w[y], x, z[y])
      /\ \A y \in Node \ {x, q} : z[y] = w[y]
  BY LinkIs
<1>6. w[x] \in ListNode /\ w[x].prev = p /\ w[x].next = q /\ w[x].value = v
  <2>1. PrevSet(r, p, w[x])
    BY <1>1, <1>4
  <2>2. QED
    BY <2>1, PrevRelinked
<1>7. z[x] \in ListNode /\ z[x].prev = p /\ z[x].next = q /\ z[x].value = v
  <2>1. NextSet(w[x], q, z[x])
    BY <1>5
  <2>2. QED
    BY <1>6, <2>1, NextRelinked
<1>8. \A y \in Node : y = p => NextSet(node[y], x, z[y])
  BY <1>1, <1>4, <1>5
<1>9. \A y \in Node : y = q => PrevSet(node[y], x, z[y])
  BY <1>1, <1>4, <1>5
<1>10. \A y \in Node : y # p /\ y # q /\ y # x => z[y] = node[y]
  BY <1>1, <1>4, <1>5
<1>11. z \in [Node -> ListNode \union {NULL}]
  <2>1. q \in Node => w[q] \in ListNode
    BY <1>1, <1>4
  <2>2. x \in Pointer
    BY DEF Pointer
  <2>3. z = Link(w, x, q) /\ w[x] \in ListNode
    BY <1>6 DEF Relinks
  <2>4. Link(w, x, q) \in [Node -> ListNode \union {NULL}]
    BY <1>3, <2>1, <2>2, <2>3, LinkKeeps
  <2>5. QED
    BY <2>3, <2>4
<1>12. QED
  BY <1>7, <1>8, <1>9, <1>10, <1>11

InsertPlace(j, after) == IF after THEN j + 1 ELSE j

LEMMA InsertNodeInserts ==
  ASSUME NEW m, NEW ch, Mem(m, ch), NEW l \in List, m.list[l] # NULL,
         NEW x \in Node, m.node[x] = NULL, NEW v \in Value,
         NEW j \in 1 .. Len(ch[l]), NEW after \in BOOLEAN
  PROVE  /\ Inserts(m, listInsertNode(m, l, ch[l][j], v, after, x), ch[l], l,
                    InsertPlace(j, after), x, v)
         /\ InsertPlace(j, after) \in 1 .. Len(ch[l]) + 1
<1> DEFINE c == ch[l]
           h == m.list[l]
           i == InsertPlace(j, after)
           old == c[j]
           p == IF after THEN old ELSE m.node[old].prev
           q == IF after THEN m.node[old].next ELSE old
           r == [prev |-> p, next |-> q, value |-> v]
           new == [m.node EXCEPT ![x] = r]
           node == Link(Link(new, p, x), x, q)
           head == IF ~after /\ h.head = old THEN x ELSE h.head
           tail == IF after /\ h.tail = old THEN x ELSE h.tail
           g == [h EXCEPT !.head = head, !.tail = tail, !.len = h.len + 1]
           n == listInsertNode(m, l, old, v, after, x)
<1>1. /\ m \in Memory /\ c \in Seq(Node) /\ Len(c) \in Nat /\ Linked(m.node, c) /\ Distinct(c)
      /\ m.node \in [Node -> ListNode \union {NULL}]
      /\ h \in ListHeader /\ h.head = At(c, 1) /\ h.tail = At(c, Len(c)) /\ h.len = Len(c)
      /\ \A k \in 1 .. Len(c) : c[k] \in Node /\ m.node[c[k]] \in ListNode /\ m.node[c[k]] # NULL
      /\ \A y \in Elems(c) : y \in Node /\ m.node[y] \in ListNode /\ m.node[y] # NULL
  BY ListFacts
<1>2. x \notin Elems(c) /\ NULL \notin Node /\ DOMAIN c = 1 .. Len(c)
  BY <1>1, NodeFacts
<1>3. Changed(m, n, Taken(m, l, v), node, l, g)
  BY <1>1 DEF listInsertNode, ListHeader, Changed
<1>4. /\ i \in Nat /\ i \in 1 .. Len(c) + 1 /\ i - 1 \in Nat
      /\ after => j = i - 1
      /\ ~after => j = i
  BY <1>1 DEF InsertPlace
<1>5. p = At(c, i - 1) /\ q = At(c, i) /\ old = At(c, j)
  <2>1. m.node[c[j]].prev = At(c, j - 1) /\ m.node[c[j]].next = At(c, j + 1)
    BY <1>1 DEF Linked
  <2>2. At(c, j) = c[j]
    BY DEF At
  <2>3. CASE after
    <3>1. j = i - 1 /\ j + 1 = i
      BY <1>1, <2>3 DEF InsertPlace
    <3>2. At(c, i - 1) = c[j] /\ At(c, i) = m.node[c[j]].next /\ At(c, j) = c[j]
      BY <2>1, <2>2, <3>1
    <3>3. p = c[j] /\ q = m.node[c[j]].next
      BY <2>3
    <3> HIDE DEF p, q, i, c
    <3>4. QED
      BY <3>2, <3>3
  <2>4. CASE ~after
    <3>1. j = i
      BY <1>4, <2>4
    <3>2. QED
      BY <2>1, <2>2, <2>4, <3>1
  <2>5. QED
    BY <2>3, <2>4
<1>6. \A a, b \in Nat : At(c, a) = At(c, b) => a = b \/ At(c, a) = NULL
  BY <1>1, <1>2 DEF At, Distinct
<1>7. p \in Pointer /\ q \in Pointer /\ (p = q => p = NULL)
  <2>1. i # i - 1
    BY <1>4
  <2>2. QED
    BY <1>1, <1>4, <1>5, <1>6, <2>1, AtPointer
<1>8. /\ p \in Node => p \in Elems(c) /\ m.node[p] \in ListNode
      /\ q \in Node => q \in Elems(c) /\ m.node[q] \in ListNode
  BY <1>1, <1>2, <1>5 DEF At, Elems
<1>9. /\ x # p /\ x # q
  BY <1>2, <1>8
<1>10. r \in ListNode /\ r.prev = p /\ r.next = q /\ r.value = v
  BY <1>7, NewNode
<1>11. head = (IF i = 1 THEN x ELSE h.head) /\ tail = (IF i = Len(c) + 1 THEN x ELSE h.tail)
  <2>1. h.head = old <=> j = 1
    <3>1. 1 \in Nat /\ j \in Nat /\ At(c, j) # NULL
      BY <1>1, <1>2, <1>5
    <3>2. QED
      BY <1>1, <1>5, <1>6, <3>1
  <2>2. h.tail = old <=> j = Len(c)
    <3>1. Len(c) \in Nat /\ j \in Nat /\ At(c, j) # NULL
      BY <1>1, <1>2, <1>5
    <3>2. QED
      BY <1>1, <1>5, <1>6, <3>1
  <2>3. i = 1 <=> ~after /\ j = 1
    BY <1>1 DEF InsertPlace
  <2>4. i = Len(c) + 1 <=> after /\ j = Len(c)
    BY <1>1 DEF InsertPlace
  <2> HIDE DEF i, h, c
  <2>5. QED
    BY <2>1, <2>2, <2>3, <2>4
<1>12. head \in Pointer /\ tail \in Pointer
  <2>1. x \in Pointer /\ h.head \in Pointer /\ h.tail \in Pointer
    BY <1>1, AtPointer DEF Pointer
  <2> HIDE DEF h
  <2>2. QED
    BY <2>1
<1> HIDE DEF head, tail
<1>13. /\ g \in ListHeader /\ g.head = head /\ g.tail = tail /\ g.len = h.len + 1 /\ g.owns = h.owns
  <2>1. Grown(h, head, tail, g)
    BY DEF Grown
  <2>2. QED
    BY <1>1, <1>12, <2>1, HeaderGrown
<1> HIDE DEF g, c, i, n
<1> DEFINE w == Link(new, p, x)
<1>14. /\ new \in [Node -> ListNode \union {NULL}] /\ new[x] = r
       /\ \A y \in Node \ {x} : new[y] = m.node[y]
       /\ Relinks(new, p, x, w) /\ Relinks(w, x, q, node)
  BY <1>1, <1>10 DEF Relinks
<1> HIDE DEF old, p, q, r, new, w, node
<1>15. /\ node \in [Node -> ListNode \union {NULL}]
       /\ node[x] \in ListNode /\ node[x].prev = p /\ node[x].next = q /\ node[x].value = v
       /\ \A y \in Node : y = p => NextSet(m.node[y], x, node[y])
       /\ \A y \in Node : y = q => PrevSet(m.node[y], x, node[y])
       /\ \A y \in Node : y # p /\ y # q /\ y # x => node[y] = m.node[y]
  BY <1>1, <1>7, <1>8, <1>9, <1>10, <1>14, LinkedBetween
<1>16. Taken(m, l, v) \in [Value -> Int]
  BY <1>1, TakenIs
<1>17. /\ n \in Memory /\ n.refs = Taken(m, l, v) /\ n.node = node
       /\ n.list[l] = g /\ \A k \in List \ {l} : n.list[k] = m.list[k]
  <2>1. g \in ListHeader \union {NULL}
    BY <1>13
  <2> HIDE DEF h
  <2>2. QED
    BY <1>1, <1>3, <1>15, <1>16, <2>1, MemoryChanged, SMTT(30)
<1>18. ASSUME NEW y \in Elems(c)
       PROVE  /\ node[y] \in ListNode /\ node[y].value = m.node[y].value
              /\ node[y].next = IF y = p THEN x ELSE m.node[y].next
              /\ node[y].prev = IF y = q THEN x ELSE m.node[y].prev
  <2>1. y \in Node /\ y # x /\ m.node[y] \in ListNode /\ x \in Pointer /\ y # NULL
    BY <1>1, <1>2 DEF Pointer
  <2>2. CASE y = p
    <3>1. NextSet(m.node[y], x, node[y]) /\ y # q
      BY <1>7, <1>15, <2>1, <2>2
    <3>2. QED
      BY <2>1, <2>2, <3>1, NextRelinked
  <2>3. CASE y = q
    <3>1. PrevSet(m.node[y], x, node[y]) /\ y # p
      BY <1>7, <1>15, <2>1, <2>3
    <3>2. QED
      BY <2>1, <2>3, <3>1, PrevRelinked
  <2>4. CASE y # p /\ y # q
    BY <1>15, <2>1, <2>4
  <2>5. QED
    BY <2>2, <2>3, <2>4
<1>19. \A y \in Node : y \notin Elems(c) /\ y # x => node[y] = m.node[y]
  BY <1>8, <1>15
<1>20. Inserts(m, n, c, l, i, x, v)
  BY <1>5, <1>11, <1>13, <1>15, <1>17, <1>18, <1>19 DEF Inserts
<1>21. QED
  BY <1>4, <1>20 DEF c, i, n, old

-------------------------------------------------------------------------------
(* Removing a node.                                                         *)

(* n is m without the i-th node of list l.                                  *)
Deletes(m, n, c, l, i) ==
  /\ n \in Memory
  /\ n.refs = Released(m, l, c[i])
  /\ \A k \in List \ {l} : n.list[k] = m.list[k]
  /\ n.list[l] \in ListHeader /\ n.list[l].owns = m.list[l].owns
  /\ n.list[l].head = IF i = 1 THEN At(c, i + 1) ELSE m.list[l].head
  /\ n.list[l].tail = IF i = Len(c) THEN At(c, i - 1) ELSE m.list[l].tail
  /\ n.list[l].len = m.list[l].len - 1
  /\ n.node[c[i]] = NULL
  /\ \A y \in Elems(c) \ {c[i]} :
       /\ n.node[y] \in ListNode /\ n.node[y].value = m.node[y].value
       /\ n.node[y].next = IF y = At(c, i - 1) THEN At(c, i + 1) ELSE m.node[y].next
       /\ n.node[y].prev = IF y = At(c, i + 1) THEN At(c, i - 1) ELSE m.node[y].prev
  /\ \A y \in Node \ Elems(c) : n.node[y] = m.node[y]

LEMMA ReleasedIs ==
  ASSUME NEW m \in Memory, NEW l, NEW x \in Node, m.node[x] \in ListNode
  PROVE  /\ m.node[x].value \in Value
         /\ Released(m, l, x) \in [Value -> Int]
         /\ \A w \in Value : Released(m, l, x)[w] =
              IF w = m.node[x].value /\ m.list[l].owns THEN m.refs[w] - 1 ELSE m.refs[w]
<1>1. m.node[x].value \in Value
  BY DEF ListNode
<1>2. m.refs \in [Value -> Int]
  BY DEF Memory
<1> DEFINE v == m.node[x].value
<1> HIDE DEF v
<1>3. Released(m, l, x) = [m.refs EXCEPT ![v] = IF m.list[l].owns THEN @ - 1 ELSE @]
  BY DEF Released, v
<1>4. v \in Value
  BY <1>1 DEF v
<1>5. QED
  BY <1>2, <1>3, <1>4 DEF v

(* The neighbours of the removed node point to each other.                  *)
LEMMA DeletedLinks ==
  ASSUME NEW m, NEW n, NEW c \in Seq(Node), NEW l, NEW i,
         NEW d \in Seq(Node), Shortened(c, i, d), Distinct(c),
         Linked(m.node, c), Deletes(m, n, c, l, i)
  PROVE  Linked(n.node, d)
<1>1. /\ i \in Nat /\ i >= 1 /\ i <= Len(c) /\ Len(c) \in Nat /\ Len(d) = Len(c) - 1
      /\ \A k \in 1 .. Len(d) : k < i => k \in 1 .. Len(c) /\ c[k] = d[k]
      /\ \A k \in 1 .. Len(d) : k >= i => k + 1 \in 1 .. Len(c) /\ c[k + 1] = d[k]
  BY ShortElements
<1>2. \A k \in Nat : At(d, k) = IF k < i THEN At(c, k) ELSE At(c, k + 1)
  BY ShortAt
<1>3. NULL \notin Node
  BY NodeFacts
<1>4. SUFFICES ASSUME NEW k \in 1 .. Len(d)
               PROVE  n.node[d[k]].prev = At(d, k - 1) /\ n.node[d[k]].next = At(d, k + 1)
  BY DEF Linked
<1> DEFINE Place(j) ==
      /\ j \in 1 .. Len(c) /\ c[j] = d[k]
      /\ n.node[d[k]].next = IF j = i - 1 THEN At(c, i + 1) ELSE At(c, j + 1)
      /\ n.node[d[k]].prev = IF j = i + 1 THEN At(c, i - 1) ELSE At(c, j - 1)
<1>6. ASSUME NEW j \in 1 .. Len(c), c[j] = d[k], j # i PROVE Place(j)
  <2>1. c[j] \in Elems(c) /\ c[j] \in Node /\ DOMAIN c = 1 .. Len(c) /\ Len(c) \in Nat
    BY SeqFacts
  <2>2. m.node[c[j]].prev = At(c, j - 1) /\ m.node[c[j]].next = At(c, j + 1)
    BY DEF Linked
  <2>3. ASSUME NEW a \in Nat PROVE c[j] = At(c, a) <=> j = a
    <3>1. c[j] # NULL
      BY <1>3, <2>1
    <3>2. QED
      BY <2>1, <3>1 DEF At, Distinct
  <2>4. i - 1 \in Nat /\ i + 1 \in Nat /\ i \in 1 .. Len(c)
    BY <1>1
  <2>5. (c[j] = At(c, i - 1) <=> j = i - 1) /\ (c[j] = At(c, i + 1) <=> j = i + 1)
    BY <2>3, <2>4
  <2>6. c[j] \in Elems(c) \ {c[i]}
    BY <1>6, <2>1, <2>4 DEF Distinct
  <2>7. /\ n.node[c[j]].next = IF c[j] = At(c, i - 1) THEN At(c, i + 1) ELSE m.node[c[j]].next
        /\ n.node[c[j]].prev = IF c[j] = At(c, i + 1) THEN At(c, i - 1) ELSE m.node[c[j]].prev
    BY <2>6 DEF Deletes
  <2>8. QED
    BY <1>6, <2>2, <2>5, <2>7
<1>7. CASE k < i
  <2>1. Place(k)
    BY <1>1, <1>6, <1>7
  <2>2. k \in Nat /\ k # i + 1 /\ k - 1 \in Nat /\ k - 1 < i /\ k + 1 \in Nat
    BY <1>1, <1>7
  <2>3. At(c, k - 1) = At(d, k - 1)
    BY <1>2, <2>2
  <2>4. CASE k = i - 1
    <3>1. k + 1 = i /\ ~ (k + 1 < i)
      BY <1>1, <2>4
    <3>2. At(d, k + 1) = At(c, i + 1)
      BY <1>2, <2>2, <3>1
    <3>3. QED
      BY <2>1, <2>2, <2>3, <2>4, <3>2
  <2>5. CASE k # i - 1
    <3>1. k + 1 < i
      BY <1>1, <1>7, <2>5
    <3>2. At(c, k + 1) = At(d, k + 1)
      BY <1>2, <2>2, <3>1
    <3>3. QED
      BY <2>1, <2>2, <2>3, <2>5, <3>2
  <2>6. QED
    BY <2>4, <2>5
<1>8. CASE k >= i
  <2>1. Place(k + 1)
    BY <1>1, <1>6, <1>8
  <2>2. k + 1 # i - 1 /\ (k + 1) + 1 = k + 2 /\ k \in Nat /\ (k + 1) - 1 = k /\ k + 1 \in Nat
        /\ ~ (k + 1 < i)
    <3>1. k \in Nat /\ i \in Nat /\ k >= i
      BY <1>1, <1>8
    <3>2. QED
      BY <3>1
  <2>3. At(d, k + 1) = At(c, k + 2)
    BY <1>2, <2>2
  <2>4. CASE k = i
    <3>1. i - 1 \in Nat /\ i - 1 < i /\ k + 1 = i + 1 /\ k - 1 = i - 1
      BY <1>1, <2>4
    <3>2. At(d, k - 1) = At(c, i - 1)
      BY <1>2, <3>1
    <3>3. QED
      BY <2>1, <2>2, <2>3, <3>1, <3>2
  <2>5. CASE k # i
    <3>1. k - 1 \in Nat /\ ~ (k - 1 < i) /\ (k - 1) + 1 = k /\ k + 1 # i + 1
      BY <1>1, <1>8, <2>5
    <3>2. At(d, k - 1) = At(c, k)
      BY <1>2, <3>1
    <3>3. QED
      BY <2>1, <2>2, <2>3, <3>1, <3>2
  <2>6. QED
    BY <2>4, <2>5
<1>9. QED
  BY <1>1, <1>7, <1>8

(* One node less, whose address is free.                                    *)
LEMMA DeletedMakes ==
  ASSUME NEW m, NEW ch, Mem(m, ch), NEW l \in List, m.list[l] # NULL,
         NEW i \in 1 .. Len(ch[l]), NEW n, Deletes(m, n, ch[l], l, i)
  PROVE  /\ Makes(m, n, ch, l, RemoveAt(ch[l], i))
         /\ n.list[l] # NULL /\ n.list[l].owns = m.list[l].owns
<1> DEFINE c == ch[l]
           d == RemoveAt(c, i)
           x == c[i]
<1>1. /\ m \in Memory /\ c \in Seq(Node) /\ Len(c) \in Nat /\ i \in Nat /\ i >= 1 /\ i <= Len(c)
      /\ m.list[l].head = At(c, 1) /\ m.list[l].tail = At(c, Len(c)) /\ m.list[l].len = Len(c)
      /\ Linked(m.node, c) /\ Distinct(c)
      /\ \A y \in Elems(c) : y \in Node /\ m.node[y] \in ListNode /\ m.node[y] # NULL
  BY ListFacts
<1>2. x \in Elems(c)
  BY <1>1, SeqFacts
<1>3. d \in Seq(Node) /\ Shortened(c, i, d)
  BY <1>1, RemoveIs
<1>4. Deletes(m, n, c, l, i)
  OBVIOUS
<1> HIDE DEF c, d
<1>5. Elems(c) = Elems(d) \union {x} /\ Distinct(d) /\ x \notin Elems(d)
  BY <1>1, <1>3, ShortSets
<1>6. Linked(n.node, d)
  BY <1>1, <1>3, <1>4, DeletedLinks
<1>7. Len(d) = Len(c) - 1
  BY <1>1, <1>3, ShortElements
<1>8. \A k \in Nat : At(d, k) = IF k < i THEN At(c, k) ELSE At(c, k + 1)
  BY <1>1, <1>3, ShortAt
<1>10. At(d, 1) = IF i = 1 THEN At(c, i + 1) ELSE At(c, 1)
  <2>1. 1 \in Nat /\ (1 < i <=> i # 1)
    BY <1>1
  <2>2. QED
    BY <1>8, <2>1
<1>11. At(d, Len(d)) = IF i = Len(c) THEN At(c, i - 1) ELSE At(c, Len(c))
  <2>1. Len(d) \in Nat /\ Len(d) + 1 = Len(c)
    BY <1>1, <1>7
  <2>2. CASE i = Len(c)
    <3>1. Len(d) < i /\ Len(d) = i - 1
      BY <1>1, <1>7, <2>2
    <3>2. QED
      BY <1>8, <2>1, <2>2, <3>1
  <2>3. CASE i # Len(c)
    <3>1. ~ (Len(d) < i)
      BY <1>1, <1>7, <2>3
    <3>2. QED
      BY <1>8, <2>1, <2>3, <3>1
  <2>4. QED
    BY <2>2, <2>3
<1>12. n.list[l] # NULL
  BY <1>4, NodeFacts DEF Deletes
<1>13. Headed(n.list[l], d)
  BY <1>1, <1>4, <1>7, <1>10, <1>11 DEF Deletes, Headed
<1>14. Chained(n, l, d)
  BY <1>5, <1>6, <1>12, <1>13 DEF Chained
<1>15. \A y \in Elems(d) : y \in Elems(c) \ {c[i]}
  BY <1>5
<1>16. Reshapes(m, n, ch, l, d)
  <2>1. n \in Memory /\ \A k \in List \ {l} : n.list[k] = m.list[k]
    BY <1>4 DEF Deletes
  <2>2. \A y \in Node : y \notin Elems(c) \union Elems(d) => n.node[y] = m.node[y]
    BY <1>4 DEF Deletes
  <2>3. \A y \in Elems(d) : n.node[y] # NULL /\ y \in Elems(c)
    BY <1>4, <1>15, NodeFacts DEF Deletes
  <2>4. \A y \in Elems(c) : y \notin Elems(d) => n.node[y] = NULL
    BY <1>4, <1>5 DEF Deletes
  <2>5. QED
    BY <1>3, <1>14, <2>1, <2>2, <2>3, <2>4 DEF Reshapes, c
<1>17. Counts(m, n, ch, l, d)
  <2>1. SUFFICES ASSUME NEW w \in Value
                 PROVE  n.refs[w] = m.refs[w] - Cardinality(Owned(m, l, c, w))
                                              + Cardinality(Owned(n, l, d, w))
    BY DEF Counts, c
  <2> DEFINE A == Owned(m, l, c, w)
             B == Owned(n, l, d, w)
             mine == w = m.node[x].value /\ m.list[l].owns
  <2>2. n.refs[w] = IF mine THEN m.refs[w] - 1 ELSE m.refs[w]
    <3>1. x \in Node /\ m.node[x] \in ListNode /\ n.refs = Released(m, l, x)
      BY <1>1, <1>2, <1>4 DEF Deletes
    <3>2. QED
      BY <1>1, <3>1, ReleasedIs
  <2>3. n.list[l].owns = m.list[l].owns
        /\ \A y \in Elems(d) : n.node[y].value = m.node[y].value
    BY <1>4, <1>15 DEF Deletes
  <2>4. B = A \ {x} /\ (x \in A <=> mine)
    <3>1. \A y \in Elems(d) : y \in A <=> y \in B
      BY <1>5, <1>12, <2>3 DEF Owned
    <3>2. x \in A <=> mine
      BY <1>2 DEF Owned
    <3>3. A \subseteq Elems(c) /\ B \subseteq Elems(d)
      BY DEF Owned
    <3> HIDE DEF A, B
    <3>4. QED
      BY <1>5, <3>1, <3>2, <3>3
  <2>5. IsFiniteSet(A) /\ Cardinality(A) \in Nat
    BY <1>1, OwnedFinite
  <2>6. m.refs[w] \in Int
    BY <1>1 DEF Memory
  <2> HIDE DEF A, B, mine, x
  <2>7. CASE mine
    <3>1. Cardinality(B) = Cardinality(A) - 1
      BY <2>4, <2>5, <2>7, FS_RemoveElement
    <3>2. QED
      BY <2>2, <2>5, <2>6, <2>7, <3>1 DEF A, B
  <2>8. CASE ~ mine
    <3>1. B = A /\ n.refs[w] = m.refs[w]
      BY <2>2, <2>4, <2>8
    <3>2. m.refs[w] = m.refs[w] - Cardinality(A) + Cardinality(A)
      BY <2>5, <2>6
    <3>3. QED
      BY <3>1, <3>2 DEF A, B
  <2>9. QED
    BY <2>7, <2>8
<1>18. \A y \in Elems(d) : y \in Elems(c) => n.node[y].value = m.node[y].value
  BY <1>4, <1>15 DEF Deletes
<1>19. Makes(m, n, ch, l, d)
  BY <1>16, <1>17, <1>18, Made DEF c
<1>20. QED
  BY <1>4, <1>12, <1>19 DEF Deletes, c, d

Shrunk(h, p, q, g) == g = [h EXCEPT !.head = p, !.tail = q, !.len = h.len - 1]

LEMMA HeaderShrunk ==
  ASSUME NEW h \in ListHeader, NEW p \in Pointer, NEW q \in Pointer, NEW g, Shrunk(h, p, q, g),
         h.len # 0
  PROVE  /\ g \in ListHeader /\ g.head = p /\ g.tail = q /\ g.len = h.len - 1 /\ g.owns = h.owns
<1>1. h.len - 1 \in Nat
  BY DEF ListHeader
<1> DEFINE k == h.len - 1
<1>2. g = [h EXCEPT !.head = p, !.tail = q, !.len = k] /\ k \in Nat
  BY <1>1 DEF Shrunk
<1> HIDE DEF k
<1>3. g \in ListHeader /\ g.head = p /\ g.tail = q /\ g.len = k /\ g.owns = h.owns
  BY <1>2 DEF ListHeader
<1>4. QED
  BY <1>3 DEF k

(* listDelNode takes out the node it is given.                              *)
LEMMA DelNodeDeletes ==
  ASSUME NEW m, NEW ch, Mem(m, ch), NEW l \in List, m.list[l] # NULL, NEW i \in 1 .. Len(ch[l])
  PROVE  Deletes(m, listDelNode(m, l, ch[l][i]), ch[l], l, i)
<1> DEFINE c == ch[l]
           h == m.list[l]
           x == c[i]
           p == m.node[x].prev
           q == m.node[x].next
           w == Link(m.node, p, q)
           node == [w EXCEPT ![x] = NULL]
           head == IF p = NULL THEN q ELSE h.head
           tail == IF q = NULL THEN p ELSE h.tail
           g == [h EXCEPT !.head = head, !.tail = tail, !.len = h.len - 1]
           n == listDelNode(m, l, x)
<1>1. /\ m \in Memory /\ c \in Seq(Node) /\ Len(c) \in Nat /\ Linked(m.node, c) /\ Distinct(c)
      /\ m.node \in [Node -> ListNode \union {NULL}] /\ m.list \in [List -> ListHeader \union {NULL}]
      /\ h \in ListHeader /\ h.head = At(c, 1) /\ h.tail = At(c, Len(c)) /\ h.len = Len(c)
      /\ \A k \in 1 .. Len(c) : c[k] \in Node /\ m.node[c[k]] \in ListNode /\ m.node[c[k]] # NULL
      /\ \A y \in Elems(c) : y \in Node /\ m.node[y] \in ListNode /\ m.node[y] # NULL
  BY ListFacts DEF Memory
<1>2. /\ NULL \notin Node /\ DOMAIN c = 1 .. Len(c) /\ x \in Elems(c) /\ x \in Node
      /\ i \in Nat /\ i - 1 \in Nat /\ i + 1 \in Nat /\ x = At(c, i)
  BY <1>1, NodeFacts, SeqFacts DEF At
<1>3. Changed(m, n, Released(m, l, x), node, l, g)
  BY <1>1 DEF listDelNode, ListHeader, Changed
<1>4. p = At(c, i - 1) /\ q = At(c, i + 1)
  BY <1>1 DEF Linked
<1>5. \A a, b \in Nat : At(c, a) = At(c, b) => a = b \/ At(c, a) = NULL
  BY <1>1, <1>2 DEF At, Distinct
<1> HIDE DEF x, p, q
<1>6. p \in Pointer /\ q \in Pointer /\ (p = q => p = NULL) /\ x # p /\ x # q
  <2>1. i + 1 # i - 1 /\ i # i - 1 /\ i # i + 1
    BY <1>2
  <2>2. QED
    BY <1>1, <1>2, <1>4, <1>5, <2>1, AtPointer
<1>7. /\ p \in Node => p \in Elems(c) /\ m.node[p] \in ListNode
      /\ q \in Node => q \in Elems(c) /\ m.node[q] \in ListNode
  BY <1>1, <1>2, <1>4 DEF At, Elems
<1>8. (p = NULL <=> i = 1) /\ (q = NULL <=> i = Len(c))
  <2>1. (i - 1 \in 1 .. Len(c) <=> i # 1) /\ (i + 1 \in 1 .. Len(c) <=> i # Len(c))
    BY <1>1, <1>2
  <2>2. \A k \in 1 .. Len(c) : c[k] # NULL
    BY <1>1, <1>2
  <2>3. QED
    BY <1>4, <2>1, <2>2 DEF At
<1>9. /\ head = (IF i = 1 THEN At(c, i + 1) ELSE h.head)
      /\ tail = (IF i = Len(c) THEN At(c, i - 1) ELSE h.tail)
  BY <1>4, <1>8
<1>10. head \in Pointer /\ tail \in Pointer
  BY <1>1, <1>6, AtPointer
<1> HIDE DEF head, tail
<1>11. /\ g \in ListHeader /\ g.head = head /\ g.tail = tail /\ g.len = h.len - 1 /\ g.owns = h.owns
  <2>1. Shrunk(h, head, tail, g)
    BY DEF Shrunk
  <2>2. h.len # 0
    BY <1>1
  <2>3. QED
    BY <1>1, <1>10, <2>1, <2>2, HeaderShrunk
<1>12. Relinks(m.node, p, q, w)
  BY DEF Relinks
<1>13. w \in [Node -> ListNode \union {NULL}]
  BY <1>1, <1>6, <1>7, LinkKeeps
<1> HIDE DEF g, c, n, w
<1>14. /\ \A y \in Node : y = p => NextSet(m.node[y], q, w[y])
       /\ \A y \in Node \ {p} : y = q => PrevSet(m.node[y], p, w[y])
       /\ \A y \in Node \ {p, q} : w[y] = m.node[y]
  BY <1>12, LinkIs
<1>15. /\ node \in [Node -> ListNode \union {NULL}] /\ node[x] = NULL
       /\ \A y \in Node \ {x} : node[y] = w[y]
  BY <1>2, <1>13
<1> HIDE DEF node
<1>16. Released(m, l, x) \in [Value -> Int]
  BY <1>1, <1>2, ReleasedIs
<1>17. /\ n \in Memory /\ n.refs = Released(m, l, x) /\ n.node = node
       /\ n.list[l] = g /\ \A k \in List \ {l} : n.list[k] = m.list[k]
  <2>1. g \in ListHeader \union {NULL} /\ m \in Memory /\ node \in [Node -> ListNode \union {NULL}]
    BY <1>1, <1>11, <1>15
  <2> HIDE DEF h
  <2>2. QED
    BY <1>3, <1>16, <2>1, MemoryChanged
<1>18. ASSUME NEW y \in Elems(c) \ {x}
       PROVE  /\ node[y] \in ListNode /\ node[y].value = m.node[y].value
              /\ node[y].next = IF y = p THEN q ELSE m.node[y].next
              /\ node[y].prev = IF y = q THEN p ELSE m.node[y].prev
  <2>1. y \in Node /\ y # x /\ m.node[y] \in ListNode /\ y # NULL /\ node[y] = w[y]
    BY <1>1, <1>2, <1>15
  <2>2. CASE y = p
    <3>1. NextSet(m.node[y], q, node[y]) /\ y # q
      BY <1>6, <1>14, <2>1, <2>2
    <3>2. QED
      BY <1>6, <2>1, <2>2, <3>1, NextRelinked
  <2>3. CASE y = q
    <3>1. PrevSet(m.node[y], p, node[y]) /\ y # p
      BY <1>6, <1>14, <2>1, <2>3
    <3>2. QED
      BY <1>6, <2>1, <2>3, <3>1, PrevRelinked
  <2>4. CASE y # p /\ y # q
    BY <1>14, <2>1, <2>4
  <2>5. QED
    BY <2>2, <2>3, <2>4
<1>19. \A y \in Node \ Elems(c) : node[y] = m.node[y]
  BY <1>2, <1>7, <1>14, <1>15
<1>20. Deletes(m, n, c, l, i)
  BY <1>4, <1>9, <1>11, <1>15, <1>17, <1>18, <1>19 DEF Deletes, x
<1>21. QED
  BY <1>20 DEF c, n, x

-------------------------------------------------------------------------------
(* Releasing and turning a list.                                            *)

(* listRelease frees the nodes it counts, which are all of the chain.       *)
LEMMA ReleaseMakes ==
  ASSUME NEW m, NEW ch, Mem(m, ch), NEW l \in List, m.list[l] # NULL
  PROVE  /\ Makes(m, listRelease(m, l), ch, l, <<>>)
         /\ listRelease(m, l).list[l] = NULL
<1> DEFINE c == ch[l]
           freed == Elems(c)
           held(v) == IF m.list[l].owns THEN {x \in freed : m.node[x].value = v} ELSE {}
           refs == [v \in Value |-> m.refs[v] - Cardinality(held(v))]
           node == [x \in Node |-> IF x \in freed THEN NULL ELSE m.node[x]]
           n == listRelease(m, l)
<1>1. /\ m \in Memory /\ c \in Seq(Node) /\ Len(c) \in Nat /\ m.list[l].len = Len(c)
      /\ m.node \in [Node -> ListNode \union {NULL}] /\ m.refs \in [Value -> Int]
  BY ListFacts
<1>2. Nodes(m, l) = c
  BY NodesAre DEF Mem
<1>3. Range(SubSeq(Nodes(m, l), 1, m.list[l].len)) = freed
  <2>1. SubSeq(c, 1, Len(c)) = c
    BY <1>1
  <2>2. QED
    BY <1>1, <1>2, <2>1 DEF Range, Elems
<1>4. \A v \in Value : held(v) = Owned(m, l, c, v)
  BY DEF Owned
<1>5. Changed(m, n, refs, node, l, NULL)
  BY <1>3 DEF listRelease, Changed
<1> HIDE DEF c, freed, held, n
<1>6. \A v \in Value : refs[v] = m.refs[v] - Cardinality(held(v))
  OBVIOUS
<1>7. refs \in [Value -> Int]
  <2>1. \A v \in Value : Cardinality(held(v)) \in Nat /\ m.refs[v] \in Int
    BY <1>1, <1>4, OwnedFinite
  <2>2. QED
    BY <2>1
<1>8. /\ node \in [Node -> ListNode \union {NULL}]
      /\ \A x \in freed : x \in Node => node[x] = NULL
      /\ \A x \in Node \ freed : node[x] = m.node[x]
  BY <1>1
<1> HIDE DEF refs, node
<1>9. /\ n \in Memory /\ n.refs = refs /\ n.node = node
      /\ n.list[l] = NULL /\ \A k \in List \ {l} : n.list[k] = m.list[k]
  <2>1. NULL \in ListHeader \union {NULL} /\ m \in Memory
    BY <1>1
  <2>2. QED
    BY <1>5, <1>7, <1>8, <2>1, MemoryChanged
<1>10. Elems(<<>>) = {} /\ Len(<<>>) = 0 /\ <<>> \in Seq(Node) /\ DOMAIN <<>> = {}
  BY DEF Elems
<1>11. Chained(n, l, <<>>)
  BY <1>9, <1>10 DEF Chained, Distinct
<1>12. Elems(c) \subseteq Node
  BY <1>1, SeqFacts
<1>13. Reshapes(m, n, ch, l, <<>>)
  BY <1>8, <1>9, <1>10, <1>11, <1>12 DEF Reshapes, freed, c
<1>14. Counts(m, n, ch, l, <<>>)
  <2>1. SUFFICES ASSUME NEW v \in Value
                 PROVE  n.refs[v] = m.refs[v] - Cardinality(Owned(m, l, c, v))
                                              + Cardinality(Owned(n, l, <<>>, v))
    BY DEF Counts, c
  <2>2. Owned(n, l, <<>>, v) = {}
    BY <1>10 DEF Owned
  <2>3. Cardinality({}) = 0
    BY FS_EmptySet
  <2>4. Cardinality(Owned(m, l, c, v)) \in Nat /\ m.refs[v] \in Int
    BY <1>1, OwnedFinite
  <2>5. n.refs[v] = m.refs[v] - Cardinality(Owned(m, l, c, v))
    BY <1>4, <1>6, <1>9
  <2>6. m.refs[v] - Cardinality(Owned(m, l, c, v)) = m.refs[v] - Cardinality(Owned(m, l, c, v)) + 0
    BY <2>4
  <2>7. Cardinality(Owned(n, l, <<>>, v)) = 0
    BY <2>2, <2>3
  <2>8. QED
    BY <2>5, <2>6, <2>7
<1>15. Makes(m, n, ch, l, <<>>)
  BY <1>10, <1>13, <1>14, Made
<1>16. QED
  BY <1>9, <1>15 DEF n

(* d is c with its last element in front.                                   *)
Turns(c, d) ==
  /\ Len(d) = Len(c)
  /\ \A k \in 1 .. Len(c) : d[k] = IF k = 1 THEN c[Len(c)] ELSE c[k - 1]

(* There is one such sequence.                                              *)
LEMMA TurnIs ==
  ASSUME NEW S, NEW c \in Seq(S), c # <<>>
  PROVE  /\ <<Last(c)>> \o Front(c) \in Seq(S)
         /\ Turns(c, <<Last(c)>> \o Front(c))
         /\ Len(c) >= 1
<1>1. Len(c) \in Nat /\ Len(c) >= 1
  BY EmptySeq
<1> DEFINE a == <<Last(c)>>
           b == Front(c)
<1>2. a \in Seq(S) /\ Len(a) = 1 /\ a[1] = c[Len(c)]
  BY <1>1 DEF Last
<1>3. b \in Seq(S) /\ Len(b) = Len(c) - 1 /\ \A k \in 1 .. (Len(c) - 1) : b[k] = c[k]
  <2>0. Len(c) - 1 \in Nat /\ Len(c) - 1 <= Len(c)
    BY <1>1
  <2>1. PICK p \in Nat : p = Len(c) - 1 /\ p <= Len(c)
    BY <2>0
  <2>2. b = SubSeq(c, 1, p)
    BY <2>1 DEF Front
  <2> HIDE DEF b
  <2>3. b \in Seq(S) /\ Len(b) = p /\ \A k \in 1 .. p : b[k] = c[k]
    BY <2>1, <2>2
  <2>4. QED
    BY <2>1, <2>3
<1> HIDE DEF a, b
<1> DEFINE d == a \o b
<1>4. d \in Seq(S) /\ Len(d) = 1 + (Len(c) - 1) /\ d[1] = a[1]
      /\ \A k \in 1 .. (Len(c) - 1) : d[1 + k] = b[k]
  <2>1. /\ d \in Seq(S) /\ Len(d) = Len(a) + Len(b) /\ \A k \in 1 .. Len(a) : d[k] = a[k]
        /\ \A k \in 1 .. Len(b) : d[Len(a) + k] = b[k]
    <3>1. a \in Seq(S) /\ b \in Seq(S)
      BY <1>2, <1>3
    <3>2. QED
      BY <3>1, ConcatFacts
  <2>2. Len(a) = 1 /\ Len(b) = Len(c) - 1 /\ 1 \in 1 .. 1
    BY <1>2, <1>3
  <2> HIDE DEF d
  <2>3. \A k \in 1 .. (Len(c) - 1) : d[1 + k] = b[k]
    BY <2>1, <2>2
  <2>4. QED
    BY <2>1, <2>2, <2>3
<1> HIDE DEF d
<1>5. Len(d) = Len(c)
  BY <1>1, <1>4
<1>6. ASSUME NEW k \in 1 .. Len(c) PROVE d[k] = IF k = 1 THEN c[Len(c)] ELSE c[k - 1]
  <2>1. CASE k = 1
    BY <1>2, <1>4, <2>1
  <2>2. CASE k # 1
    <3>1. k - 1 \in 1 .. (Len(c) - 1) /\ 1 + (k - 1) = k
      BY <1>1, <2>2
    <3>2. d[1 + (k - 1)] = b[k - 1] /\ b[k - 1] = c[k - 1]
      BY <1>3, <1>4, <3>1
    <3>3. QED
      BY <2>2, <3>1, <3>2
  <2>3. QED
    BY <2>1, <2>2
<1>7. Turns(c, d)
  BY <1>5, <1>6 DEF Turns
<1>8. QED
  BY <1>1, <1>4, <1>7 DEF d, a, b

LEMMA TurnedElements ==
  ASSUME NEW S, NEW c \in Seq(S), NEW d \in Seq(S), Turns(c, d)
  PROVE  Elems(d) = Elems(c) /\ (Distinct(c) => Distinct(d))
<1>1. Len(c) \in Nat /\ Len(d) = Len(c) /\ DOMAIN c = 1 .. Len(c) /\ DOMAIN d = 1 .. Len(c)
  BY DEF Turns
<1> DEFINE From(k) == IF k = 1 THEN Len(c) ELSE k - 1
<1>2. ASSUME NEW k \in 1 .. Len(c) PROVE From(k) \in 1 .. Len(c) /\ d[k] = c[From(k)]
  <2>1. From(k) \in 1 .. Len(c)
    BY <1>1
  <2>2. QED
    BY <2>1 DEF Turns
<1>3. ASSUME NEW k \in 1 .. Len(c) PROVE \E j \in 1 .. Len(c) : From(j) = k
  <2>1. CASE k = Len(c)
    <3>1. 1 \in 1 .. Len(c) /\ From(1) = k
      BY <1>1, <2>1
    <3>2. QED
      BY <3>1
  <2>2. CASE k # Len(c)
    <3>1. Len(c) \in Nat /\ k \in Nat /\ k >= 1 /\ k <= Len(c)
      BY <1>1
    <3>2. k + 1 \in 1 .. Len(c) /\ k + 1 # 1 /\ (k + 1) - 1 = k
      BY <2>2, <3>1
    <3>3. QED
      BY <3>2
  <2>3. QED
    BY <2>1, <2>2
<1>4. \A j, k \in 1 .. Len(c) : From(j) = From(k) => j = k
  BY <1>1
<1> HIDE DEF From
<1>5. Elems(d) \subseteq Elems(c)
  BY <1>1, <1>2 DEF Elems
<1>6. Elems(c) \subseteq Elems(d)
  <2>1. ASSUME NEW k \in 1 .. Len(c) PROVE c[k] \in Elems(d)
    <3>1. PICK j \in 1 .. Len(c) : From(j) = k
      BY <1>3
    <3>2. d[j] = c[k]
      BY <1>2, <3>1
    <3>3. j \in 1 .. Len(d)
      BY <1>1
    <3>4. d[j] \in Elems(d)
      BY <3>3, SeqFacts
    <3>5. QED
      BY <3>2, <3>4
  <2>2. QED
    BY <1>1, <2>1 DEF Elems
<1>7. ASSUME Distinct(c), NEW j \in 1 .. Len(c), NEW k \in 1 .. Len(c), d[j] = d[k] PROVE j = k
  <2>1. c[From(j)] = c[From(k)] /\ From(j) \in 1 .. Len(c) /\ From(k) \in 1 .. Len(c)
    BY <1>2, <1>7
  <2>2. From(j) = From(k)
    BY <1>1, <1>7, <2>1 DEF Distinct
  <2>3. QED
    BY <1>4, <2>2
<1>8. QED
  BY <1>1, <1>5, <1>6, <1>7 DEF Distinct

(* n is m with the last node of list l in front.                            *)
Rotates(m, n, c, l) ==
  /\ n \in Memory
  /\ n.refs = m.refs
  /\ \A k \in List \ {l} : n.list[k] = m.list[k]
  /\ n.list[l] \in ListHeader /\ n.list[l].owns = m.list[l].owns
  /\ n.list[l].head = c[Len(c)] /\ n.list[l].tail = c[Len(c) - 1] /\ n.list[l].len = Len(c)
  /\ \A y \in Elems(c) :
       /\ n.node[y] \in ListNode /\ n.node[y].value = m.node[y].value
       /\ n.node[y].next = IF y = c[Len(c)] THEN c[1]
                           ELSE IF y = c[Len(c) - 1] THEN NULL ELSE m.node[y].next
       /\ n.node[y].prev = IF y = c[Len(c)] THEN NULL
                           ELSE IF y = c[1] THEN c[Len(c)] ELSE m.node[y].prev
  /\ \A y \in Node \ Elems(c) : n.node[y] = m.node[y]

(* The last node comes before what was the first.                           *)
LEMMA RotatedLinks ==
  ASSUME NEW m, NEW n, NEW c \in Seq(Node), NEW l, NEW d \in Seq(Node), Turns(c, d), Distinct(c),
         Len(c) >= 2, Linked(m.node, c), Rotates(m, n, c, l)
  PROVE  Linked(n.node, d)
<1>1. Len(c) \in Nat /\ Len(c) >= 2 /\ Len(d) = Len(c) /\ DOMAIN c = 1 .. Len(c)
  BY DEF Turns
<1>2. \A k \in 1 .. Len(c) : d[k] = IF k = 1 THEN c[Len(c)] ELSE c[k - 1]
  BY DEF Turns
<1>3. 1 \in 1 .. Len(c) /\ 2 \in 1 .. Len(c) /\ Len(c) - 1 \in 1 .. Len(c) /\ Len(c) \in 1 .. Len(c)
      /\ 2 - 1 = 1
  BY <1>1
<1>4. \A j, k \in 1 .. Len(c) : c[j] = c[k] => j = k
  BY <1>1 DEF Distinct
<1>5. SUFFICES ASSUME NEW k \in 1 .. Len(c)
               PROVE  n.node[d[k]].prev = At(d, k - 1) /\ n.node[d[k]].next = At(d, k + 1)
  BY <1>1 DEF Linked
<1>6. ASSUME NEW j \in 1 .. Len(c), d[k] = c[j]
      PROVE  /\ n.node[d[k]].next = IF j = Len(c) THEN c[1]
                                    ELSE IF j = Len(c) - 1 THEN NULL ELSE At(c, j + 1)
             /\ n.node[d[k]].prev = IF j = Len(c) THEN NULL
                                    ELSE IF j = 1 THEN c[Len(c)] ELSE At(c, j - 1)
  <2>1. c[j] \in Elems(c)
    BY SeqFacts
  <2>2. m.node[c[j]].prev = At(c, j - 1) /\ m.node[c[j]].next = At(c, j + 1)
    BY DEF Linked
  <2>3. /\ n.node[c[j]].next = IF c[j] = c[Len(c)] THEN c[1]
                               ELSE IF c[j] = c[Len(c) - 1] THEN NULL ELSE m.node[c[j]].next
        /\ n.node[c[j]].prev = IF c[j] = c[Len(c)] THEN NULL
                               ELSE IF c[j] = c[1] THEN c[Len(c)] ELSE m.node[c[j]].prev
    BY <2>1 DEF Rotates
  <2>4. (c[j] = c[Len(c)] <=> j = Len(c)) /\ (c[j] = c[Len(c) - 1] <=> j = Len(c) - 1)
        /\ (c[j] = c[1] <=> j = 1)
    BY <1>3, <1>4
  <2>5. QED
    BY <1>6, <2>2, <2>3, <2>4
<1>7. CASE k = 1
  <2>1. d[k] = c[Len(c)] /\ d[2] = c[1]
    BY <1>2, <1>3, <1>7
  <2>2. n.node[d[k]].next = c[1] /\ n.node[d[k]].prev = NULL
    BY <1>3, <1>6, <2>1
  <2>3. At(d, k - 1) = NULL /\ At(d, k + 1) = d[2]
    BY <1>1, <1>3, <1>7 DEF At
  <2>4. QED
    BY <2>1, <2>2, <2>3
<1>8. CASE k # 1
  <2>1. k - 1 \in 1 .. Len(c) /\ k - 1 # Len(c) /\ (k - 1) + 1 = k /\ (k - 1) - 1 = k - 2
        /\ (k - 1 = Len(c) - 1 <=> k = Len(c)) /\ (k - 1 = 1 <=> k = 2)
    BY <1>1, <1>8
  <2>2. d[k] = c[k - 1]
    BY <1>2, <1>8
  <2>3. /\ n.node[d[k]].next = IF k = Len(c) THEN NULL ELSE At(c, k)
        /\ n.node[d[k]].prev = IF k = 2 THEN c[Len(c)] ELSE At(c, k - 2)
    BY <1>6, <2>1, <2>2
  <2>4. At(d, k + 1) = IF k = Len(c) THEN NULL ELSE At(c, k)
    <3>1. CASE k = Len(c)
      <4>1. k + 1 \notin 1 .. Len(d)
        BY <1>1, <3>1
      <4>2. QED
        BY <3>1, <4>1 DEF At
    <3>2. CASE k # Len(c)
      <4>1. k + 1 \in 1 .. Len(c) /\ k + 1 # 1 /\ (k + 1) - 1 = k
        BY <1>1, <3>2
      <4>2. QED
        BY <1>1, <1>2, <3>2, <4>1 DEF At
    <3>3. QED
      BY <3>1, <3>2
  <2>5. At(d, k - 1) = IF k = 2 THEN c[Len(c)] ELSE At(c, k - 2)
    <3>1. At(d, k - 1) = d[k - 1]
      BY <1>1, <2>1 DEF At
    <3>2. CASE k = 2
      BY <1>2, <2>1, <3>1, <3>2
    <3>3. CASE k # 2
      <4>1. k - 1 # 1 /\ k - 2 \in 1 .. Len(c)
        BY <1>1, <1>8, <3>3
      <4>2. QED
        BY <1>2, <2>1, <3>1, <3>3, <4>1 DEF At
    <3>4. QED
      BY <3>2, <3>3
  <2>6. QED
    BY <2>3, <2>4, <2>5
<1>9. QED
  BY <1>7, <1>8

LEMMA RotatedMakes ==
  ASSUME NEW m, NEW ch, Mem(m, ch), NEW l \in List, m.list[l] # NULL, Len(ch[l]) >= 2,
         NEW n, Rotates(m, n, ch[l], l), NEW d \in Seq(Node), Turns(ch[l], d)
  PROVE  Makes(m, n, ch, l, d) /\ n.list[l] # NULL
<1> DEFINE c == ch[l]
<1>1. /\ m \in Memory /\ c \in Seq(Node) /\ Len(c) \in Nat /\ Linked(m.node, c) /\ Distinct(c)
  BY ListFacts
<1>2. Rotates(m, n, c, l) /\ Turns(c, d) /\ Len(c) >= 2
  OBVIOUS
<1> HIDE DEF c
<1>3. Elems(d) = Elems(c) /\ Distinct(d)
  BY <1>1, <1>2, TurnedElements
<1>4. Linked(n.node, d)
  BY <1>1, <1>2, RotatedLinks
<1>5. n.list[l] # NULL
  BY <1>2, NodeFacts DEF Rotates
<1>6. Headed(n.list[l], d)
  <2>1. Len(d) = Len(c) /\ 1 \in 1 .. Len(c) /\ Len(c) \in 1 .. Len(c) /\ Len(c) # 1
    BY <1>1, <1>2 DEF Turns
  <2>2. d[1] = c[Len(c)] /\ d[Len(c)] = c[Len(c) - 1]
    BY <1>2, <2>1 DEF Turns
  <2>3. QED
    BY <1>2, <2>1, <2>2 DEF Rotates, Headed, At
<1>7. Chained(n, l, d)
  BY <1>3, <1>4, <1>5, <1>6 DEF Chained
<1>8. Reshapes(m, n, ch, l, d)
  <2>1. n \in Memory /\ \A k \in List \ {l} : n.list[k] = m.list[k]
    BY <1>2 DEF Rotates
  <2>2. \A y \in Node : y \notin Elems(c) \union Elems(d) => n.node[y] = m.node[y]
    BY <1>2 DEF Rotates
  <2>3. \A y \in Elems(d) : n.node[y] # NULL
    BY <1>2, <1>3, NodeFacts DEF Rotates
  <2>4. QED
    BY <1>3, <1>7, <2>1, <2>2, <2>3 DEF Reshapes, c
<1>9. Counts(m, n, ch, l, d)
  <2>1. SUFFICES ASSUME NEW v \in Value
                 PROVE  n.refs[v] = m.refs[v] - Cardinality(Owned(m, l, c, v))
                                              + Cardinality(Owned(n, l, d, v))
    BY DEF Counts, c
  <2>2. n.list[l].owns = m.list[l].owns /\ \A y \in Elems(c) : n.node[y].value = m.node[y].value
    BY <1>2 DEF Rotates
  <2>3. Owned(n, l, d, v) = Owned(m, l, c, v)
    BY <1>3, <1>5, <2>2 DEF Owned
  <2>4. Cardinality(Owned(m, l, c, v)) \in Nat /\ m.refs[v] \in Int
    BY <1>1, OwnedFinite DEF Memory
  <2>5. n.refs = m.refs
    BY <1>2 DEF Rotates
  <2>6. QED
    BY <2>3, <2>4, <2>5
<1>10. \A y \in Elems(d) : y \in Elems(c) => n.node[y].value = m.node[y].value
  BY <1>2 DEF Rotates
<1>11. QED
  BY <1>5, <1>8, <1>9, <1>10, Made DEF c

BothSet(r, p, q, s) == s = [r EXCEPT !.prev = p, !.next = q]

LEMMA BothRelinked ==
  ASSUME NEW r \in ListNode, NEW p \in Pointer, NEW q \in Pointer, NEW s, BothSet(r, p, q, s)
  PROVE  s \in ListNode /\ s.prev = p /\ s.next = q /\ s.value = r.value
BY DEF ListNode, BothSet

FrontSet(w, h, last, z) ==
  z = [w EXCEPT ![h].prev = last, ![last].prev = NULL, ![last].next = h]

LastFirst(node, z, h, p, last) ==
  /\ \A y \in {h, p, last} :
       /\ z[y] \in ListNode /\ z[y].value = node[y].value
       /\ z[y].next = IF y = last THEN h ELSE IF y = p THEN NULL ELSE node[y].next
       /\ z[y].prev = IF y = last THEN NULL ELSE IF y = h THEN last ELSE node[y].prev
  /\ \A y \in Node \ {h, p, last} : z[y] = node[y]

(* The nodes of listRotate: the last is put in front of the first.          *)
LEMMA RotatedNodes ==
  ASSUME NEW node \in [Node -> ListNode \union {NULL}], NEW h \in Node, NEW p \in Node,
         NEW last \in Node, node[h] \in ListNode, node[p] \in ListNode, node[last] \in ListNode,
         h # last, p # last,
         NEW w \in [Node -> ListNode \union {NULL}],
         NextSet(node[p], NULL, w[p]), \A y \in Node \ {p} : w[y] = node[y],
         NEW z, FrontSet(w, h, last, z)
  PROVE  z \in [Node -> ListNode \union {NULL}] /\ LastFirst(node, z, h, p, last)
<1>1. last \in Pointer /\ h \in Pointer /\ NULL \in Pointer
  BY DEF Pointer
<1>2. w[p] \in ListNode /\ w[p].next = NULL /\ w[p].prev = node[p].prev /\ w[p].value = node[p].value
  BY <1>1, NextRelinked
<1>3. w[h] \in ListNode /\ w[h].value = node[h].value /\ w[last] = node[last]
      /\ w[h].next = (IF h = p THEN NULL ELSE node[h].next)
  BY <1>2
<1>4. /\ PrevSet(w[h], last, z[h]) /\ BothSet(w[last], NULL, h, z[last])
      /\ \A y \in Node \ {h, last} : z[y] = w[y]
      /\ z = [y \in Node |-> z[y]]
  BY DEF FrontSet, PrevSet, BothSet
<1>5. /\ z[h] \in ListNode /\ z[h].prev = last /\ z[h].next = w[h].next /\ z[h].value = w[h].value
  BY <1>1, <1>3, <1>4, PrevRelinked
<1>6. /\ z[last] \in ListNode /\ z[last].prev = NULL /\ z[last].next = h
      /\ z[last].value = node[last].value
  BY <1>1, <1>3, <1>4, BothRelinked
<1>7. \A y \in Node : z[y] \in ListNode \union {NULL}
  BY <1>4, <1>5, <1>6
<1>8. z \in [Node -> ListNode \union {NULL}]
  BY <1>4, <1>7
<1>9. z[p] \in ListNode /\ z[p].value = node[p].value /\ z[p].next = NULL
      /\ z[p].prev = (IF p = h THEN last ELSE node[p].prev)
  BY <1>2, <1>4, <1>5
<1>10. ASSUME NEW y \in {h, p, last}
       PROVE  /\ z[y] \in ListNode /\ z[y].value = node[y].value
              /\ z[y].next = IF y = last THEN h ELSE IF y = p THEN NULL ELSE node[y].next
              /\ z[y].prev = IF y = last THEN NULL ELSE IF y = h THEN last ELSE node[y].prev
  <2>1. CASE y = last
    BY <1>6, <2>1
  <2>2. CASE y = p /\ y # last
    BY <1>9, <2>2
  <2>3. CASE y = h /\ y # p /\ y # last
    BY <1>3, <1>5, <2>3
  <2>4. QED
    BY <2>1, <2>2, <2>3
<1>11. \A y \in Node \ {h, p, last} : z[y] = node[y]
  BY <1>4
<1>12. QED
  BY <1>8, <1>10, <1>11 DEF LastFirst

(* listRotate, with two nodes or more.                                      *)
LEMMA RotateRotates ==
  ASSUME NEW m, NEW ch, Mem(m, ch), NEW l \in List, m.list[l] # NULL, Len(ch[l]) >= 2
  PROVE  Rotates(m, listRotate(m, l), ch[l], l)
<1> DEFINE c == ch[l]
           h == m.list[l]
           last == h.tail
           p == m.node[last].prev
           w == [m.node EXCEPT ![p].next = NULL]
           node == [w EXCEPT ![h.head].prev = last, ![last].prev = NULL, ![last].next = h.head]
           g == [h EXCEPT !.tail = p, !.head = last]
           n == listRotate(m, l)
<1>1. /\ m \in Memory /\ c \in Seq(Node) /\ Len(c) \in Nat /\ Linked(m.node, c) /\ Distinct(c)
      /\ m.node \in [Node -> ListNode \union {NULL}] /\ m.refs \in [Value -> Int]
      /\ h \in ListHeader /\ h.head = At(c, 1) /\ h.tail = At(c, Len(c)) /\ h.len = Len(c)
      /\ \A k \in 1 .. Len(c) : c[k] \in Node /\ m.node[c[k]] \in ListNode /\ m.node[c[k]] # NULL
      /\ \A y \in Elems(c) : y \in Node /\ m.node[y] \in ListNode /\ m.node[y] # NULL
  BY ListFacts
<1>2. /\ Len(c) >= 2 /\ 1 \in 1 .. Len(c) /\ Len(c) \in 1 .. Len(c) /\ Len(c) - 1 \in 1 .. Len(c)
      /\ DOMAIN c = 1 .. Len(c) /\ ~ (Len(c) <= 1) /\ 1 # Len(c) /\ Len(c) - 1 # Len(c)
  BY <1>1
<1>3. h.head = c[1] /\ last = c[Len(c)] /\ p = c[Len(c) - 1]
  <2>1. h.head = c[1] /\ last = c[Len(c)]
    BY <1>1, <1>2 DEF At
  <2>2. m.node[c[Len(c)]].prev = At(c, Len(c) - 1)
    BY <1>1, <1>2 DEF Linked
  <2>3. QED
    BY <1>2, <2>1, <2>2 DEF At
<1>4. Changed(m, n, m.refs, node, l, g)
  <2>1. n = [m EXCEPT !.node = node, !.list[l] = [h EXCEPT !.tail = p, !.head = last]]
    BY <1>1, <1>2 DEF listRotate
  <2> HIDE DEF node, h
  <2>2. QED
    BY <1>1, <2>1 DEF Memory, Changed
<1>5. /\ h.head \in Node /\ last \in Node /\ p \in Node /\ h.head # last /\ p # last
      /\ m.node[h.head] \in ListNode /\ m.node[last] \in ListNode /\ m.node[p] \in ListNode
      /\ {h.head, p, last} \subseteq Elems(c)
  <2>1. c[1] # c[Len(c)] /\ c[Len(c) - 1] # c[Len(c)]
    BY <1>2, <1>1 DEF Distinct
  <2>2. {c[1], c[Len(c) - 1], c[Len(c)]} \subseteq Elems(c)
    BY <1>2 DEF Elems
  <2> HIDE DEF last, p, h, c
  <2>3. QED
    BY <1>1, <1>2, <1>3, <2>1, <2>2
<1>6. /\ w \in [Node -> ListNode \union {NULL}] /\ NextSet(m.node[p], NULL, w[p])
      /\ \A y \in Node \ {p} : w[y] = m.node[y]
  <2>1. [m.node[p] EXCEPT !.next = NULL] \in ListNode
    BY <1>5 DEF ListNode, Pointer
  <2> HIDE DEF p
  <2>2. QED
    BY <1>1, <1>5, <2>1 DEF NextSet
<1>7. g \in ListHeader /\ g.head = last /\ g.tail = p /\ g.len = h.len /\ g.owns = h.owns
  <2>1. last \in Pointer /\ p \in Pointer
    BY <1>5 DEF Pointer
  <2> HIDE DEF h, last, p
  <2>2. QED
    BY <1>1, <2>1 DEF ListHeader
<1>8. FrontSet(w, h.head, last, node)
  BY DEF FrontSet
<1> HIDE DEF w, node, p, last, g, c, n
<1>9. /\ node \in [Node -> ListNode \union {NULL}]
      /\ \A y \in {h.head, p, last} :
           /\ node[y] \in ListNode /\ node[y].value = m.node[y].value
           /\ node[y].next = IF y = last THEN h.head ELSE IF y = p THEN NULL ELSE m.node[y].next
           /\ node[y].prev = IF y = last THEN NULL ELSE IF y = h.head THEN last ELSE m.node[y].prev
      /\ \A y \in Node \ {h.head, p, last} : node[y] = m.node[y]
  <2> DEFINE first == h.head
  <2>1. /\ m.node \in [Node -> ListNode \union {NULL}] /\ w \in [Node -> ListNode \union {NULL}]
        /\ first \in Node /\ last \in Node /\ p \in Node /\ first # last /\ p # last
        /\ m.node[first] \in ListNode /\ m.node[last] \in ListNode /\ m.node[p] \in ListNode
        /\ NextSet(m.node[p], NULL, w[p]) /\ \A y \in Node \ {p} : w[y] = m.node[y]
        /\ FrontSet(w, first, last, node)
    BY <1>1, <1>5, <1>6, <1>8
  <2> HIDE DEF first
  <2>2. node \in [Node -> ListNode \union {NULL}] /\ LastFirst(m.node, node, first, p, last)
    BY <2>1, RotatedNodes
  <2>3. QED
    BY <2>2 DEF first, LastFirst
<1>10. /\ n \in Memory /\ n.refs = m.refs /\ n.node = node
       /\ n.list[l] = g /\ \A k \in List \ {l} : n.list[k] = m.list[k]
  <2>1. g \in ListHeader \union {NULL} /\ m \in Memory /\ node \in [Node -> ListNode \union {NULL}]
        /\ m.refs \in [Value -> Int]
    BY <1>1, <1>7, <1>9
  <2> HIDE DEF h
  <2>2. QED
    BY <1>4, <2>1, MemoryChanged
<1>11. ASSUME NEW y \in Elems(c)
       PROVE  /\ node[y] \in ListNode /\ node[y].value = m.node[y].value
              /\ node[y].next = IF y = last THEN h.head ELSE IF y = p THEN NULL ELSE m.node[y].next
              /\ node[y].prev = IF y = last THEN NULL ELSE IF y = h.head THEN last ELSE m.node[y].prev
  <2>1. y \in Node /\ m.node[y] \in ListNode
    BY <1>1
  <2> HIDE DEF h
  <2>2. CASE y \in {h.head, p, last}
    BY <1>9, <2>2
  <2>3. CASE y \notin {h.head, p, last}
    BY <1>9, <2>1, <2>3
  <2>4. QED
    BY <2>2, <2>3
<1>12. \A y \in Node \ Elems(c) : node[y] = m.node[y]
  BY <1>5, <1>9
<1>13. Rotates(m, n, c, l)
  BY <1>1, <1>3, <1>7, <1>10, <1>11, <1>12 DEF Rotates
<1>14. QED
  BY <1>13 DEF c, n

-------------------------------------------------------------------------------
(* Copying a list.                                                          *)

CopyStep(m, l, c, fresh, i, n) ==
  listAddNodeTail(n, c, m.node[Nodes(m, l)[i]].value, fresh[i])

Copying(m, l, c, fresh, k, f) ==
  f = [i \in 0 .. k |-> IF i = 0 THEN listCreate(m, c, m.list[l].owns)
                        ELSE CopyStep(m, l, c, fresh, i, f[i - 1])]

(* The copies of the first 0, 1, 2, ... nodes exist as a function.          *)
LEMMA CopyingFurther ==
  ASSUME NEW m, NEW l, NEW c, NEW fresh, NEW k \in Nat, NEW f, Copying(m, l, c, fresh, k, f)
  PROVE  \E g : Copying(m, l, c, fresh, k + 1, g)
<1> DEFINE base == listCreate(m, c, m.list[l].owns)
           g == [i \in 0 .. k + 1 |-> IF i \in 0 .. k THEN f[i]
                                      ELSE CopyStep(m, l, c, fresh, i, f[i - 1])]
           r == [i \in 0 .. k + 1 |-> IF i = 0 THEN base
                                      ELSE CopyStep(m, l, c, fresh, i, g[i - 1])]
<1>1. \A i \in 0 .. k : f[i] = IF i = 0 THEN base ELSE CopyStep(m, l, c, fresh, i, f[i - 1])
  BY DEF Copying
<1>2. ASSUME NEW i \in 0 .. k + 1 PROVE g[i] = r[i]
  <2>1. CASE i = 0
    BY <1>1, <2>1
  <2>2. CASE i # 0
    <3>1. i - 1 \in 0 .. k /\ i - 1 \in 0 .. k + 1
      BY <2>2
    <3>2. g[i - 1] = f[i - 1]
      BY <3>1
    <3>3. r[i] = CopyStep(m, l, c, fresh, i, f[i - 1])
      BY <2>2, <3>2
    <3>4. g[i] = CopyStep(m, l, c, fresh, i, f[i - 1])
      BY <1>1, <2>2
    <3>5. QED
      BY <3>3, <3>4
  <2>3. QED
    BY <2>1, <2>2
<1>3. g = r
  BY <1>2
<1>4. Copying(m, l, c, fresh, k + 1, g)
  BY <1>3 DEF Copying
<1>5. QED
  BY <1>4

LEMMA CopyingExists ==
  ASSUME NEW m, NEW l, NEW c, NEW fresh, NEW k \in Nat
  PROVE  \E f : Copying(m, l, c, fresh, k, f)
<1> DEFINE T == {j \in Nat : \E f : Copying(m, l, c, fresh, j, f)}
<1>1. 0 \in T
  <2> DEFINE f == [i \in 0 .. 0 |-> listCreate(m, c, m.list[l].owns)]
  <2>1. Copying(m, l, c, fresh, 0, f)
    BY DEF Copying
  <2>2. QED
    BY <2>1
<1>2. \A n \in Nat : n \in T => n + 1 \in T
  BY CopyingFurther
<1>3. Nat \subseteq T
  <2> HIDE DEF T
  <2>1. QED
    BY <1>1, <1>2, Induct
<1>4. QED
  BY <1>3

LEMMA CopiedIs ==
  ASSUME NEW m, NEW l, NEW c, NEW fresh, NEW k \in Nat
  PROVE  \E f : Copying(m, l, c, fresh, k, f) /\ Copied(m, l, c, fresh, k) = f[k]
<1> DEFINE f == CHOOSE f : Copying(m, l, c, fresh, k, f)
<1>1. Copying(m, l, c, fresh, k, f)
  BY CopyingExists
<1>2. Copied(m, l, c, fresh, k) = f[k]
  BY DEF Copied, Copying, CopyStep
<1>3. QED
  BY <1>1, <1>2

Replaces(ch, c, s, d) == d = [ch EXCEPT ![c] = s]

(* A list that was empty is made twice: the second time counts.             *)
LEMMA MadeTwice ==
  ASSUME NEW m, NEW n, NEW o, NEW ch, NEW c \in List, NEW s, NEW t, NEW d, Mem(m, ch), ch[c] = <<>>,
         Makes(m, n, ch, c, s), Replaces(ch, c, s, d), Makes(n, o, d, c, t)
  PROVE  Makes(m, o, ch, c, t)
<1>1. ch \in [List -> Seq(Node)]
  BY DEF Mem, Shape
<1>2. [d EXCEPT ![c] = t] = [ch EXCEPT ![c] = t] /\ \A k \in List \ {c} : d[k] = ch[k]
  BY <1>1 DEF Replaces
<1>3. Mem(o, [ch EXCEPT ![c] = t])
  BY <1>2 DEF Makes
<1>4. \A k \in List \ {c} : o.list[k] = m.list[k]
  BY DEF Makes
<1>5. ASSUME NEW x \in Node, m.node[x] # NULL, o.node[x] # NULL PROVE o.node[x].value = m.node[x].value
  <2>1. PICK k \in List : x \in Elems(ch[k])
    BY <1>5 DEF Mem, Shape
  <2>2. k # c
    BY <2>1 DEF Elems
  <2>3. x \in Elems(d[k])
    BY <1>2, <2>1, <2>2
  <2>4. n.node[x] # NULL
    BY <2>3 DEF Makes, Mem, Shape, Replaces
  <2>5. QED
    BY <1>5, <2>4 DEF Makes, Keeps
<1>6. QED
  BY <1>3, <1>4, <1>5 DEF Makes, Keeps

(* The first j nodes of l have been copied into the first j of fresh.       *)
Copies(m, n, ch, l, c, fresh, j) ==
  /\ Makes(m, n, ch, c, SubSeq(fresh, 1, j))
  /\ n.list[c] # NULL /\ n.list[c].owns = m.list[l].owns
  /\ \A i \in 1 .. j : n.node[fresh[i]].value = m.node[ch[l][i]].value

(* One more node is copied.                                                 *)
LEMMA CopiesFurther ==
  ASSUME NEW m, NEW n, NEW ch, Mem(m, ch), NEW l \in List, m.list[l] # NULL,
         NEW c \in List, m.list[c] = NULL, ch[c] = <<>>,
         NEW fresh \in Seq(Node), Distinct(fresh), \A x \in Elems(fresh) : m.node[x] = NULL,
         NEW j \in Nat, j + 1 <= Len(fresh), j + 1 <= Len(ch[l]),
         Copies(m, n, ch, l, c, fresh, j)
  PROVE  Copies(m, CopyStep(m, l, c, fresh, j + 1, n), ch, l, c, fresh, j + 1)
<1> DEFINE s == SubSeq(fresh, 1, j)
           t == SubSeq(fresh, 1, j + 1)
           d == [ch EXCEPT ![c] = s]
           x == fresh[j + 1]
           y == ch[l][j + 1]
           v == m.node[y].value
           o == CopyStep(m, l, c, fresh, j + 1, n)
<1>1. /\ ch \in [List -> Seq(Node)] /\ ch[l] \in Seq(Node) /\ Len(ch[l]) \in Nat
      /\ \A i \in 1 .. Len(ch[l]) : ch[l][i] \in Node /\ m.node[ch[l][i]] \in ListNode
                                    /\ m.node[ch[l][i]] # NULL
  BY ListFacts
<1>2. Len(fresh) \in Nat /\ DOMAIN fresh = 1 .. Len(fresh) /\ j + 1 \in 1 .. Len(fresh) /\ j + 1 \in 1 .. Len(ch[l])
      /\ x \in Node /\ x \in Elems(fresh)
  BY <1>1, SeqFacts
<1>3. /\ s \in Seq(Node) /\ Len(s) = j /\ \A i \in 1 .. j : s[i] = fresh[i]
      /\ t \in Seq(Node) /\ Len(t) = j + 1 /\ \A i \in 1 .. j + 1 : t[i] = fresh[i]
  BY <1>2
<1>4. y \in Node /\ m.node[y] \in ListNode /\ v \in Value
  <2>1. y \in Node /\ m.node[y] \in ListNode
    BY <1>1, <1>2
  <2> HIDE DEF y
  <2>2. QED
    BY <2>1 DEF ListNode
<1>5. /\ Mem(n, d) /\ n.list[c] # NULL /\ n.list[c].owns = m.list[l].owns
      /\ \A i \in 1 .. j : n.node[fresh[i]].value = m.node[ch[l][i]].value
      /\ Makes(m, n, ch, c, s)
  BY DEF Copies, Makes
<1>6. o = listAddNodeTail(n, c, v, x)
  BY NodesAre DEF CopyStep, Mem
<1>7. d[c] = s /\ \A k \in List \ {c} : d[k] = ch[k]
  BY <1>1
<1> HIDE DEF s, t, x, v, y, o
<1>8. x \notin Elems(s)
  <2>1. SUFFICES ASSUME NEW i \in 1 .. j, s[i] = x PROVE FALSE
    BY <1>3 DEF Elems
  <2>2. i \in 1 .. Len(fresh) /\ i # j + 1 /\ fresh[i] = fresh[j + 1]
    BY <1>2, <1>3, <2>1 DEF x
  <2>3. QED
    BY <1>2, <2>2 DEF Distinct
<1>9. n.node[x] = NULL
  <2>1. m.node[x] = NULL
    BY <1>2
  <2>2. \A k \in List : x \notin Elems(ch[k])
    BY <1>2, <2>1 DEF Mem, Shape
  <2>3. \A k \in List : x \notin Elems(d[k])
    BY <1>7, <1>8, <2>2
  <2>4. QED
    BY <1>2, <1>5, <2>3 DEF Mem, Shape
<1> HIDE DEF d
<1>10. Inserts(n, o, d[c], c, Len(d[c]) + 1, x, v)
  BY <1>2, <1>4, <1>5, <1>6, <1>9, AddTailInserts
<1>11. Inserts(n, o, d[c], c, j + 1, x, v) /\ j + 1 \in 1 .. Len(d[c]) + 1
  BY <1>3, <1>7, <1>10
<1>12. /\ Makes(n, o, d, c, InsertAt(d[c], j + 1, x))
       /\ o.list[c] # NULL /\ o.list[c].owns = n.list[c].owns /\ o.node[x].value = v
  BY <1>2, <1>4, <1>5, <1>9, <1>11, InsertMakes
<1>13. InsertAt(d[c], j + 1, x) = t
  <2>1. j + 1 \in 1 .. Len(t) /\ Len(s) = Len(t) - 1
    BY <1>3
  <2>2. ASSUME NEW k \in 1 .. Len(s) PROVE k < j + 1 /\ s[k] = t[k]
    <3>1. k \in 1 .. j /\ k \in 1 .. j + 1 /\ k < j + 1
      BY <1>3
    <3>2. QED
      BY <1>3, <3>1
  <2>3. Shortened(t, j + 1, s)
    BY <2>1, <2>2 DEF Shortened
  <2>4. t[j + 1] = x
    BY <1>3, <2>1 DEF x
  <2>5. QED
    BY <1>3, <1>7, <2>3, <2>4, ShortIs
<1>14. Makes(n, o, d, c, t)
  BY <1>12, <1>13
<1>15. Makes(m, o, ch, c, t)
  <2>1. Replaces(ch, c, s, d)
    BY DEF d, Replaces
  <2>2. QED
    BY <1>5, <1>14, <2>1, MadeTwice
<1>16. ASSUME NEW i \in 1 .. j + 1 PROVE o.node[fresh[i]].value = m.node[ch[l][i]].value
  <2>1. CASE i = j + 1
    BY <1>12, <2>1 DEF x, v, y
  <2>2. CASE i # j + 1
    <3>1. i \in 1 .. j /\ i \in 1 .. Len(t) /\ i \in 1 .. Len(s)
      BY <1>3, <2>2
    <3>2. fresh[i] \in Elems(s) /\ fresh[i] \in Elems(t) /\ fresh[i] \in Node
      BY <1>3, <3>1, SeqFacts
    <3>3. n.node[fresh[i]] # NULL
      BY <1>5, <1>7, <3>2 DEF Mem, Shape
    <3>4. o.node[fresh[i]] # NULL
      <4>1. [d EXCEPT ![c] = t][c] = t
        BY <1>1 DEF d
      <4>2. QED
        BY <1>14, <3>2, <4>1 DEF Makes, Mem, Shape
    <3>5. o.node[fresh[i]].value = n.node[fresh[i]].value
      BY <1>14, <3>2, <3>3, <3>4 DEF Makes, Keeps
    <3>6. QED
      BY <1>5, <3>1, <3>5
  <2>3. QED
    BY <2>1, <2>2
<1>17. QED
  BY <1>5, <1>12, <1>15, <1>16 DEF Copies, t, o

(* What Copied makes of memory.                                             *)
LEMMA CopiedMakes ==
  ASSUME NEW m, NEW ch, Mem(m, ch), NEW l \in List, m.list[l] # NULL,
         NEW c \in List, m.list[c] = NULL,
         NEW fresh \in Seq(Node), Distinct(fresh), \A x \in Elems(fresh) : m.node[x] = NULL,
         Len(fresh) <= Len(ch[l])
  PROVE  Copies(m, Copied(m, l, c, fresh, Len(fresh)), ch, l, c, fresh, Len(fresh)) /\ ch[c] = <<>>
<1> DEFINE k == Len(fresh)
<1>1. k \in Nat /\ ch[c] = <<>> /\ m.list[l].owns \in BOOLEAN
  <2>1. ch[c] = <<>>
    BY DEF Mem, Shape, Chained
  <2>2. m.list[l] \in ListHeader
    BY ListFacts
  <2>3. QED
    BY <2>1, <2>2 DEF ListHeader
<1>2. PICK f : Copying(m, l, c, fresh, k, f) /\ Copied(m, l, c, fresh, k) = f[k]
  BY <1>1, CopiedIs
<1>3. \A i \in 0 .. k : f[i] = IF i = 0 THEN listCreate(m, c, m.list[l].owns)
                               ELSE CopyStep(m, l, c, fresh, i, f[i - 1])
  BY <1>2 DEF Copying
<1> DEFINE T == {j \in Nat : j <= k => Copies(m, f[j], ch, l, c, fresh, j)}
<1> HIDE DEF k
<1>4. 0 \in T
  <2>1. f[0] = listCreate(m, c, m.list[l].owns)
    BY <1>1, <1>3
  <2>2. SubSeq(fresh, 1, 0) = <<>>
    OBVIOUS
  <2>3. Copies(m, f[0], ch, l, c, fresh, 0)
    <3> DEFINE owning == m.list[l].owns
               n == listCreate(m, c, owning)
    <3>1. owning \in BOOLEAN
      BY <1>1
    <3> HIDE DEF owning
    <3>2. Makes(m, n, ch, c, <<>>) /\ n.list[c] # NULL /\ n.list[c].owns = owning
      BY <3>1, CreateMakes
    <3>3. f[0] = n
      BY <2>1 DEF owning
    <3> HIDE DEF n
    <3>4. Makes(m, f[0], ch, c, SubSeq(fresh, 1, 0)) /\ f[0].list[c] # NULL
      BY <2>2, <3>2, <3>3
    <3>5. f[0].list[c].owns = m.list[l].owns
      BY <3>2, <3>3 DEF owning
    <3>6. \A i \in 1 .. 0 : f[0].node[fresh[i]].value = m.node[ch[l][i]].value
      OBVIOUS
    <3>7. QED
      BY <3>4, <3>5, <3>6 DEF Copies
  <2>4. QED
    BY <2>3
<1>5. ASSUME NEW j \in Nat, j \in T PROVE j + 1 \in T
  <2>1. SUFFICES ASSUME j + 1 <= k PROVE Copies(m, f[j + 1], ch, l, c, fresh, j + 1)
    OBVIOUS
  <2>2. j <= k /\ j + 1 \in 0 .. k /\ j + 1 # 0 /\ (j + 1) - 1 = j /\ j + 1 <= Len(fresh)
    BY <1>1, <2>1 DEF k
  <2>3. f[j + 1] = CopyStep(m, l, c, fresh, j + 1, f[j])
    BY <1>3, <2>2
  <2>4. j + 1 <= Len(ch[l])
    <3>1. Len(ch[l]) \in Nat
      BY ListFacts
    <3>2. QED
      BY <1>1, <2>2, <3>1 DEF k
  <2>5. Copies(m, f[j], ch, l, c, fresh, j)
    BY <1>5, <2>2
  <2> HIDE DEF T
  <2>6. QED
    BY <1>1, <2>2, <2>3, <2>4, <2>5, CopiesFurther
<1> HIDE DEF T
<1>6. k \in T
  BY <1>1, <1>4, <1>5, Induct
<1>7. Copies(m, f[k], ch, l, c, fresh, k)
  BY <1>1, <1>6 DEF T
<1>8. QED
  BY <1>1, <1>2, <1>7 DEF k

(* A complete copy has the values of the list it was made from.             *)
LEMMA DupMakes ==
  ASSUME NEW m, NEW ch, Mem(m, ch), NEW l \in List, m.list[l] # NULL,
         NEW c \in List, m.list[c] = NULL,
         NEW fresh \in Seq(Node), Distinct(fresh), \A x \in Elems(fresh) : m.node[x] = NULL,
         Len(fresh) = Len(ch[l]), NEW n, n = listDup(m, l, c, fresh)
  PROVE  /\ Makes(m, n, ch, c, fresh) /\ n.list[c] # NULL
         /\ \A i \in 1 .. Len(fresh) : n.node[fresh[i]].value = m.node[ch[l][i]].value
<1>1. Len(fresh) \in Nat /\ m.list[l].len = Len(fresh)
  BY ListFacts
<1>2. n = Copied(m, l, c, fresh, Len(fresh))
  BY <1>1 DEF listDup
<1>3. Copies(m, n, ch, l, c, fresh, Len(fresh))
  BY <1>1, <1>2, CopiedMakes
<1>4. SubSeq(fresh, 1, Len(fresh)) = fresh
  OBVIOUS
<1>5. QED
  BY <1>3, <1>4 DEF Copies

(* What a copy that fails has made is released again.                       *)
LEMMA DupFailsMakes ==
  ASSUME NEW m, NEW ch, Mem(m, ch), NEW l \in List, m.list[l] # NULL,
         NEW c \in List, m.list[c] = NULL,
         NEW fresh \in Seq(Node), Distinct(fresh), \A x \in Elems(fresh) : m.node[x] = NULL,
         Len(fresh) <= Len(ch[l]), NEW n, n = listDupFails(m, l, c, fresh, Len(fresh))
  PROVE  Makes(m, n, ch, c, <<>>) /\ n.list[c] = NULL /\ ch[c] = <<>>
<1> DEFINE k == Len(fresh)
           s == SubSeq(fresh, 1, k)
           d == [ch EXCEPT ![c] = s]
           o == Copied(m, l, c, fresh, k)
<1>1. Copies(m, o, ch, l, c, fresh, k) /\ ch[c] = <<>>
  BY CopiedMakes
<1>2. n = listRelease(o, c)
  BY DEF listDupFails
<1> HIDE DEF o, k
<1>3. Makes(m, o, ch, c, s) /\ o.list[c] # NULL /\ Mem(o, d)
  BY <1>1 DEF Copies, Makes
<1> HIDE DEF s
<1>4. Replaces(ch, c, s, d)
  BY DEF Replaces
<1> HIDE DEF d
<1>5. Makes(o, n, d, c, <<>>) /\ n.list[c] = NULL
  BY <1>2, <1>3, ReleaseMakes
<1>6. Makes(m, n, ch, c, <<>>)
  BY <1>1, <1>3, <1>4, <1>5, MadeTwice
<1>7. QED
  BY <1>1, <1>5, <1>6

-------------------------------------------------------------------------------
(* The iteration under way, over a chain d in the iterator's direction.     *)

(* The order of a chain.                                                    *)
LEMMA BeforeFacts ==
  ASSUME NEW S, NEW d \in Seq(S), NEW x, NEW y, Before(d, x, y)
  PROVE  /\ x \in Elems(d) /\ y \in Elems(d)
         /\ Distinct(d) => x # y /\ ~ Before(d, y, x)
<1>1. Len(d) \in Nat /\ DOMAIN d = 1 .. Len(d)
  OBVIOUS
<1>2. PICK i \in 1 .. Len(d), j \in 1 .. Len(d) : i < j /\ d[i] = x /\ d[j] = y
  BY <1>1 DEF Before
<1>3. x \in Elems(d) /\ y \in Elems(d)
  BY <1>1, <1>2 DEF Elems
<1>4. ASSUME Distinct(d) PROVE x # y /\ ~ Before(d, y, x)
  <2>1. x # y
    BY <1>1, <1>2, <1>4 DEF Distinct
  <2>2. ASSUME NEW a \in 1 .. Len(d), NEW b \in 1 .. Len(d), a < b, d[a] = y, d[b] = x PROVE FALSE
    <3>1. a = j /\ b = i
      BY <1>1, <1>2, <1>4, <2>2 DEF Distinct
    <3>2. QED
      BY <1>1, <1>2, <2>2, <3>1
  <2>3. QED
    BY <1>1, <2>1, <2>2 DEF Before
<1>5. QED
  BY <1>3, <1>4

InOrder(s, d) == \A x, y : Before(s, x, y) => Before(d, x, y)

Going(d, it, st, vi) ==
  /\ st \in Seq(Node) /\ Distinct(st) /\ Elems(st) \subseteq Elems(d) /\ InOrder(st, d)
  /\ vi \in Seq(Node) /\ Distinct(vi) /\ Elems(vi) \subseteq Elems(d) /\ InOrder(vi, d)
  /\ it.next # NULL => /\ it.next \in Elems(d)
                       /\ \A x \in Elems(vi) : Before(d, x, it.next)
  /\ \A x \in Elems(st) : \/ x \in Elems(vi)
                          \/ it.next # NULL /\ (x = it.next \/ Before(d, it.next, x))
  /\ it.current # NULL => it.current \in Elems(vi)

(* A node that is added anywhere disturbs nothing.                          *)
LEMMA GoingGrown ==
  ASSUME NEW d \in Seq(Node), NEW s \in Seq(Node), NEW i, Shortened(d, i, s),
         NEW it, NEW st, NEW vi, Going(s, it, st, vi)
  PROVE  Going(d, it, st, vi)
<1>1. Elems(s) \subseteq Elems(d)
  BY ShortSets
<1>2. \A x, y : Before(s, x, y) => Before(d, x, y)
  BY ShortBefore
<1>3. QED
  BY <1>1, <1>2 DEF Going, InOrder

(* A history without a node keeps its order.                                *)
LEMMA WithoutFacts ==
  ASSUME NEW s \in Seq(Node), NEW x, Distinct(s)
  PROVE  /\ Without(s, x) \in Seq(Node) /\ Distinct(Without(s, x))
         /\ Elems(Without(s, x)) = Elems(s) \ {x}
         /\ \A a, b : Before(Without(s, x), a, b) => Before(s, a, b)
<1>1. /\ Without(s, x) \in Seq(Node) /\ Distinct(Without(s, x))
      /\ Elems(Without(s, x)) = Elems(s) \ {x}
  BY RemoveFirstFacts DEF Without
<1>2. CASE x \in Elems(s)
  <2>1. PICK i \in 1 .. Len(s) : s[i] = x /\ Without(s, x) = RemoveAt(s, i)
    BY <1>2, RemoveFirstAt DEF Without
  <2>2. Shortened(s, i, Without(s, x))
    BY <2>1, RemoveIs
  <2>3. \A a, b : Before(Without(s, x), a, b) => Before(s, a, b)
    BY <1>1, <2>2, ShortBefore
  <2>4. QED
    BY <1>1, <2>3
<1>3. CASE x \notin Elems(s)
  <2>1. Without(s, x) = s
    BY <1>3 DEF Without, RemoveFirst, Elems
  <2>2. QED
    BY <1>1, <2>1
<1>4. QED
  BY <1>2, <1>3

(* The node the iterator has returned may be removed.                       *)
LEMMA GoingShrunk ==
  ASSUME NEW d \in Seq(Node), NEW s \in Seq(Node), NEW i, Shortened(d, i, s), Distinct(d),
         NEW it \in ListIter, NEW st, NEW vi, Going(d, it, st, vi),
         it.current # NULL, it.current = d[i],
         NEW jt, jt = [it EXCEPT !.current = NULL]
  PROVE  Going(s, jt, Without(st, d[i]), Without(vi, d[i]))
<1> DEFINE x == d[i]
<1>1. jt.next = it.next /\ jt.current = NULL
  BY DEF ListIter
<1>2. x \in Elems(vi) /\ x \notin Elems(s) /\ Elems(d) = Elems(s) \union {x}
  BY ShortSets DEF Going
<1>3. \A a, b : Before(d, a, b) /\ a # x /\ b # x => Before(s, a, b)
  BY ShortBefore
<1>4. /\ st \in Seq(Node) /\ Distinct(st) /\ Elems(st) \subseteq Elems(d) /\ InOrder(st, d)
      /\ vi \in Seq(Node) /\ Distinct(vi) /\ Elems(vi) \subseteq Elems(d) /\ InOrder(vi, d)
  BY DEF Going
<1> DEFINE u == Without(st, x)
           w == Without(vi, x)
<1>5. /\ u \in Seq(Node) /\ Distinct(u) /\ Elems(u) = Elems(st) \ {x}
      /\ \A a, b : Before(u, a, b) => Before(st, a, b)
  BY <1>4, WithoutFacts
<1>6. /\ w \in Seq(Node) /\ Distinct(w) /\ Elems(w) = Elems(vi) \ {x}
      /\ \A a, b : Before(w, a, b) => Before(vi, a, b)
  BY <1>4, WithoutFacts
<1> HIDE DEF u, w, x
<1>7. Elems(u) \subseteq Elems(s) /\ Elems(w) \subseteq Elems(s)
  BY <1>2, <1>4, <1>5, <1>6
<1>8. InOrder(u, s)
  <2>1. SUFFICES ASSUME NEW a, NEW b, Before(u, a, b) PROVE Before(s, a, b)
    BY DEF InOrder
  <2>2. a \in Elems(u) /\ b \in Elems(u)
    BY <1>5, <2>1, BeforeFacts
  <2>3. Before(d, a, b)
    BY <1>4, <1>5, <2>1 DEF InOrder
  <2>4. QED
    BY <1>3, <1>5, <2>2, <2>3
<1>9. InOrder(w, s)
  <2>1. SUFFICES ASSUME NEW a, NEW b, Before(w, a, b) PROVE Before(s, a, b)
    BY DEF InOrder
  <2>2. a \in Elems(w) /\ b \in Elems(w)
    BY <1>6, <2>1, BeforeFacts
  <2>3. Before(d, a, b)
    BY <1>4, <1>6, <2>1 DEF InOrder
  <2>4. QED
    BY <1>3, <1>6, <2>2, <2>3
<1>10. ASSUME it.next # NULL
       PROVE  /\ it.next # x /\ it.next \in Elems(s)
              /\ \A y \in Elems(w) : Before(s, y, it.next)
  <2>1. it.next \in Elems(d) /\ \A y \in Elems(vi) : Before(d, y, it.next)
    BY <1>10 DEF Going
  <2>2. it.next # x
    BY <1>2, <2>1, BeforeFacts
  <2>3. it.next \in Elems(s)
    BY <1>2, <2>1, <2>2
  <2>4. \A y \in Elems(w) : Before(s, y, it.next)
    BY <1>3, <1>6, <2>1, <2>2
  <2>5. QED
    BY <2>2, <2>3, <2>4
<1>11. ASSUME NEW y \in Elems(u)
       PROVE  y \in Elems(w) \/ (it.next # NULL /\ (y = it.next \/ Before(s, it.next, y)))
  <2>1. y \in Elems(st) /\ y # x
    BY <1>5
  <2>2. y \in Elems(vi) \/ (it.next # NULL /\ (y = it.next \/ Before(d, it.next, y)))
    BY <2>1 DEF Going
  <2>3. QED
    BY <1>3, <1>6, <1>10, <2>1, <2>2
<1>12. Going(s, jt, u, w)
  BY <1>1, <1>5, <1>6, <1>7, <1>8, <1>9, <1>10, <1>11 DEF Going
<1>13. QED
  BY <1>12 DEF u, w, x

(* listGetIterator: nothing has been returned.                              *)
LEMMA GoingStarts ==
  ASSUME NEW d \in Seq(Node), Distinct(d), NEW it, it.next = At(d, 1), it.current = NULL
  PROVE  Going(d, it, d, <<>>)
<1>1. <<>> \in Seq(Node) /\ Elems(<<>>) = {} /\ Distinct(<<>>) /\ InOrder(<<>>, d)
  BY DEF Elems, Distinct, InOrder, Before
<1>2. Len(d) \in Nat /\ DOMAIN d = 1 .. Len(d) /\ \A i \in 1 .. Len(d) : d[i] \in Elems(d) /\ d[i] # NULL
  BY SeqFacts, NodeFacts
<1>3. InOrder(d, d)
  BY DEF InOrder
<1>4. it.next # NULL => it.next \in Elems(d)
  BY <1>2 DEF At
<1>5. ASSUME NEW x \in Elems(d) PROVE it.next # NULL /\ (x = it.next \/ Before(d, it.next, x))
  <2>1. PICK i \in 1 .. Len(d) : d[i] = x
    BY <1>2 DEF Elems
  <2>2. 1 \in 1 .. Len(d) /\ it.next = d[1] /\ d[1] # NULL
    <3>1. 1 \in 1 .. Len(d)
      BY <1>2
    <3>2. QED
      BY <1>2, <3>1 DEF At
  <2>3. CASE i = 1
    BY <2>1, <2>2, <2>3
  <2>4. CASE i # 1
    <3>1. 1 < i
      BY <1>2, <2>4
    <3>2. QED
      BY <1>2, <2>1, <2>2, <3>1 DEF Before
  <2>5. QED
    BY <2>3, <2>4
<1>6. QED
  BY <1>1, <1>3, <1>4, <1>5 DEF Going

(* listNext returns the node and goes on to the next.                       *)
LEMMA GoingOn ==
  ASSUME NEW m, NEW dir, NEW d \in Seq(Node), Distinct(d), Leads(m, d, dir),
         NEW it, NEW st, NEW vi, Going(d, it, st, vi), it.next # NULL,
         NEW jt, jt.current = it.next, jt.next = Follow(m, it.next, dir)
  PROVE  Going(d, jt, st, Append(vi, it.next))
<1> DEFINE n == it.next
           w == Append(vi, n)
           q == jt.next
<1>1. /\ st \in Seq(Node) /\ Distinct(st) /\ Elems(st) \subseteq Elems(d) /\ InOrder(st, d)
      /\ vi \in Seq(Node) /\ Distinct(vi) /\ Elems(vi) \subseteq Elems(d) /\ InOrder(vi, d)
      /\ n \in Elems(d) /\ \A x \in Elems(vi) : Before(d, x, n)
  BY DEF Going
<1>2. /\ Len(d) \in Nat /\ DOMAIN d = 1 .. Len(d) /\ DOMAIN vi = 1 .. Len(vi) /\ Len(vi) \in Nat
      /\ \A i \in 1 .. Len(d) : d[i] \in Elems(d) /\ d[i] # NULL
      /\ Elems(d) \subseteq Node
  BY <1>1, SeqFacts, NodeFacts
<1>3. PICK k \in 1 .. Len(d) : d[k] = n
  BY <1>1, <1>2 DEF Elems
<1>4. q = At(d, k + 1) /\ k + 1 \in Nat /\ k < k + 1
  BY <1>2, <1>3 DEF Leads
<1> HIDE DEF w, q, n
<1>5. n \notin Elems(vi)
  BY <1>1, BeforeFacts
<1>6. /\ w \in Seq(Node) /\ Elems(w) = Elems(vi) \union {n} /\ Distinct(w)
      /\ Len(w) = Len(vi) + 1 /\ w[Len(vi) + 1] = n
      /\ \A i \in 1 .. Len(vi) : w[i] = vi[i]
  <2>1. n \in Node
    BY <1>1, <1>2
  <2>2. Elems(w) = Elems(vi) \union {n} /\ Distinct(w)
    BY <1>1, <1>5, <2>1, AppendElems DEF w
  <2>3. QED
    BY <1>1, <2>1, <2>2 DEF w
<1>7. InOrder(w, d)
  <2>1. SUFFICES ASSUME NEW x, NEW y, Before(w, x, y) PROVE Before(d, x, y)
    BY DEF InOrder
  <2>2. PICK i \in 1 .. Len(vi) + 1, j \in 1 .. Len(vi) + 1 : i < j /\ w[i] = x /\ w[j] = y
    BY <1>6, <2>1 DEF Before
  <2>3. i \in 1 .. Len(vi) /\ w[i] = vi[i]
    BY <1>2, <1>6, <2>2
  <2>4. x \in Elems(vi)
    BY <1>2, <2>2, <2>3 DEF Elems
  <2>5. CASE j = Len(vi) + 1
    BY <1>1, <1>6, <2>2, <2>4, <2>5
  <2>6. CASE j # Len(vi) + 1
    <3>1. j \in 1 .. Len(vi) /\ w[j] = vi[j]
      BY <1>2, <1>6, <2>6
    <3>2. Before(vi, x, y)
      BY <1>2, <2>2, <2>3, <3>1 DEF Before
    <3>3. QED
      BY <1>1, <3>2 DEF InOrder
  <2>7. QED
    BY <2>5, <2>6
<1>8. ASSUME q # NULL PROVE q \in Elems(d) /\ \A x \in Elems(w) : Before(d, x, q)
  <2>1. k + 1 \in 1 .. Len(d) /\ q = d[k + 1]
    BY <1>4, <1>8 DEF At
  <2>2. Before(d, n, q)
    BY <1>2, <1>3, <1>4, <2>1 DEF Before
  <2>3. ASSUME NEW x \in Elems(vi) PROVE Before(d, x, q)
    <3>1. PICK a \in 1 .. Len(d), b \in 1 .. Len(d) : a < b /\ d[a] = x /\ d[b] = n
      BY <1>1, <1>2 DEF Before
    <3>2. b = k
      BY <1>2, <1>3, <3>1 DEF Distinct
    <3>3. a < k + 1
      BY <1>2, <3>1, <3>2
    <3>4. QED
      BY <1>2, <2>1, <3>1, <3>3 DEF Before
  <2>4. QED
    BY <1>2, <1>6, <2>1, <2>2, <2>3
<1>9. ASSUME NEW x \in Elems(st)
      PROVE  x \in Elems(w) \/ (q # NULL /\ (x = q \/ Before(d, q, x)))
  <2>1. CASE x \in Elems(vi) \/ x = n
    BY <1>6, <2>1
  <2>2. CASE Before(d, n, x)
    <3>1. PICK a \in 1 .. Len(d), b \in 1 .. Len(d) : a < b /\ d[a] = n /\ d[b] = x
      BY <1>2, <2>2 DEF Before
    <3>2. a = k
      BY <1>2, <1>3, <3>1 DEF Distinct
    <3>3. k + 1 \in 1 .. Len(d) /\ (b = k + 1 \/ k + 1 < b)
      BY <1>2, <3>1, <3>2
    <3>4. q = d[k + 1] /\ q # NULL
      BY <1>2, <1>4, <3>3 DEF At
    <3>5. CASE b = k + 1
      BY <3>1, <3>4, <3>5
    <3>6. CASE k + 1 < b
      BY <1>2, <3>1, <3>3, <3>4, <3>6 DEF Before
    <3>7. QED
      BY <3>3, <3>5, <3>6
  <2>3. QED
    BY <2>1, <2>2 DEF Going, n
<1>10. jt.current \in Elems(w) /\ q = jt.next
  BY <1>6 DEF n, q
<1>11. Going(d, jt, st, w)
  BY <1>1, <1>6, <1>7, <1>8, <1>9, <1>10 DEF Going
<1>12. QED
  BY <1>11 DEF w, n

-------------------------------------------------------------------------------
(* The inductive invariant: there are chains that memory holds, and the     *)
(* iteration under way goes along one of them.                              *)

State(m, ch, it, st, vi) ==
  /\ Mem(m, ch)
  /\ it # NULL => /\ it \in ListIter /\ m.list[it.list] # NULL
                  /\ Going(Facing(ch[it.list], it.direction), it, st, vi)

IInv == \E ch : State(mem, ch, iter, start, visited)

LEMMA JoinedElements ==
  ASSUME NEW vi \in Seq(Node), NEW w \in Seq(Node), NEW all, all = vi \o w
  PROVE  /\ all \in Seq(Node) /\ Elems(all) = Elems(vi) \union Elems(w)
         /\ Distinct(vi) /\ Distinct(w) /\ Elems(vi) \intersect Elems(w) = {} => Distinct(all)
         /\ InOrder(vi, all) /\ InOrder(w, all)
         /\ \A x \in Elems(vi), y \in Elems(w) : Before(all, x, y)
<1> DEFINE a == Len(vi)
           b == Len(w)
<1>1. a \in Nat /\ b \in Nat /\ DOMAIN vi = 1 .. a /\ DOMAIN w = 1 .. b
  OBVIOUS
<1>2. /\ all \in Seq(Node) /\ Len(all) = a + b
      /\ \A i \in 1 .. a : all[i] = vi[i]
      /\ \A i \in 1 .. b : all[a + i] = w[i]
  BY ConcatFacts
<1> HIDE DEF a, b
<1>3. DOMAIN all = 1 .. a + b
  BY <1>2
<1>4. \A i \in 1 .. a : i \in 1 .. a + b
  BY <1>1
<1>5. \A i \in 1 .. b : a + i \in 1 .. a + b
  BY <1>1
<1>6. \A i \in 1 .. a + b : i \in 1 .. a \/ (i - a \in 1 .. b /\ a + (i - a) = i)
  BY <1>1
<1>7. Elems(all) = Elems(vi) \union Elems(w)
  <2>1. Elems(vi) \subseteq Elems(all)
    BY <1>1, <1>2, <1>3, <1>4 DEF Elems
  <2>2. Elems(w) \subseteq Elems(all)
    <3>1. ASSUME NEW i \in 1 .. b PROVE w[i] \in Elems(all)
      <4>1. a + i \in DOMAIN all /\ all[a + i] = w[i]
        BY <1>2, <1>3, <1>5
      <4>2. QED
        BY <4>1 DEF Elems
    <3>2. QED
      BY <1>1, <3>1 DEF Elems
  <2>3. ASSUME NEW i \in 1 .. a + b PROVE all[i] \in Elems(vi) \union Elems(w)
    <3>1. CASE i \in 1 .. a
      BY <1>1, <1>2, <3>1 DEF Elems
    <3>2. CASE i - a \in 1 .. b /\ a + (i - a) = i
      <4>1. all[i] = w[i - a]
        BY <1>2, <3>2
      <4>2. QED
        BY <1>1, <3>2, <4>1 DEF Elems
    <3>3. QED
      BY <1>6, <3>1, <3>2
  <2>4. Elems(all) \subseteq Elems(vi) \union Elems(w)
    BY <1>3, <2>3 DEF Elems
  <2>5. QED
    BY <2>1, <2>2, <2>4
<1>8. ASSUME Distinct(vi), Distinct(w), Elems(vi) \intersect Elems(w) = {} PROVE Distinct(all)
  <2>1. ASSUME NEW i \in 1 .. a, NEW j \in 1 .. b PROVE vi[i] # w[j]
    BY <1>1, <1>8 DEF Elems
  <2>2. SUFFICES ASSUME NEW i \in 1 .. a + b, NEW j \in 1 .. a + b, all[i] = all[j] PROVE i = j
    BY <1>3 DEF Distinct
  <2>3. \A k \in 1 .. a + b : \/ k \in 1 .. a /\ all[k] = vi[k]
                              \/ k - a \in 1 .. b /\ all[k] = w[k - a]
    <3>1. TAKE k \in 1 .. a + b
    <3>2. CASE k \in 1 .. a
      BY <1>2, <3>2
    <3>3. CASE k - a \in 1 .. b /\ a + (k - a) = k
      BY <1>2, <3>3
    <3>4. QED
      BY <1>6, <3>2, <3>3
  <2>4. CASE i \in 1 .. a /\ all[i] = vi[i] /\ j \in 1 .. a /\ all[j] = vi[j]
    BY <1>1, <1>8, <2>2, <2>4 DEF Distinct
  <2>5. CASE i - a \in 1 .. b /\ all[i] = w[i - a] /\ j - a \in 1 .. b /\ all[j] = w[j - a]
    <3>1. i - a = j - a
      BY <1>1, <1>8, <2>2, <2>5 DEF Distinct
    <3>2. QED
      BY <1>1, <3>1
  <2>6. QED
    BY <2>1, <2>2, <2>3, <2>4, <2>5
<1>9. ASSUME NEW x, NEW y, Before(vi, x, y) PROVE Before(all, x, y)
  BY <1>1, <1>2, <1>3, <1>4, <1>9 DEF Before
<1>10. ASSUME NEW x, NEW y, Before(w, x, y) PROVE Before(all, x, y)
  <2>1. PICK i \in 1 .. b, j \in 1 .. b : i < j /\ w[i] = x /\ w[j] = y
    BY <1>1, <1>10 DEF Before
  <2>2. a + i < a + j
    BY <1>1, <2>1
  <2>3. QED
    BY <1>2, <1>3, <1>5, <2>1, <2>2 DEF Before
<1>11. ASSUME NEW x \in Elems(vi), NEW y \in Elems(w) PROVE Before(all, x, y)
  <2>1. PICK i \in 1 .. a : vi[i] = x
    BY <1>1 DEF Elems
  <2>2. PICK j \in 1 .. b : w[j] = y
    BY <1>1 DEF Elems
  <2>3. i < a + j
    BY <1>1
  <2>4. QED
    BY <1>2, <1>3, <1>4, <1>5, <2>1, <2>2, <2>3 DEF Before
<1>12. QED
  BY <1>2, <1>7, <1>8, <1>9, <1>10, <1>11 DEF InOrder

(* What is left of a chain from its k-th node on.                           *)
LEMMA Rest ==
  ASSUME NEW d \in Seq(Node), Distinct(d), NEW k \in 1 .. Len(d) + 1,
         NEW w, w = SubSeq(d, k, Len(d))
  PROVE  /\ w \in Seq(Node) /\ Distinct(w)
         /\ \A x : x \in Elems(w) <=> \E i \in 1 .. Len(d) : k <= i /\ d[i] = x
         /\ InOrder(w, d)
<1> DEFINE n == Len(d)
<1>1. n \in Nat /\ k \in Nat /\ k >= 1 /\ k <= n + 1 /\ DOMAIN d = 1 .. n
  OBVIOUS
<1>2. /\ w \in Seq(Node) /\ Len(w) = n + 1 - k
      /\ \A i \in 1 .. n + 1 - k : w[i] = d[k + i - 1]
  BY <1>1
<1> HIDE DEF n
<1>3. DOMAIN w = 1 .. n + 1 - k
  BY <1>2
<1>4. ASSUME NEW i \in 1 .. n + 1 - k PROVE k + i - 1 \in 1 .. n /\ k <= k + i - 1
  BY <1>1
<1>5. ASSUME NEW i \in 1 .. n, k <= i
      PROVE  i + 1 - k \in 1 .. n + 1 - k /\ w[i + 1 - k] = d[i]
  <2>1. i + 1 - k \in 1 .. n + 1 - k /\ k + (i + 1 - k) - 1 = i
    BY <1>1, <1>5
  <2>2. QED
    BY <1>2, <2>1
<1>6. ASSUME NEW i \in 1 .. n + 1 - k, NEW j \in 1 .. n + 1 - k, w[i] = w[j] PROVE i = j
  <2>1. k + i - 1 \in DOMAIN d /\ k + j - 1 \in DOMAIN d
    BY <1>1, <1>4
  <2>2. d[k + i - 1] = d[k + j - 1]
    BY <1>2, <1>6
  <2>3. k + i - 1 = k + j - 1
    BY <2>1, <2>2 DEF Distinct
  <2>4. QED
    BY <1>1, <2>3
<1>7. \A x : x \in Elems(w) <=> \E i \in 1 .. n : k <= i /\ d[i] = x
  <2>1. ASSUME NEW x \in Elems(w) PROVE \E i \in 1 .. n : k <= i /\ d[i] = x
    <3>1. PICK i \in 1 .. n + 1 - k : w[i] = x
      BY <1>3 DEF Elems
    <3>2. k + i - 1 \in 1 .. n /\ k <= k + i - 1
      BY <1>4
    <3>3. QED
      BY <1>2, <3>1, <3>2
  <2>2. ASSUME NEW i \in 1 .. n, k <= i PROVE d[i] \in Elems(w)
    <3>1. i + 1 - k \in 1 .. n + 1 - k /\ w[i + 1 - k] = d[i]
      BY <1>5, <2>2
    <3>2. QED
      BY <1>3, <3>1 DEF Elems
  <2>3. QED
    BY <2>1, <2>2
<1>8. ASSUME NEW x, NEW y, Before(w, x, y) PROVE Before(d, x, y)
  <2>1. PICK i \in 1 .. n + 1 - k, j \in 1 .. n + 1 - k : i < j /\ w[i] = x /\ w[j] = y
    BY <1>3, <1>8 DEF Before
  <2>2. k + i - 1 < k + j - 1
    BY <1>1, <2>1
  <2>3. QED
    BY <1>1, <1>2, <1>4, <2>1, <2>2 DEF Before
<1>9. QED
  BY <1>2, <1>3, <1>6, <1>7, <1>8 DEF Distinct, InOrder, n

(* What is Before in a chain is so in a part of it that has both.           *)
LEMMA KeptOrder ==
  ASSUME NEW d \in Seq(Node), Distinct(d), NEW s \in Seq(Node), Distinct(s), InOrder(s, d),
         NEW x \in Elems(s), NEW y \in Elems(s), Before(d, x, y)
  PROVE  Before(s, x, y)
<1>1. x # y /\ ~ Before(d, y, x)
  BY BeforeFacts
<1>2. PICK i \in 1 .. Len(s), j \in 1 .. Len(s) : s[i] = x /\ s[j] = y
  BY DEF Elems
<1>3. Len(s) \in Nat /\ DOMAIN s = 1 .. Len(s)
  OBVIOUS
<1>4. i # j
  BY <1>1, <1>2
<1>5. CASE i < j
  BY <1>2, <1>3, <1>5 DEF Before
<1>6. CASE j < i
  <2>1. Before(s, y, x)
    BY <1>2, <1>3, <1>6 DEF Before
  <2>2. QED
    BY <1>1, <2>1 DEF InOrder
<1>7. QED
  BY <1>3, <1>4, <1>5, <1>6

(* What an iteration returns: different nodes, with those it began with     *)
(* among them in their order.                                               *)
Covers(all, st) ==
  all \in Seq(Node) /\ Distinct(all) /\ Elems(st) \subseteq Elems(all) /\ InOrder(st, all)

(* What it has returned and what it will return cover the start.            *)
LEMMA GoingAll ==
  ASSUME NEW m, NEW dir, NEW d \in Seq(Node), Distinct(d), Leads(m, d, dir),
         NEW it, NEW st, NEW vi, Going(d, it, st, vi)
  PROVE  Covers(vi \o Walk(m, it.next, dir), st)
<1> DEFINE all == vi \o Walk(m, it.next, dir)
<1>1. /\ st \in Seq(Node) /\ Distinct(st) /\ Elems(st) \subseteq Elems(d) /\ InOrder(st, d)
      /\ vi \in Seq(Node) /\ Distinct(vi) /\ Elems(vi) \subseteq Elems(d) /\ InOrder(vi, d)
  BY DEF Going
<1>2. Len(d) \in Nat /\ DOMAIN d = 1 .. Len(d) /\ \A i \in 1 .. Len(d) : d[i] # NULL
  BY SeqFacts, NodeFacts
<1>3. \A i, j \in 1 .. Len(d) : d[i] = d[j] => i = j
  BY <1>2 DEF Distinct
<1>4. PICK k \in 1 .. Len(d) + 1 : it.next = At(d, k)
  <2>1. CASE it.next = NULL
    <3>1. Len(d) + 1 \in 1 .. Len(d) + 1 /\ Len(d) + 1 \notin 1 .. Len(d)
      BY <1>2
    <3>2. QED
      BY <2>1, <3>1 DEF At
  <2>2. CASE it.next # NULL
    <3>1. PICK i \in 1 .. Len(d) : d[i] = it.next
      BY <1>2, <2>2 DEF Going, Elems
    <3>2. i \in 1 .. Len(d) + 1
      BY <1>2
    <3>3. QED
      BY <3>1, <3>2 DEF At
  <2>3. QED
    BY <2>1, <2>2
<1> DEFINE w == SubSeq(d, k, Len(d))
<1>5. all = vi \o w
  BY <1>4, WalkFrom
<1> HIDE DEF all
<1>6. /\ w \in Seq(Node) /\ Distinct(w)
      /\ \A x : x \in Elems(w) <=> \E i \in 1 .. Len(d) : k <= i /\ d[i] = x
      /\ InOrder(w, d)
  BY Rest
<1> HIDE DEF w
<1>7. ASSUME NEW x \in Elems(vi), NEW y \in Elems(w) PROVE x # y /\ Before(d, x, y)
  <2>1. PICK j \in 1 .. Len(d) : k <= j /\ d[j] = y
    BY <1>6
  <2>2. k \in 1 .. Len(d) /\ it.next = d[k] /\ it.next # NULL
    <3>1. k \in 1 .. Len(d)
      BY <1>2, <2>1
    <3>2. QED
      BY <1>2, <1>4, <3>1 DEF At
  <2>3. PICK a \in 1 .. Len(d), b \in 1 .. Len(d) : a < b /\ d[a] = x /\ d[b] = it.next
    BY <1>2, <2>2 DEF Going, Before
  <2>4. b = k
    BY <1>3, <2>2, <2>3
  <2>5. a < j
    BY <1>2, <2>1, <2>2, <2>3, <2>4
  <2>6. Before(d, x, y)
    BY <1>2, <2>1, <2>3, <2>5 DEF Before
  <2>7. QED
    BY <2>6, BeforeFacts
<1>8. /\ all \in Seq(Node) /\ Elems(all) = Elems(vi) \union Elems(w) /\ Distinct(all)
      /\ InOrder(vi, all) /\ InOrder(w, all)
      /\ \A x \in Elems(vi), y \in Elems(w) : Before(all, x, y)
  <2>1. Elems(vi) \intersect Elems(w) = {}
    BY <1>7
  <2>2. QED
    BY <1>1, <1>5, <1>6, <2>1, JoinedElements
<1>9. ASSUME NEW x \in Elems(st) PROVE x \in Elems(vi) \/ x \in Elems(w)
  <2>1. x \in Elems(vi) \/ (it.next # NULL /\ (x = it.next \/ Before(d, it.next, x)))
    BY DEF Going
  <2>2. CASE it.next # NULL /\ x = it.next
    <3>1. k \in 1 .. Len(d) /\ d[k] = x /\ k <= k
      BY <1>2, <1>4, <2>2 DEF At
    <3>2. QED
      BY <1>6, <3>1
  <2>3. CASE it.next # NULL /\ Before(d, it.next, x)
    <3>1. k \in 1 .. Len(d) /\ d[k] = it.next
      BY <1>4, <2>3 DEF At
    <3>2. PICK a \in 1 .. Len(d), b \in 1 .. Len(d) : a < b /\ d[a] = it.next /\ d[b] = x
      BY <1>2, <2>3 DEF Before
    <3>3. a = k /\ k <= b
      BY <1>2, <1>3, <3>1, <3>2
    <3>4. QED
      BY <1>6, <3>2, <3>3
  <2>4. QED
    BY <2>1, <2>2, <2>3
<1>10. ASSUME NEW x, NEW y, Before(st, x, y) PROVE Before(all, x, y)
  <2>1. x \in Elems(st) /\ y \in Elems(st) /\ Before(d, x, y)
    BY <1>1, <1>10, BeforeFacts DEF InOrder
  <2>2. CASE x \in Elems(vi) /\ y \in Elems(vi)
    BY <1>1, <1>8, <2>1, <2>2, KeptOrder DEF InOrder
  <2>3. CASE x \in Elems(w) /\ y \in Elems(w)
    BY <1>6, <1>8, <2>1, <2>3, KeptOrder DEF InOrder
  <2>4. CASE x \in Elems(vi) /\ y \in Elems(w)
    BY <1>8, <2>4
  <2>5. CASE x \in Elems(w) /\ y \in Elems(vi)
    BY <1>7, <2>1, <2>5, BeforeFacts
  <2>6. QED
    BY <1>9, <2>1, <2>2, <2>3, <2>4, <2>5
<1>11. Covers(all, st)
  BY <1>8, <1>9, <1>10 DEF InOrder, Covers
<1>12. QED
  BY <1>11 DEF all

LEMMA RangeIs ==
  ASSUME NEW S, NEW s \in Seq(S)
  PROVE  Range(s) = Elems(s) /\ (IsInjective(s) <=> Distinct(s)) /\ DOMAIN s = 1 .. Len(s)
BY DEF Range, Elems, IsInjective, Distinct

LEMMA StateIterates ==
  ASSUME NEW ch, State(mem, ch, iter, start, visited)
  PROVE  IterInv
<1>1. SUFFICES ASSUME iter # NULL
               PROVE  LET all == visited \o Walk(mem, iter.next, iter.direction) IN
                      /\ iter.next \in {NULL} \union Range(Nodes(mem, iter.list))
                      /\ IsInjective(all) /\ IsInjective(start)
                      /\ Range(start) \subseteq Range(all)
                      /\ \A i, j \in DOMAIN start : i < j => Before(all, start[i], start[j])
  BY DEF IterInv
<1> DEFINE l == iter.list
           dir == iter.direction
           c == ch[l]
           d == Facing(c, dir)
           all == visited \o Walk(mem, iter.next, dir)
<1>2. /\ iter \in ListIter /\ mem.list[l] # NULL /\ Going(d, iter, start, visited)
      /\ Mem(mem, ch)
  BY <1>1 DEF State
<1>3. l \in List /\ dir \in {"head", "tail"}
  BY <1>2 DEF ListIter
<1>4. c \in Seq(Node) /\ Distinct(c)
  BY <1>2, <1>3, ListFacts
<1>5. d \in Seq(Node) /\ Distinct(d) /\ Elems(d) = Elems(c)
  BY <1>4, FacingFacts
<1>6. Leads(mem, d, dir) /\ Nodes(mem, l) = c
  BY <1>2, <1>3, WalkAll, NodesAre DEF Mem
<1> HIDE DEF c, d, l, dir
<1>7. all = visited \o Walk(mem, iter.next, dir)
  OBVIOUS
<1> HIDE DEF all
<1>8. /\ Distinct(all) /\ all \in Seq(Node) /\ Elems(start) \subseteq Elems(all)
      /\ InOrder(start, all)
  <2>1. /\ d \in Seq(Node) /\ Distinct(d) /\ Leads(mem, d, dir)
        /\ Going(d, iter, start, visited)
    BY <1>2, <1>5, <1>6
  <2>2. Covers(visited \o Walk(mem, iter.next, dir), start)
    BY <2>1, GoingAll
  <2>3. QED
    BY <1>7, <2>2 DEF Covers
<1>9. start \in Seq(Node) /\ Distinct(start) /\ (iter.next # NULL => iter.next \in Elems(d))
  BY <1>2 DEF Going
<1>10. IsInjective(all) /\ IsInjective(start) /\ Range(start) \subseteq Range(all)
  BY <1>8, <1>9, RangeIs
<1>11. iter.next \in {NULL} \union Range(Nodes(mem, l))
  BY <1>4, <1>5, <1>6, <1>9, RangeIs
<1>12. \A i, j \in DOMAIN start : i < j => Before(all, start[i], start[j])
  <2>1. \A i, j \in DOMAIN start : i < j => Before(start, start[i], start[j])
    BY DEF Before
  <2>2. QED
    BY <1>8, <2>1 DEF InOrder
<1>13. QED
  BY <1>10, <1>11, <1>12 DEF all, l, dir

-------------------------------------------------------------------------------
(* What is looked up in a list, from its chain.                             *)

(* listIndex, from either end.                                              *)
LEMMA IndexIs ==
  ASSUME NEW m, NEW ch, Mem(m, ch), NEW l \in List, m.list[l] # NULL,
         NEW c, c = ch[l], NEW i \in -(Len(c) + 1) .. Len(c)
  PROVE  listIndex(m, l, i) = IF i \in 0 .. Len(c) - 1 THEN c[i + 1]
                              ELSE IF i \in -Len(c) .. -1 THEN c[Len(c) + i + 1] ELSE NULL
<1> DEFINE n == Len(c)
           From(dir) == Walk(m, First(m, l, dir), dir)
<1>1. \A dir \in {"head", "tail"} : From(dir) = Facing(ch[l], dir)
  BY WalkAll DEF Mem
<1>2. c \in Seq(Node) /\ n \in Nat
  BY ListFacts
<1>3. From("head") = c /\ From("tail") = Reverse(c)
  BY <1>1 DEF Facing
<1>4. Len(Reverse(c)) = n /\ \A k \in 1 .. n : Reverse(c)[k] = c[n + 1 - k]
  BY <1>2, ReverseFacts
<1>5. i \in Int /\ -(n + 1) <= i /\ i <= n
  BY <1>2
<1> HIDE DEF n
<1>6. CASE i < 0
  <2>1. listIndex(m, l, i) = IF (-i) - 1 < Len(From("tail")) THEN From("tail")[((-i) - 1) + 1] ELSE NULL
    BY <1>6 DEF listIndex
  <2> HIDE DEF From
  <2>2. CASE -n <= i
    <3>1. (-i) - 1 < n /\ ((-i) - 1) + 1 = -i /\ -i \in 1 .. n /\ n + 1 - (-i) = n + i + 1
          /\ i \notin 0 .. n - 1 /\ i \in -n .. -1
      BY <1>2, <1>5, <1>6, <2>2
    <3>2. Reverse(c)[-i] = c[n + i + 1]
      BY <1>4, <3>1
    <3>3. listIndex(m, l, i) = c[n + i + 1]
      BY <1>3, <1>4, <2>1, <3>1, <3>2
    <3>4. QED
      BY <3>1, <3>3 DEF n
  <2>3. CASE ~ (-n <= i)
    <3>1. ~ ((-i) - 1 < n) /\ i \notin 0 .. n - 1 /\ i \notin -n .. -1
      BY <1>2, <1>5, <1>6, <2>3
    <3>2. listIndex(m, l, i) = NULL
      BY <1>3, <1>4, <2>1, <3>1
    <3>3. QED
      BY <3>1, <3>2 DEF n
  <2>4. QED
    BY <2>2, <2>3
<1>7. CASE ~ (i < 0)
  <2>1. listIndex(m, l, i) = IF i < Len(From("head")) THEN From("head")[i + 1] ELSE NULL
    BY <1>7 DEF listIndex
  <2> HIDE DEF From
  <2>2. (i < n <=> i \in 0 .. n - 1) /\ i \notin -n .. -1
    BY <1>2, <1>5, <1>7
  <2>3. listIndex(m, l, i) = IF i < n THEN c[i + 1] ELSE NULL
    BY <1>3, <2>1 DEF n
  <2>4. QED
    BY <2>2, <2>3 DEF n
<1>8. QED
  BY <1>6, <1>7

(* listSearchKey finds the first.                                           *)
LEMMA SearchIs ==
  ASSUME NEW m, NEW l, NEW c \in Seq(Node), Nodes(m, l) = c, NEW v, NEW x, x = listSearchKey(m, l, v)
  PROVE  IF x = NULL THEN \A y \in Elems(c) : m.node[y].value # v
         ELSE \E i \in 1 .. Len(c) : /\ c[i] = x /\ m.node[x].value = v
                                     /\ \A j \in 1 .. i - 1 : m.node[c[j]].value # v
<1> DEFINE I == {i \in 1 .. Len(c) : m.node[c[i]].value = v}
           at == SelectInSeq(c, LAMBDA n : m.node[n].value = v)
<1>0. Len(c) \in Nat /\ DOMAIN c = 1 .. Len(c) /\ \A i \in 1 .. Len(c) : c[i] \in Node /\ c[i] # NULL
  BY SeqFacts, NodeFacts
<1>1. at = IF I # {} THEN Min(I) ELSE 0
  BY DEF SelectInSeq
<1>2. x = IF at = 0 THEN NULL ELSE c[at]
  BY DEF listSearchKey
<1> HIDE DEF at
<1>3. CASE I = {}
  BY <1>0, <1>1, <1>2, <1>3 DEF Elems
<1>4. CASE I # {}
  <2>1. I \subseteq Nat
    BY <1>0
  <2>2. \E k \in I : \A j \in I : k <= j
    BY <1>4, <2>1, Lowest
  <2>3. Min(I) \in I /\ \A j \in I : Min(I) <= j
    BY <2>2 DEF Min
  <2> DEFINE k == Min(I)
  <2>4. k \in 1 .. Len(c) /\ m.node[c[k]].value = v /\ at = k
    BY <1>1, <1>4, <2>3
  <2>5. \A j \in 1 .. Len(c) : m.node[c[j]].value = v => k <= j
    BY <2>3
  <2> HIDE DEF k, I
  <2>6. x = c[k] /\ x # NULL
    BY <1>0, <1>2, <2>4
  <2>7. ASSUME NEW j \in 1 .. k - 1 PROVE m.node[c[j]].value # v
    <3>1. j \in 1 .. Len(c) /\ ~ (k <= j)
      BY <1>0, <2>4
    <3>2. QED
      BY <2>5, <3>1
  <2>8. QED
    BY <2>4, <2>6, <2>7
<1>5. QED
  BY <1>3, <1>4

LEMMA LooksUp ==
  ASSUME NEW ch, Mem(mem, ch), NEW l \in List, mem.list[l] # NULL
  PROVE  LookupFits(l, ch[l])
<1> DEFINE c == ch[l]
<1>1. c \in Seq(Node) /\ Nodes(mem, l) = c
  BY ListFacts, NodesAre DEF Mem
<1>2. Range(c) = Elems(c)
  BY <1>1, RangeIs
<1>3. \A i \in -(Len(c) + 1) .. Len(c) :
        listIndex(mem, l, i) = IF i \in 0 .. Len(c) - 1 THEN c[i + 1]
                               ELSE IF i \in -Len(c) .. -1 THEN c[Len(c) + i + 1] ELSE NULL
  BY IndexIs
<1>4. \A v \in Value :
        LET n == listSearchKey(mem, l, v) IN
        IF n = NULL THEN \A x \in Range(c) : mem.node[x].value # v
        ELSE \E i \in 1 .. Len(c) : /\ c[i] = n /\ mem.node[n].value = v
                                    /\ \A j \in 1 .. i - 1 : mem.node[c[j]].value # v
  BY <1>1, <1>2, SearchIs
<1>5. QED
  BY <1>3, <1>4 DEF LookupFits

(* Chains are all that ListInv asks for.                                    *)
LEMMA MemKept ==
  ASSUME NEW ch, Mem(mem, ch)
  PROVE  ListInv
<1>1. /\ ch \in [List -> Seq(Node)]
      /\ \A k, l \in List : k # l => Elems(ch[k]) \intersect Elems(ch[l]) = {}
      /\ \A n \in Node : mem.node[n] # NULL <=> \E l \in List : n \in Elems(ch[l])
      /\ \A l \in List : mem.list[l] = NULL => ch[l] = <<>>
  BY DEF Mem, Shape, Chained
<1>2. ASSUME NEW l \in Live(mem)
      PROVE  /\ l \in List /\ mem.list[l] # NULL /\ Nodes(mem, l) = ch[l]
             /\ Range(Nodes(mem, l)) = Elems(ch[l])
             /\ Walk(mem, mem.list[l].tail, "tail") = Reverse(ch[l])
             /\ mem.list[l].len = Len(ch[l]) /\ IsInjective(ch[l])
             /\ LookupFits(l, ch[l])
  <2>1. l \in List /\ mem.list[l] # NULL
    BY DEF Live
  <2>2. ch[l] \in Seq(Node) /\ Distinct(ch[l])
    BY <2>1, ListFacts
  <2>3. /\ Nodes(mem, l) = ch[l]
        /\ Walk(mem, mem.list[l].tail, "tail") = Reverse(ch[l])
        /\ mem.list[l].len = Len(ch[l])
    BY <2>1, NodesAre DEF Mem
  <2>4. IsInjective(ch[l]) /\ Range(ch[l]) = Elems(ch[l])
    BY <2>2, RangeIs
  <2>5. LookupFits(l, ch[l])
    BY <2>1, LooksUp
  <2>6. QED
    BY <2>1, <2>3, <2>4, <2>5
<1>3. \A l \in List : \A x \in Elems(ch[l]) : l \in Live(mem) /\ x \in Node
  <2>1. SUFFICES ASSUME NEW l \in List, NEW x \in Elems(ch[l]) PROVE l \in Live(mem) /\ x \in Node
    OBVIOUS
  <2>2. ch[l] \in Seq(Node) /\ ch[l] # <<>>
    BY <1>1 DEF Elems
  <2>3. QED
    BY <1>1, <2>2, SeqFacts DEF Live
<1>4. Allocated(mem) = UNION {Range(Nodes(mem, l)) : l \in Live(mem)}
  <2>1. ASSUME NEW x \in Allocated(mem) PROVE \E l \in Live(mem) : x \in Range(Nodes(mem, l))
    <3>1. PICK l \in List : x \in Elems(ch[l])
      BY <1>1 DEF Allocated
    <3>2. QED
      BY <1>2, <1>3, <3>1
  <2>2. ASSUME NEW l \in Live(mem), NEW x \in Range(Nodes(mem, l)) PROVE x \in Allocated(mem)
    BY <1>1, <1>2, <1>3 DEF Allocated
  <2>3. QED
    BY <2>1, <2>2
<1>5. ASSUME NEW v \in Value
      PROVE  mem.refs[v] = Cardinality({n \in Allocated(mem) :
                 /\ mem.node[n].value = v
                 /\ \E l \in Live(mem) : mem.list[l].owns /\ n \in Range(Nodes(mem, l))})
  <2> DEFINE S == {n \in Allocated(mem) :
                     /\ mem.node[n].value = v
                     /\ \E l \in Live(mem) : mem.list[l].owns /\ n \in Range(Nodes(mem, l))}
  <2>1. ASSUME NEW n \in S PROVE n \in Holders(mem, ch, v)
    <3>1. PICK l \in Live(mem) : mem.list[l].owns /\ n \in Range(Nodes(mem, l))
      OBVIOUS
    <3>2. n \in Owned(mem, l, ch[l], v)
      BY <1>2, <3>1 DEF Owned
    <3>3. QED
      BY <1>2, <3>2 DEF Holders
  <2>2. ASSUME NEW n \in Holders(mem, ch, v) PROVE n \in S
    <3>1. PICK l \in List : n \in Owned(mem, l, ch[l], v)
      BY DEF Holders
    <3>2. n \in Elems(ch[l]) /\ mem.list[l].owns /\ mem.node[n].value = v
      BY <3>1 DEF Owned
    <3>3. l \in Live(mem) /\ n \in Range(Nodes(mem, l))
      BY <1>2, <1>3, <3>2
    <3>4. n \in Allocated(mem)
      BY <1>4, <3>3
    <3>5. QED
      BY <3>2, <3>3, <3>4
  <2>3. S = Holders(mem, ch, v)
    BY <2>1, <2>2
  <2>4. QED
    BY <2>3 DEF Mem, RefsFit
<1>6. \A l \in Live(mem) :
        LET list == mem.list[l]
            chain == Nodes(mem, l) IN
        /\ Len(chain) = list.len
        /\ IsInjective(chain)
        /\ Walk(mem, list.tail, "tail") = Reverse(chain)
        /\ \A k \in Live(mem) \ {l} : Range(chain) \intersect Range(Nodes(mem, k)) = {}
        /\ LookupFits(l, chain)
  BY <1>1, <1>2
<1>7. QED
  BY <1>4, <1>5, <1>6 DEF ListInv

-------------------------------------------------------------------------------
(* The values of a chain, and the contents of the lists.                    *)

Vals(m, c) == [i \in 1 .. Len(c) |-> m.node[c[i]].value]
Con(m, ch) == [l \in List |-> IF m.list[l] = NULL THEN NULL ELSE Vals(m, ch[l])]

LEMMA ValsFacts ==
  ASSUME NEW m, NEW c \in Seq(Node), \A x \in Elems(c) : m.node[x] \in ListNode
  PROVE  /\ Vals(m, c) \in Seq(Value) /\ Len(Vals(m, c)) = Len(c)
         /\ \A i \in 1 .. Len(c) : Vals(m, c)[i] = m.node[c[i]].value
         /\ Vals(m, c) # NULL
<1>1. Len(c) \in Nat /\ \A i \in 1 .. Len(c) : m.node[c[i]] \in ListNode
  BY SeqFacts
<1>2. \A i \in 1 .. Len(c) : m.node[c[i]].value \in Value
  BY <1>1 DEF ListNode
<1>3. Vals(m, c) \in [1 .. Len(c) -> Value]
  BY <1>2 DEF Vals
<1>4. Vals(m, c) \in Seq(Value) /\ Len(Vals(m, c)) = Len(c)
  BY <1>1, <1>3
<1>5. QED
  BY <1>4, NodeFacts DEF Vals

(* The mapping of the refinement, from the chains.                          *)
LEMMA ContentsAre ==
  ASSUME NEW ch, Mem(mem, ch)
  PROVE  [l \in List |-> Values(l)] = Con(mem, ch)
<1>1. ASSUME NEW l \in List PROVE Values(l) = Con(mem, ch)[l]
  <2>1. CASE mem.list[l] = NULL
    BY <2>1 DEF Values, Con
  <2>2. CASE mem.list[l] # NULL
    <3>1. Nodes(mem, l) = ch[l] /\ ch[l] \in Seq(Node)
      BY <2>2, ListFacts, NodesAre DEF Mem
    <3>2. DOMAIN ch[l] = 1 .. Len(ch[l])
      BY <3>1
    <3>3. QED
      BY <2>2, <3>1, <3>2 DEF Values, Con, Vals
  <2>3. QED
    BY <2>1, <2>2
<1>2. QED
  BY <1>1 DEF Con

LEMMA ListVals ==
  ASSUME NEW m, NEW ch, Mem(m, ch), NEW l \in List, m.list[l] # NULL
  PROVE  /\ Vals(m, ch[l]) \in Seq(Value) /\ Len(Vals(m, ch[l])) = Len(ch[l])
         /\ \A i \in 1 .. Len(ch[l]) : Vals(m, ch[l])[i] = m.node[ch[l][i]].value
         /\ Con(m, ch)[l] = Vals(m, ch[l]) /\ Con(m, ch)[l] # NULL
<1>1. ch[l] \in Seq(Node) /\ \A x \in Elems(ch[l]) : m.node[x] \in ListNode
  BY ListFacts
<1>2. QED
  BY <1>1, ValsFacts DEF Con

(* The state after a call that makes c the chain of l.                      *)
LEMMA NowIs ==
  ASSUME NEW m, NEW n, NEW ch, NEW l \in List, NEW c, NEW d, Mem(m, ch), Makes(m, n, ch, l, c),
         Replaces(ch, l, c, d)
  PROVE  Mem(n, d) /\ d[l] = c
BY DEF Makes, Replaces, Mem, Shape

(* A call that changes the chain of one list changes its contents only.     *)
LEMMA OthersKeep ==
  ASSUME NEW m, NEW n, NEW ch, NEW l \in List, NEW c, NEW d, Mem(m, ch), Makes(m, n, ch, l, c),
         Replaces(ch, l, c, d)
  PROVE  \A k \in List \ {l} : Con(n, d)[k] = Con(m, ch)[k]
<1>1. ch \in [List -> Seq(Node)] /\ Mem(n, d) /\ d[l] = c /\ \A k \in List \ {l} : d[k] = ch[k]
  BY DEF Makes, Replaces, Mem, Shape
<1>2. ASSUME NEW k \in List \ {l} PROVE Con(n, d)[k] = Con(m, ch)[k]
  <2>1. n.list[k] = m.list[k] /\ d[k] = ch[k]
    BY <1>1 DEF Makes
  <2>2. CASE m.list[k] = NULL
    BY <2>1, <2>2 DEF Con
  <2>3. CASE m.list[k] # NULL
    <3>1. /\ ch[k] \in Seq(Node)
          /\ \A i \in 1 .. Len(ch[k]) : ch[k][i] \in Node /\ m.node[ch[k][i]] # NULL
      BY <2>3, ListFacts
    <3>2. \A i \in 1 .. Len(ch[k]) : n.node[ch[k][i]] # NULL
      <4>1. n.list[k] # NULL /\ d[k] = ch[k] /\ Mem(n, d)
        BY <1>1, <2>1, <2>3
      <4>2. \A i \in 1 .. Len(d[k]) : n.node[d[k][i]] # NULL
        BY <4>1, ListFacts
      <4>3. QED
        BY <4>1, <4>2
    <3>3. \A i \in 1 .. Len(ch[k]) : n.node[ch[k][i]].value = m.node[ch[k][i]].value
      BY <3>1, <3>2 DEF Makes, Keeps
    <3>4. Vals(n, ch[k]) = Vals(m, ch[k])
      BY <3>3 DEF Vals
    <3>5. QED
      BY <2>1, <3>4 DEF Con
  <2>4. QED
    BY <2>2, <2>3
<1>3. QED
  BY <1>1, <1>2

Fits(m, ch, n, d) == Con(n, d) = Con(m, ch) \/ Contents!Changes(Con(m, ch), Con(n, d))

(* A call whose list follows its contents fits the specification.           *)
LEMMA OneChanges ==
  ASSUME NEW m, NEW n, NEW ch, NEW l \in List, NEW c, NEW d, Mem(m, ch), Makes(m, n, ch, l, c),
         Replaces(ch, l, c, d), Con(n, d)[l] \in Contents!Successors(Con(m, ch), l)
  PROVE  Fits(m, ch, n, d)
<1>1. \A k \in List \ {l} : Con(n, d)[k] = Con(m, ch)[k]
  BY OthersKeep
<1>2. QED
  BY <1>1 DEF Fits, Contents!Changes

(* Contents grow and shrink with their chain.                               *)
LEMMA ValsShort ==
  ASSUME NEW m, NEW n, NEW d \in Seq(Node), NEW s \in Seq(Node), NEW i, Shortened(d, i, s),
         \A x \in Elems(s) : n.node[x].value = m.node[x].value
  PROVE  Shortened(Vals(m, d), i, Vals(n, s))
<1>1. /\ i \in 1 .. Len(d) /\ Len(s) = Len(d) - 1 /\ Len(d) \in Nat /\ Len(s) \in Nat
      /\ \A k \in 1 .. Len(s) : s[k] = IF k < i THEN d[k] ELSE d[k + 1]
  BY DEF Shortened
<1>2. Len(Vals(m, d)) = Len(d) /\ Len(Vals(n, s)) = Len(s)
  BY <1>1 DEF Vals
<1>3. ASSUME NEW k \in 1 .. Len(s)
      PROVE  Vals(n, s)[k] = IF k < i THEN Vals(m, d)[k] ELSE Vals(m, d)[k + 1]
  <2>1. k \in 1 .. Len(d) /\ k + 1 \in 1 .. Len(d)
    BY <1>1
  <2>2. Vals(m, d)[k] = m.node[d[k]].value /\ Vals(m, d)[k + 1] = m.node[d[k + 1]].value
    BY <2>1 DEF Vals
  <2>3. Vals(n, s)[k] = m.node[s[k]].value
    BY SeqFacts DEF Vals
  <2>4. QED
    BY <1>1, <2>2, <2>3
<1>4. QED
  BY <1>1, <1>2, <1>3 DEF Shortened

-------------------------------------------------------------------------------
(* What each call does to the contents of the lists.                        *)

LEMMA CreateFits ==
  ASSUME NEW m, NEW ch, Mem(m, ch), NEW l \in List, m.list[l] = NULL, NEW n,
         Makes(m, n, ch, l, <<>>), n.list[l] # NULL, NEW d, Replaces(ch, l, <<>>, d)
  PROVE  Fits(m, ch, n, d)
<1>1. Con(m, ch)[l] = NULL
  BY DEF Con
<1>2. Con(n, d)[l] = <<>>
  <2>1. d[l] = <<>>
    BY NowIs
  <2>2. Con(n, d)[l] = Vals(n, <<>>)
    BY <2>1 DEF Con
  <2>3. Vals(n, <<>>) \in Seq(Value) /\ Len(Vals(n, <<>>)) = 0
    <3>1. <<>> \in Seq(Node) /\ Len(<<>>) = 0 /\ \A x \in Elems(<<>>) : n.node[x] \in ListNode
      BY DEF Elems
    <3>2. QED
      BY <3>1, ValsFacts
  <2>4. QED
    BY <2>2, <2>3, EmptySeq
<1>3. Con(n, d)[l] \in Contents!Successors(Con(m, ch), l)
  BY <1>1, <1>2 DEF Contents!Successors
<1>4. QED
  BY <1>3, OneChanges

LEMMA ReleaseFits ==
  ASSUME NEW m, NEW ch, Mem(m, ch), NEW l \in List, m.list[l] # NULL, NEW n,
         Makes(m, n, ch, l, <<>>), n.list[l] = NULL, NEW d, Replaces(ch, l, <<>>, d)
  PROVE  Fits(m, ch, n, d)
<1>1. Con(m, ch)[l] # NULL
  BY ListVals
<1>2. Con(n, d)[l] = NULL
  BY DEF Con
<1>3. Con(n, d)[l] \in Contents!Successors(Con(m, ch), l)
  BY <1>1, <1>2 DEF Contents!Successors
<1>4. QED
  BY <1>3, OneChanges

LEMMA InsertFits ==
  ASSUME NEW m, NEW ch, Mem(m, ch), NEW l \in List, m.list[l] # NULL,
         NEW x \in Node, m.node[x] = NULL, NEW v \in Value, NEW i \in 1 .. Len(ch[l]) + 1,
         NEW n, Inserts(m, n, ch[l], l, i, x, v),
         NEW d, Replaces(ch, l, InsertAt(ch[l], i, x), d)
  PROVE  Fits(m, ch, n, d)
<1> DEFINE c == ch[l]
           e == InsertAt(c, i, x)
           V == Vals(m, c)
           W == Vals(n, e)
<1>1. Makes(m, n, ch, l, e) /\ n.list[l] # NULL
  BY InsertMakes
<1>2. Mem(n, d) /\ d[l] = e
  BY <1>1, NowIs
<1>3. c \in Seq(Node) /\ \A y \in Elems(c) : y \in Node /\ m.node[y] # NULL
  BY ListFacts
<1>4. e \in Seq(Node) /\ Shortened(e, i, c)
  BY <1>3, InsertIs
<1>5. \A y \in Elems(e) : n.node[y] # NULL
  <2>1. \A y \in Elems(d[l]) : n.node[y] # NULL
    BY <1>1, <1>2, ListFacts
  <2>2. QED
    BY <1>2, <2>1
<1>6. V \in Seq(Value) /\ Len(V) = Len(c) /\ Con(m, ch)[l] = V /\ Con(m, ch)[l] # NULL
  BY ListVals
<1>7. W \in Seq(Value) /\ Con(n, d)[l] = W
  <2>1. Vals(n, d[l]) \in Seq(Value) /\ Con(n, d)[l] = Vals(n, d[l])
    BY <1>1, <1>2, ListVals
  <2>2. QED
    BY <1>2, <2>1
<1>8. \A y \in Elems(c) : m.node[y].value = n.node[y].value
  <2>1. Elems(c) \subseteq Elems(e)
    BY <1>3, <1>4, ShortSets
  <2>2. QED
    BY <1>1, <1>3, <1>5, <2>1 DEF Makes, Keeps
<1> HIDE DEF c, e
<1>9. Shortened(W, i, V)
  BY <1>3, <1>4, <1>8, ValsShort
<1> HIDE DEF V, W
<1>10. i \in 1 .. Len(V) + 1 /\ W = InsertAt(V, i, W[i])
  BY <1>6, <1>7, <1>9, ShortIs
<1>11. W[i] \in Value
  BY <1>6, <1>7, <1>9, ShortElements
<1>12. W \in Contents!Longer(V)
  <2>1. PICK w \in Value : w = W[i]
    BY <1>11
  <2>2. i \in 1 .. Len(V) + 1 /\ W = InsertAt(V, i, w)
    BY <1>10, <2>1
  <2>3. W = Contents!InsertAt(V, i, w)
    BY <2>2 DEF Contents!InsertAt, InsertAt
  <2>4. QED
    BY <2>2, <2>3 DEF Contents!Longer
<1>13. Con(n, d)[l] \in Contents!Successors(Con(m, ch), l)
  BY <1>6, <1>7, <1>12 DEF Contents!Successors
<1>14. QED
  BY <1>1, <1>13, OneChanges DEF e, c

LEMMA DeleteFits ==
  ASSUME NEW m, NEW ch, Mem(m, ch), NEW l \in List, m.list[l] # NULL,
         NEW i \in 1 .. Len(ch[l]), NEW n, Deletes(m, n, ch[l], l, i),
         NEW d, Replaces(ch, l, RemoveAt(ch[l], i), d)
  PROVE  Fits(m, ch, n, d)
<1> DEFINE c == ch[l]
           e == RemoveAt(c, i)
           V == Vals(m, c)
           W == Vals(n, e)
<1>1. Makes(m, n, ch, l, e) /\ n.list[l] # NULL
  BY DeletedMakes
<1>2. Mem(n, d) /\ d[l] = e
  BY <1>1, NowIs
<1>3. c \in Seq(Node) /\ \A y \in Elems(c) : y \in Node /\ m.node[y] # NULL
  BY ListFacts
<1>4. e \in Seq(Node) /\ Shortened(c, i, e)
  BY <1>3, RemoveIs
<1>5. \A y \in Elems(e) : n.node[y] # NULL
  <2>1. \A y \in Elems(d[l]) : n.node[y] # NULL
    BY <1>1, <1>2, ListFacts
  <2>2. QED
    BY <1>2, <2>1
<1>6. V \in Seq(Value) /\ Len(V) = Len(c) /\ Con(m, ch)[l] = V /\ Con(m, ch)[l] # NULL
  BY ListVals
<1>7. W \in Seq(Value) /\ Con(n, d)[l] = W
  <2>1. Vals(n, d[l]) \in Seq(Value) /\ Con(n, d)[l] = Vals(n, d[l])
    BY <1>1, <1>2, ListVals
  <2>2. QED
    BY <1>2, <2>1
<1>8. \A y \in Elems(e) : n.node[y].value = m.node[y].value
  <2>1. Elems(e) \subseteq Elems(c)
    BY <1>3, <1>4, ShortSets
  <2>2. QED
    BY <1>1, <1>3, <1>5, <2>1 DEF Makes, Keeps
<1>0. i \in 1 .. Len(c)
  OBVIOUS
<1> HIDE DEF c, e
<1>9. Shortened(V, i, W)
  BY <1>3, <1>4, <1>8, ValsShort
<1> HIDE DEF V, W
<1>10. W = RemoveAt(V, i)
  BY <1>6, <1>7, <1>9, ShortIs
<1>11. i \in DOMAIN V
  BY <1>0, <1>6
<1>12. W \in Contents!Shorter(V)
  BY <1>10, <1>11 DEF Contents!Shorter, Contents!RemoveAt, RemoveAt
<1>13. Con(n, d)[l] \in Contents!Successors(Con(m, ch), l)
  BY <1>6, <1>7, <1>12 DEF Contents!Successors
<1>14. QED
  BY <1>1, <1>13, OneChanges DEF e, c

(* ... and turn with it.                                                    *)
LEMMA TurnedVals ==
  ASSUME NEW m, NEW n, NEW c \in Seq(Node), NEW d \in Seq(Node), Turns(c, d), Len(c) >= 1,
         \A y \in Elems(c) : n.node[y].value = m.node[y].value
  PROVE  Turns(Vals(m, c), Vals(n, d))
<1>1. Len(c) \in Nat /\ Len(d) = Len(c)
      /\ \A k \in 1 .. Len(c) : d[k] = IF k = 1 THEN c[Len(c)] ELSE c[k - 1]
  BY DEF Turns
<1>2. Len(Vals(m, c)) = Len(c) /\ Len(Vals(n, d)) = Len(c)
  BY <1>1 DEF Vals
<1>3. ASSUME NEW k \in 1 .. Len(c)
      PROVE  Vals(n, d)[k] = IF k = 1 THEN Vals(m, c)[Len(c)] ELSE Vals(m, c)[k - 1]
  <2>1. Vals(n, d)[k] = n.node[d[k]].value
    BY <1>1 DEF Vals
  <2>2. CASE k = 1
    <3>1. Len(c) \in 1 .. Len(c)
      BY <1>1
    <3>2. c[Len(c)] \in Elems(c) /\ Vals(m, c)[Len(c)] = m.node[c[Len(c)]].value
      BY <3>1, SeqFacts DEF Vals
    <3>3. QED
      BY <1>1, <2>1, <2>2, <3>2
  <2>3. CASE k # 1
    <3>1. k - 1 \in 1 .. Len(c)
      BY <1>1, <2>3
    <3>2. c[k - 1] \in Elems(c) /\ Vals(m, c)[k - 1] = m.node[c[k - 1]].value
      BY <3>1, SeqFacts DEF Vals
    <3>3. QED
      BY <1>1, <2>1, <2>3, <3>2
  <2>4. QED
    BY <2>2, <2>3
<1>4. QED
  BY <1>2, <1>3 DEF Turns

LEMMA TurnsOnce ==
  ASSUME NEW S, NEW c \in Seq(S), NEW d \in Seq(S), Turns(c, d), NEW e \in Seq(S), Turns(c, e)
  PROVE  d = e
<1>1. Len(d) = Len(e) /\ \A k \in 1 .. Len(d) : d[k] = e[k]
  BY DEF Turns
<1>2. QED
  BY <1>1, SeqFacts

LEMMA RotateFits ==
  ASSUME NEW m, NEW ch, Mem(m, ch), NEW l \in List, m.list[l] # NULL, Len(ch[l]) >= 2,
         NEW n, Rotates(m, n, ch[l], l), NEW e \in Seq(Node), Turns(ch[l], e),
         NEW d, Replaces(ch, l, e, d)
  PROVE  Fits(m, ch, n, d)
<1> DEFINE c == ch[l]
           V == Vals(m, c)
           W == Vals(n, e)
<1>1. Makes(m, n, ch, l, e) /\ n.list[l] # NULL
  BY RotatedMakes
<1>2. Mem(n, d) /\ d[l] = e
  BY <1>1, NowIs
<1>3. c \in Seq(Node) /\ \A y \in Elems(c) : y \in Node /\ m.node[y] # NULL
  BY ListFacts
<1>5. \A y \in Elems(e) : n.node[y] # NULL
  BY <1>1, <1>2, ListFacts
<1>6. V \in Seq(Value) /\ Len(V) = Len(c) /\ Con(m, ch)[l] = V /\ Con(m, ch)[l] # NULL
  BY ListVals
<1>7. W \in Seq(Value) /\ Con(n, d)[l] = W
  BY <1>1, <1>2, ListVals
<1>8. \A y \in Elems(c) : n.node[y].value = m.node[y].value
  <2>1. Elems(e) = Elems(c)
    BY <1>3, TurnedElements
  <2>2. QED
    BY <1>1, <1>3, <1>5, <2>1 DEF Makes, Keeps
<1>0. Turns(c, e) /\ Len(c) >= 2 /\ Len(c) \in Nat
  BY <1>3
<1> HIDE DEF c
<1>9. Turns(V, W)
  <2>1. Len(c) >= 1
    BY <1>0
  <2>2. QED
    BY <1>0, <1>3, <1>8, <2>1, TurnedVals
<1> HIDE DEF V, W
<1>10. V # <<>>
  BY <1>0, <1>6
<1>11. W = <<Last(V)>> \o Front(V)
  BY <1>6, <1>7, <1>9, <1>10, TurnIs, TurnsOnce
<1>12. W \in Contents!Turned(V)
  BY <1>10, <1>11 DEF Contents!Turned, Contents!Last, Contents!Front, Last, Front
<1>13. Con(n, d)[l] \in Contents!Successors(Con(m, ch), l)
  BY <1>6, <1>7, <1>12 DEF Contents!Successors
<1>14. QED
  BY <1>1, <1>13, OneChanges

LEMMA DupFits ==
  ASSUME NEW m, NEW ch, Mem(m, ch), NEW l \in List, m.list[l] # NULL,
         NEW c \in List, m.list[c] = NULL,
         NEW fresh \in Seq(Node), Len(fresh) = Len(ch[l]), NEW n,
         Makes(m, n, ch, c, fresh), n.list[c] # NULL,
         \A i \in 1 .. Len(fresh) : n.node[fresh[i]].value = m.node[ch[l][i]].value,
         NEW d, Replaces(ch, c, fresh, d)
  PROVE  Fits(m, ch, n, d)
<1>1. Mem(n, d) /\ d[c] = fresh
  BY NowIs
<1>2. Con(n, d)[c] = Vals(n, fresh)
  BY <1>1 DEF Con
<1>3. Con(m, ch)[l] = Vals(m, ch[l]) /\ Con(m, ch)[c] = NULL
  BY DEF Con
<1>4. Vals(n, fresh) = Vals(m, ch[l])
  BY DEF Vals
<1>5. Con(n, d)[c] \in Contents!Successors(Con(m, ch), c)
  BY <1>2, <1>3, <1>4 DEF Contents!Successors
<1>6. QED
  BY <1>5, OneChanges

LEMMA DupFailsFits ==
  ASSUME NEW m, NEW ch, Mem(m, ch), NEW c \in List, m.list[c] = NULL, NEW n,
         Makes(m, n, ch, c, <<>>), n.list[c] = NULL, NEW d, Replaces(ch, c, <<>>, d)
  PROVE  Fits(m, ch, n, d)
<1>1. \A k \in List \ {c} : Con(n, d)[k] = Con(m, ch)[k]
  BY OthersKeep
<1>2. Con(n, d)[c] = Con(m, ch)[c]
  BY DEF Con
<1>3. Con(n, d) = Con(m, ch)
  BY <1>1, <1>2 DEF Con
<1>4. QED
  BY <1>3 DEF Fits

-------------------------------------------------------------------------------
(* What each call does to the iteration under way.                          *)

(* A call on another list.                                                  *)
LEMMA OtherGoesOn ==
  ASSUME NEW m, NEW ch, NEW it, NEW st, NEW vi, State(m, ch, it, st, vi),
         NEW l \in List, NEW c, NEW n, NEW d, Makes(m, n, ch, l, c), Replaces(ch, l, c, d),
         it # NULL => it.list # l
  PROVE  State(n, d, it, st, vi)
<1>1. Mem(m, ch)
  BY DEF State
<1>2. Mem(n, d)
  BY <1>1, NowIs
<1>3. CASE it # NULL
  <2>1. it \in ListIter /\ m.list[it.list] # NULL /\ Going(Facing(ch[it.list], it.direction), it, st, vi)
    BY <1>3 DEF State
  <2>2. it.list \in List \ {l}
    BY <1>3, <2>1 DEF ListIter
  <2>3. n.list[it.list] = m.list[it.list]
    BY <2>2 DEF Makes
  <2>4. d[it.list] = ch[it.list]
    BY <1>1, <2>2 DEF Mem, Shape, Replaces
  <2>5. QED
    BY <1>2, <2>1, <2>3, <2>4 DEF State
<1>4. QED
  BY <1>2, <1>3 DEF State

(* A node is added, anywhere in any list.                                   *)
LEMMA AddedGoesOn ==
  ASSUME NEW m, NEW ch, NEW it, NEW st, NEW vi, State(m, ch, it, st, vi),
         NEW l \in List, m.list[l] # NULL,
         NEW x \in Node, m.node[x] = NULL, NEW v \in Value, NEW i \in 1 .. Len(ch[l]) + 1,
         NEW n, Inserts(m, n, ch[l], l, i, x, v),
         NEW d, Replaces(ch, l, InsertAt(ch[l], i, x), d)
  PROVE  State(n, d, it, st, vi)
<1> DEFINE c == ch[l]
           e == InsertAt(c, i, x)
<1>1. Mem(m, ch)
  BY DEF State
<1>2. Makes(m, n, ch, l, e) /\ n.list[l] # NULL
  BY <1>1, InsertMakes
<1>3. CASE it # NULL /\ it.list = l
  <2> DEFINE dir == it.direction
  <2>1. it \in ListIter /\ Going(Facing(c, dir), it, st, vi)
    BY <1>3 DEF State
  <2>2. Mem(n, d) /\ d[l] = e
    BY <1>1, <1>2, NowIs
  <2>3. c \in Seq(Node)
    BY <1>1, ListFacts
  <2>4. e \in Seq(Node) /\ Shortened(e, i, c)
    BY <2>3, InsertIs
  <2> HIDE DEF c, e
  <2>5. PICK j : Shortened(Facing(e, dir), j, Facing(c, dir))
    BY <2>3, <2>4, FacingShort
  <2>6. Facing(e, dir) \in Seq(Node) /\ Facing(c, dir) \in Seq(Node)
    BY <2>3, <2>4, FacingFacts
  <2>7. Going(Facing(e, dir), it, st, vi)
    BY <2>1, <2>5, <2>6, GoingGrown
  <2>8. QED
    BY <1>2, <1>3, <2>1, <2>2, <2>7 DEF State
<1>4. CASE it # NULL => it.list # l
  BY <1>2, <1>4, OtherGoesOn
<1>5. QED
  BY <1>3, <1>4

(* The node returned last is removed.                                       *)
LEMMA RemovedGoesOn ==
  ASSUME NEW m, NEW ch, NEW it, NEW st, NEW vi, State(m, ch, it, st, vi),
         NEW l \in List, m.list[l] # NULL, NEW i \in 1 .. Len(ch[l]),
         NEW n, Deletes(m, n, ch[l], l, i),
         NEW d, Replaces(ch, l, RemoveAt(ch[l], i), d),
         NEW x, x = ch[l][i], it # NULL, it.list = l, it.current = x,
         NEW jt, jt = [it EXCEPT !.current = NULL]
  PROVE  State(n, d, jt, Without(st, x), Without(vi, x))
<1> DEFINE c == ch[l]
           e == RemoveAt(c, i)
           dir == it.direction
<1>1. Mem(m, ch)
  BY DEF State
<1>2. Makes(m, n, ch, l, e) /\ n.list[l] # NULL
  BY <1>1, DeletedMakes
<1>3. it \in ListIter /\ Going(Facing(c, dir), it, st, vi)
  BY DEF State
<1>4. Mem(n, d) /\ d[l] = e
  BY <1>1, <1>2, NowIs
<1>5. c \in Seq(Node) /\ Distinct(c) /\ c[i] = x /\ x \in Node
  BY <1>1, ListFacts
<1>6. e \in Seq(Node) /\ Shortened(c, i, e)
  BY <1>5, RemoveIs
<1>7. jt \in ListIter /\ jt.list = l /\ jt.direction = dir
  BY <1>3 DEF ListIter, Pointer
<1> HIDE DEF c, e, dir
<1>8. PICK j : Shortened(Facing(c, dir), j, Facing(e, dir)) /\ Facing(c, dir)[j] = x
  BY <1>5, <1>6, FacingShort, SMTT(30)
<1>9. Facing(e, dir) \in Seq(Node) /\ Facing(c, dir) \in Seq(Node) /\ Distinct(Facing(c, dir))
  BY <1>5, <1>6, FacingFacts
<1>10. x # NULL
  BY <1>5, NodeFacts
<1>11. Going(Facing(e, dir), jt, Without(st, x), Without(vi, x))
  BY <1>3, <1>8, <1>9, <1>10, GoingShrunk
<1>12. QED
  BY <1>2, <1>4, <1>7, <1>11 DEF State

-------------------------------------------------------------------------------
(* Each action leads from a state with chains to one with chains, and does  *)
(* to the contents what the abstract specification allows.                  *)

Follows(ch) == \E d : State(mem', d, iter', start', visited') /\ Fits(mem, ch, mem', d)

LEMMA CreateFollows ==
  ASSUME NEW ch, State(mem, ch, iter, start, visited), NEW l \in List, Create(l)
  PROVE  Follows(ch)
<1>1. mem.list[l] = NULL /\ iter' = iter /\ start' = start /\ visited' = visited
  BY DEF Create
<1>2. PICK owning \in BOOLEAN : mem' = listCreate(mem, l, owning)
  BY DEF Create
<1>3. PICK d : Replaces(ch, l, <<>>, d)
  BY DEF Replaces
<1>4. Mem(mem, ch) /\ (iter # NULL => iter.list # l)
  BY <1>1 DEF State
<1>5. Makes(mem, mem', ch, l, <<>>) /\ mem'.list[l] # NULL
  BY <1>1, <1>2, <1>4, CreateMakes
<1>6. State(mem', d, iter, start, visited)
  BY <1>3, <1>4, <1>5, OtherGoesOn
<1>7. Fits(mem, ch, mem', d)
  BY <1>1, <1>3, <1>4, <1>5, CreateFits
<1>8. QED
  BY <1>1, <1>6, <1>7 DEF Follows

LEMMA ReleaseFollows ==
  ASSUME NEW ch, State(mem, ch, iter, start, visited), NEW l \in List, Release(l)
  PROVE  Follows(ch)
<1>1. /\ mem.list[l] # NULL /\ mem' = listRelease(mem, l) /\ (iter # NULL => iter.list # l)
      /\ iter' = iter /\ start' = start /\ visited' = visited
  BY DEF Release, Live, Iterates
<1>2. PICK d : Replaces(ch, l, <<>>, d)
  BY DEF Replaces
<1>3. Mem(mem, ch)
  BY DEF State
<1>4. Makes(mem, mem', ch, l, <<>>) /\ mem'.list[l] = NULL
  BY <1>1, <1>3, ReleaseMakes
<1>5. State(mem', d, iter, start, visited)
  BY <1>1, <1>2, <1>4, OtherGoesOn
<1>6. Fits(mem, ch, mem', d)
  BY <1>1, <1>2, <1>3, <1>4, ReleaseFits
<1>7. QED
  BY <1>1, <1>5, <1>6 DEF Follows

LEMMA InsertFollows ==
  ASSUME NEW ch, State(mem, ch, iter, start, visited), NEW l \in List, mem.list[l] # NULL,
         NEW x \in Node, mem.node[x] = NULL, NEW v \in Value, NEW i \in 1 .. Len(ch[l]) + 1,
         Inserts(mem, mem', ch[l], l, i, x, v),
         iter' = iter, start' = start, visited' = visited
  PROVE  Follows(ch)
<1>1. PICK d : Replaces(ch, l, InsertAt(ch[l], i, x), d)
  BY DEF Replaces
<1>2. Mem(mem, ch)
  BY DEF State
<1>3. State(mem', d, iter, start, visited)
  BY <1>1, AddedGoesOn
<1>4. Fits(mem, ch, mem', d)
  BY <1>1, <1>2, InsertFits
<1>5. QED
  BY <1>3, <1>4 DEF Follows

LEMMA AddFollows ==
  ASSUME NEW ch, State(mem, ch, iter, start, visited), NEW l \in List, AddNode(l)
  PROVE  Follows(ch)
<1>1. mem.list[l] # NULL /\ iter' = iter /\ start' = start /\ visited' = visited
  BY DEF AddNode, Live
<1>2. Mem(mem, ch)
  BY DEF State
<1>3. PICK x \in Node \ Allocated(mem), v \in Value :
        \/ mem' = listAddNodeHead(mem, l, v, x)
        \/ mem' = listAddNodeTail(mem, l, v, x)
        \/ \E old \in Range(Nodes(mem, l)), after \in BOOLEAN :
             mem' = listInsertNode(mem, l, old, v, after, x)
  BY DEF AddNode
<1>4. x \in Node /\ mem.node[x] = NULL
  BY DEF Allocated
<1>5. ch[l] \in Seq(Node) /\ Len(ch[l]) \in Nat
  BY <1>1, <1>2, ListFacts
<1>6. CASE mem' = listAddNodeHead(mem, l, v, x)
  <2>1. Inserts(mem, mem', ch[l], l, 1, x, v)
    BY <1>1, <1>2, <1>4, <1>6, AddHeadInserts
  <2>2. 1 \in 1 .. Len(ch[l]) + 1
    BY <1>5
  <2>3. QED
    BY <1>1, <1>4, <2>1, <2>2, InsertFollows
<1>7. CASE mem' = listAddNodeTail(mem, l, v, x)
  <2>1. Inserts(mem, mem', ch[l], l, Len(ch[l]) + 1, x, v)
    BY <1>1, <1>2, <1>4, <1>7, AddTailInserts
  <2>2. Len(ch[l]) + 1 \in 1 .. Len(ch[l]) + 1
    BY <1>5
  <2>3. QED
    BY <1>1, <1>4, <2>1, <2>2, InsertFollows
<1>8. ASSUME NEW old \in Range(Nodes(mem, l)), NEW after \in BOOLEAN,
             mem' = listInsertNode(mem, l, old, v, after, x)
      PROVE  Follows(ch)
  <2>1. Nodes(mem, l) = ch[l]
    BY <1>1, <1>2, NodesAre DEF Mem
  <2>2. PICK j \in 1 .. Len(ch[l]) : ch[l][j] = old
    BY <1>5, <2>1 DEF Range
  <2>3. /\ Inserts(mem, mem', ch[l], l, InsertPlace(j, after), x, v)
        /\ InsertPlace(j, after) \in 1 .. Len(ch[l]) + 1
    BY <1>1, <1>2, <1>4, <1>8, <2>2, InsertNodeInserts
  <2>4. QED
    BY <1>1, <1>4, <2>3, InsertFollows
<1>9. QED
  BY <1>3, <1>6, <1>7, <1>8

LEMMA DeleteFollows ==
  ASSUME NEW ch, State(mem, ch, iter, start, visited), NEW l \in List, DelNode(l)
  PROVE  Follows(ch)
<1>1. mem.list[l] # NULL
  BY DEF DelNode, Live
<1>2. PICK x \in Removable(l) :
        /\ mem' = listDelNode(mem, l, x)
        /\ IF Iterates(l)
           THEN /\ iter' = [iter EXCEPT !.current = NULL]
                /\ start' = Without(start, x)
                /\ visited' = Without(visited, x)
           ELSE UNCHANGED <<iter, start, visited>>
  BY DEF DelNode
<1>3. Mem(mem, ch)
  BY DEF State
<1>4. ch[l] \in Seq(Node) /\ Nodes(mem, l) = ch[l]
  BY <1>1, <1>3, ListFacts, NodesAre DEF Mem
<1>5. PICK i \in 1 .. Len(ch[l]) : ch[l][i] = x
  <2>1. CASE Iterates(l)
    <3>1. iter # NULL /\ iter.list = l /\ x = iter.current /\ x # NULL
      BY <2>1 DEF Removable, Iterates
    <3>2. Going(Facing(ch[l], iter.direction), iter, start, visited)
      BY <3>1 DEF State
    <3>3. x \in Elems(Facing(ch[l], iter.direction))
      BY <3>1, <3>2 DEF Going
    <3>4. Elems(Facing(ch[l], iter.direction)) = Elems(ch[l])
      BY <1>4, FacingFacts
    <3>5. QED
      BY <1>4, <3>3, <3>4, SeqFacts
  <2>2. CASE ~ Iterates(l)
    BY <1>4, <2>2 DEF Removable, Range
  <2>3. QED
    BY <2>1, <2>2
<1>6. Deletes(mem, mem', ch[l], l, i)
  BY <1>1, <1>2, <1>3, <1>5, DelNodeDeletes
<1>7. PICK d : Replaces(ch, l, RemoveAt(ch[l], i), d)
  BY DEF Replaces
<1>8. Fits(mem, ch, mem', d)
  BY <1>1, <1>3, <1>6, <1>7, DeleteFits
<1>9. CASE Iterates(l)
  <2>1. iter # NULL /\ iter.list = l /\ iter.current = ch[l][i]
    BY <1>5, <1>9 DEF Removable, Iterates
  <2>2. iter' = [iter EXCEPT !.current = NULL] /\ start' = Without(start, x)
        /\ visited' = Without(visited, x)
    BY <1>2, <1>9
  <2>3. State(mem', d, iter', start', visited')
    <3>1. State(mem', d, iter', Without(start, ch[l][i]), Without(visited, ch[l][i]))
      BY <1>1, <1>6, <1>7, <2>1, <2>2, RemovedGoesOn
    <3>2. QED
      BY <1>5, <2>2, <3>1
  <2>4. QED
    BY <1>8, <2>3 DEF Follows
<1>10. CASE ~ Iterates(l)
  <2>1. iter' = iter /\ start' = start /\ visited' = visited /\ (iter # NULL => iter.list # l)
    BY <1>2, <1>10 DEF Iterates
  <2>2. Makes(mem, mem', ch, l, RemoveAt(ch[l], i))
    BY <1>1, <1>3, <1>6, DeletedMakes
  <2>3. State(mem', d, iter, start, visited)
    BY <1>7, <2>1, <2>2, OtherGoesOn
  <2>4. QED
    BY <1>8, <2>1, <2>3 DEF Follows
<1>11. QED
  BY <1>9, <1>10

LEMMA RotateFollows ==
  ASSUME NEW ch, State(mem, ch, iter, start, visited), NEW l \in List, RotateList(l)
  PROVE  Follows(ch)
<1>1. /\ mem.list[l] # NULL /\ mem' = listRotate(mem, l) /\ (iter # NULL => iter.list # l)
      /\ iter' = iter /\ start' = start /\ visited' = visited
  BY DEF RotateList, Live, Iterates
<1>2. Mem(mem, ch)
  BY DEF State
<1>3. ch[l] \in Seq(Node) /\ Len(ch[l]) \in Nat /\ mem.list[l].len = Len(ch[l])
  BY <1>1, <1>2, ListFacts
<1>4. CASE Len(ch[l]) >= 2
  <2> DEFINE e == <<Last(ch[l])>> \o Front(ch[l])
  <2>1. ch[l] # <<>>
    BY <1>4
  <2>2. e \in Seq(Node) /\ Turns(ch[l], e)
    BY <1>3, <2>1, TurnIs
  <2> HIDE DEF e
  <2>3. Rotates(mem, mem', ch[l], l)
    BY <1>1, <1>2, <1>4, RotateRotates
  <2>4. PICK d : Replaces(ch, l, e, d)
    BY DEF Replaces
  <2>5. Makes(mem, mem', ch, l, e)
    BY <1>1, <1>2, <1>4, <2>2, <2>3, RotatedMakes
  <2>6. State(mem', d, iter, start, visited)
    BY <1>1, <2>4, <2>5, OtherGoesOn
  <2>7. Fits(mem, ch, mem', d)
    BY <1>1, <1>2, <1>4, <2>2, <2>3, <2>4, RotateFits
  <2>8. QED
    BY <1>1, <2>6, <2>7 DEF Follows
<1>5. CASE ~ (Len(ch[l]) >= 2)
  <2>1. mem.list[l].len <= 1
    BY <1>3, <1>5
  <2>2. mem' = mem
    BY <1>1, <2>1 DEF listRotate
  <2>3. QED
    BY <1>1, <2>2 DEF Follows, Fits
<1>6. QED
  BY <1>4, <1>5

(* The addresses of a copy.                                                 *)
LEMMA InjectionIs ==
  ASSUME NEW k \in Nat, NEW fresh \in Injections(k)
  PROVE  /\ fresh \in Seq(Node) /\ Len(fresh) = k /\ Distinct(fresh)
         /\ \A x \in Elems(fresh) : mem.node[x] = NULL
<1>1. fresh \in [1 .. k -> Node \ Allocated(mem)] /\ \A i, j \in 1 .. k : fresh[i] = fresh[j] => i = j
  BY DEF Injections
<1>2. fresh \in Seq(Node) /\ Len(fresh) = k /\ DOMAIN fresh = 1 .. k
  BY <1>1
<1>3. Distinct(fresh)
  BY <1>1, <1>2 DEF Distinct
<1>4. \A x \in Elems(fresh) : mem.node[x] = NULL
  BY <1>1, <1>2 DEF Elems, Allocated
<1>5. QED
  BY <1>2, <1>3, <1>4

LEMMA DupFollows ==
  ASSUME NEW ch, State(mem, ch, iter, start, visited), NEW l \in List, NEW c \in List, Dup(l, c)
  PROVE  Follows(ch)
<1>1. /\ mem.list[l] # NULL /\ mem.list[c] = NULL
      /\ iter' = iter /\ start' = start /\ visited' = visited
  BY DEF Dup, Live
<1>2. Mem(mem, ch) /\ (iter # NULL => iter.list # c)
  BY <1>1 DEF State
<1>3. Len(ch[l]) \in Nat /\ mem.list[l].len = Len(ch[l])
  BY <1>1, <1>2, ListFacts
<1>4. ASSUME NEW fresh \in Injections(mem.list[l].len), mem' = listDup(mem, l, c, fresh)
      PROVE  Follows(ch)
  <2>1. /\ fresh \in Seq(Node) /\ Len(fresh) = Len(ch[l]) /\ Distinct(fresh)
        /\ \A x \in Elems(fresh) : mem.node[x] = NULL
    BY <1>3, InjectionIs
  <2>2. /\ Makes(mem, mem', ch, c, fresh) /\ mem'.list[c] # NULL
        /\ \A i \in 1 .. Len(fresh) : mem'.node[fresh[i]].value = mem.node[ch[l][i]].value
    BY <1>1, <1>2, <1>4, <2>1, DupMakes
  <2>3. PICK d : Replaces(ch, c, fresh, d)
    BY DEF Replaces
  <2>4. State(mem', d, iter, start, visited)
    BY <1>2, <2>2, <2>3, OtherGoesOn
  <2>5. Fits(mem, ch, mem', d)
    BY <1>1, <1>2, <2>1, <2>2, <2>3, DupFits
  <2>6. QED
    BY <1>1, <2>4, <2>5 DEF Follows
<1>5. ASSUME NEW k \in 0 .. mem.list[l].len - 1, NEW fresh \in Injections(k),
             mem' = listDupFails(mem, l, c, fresh, k)
      PROVE  Follows(ch)
  <2>1. k \in Nat /\ k <= Len(ch[l])
    BY <1>3
  <2>2. /\ fresh \in Seq(Node) /\ Len(fresh) = k /\ Distinct(fresh)
        /\ \A x \in Elems(fresh) : mem.node[x] = NULL
    BY <2>1, InjectionIs
  <2>3. mem' = listDupFails(mem, l, c, fresh, Len(fresh)) /\ Len(fresh) <= Len(ch[l])
    BY <1>5, <2>1, <2>2
  <2>4. Makes(mem, mem', ch, c, <<>>) /\ mem'.list[c] = NULL
    BY <1>1, <1>2, <2>2, <2>3, DupFailsMakes
  <2>5. PICK d : Replaces(ch, c, <<>>, d)
    BY DEF Replaces
  <2>6. State(mem', d, iter, start, visited)
    BY <1>2, <2>4, <2>5, OtherGoesOn
  <2>7. Fits(mem, ch, mem', d)
    BY <1>1, <1>2, <2>4, <2>5, DupFailsFits
  <2>8. QED
    BY <1>1, <2>6, <2>7 DEF Follows
<1>6. QED
  BY <1>4, <1>5 DEF Dup

LEMMA FirstPointer ==
  ASSUME NEW m, NEW ch, Mem(m, ch), NEW l \in List, m.list[l] # NULL, NEW dir
  PROVE  First(m, l, dir) \in Pointer
<1>1. m.list[l].head = At(ch[l], 1) /\ m.list[l].tail = At(ch[l], Len(ch[l])) /\ ch[l] \in Seq(Node)
  BY ListFacts
<1>2. QED
  BY <1>1, AtPointer DEF First

LEMMA StartFollows ==
  ASSUME NEW ch, State(mem, ch, iter, start, visited), NEW l \in List, StartIteration(l)
  PROVE  Follows(ch)
<1>1. mem.list[l] # NULL /\ mem' = mem /\ visited' = <<>>
  BY DEF StartIteration, Live
<1>2. PICK dir \in {"head", "tail"} :
        /\ iter' = [list |-> l, direction |-> dir, next |-> First(mem, l, dir), current |-> NULL]
        /\ start' = Walk(mem, First(mem, l, dir), dir)
  BY DEF StartIteration
<1>3. Mem(mem, ch)
  BY DEF State
<1>4. First(mem, l, dir) \in Pointer
  BY <1>1, <1>3, FirstPointer
<1>5. /\ iter' \in ListIter /\ iter'.list = l /\ iter'.direction = dir
      /\ iter'.next = First(mem, l, dir) /\ iter'.current = NULL
  BY <1>2, <1>4 DEF ListIter, Pointer
<1>6. /\ At(Facing(ch[l], dir), 1) = First(mem, l, dir)
      /\ Walk(mem, First(mem, l, dir), dir) = Facing(ch[l], dir)
  BY <1>1, <1>3, WalkAll DEF Mem
<1>7. Facing(ch[l], dir) \in Seq(Node) /\ Distinct(Facing(ch[l], dir))
  <2>1. ch[l] \in Seq(Node) /\ Distinct(ch[l])
    BY <1>1, <1>3, ListFacts
  <2>2. QED
    BY <2>1, FacingFacts
<1>8. Going(Facing(ch[l], dir), iter', Facing(ch[l], dir), <<>>)
  BY <1>5, <1>6, <1>7, GoingStarts
<1>9. start' = Facing(ch[l], dir)
  BY <1>2, <1>6
<1>10. State(mem', ch, iter', start', visited')
  BY <1>1, <1>3, <1>5, <1>8, <1>9 DEF State
<1>11. QED
  BY <1>1, <1>10 DEF Follows, Fits

LEMMA NextFollows ==
  ASSUME NEW ch, State(mem, ch, iter, start, visited), NextNode
  PROVE  Follows(ch)
<1> DEFINE l == iter.list
           dir == iter.direction
           d == Facing(ch[l], dir)
<1>1. /\ iter # NULL /\ iter.next # NULL /\ mem' = mem /\ start' = start
      /\ visited' = Append(visited, iter.next)
      /\ iter' = [iter EXCEPT !.current = iter.next, !.next = Follow(mem, iter.next, dir)]
  BY DEF NextNode, Follow
<1>2. Mem(mem, ch) /\ iter \in ListIter /\ mem.list[l] # NULL /\ Going(d, iter, start, visited)
  BY <1>1 DEF State
<1>3. l \in List /\ dir \in {"head", "tail"}
  BY <1>2 DEF ListIter
<1>4. /\ ch[l] \in Seq(Node) /\ Distinct(ch[l])
      /\ \A x \in Elems(ch[l]) : x \in Node /\ mem.node[x] \in ListNode
  BY <1>2, <1>3, ListFacts
<1>5. d \in Seq(Node) /\ Distinct(d) /\ Elems(d) = Elems(ch[l])
  BY <1>4, FacingFacts
<1>6. Leads(mem, d, dir)
  BY <1>2, <1>3, WalkAll DEF Mem
<1> HIDE DEF d
<1>7. iter.next \in Elems(d)
  BY <1>1, <1>2 DEF Going
<1>8. iter.next \in Node /\ Follow(mem, iter.next, dir) \in Pointer
  <2>1. iter.next \in Node /\ mem.node[iter.next] \in ListNode
    BY <1>4, <1>5, <1>7
  <2>2. QED
    BY <2>1 DEF Follow, ListNode
<1>9. /\ iter' \in ListIter /\ iter'.list = l /\ iter'.direction = dir
      /\ iter'.next = Follow(mem, iter.next, dir) /\ iter'.current = iter.next
  <2>1. PICK q \in Pointer : q = Follow(mem, iter.next, dir)
    BY <1>8
  <2>2. iter' = [iter EXCEPT !.current = iter.next, !.next = q] /\ iter.next \in Pointer
    BY <1>1, <1>8, <2>1 DEF Pointer
  <2>3. QED
    BY <1>2, <2>1, <2>2 DEF ListIter
<1>10. Going(d, iter', start, Append(visited, iter.next))
  BY <1>1, <1>2, <1>5, <1>6, <1>9, GoingOn
<1>11. State(mem', ch, iter', start', visited')
  BY <1>1, <1>2, <1>9, <1>10 DEF State, d
<1>12. QED
  BY <1>1, <1>11 DEF Follows, Fits

LEMMA EndFollows ==
  ASSUME NEW ch, State(mem, ch, iter, start, visited), EndIteration
  PROVE  Follows(ch)
<1>1. mem' = mem /\ iter' = NULL
  BY DEF EndIteration
<1>2. State(mem', ch, iter', start', visited')
  BY <1>1 DEF State
<1>3. QED
  BY <1>1, <1>2 DEF Follows, Fits

LEMMA StepFollows ==
  ASSUME NEW ch, State(mem, ch, iter, start, visited), [Next]_vars
  PROVE  Follows(ch)
<1>1. CASE UNCHANGED vars
  BY <1>1 DEF vars, Follows, Fits
<1>2. CASE Next
  <2>1. ASSUME NEW l \in List, Create(l) PROVE Follows(ch)
    BY <2>1, CreateFollows
  <2>2. ASSUME NEW l \in List, Release(l) PROVE Follows(ch)
    BY <2>2, ReleaseFollows
  <2>3. ASSUME NEW l \in List, AddNode(l) PROVE Follows(ch)
    BY <2>3, AddFollows
  <2>4. ASSUME NEW l \in List, DelNode(l) PROVE Follows(ch)
    BY <2>4, DeleteFollows
  <2>5. ASSUME NEW l \in List, RotateList(l) PROVE Follows(ch)
    BY <2>5, RotateFollows
  <2>6. ASSUME NEW l \in List, StartIteration(l) PROVE Follows(ch)
    BY <2>6, StartFollows
  <2>7. ASSUME NEW l \in List, NEW c \in List, Dup(l, c) PROVE Follows(ch)
    BY <2>7, DupFollows
  <2>8. CASE NextNode
    BY <2>8, NextFollows
  <2>9. CASE EndIteration
    BY <2>9, EndFollows
  <2>10. QED
    BY <1>2, <2>1, <2>2, <2>3, <2>4, <2>5, <2>6, <2>7, <2>8, <2>9 DEF Next
<1>3. QED
  BY <1>1, <1>2

-------------------------------------------------------------------------------
(* The theorems.                                                            *)

LEMMA InitHolds == Init => IInv
<1>1. SUFFICES ASSUME Init PROVE IInv
  OBVIOUS
<1> DEFINE ch == [l \in List |-> <<>>]
<1>2. /\ mem = [node |-> [n \in Node |-> NULL], list |-> [l \in List |-> NULL],
                refs |-> [v \in Value |-> 0]]
      /\ iter = NULL
  BY <1>1 DEF Init
<1>3. mem \in Memory
  BY <1>2 DEF Memory
<1>4. <<>> \in Seq(Node) /\ Elems(<<>>) = {} /\ Distinct(<<>>)
  BY DEF Elems, Distinct
<1>5. ch \in [List -> Seq(Node)] /\ \A l \in List : ch[l] = <<>>
  BY <1>4
<1> HIDE DEF ch
<1>6. \A l \in List : Chained(mem, l, ch[l])
  BY <1>2, <1>4, <1>5 DEF Chained
<1>7. Shape(mem, ch)
  BY <1>2, <1>3, <1>4, <1>5, <1>6 DEF Shape
<1>8. ASSUME NEW v \in Value PROVE mem.refs[v] = Cardinality(Holders(mem, ch, v))
  <2>1. \A l \in List : Owned(mem, l, ch[l], v) = {}
    BY <1>4, <1>5 DEF Owned
  <2>2. Holders(mem, ch, v) = {}
    BY <2>1 DEF Holders
  <2>3. QED
    BY <1>2, <2>2, FS_EmptySet
<1>9. State(mem, ch, iter, start, visited)
  BY <1>2, <1>7, <1>8 DEF State, Mem, RefsFit
<1>10. QED
  BY <1>9 DEF IInv

LEMMA StepHolds == IInv /\ [Next]_vars => IInv'
<1>1. SUFFICES ASSUME IInv, [Next]_vars PROVE IInv'
  OBVIOUS
<1>2. PICK ch : State(mem, ch, iter, start, visited)
  BY <1>1 DEF IInv
<1>3. Follows(ch)
  BY <1>1, <1>2, StepFollows
<1>4. QED
  BY <1>3 DEF Follows, IInv

(* In every state the nodes that are allocated form one chain for each      *)
(* list, the owning lists hold exactly their references, and the iteration  *)
(* under way goes along its list in one direction.                          *)
THEOREM ChainsKept == Spec => []IInv
BY InitHolds, StepHolds, PTL DEF Spec

(* However the functions of adlist.c are called, every list is well linked  *)
(* in both directions, none shares a node or leaks one, values are counted  *)
(* exactly, and what is looked up in a list is what it contains.            *)
THEOREM ListKept == Spec => []ListInv
<1>1. ASSUME IInv PROVE ListInv
  <2>1. PICK ch : State(mem, ch, iter, start, visited)
    BY <1>1 DEF IInv
  <2>2. QED
    BY <2>1, MemKept DEF State
<1>2. QED
  BY <1>1, ChainsKept, PTL

(* An iterator returns different nodes of its list, all that were there     *)
(* when it began and have not been removed, in their order (adlist.c:       *)
(* listNext reads the next node before it returns one).                     *)
THEOREM IterationFaithful == Spec => []IterInv
<1>1. ASSUME IInv PROVE IterInv
  <2>1. PICK ch : State(mem, ch, iter, start, visited)
    BY <1>1 DEF IInv
  <2>2. QED
    BY <2>1, StateIterates
<1>2. QED
  BY <1>1, ChainsKept, PTL

(* The contents of a state, and of the state after a step.                  *)
LEMMA ContentsClosed == \A ch : Mem(mem, ch) => [l \in List |-> Values(l)] = Con(mem, ch)
BY ContentsAre

LEMMA ContentsNow == (\A ch : Mem(mem, ch) => [l \in List |-> Values(l)] = Con(mem, ch))'
BY ContentsClosed, PTL

(* The linked nodes implement a sequence of values: each call changes the   *)
(* contents of one list in the way ListContents allows, or nothing.         *)
THEOREM ContentsImplemented == Spec => ImplementsContents
<1>1. Init => Contents!ContentsInit
  BY DEF Init, Contents!ContentsInit, Values
<1>2. IInv /\ [Next]_vars
        => Contents!ContentsNext \/ UNCHANGED [l \in List |-> Values(l)]
  <2>1. SUFFICES ASSUME IInv, [Next]_vars
                 PROVE  Contents!ContentsNext \/ UNCHANGED [l \in List |-> Values(l)]
    OBVIOUS
  <2>2. PICK ch : State(mem, ch, iter, start, visited)
    BY <2>1 DEF IInv
  <2>3. PICK d : State(mem', d, iter', start', visited') /\ Fits(mem, ch, mem', d)
    BY <2>1, <2>2, StepFollows DEF Follows
  <2>4. [l \in List |-> Values(l)] = Con(mem, ch)
    BY <2>2, ContentsClosed DEF State
  <2>5. [l \in List |-> Values(l)]' = Con(mem', d)
    BY <2>3, ContentsNow DEF State
  <2>6. QED
    BY <2>3, <2>4, <2>5 DEF Fits, Contents!ContentsNext
<1>3. QED
  BY <1>1, <1>2, ChainsKept, PTL DEF Spec, ImplementsContents, Contents!ContentsSpec

===============================================================================
