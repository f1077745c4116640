------------------------------ MODULE QueueLemmas ------------------------------
(***************************************************************************)
(* What appending to a list of distinct elements, taking its head and      *)
(* removing an element does to the set of its elements, the highest and    *)
(* the lowest element of a set of numbers, induction over them, what       *)
(* joining the texts of a list (FlattenSeq) returns when the list changes, *)
(* and sums over finite sets: the lemmas that the proofs about the         *)
(* components rest on.                                                     *)
(***************************************************************************)
EXTENDS Integers, Sequences, SequencesExt, FiniteSetTheorems, SequenceTheorems, TLAPS

Elems(s) == {s[i] : i \in DOMAIN s}
Distinct(s) == \A i, j \in DOMAIN s : s[i] = s[j] => i = j

LEMMA AppendElems ==
  ASSUME NEW S, NEW s \in Seq(S), NEW e \in S
  PROVE  /\ Elems(Append(s, e)) = Elems(s) \union {e}
         /\ Distinct(s) /\ e \notin Elems(s) => Distinct(Append(s, e))
<1>1. /\ Len(Append(s, e)) = Len(s) + 1
      /\ DOMAIN s = 1 .. Len(s)
      /\ DOMAIN Append(s, e) = 1 .. (Len(s) + 1)
      /\ Len(s) \in Nat
      /\ \A i \in 1 .. Len(s) : Append(s, e)[i] = s[i]
      /\ Append(s, e)[Len(s) + 1] = e
  OBVIOUS
<1>2. 1 .. (Len(s) + 1) = 1 .. Len(s) \union {Len(s) + 1}
  BY <1>1
<1>3. Elems(Append(s, e)) = Elems(s) \union {e}
  BY <1>1, <1>2 DEF Elems
<1>4. ASSUME Distinct(s), e \notin Elems(s) PROVE Distinct(Append(s, e))
  BY <1>1, <1>4 DEF Elems, Distinct
<1>5. QED
  BY <1>3, <1>4

LEMMA AppendHead ==
  ASSUME NEW S, NEW s \in Seq(S), NEW e \in S
  PROVE  /\ Len(Append(s, e)) = Len(s) + 1
         /\ Append(s, e) # <<>>
         /\ s # <<>> => Head(Append(s, e)) = Head(s)
<1>1. /\ Append(s, e) \in Seq(S)
      /\ Len(s) \in Nat
      /\ Len(Append(s, e)) = Len(s) + 1
      /\ \A i \in 1 .. Len(s) : Append(s, e)[i] = s[i]
  OBVIOUS
<1>2. Append(s, e) # <<>>
  BY <1>1
<1>3. ASSUME s # <<>> PROVE Head(Append(s, e)) = Head(s)
  <2>1. Len(s) >= 1 /\ Head(s) = s[1]
    BY <1>1, <1>3
  <2>2. Head(Append(s, e)) = Append(s, e)[1]
    BY <1>1, <1>2
  <2>3. QED
    BY <1>1, <2>1, <2>2
<1>4. QED
  BY <1>1, <1>2, <1>3

LEMMA AppendTail ==
  ASSUME NEW S, NEW s \in Seq(S), NEW e \in S, s # <<>>
  PROVE  Tail(Append(s, e)) = Append(Tail(s), e)
<1>1. /\ Append(s, e) \in Seq(S) /\ Append(s, e) # <<>>
      /\ Len(Append(s, e)) = Len(s) + 1
      /\ Len(s) \in Nat /\ Len(s) >= 1
      /\ \A i \in 1 .. Len(s) : Append(s, e)[i] = s[i]
      /\ Append(s, e)[Len(s) + 1] = e
  BY AppendHead
<1>2. /\ Tail(s) \in Seq(S) /\ Len(Tail(s)) = Len(s) - 1
      /\ \A i \in 1 .. Len(s) - 1 : Tail(s)[i] = s[i + 1]
  BY <1>1
<1>3. /\ Tail(Append(s, e)) \in Seq(S) /\ Len(Tail(Append(s, e))) = Len(s)
      /\ \A i \in 1 .. Len(s) : Tail(Append(s, e))[i] = Append(s, e)[i + 1]
  BY <1>1
<1>4. /\ Append(Tail(s), e) \in Seq(S) /\ Len(Append(Tail(s), e)) = Len(s)
      /\ \A i \in 1 .. Len(s) - 1 : Append(Tail(s), e)[i] = Tail(s)[i]
      /\ Append(Tail(s), e)[Len(s)] = e
  BY <1>1, <1>2
<1>5. \A i \in 1 .. Len(s) : Tail(Append(s, e))[i] = Append(Tail(s), e)[i]
  <2>1. TAKE i \in 1 .. Len(s)
  <2>2. CASE i = Len(s)
    BY <1>1, <1>3, <1>4, <2>2
  <2>3. CASE i < Len(s)
    <3>1. i \in 1 .. Len(s) - 1 /\ i + 1 \in 1 .. Len(s)
      BY <1>1, <2>3
    <3>2. QED
      BY <1>1, <1>2, <1>3, <1>4, <3>1
  <2>4. QED
    BY <1>1, <2>2, <2>3
<1>6. QED
  BY <1>3, <1>4, <1>5, SeqEqual

LEMMA TailElems ==
  ASSUME NEW S, NEW s \in Seq(S), s # <<>>, Distinct(s)
  PROVE  /\ Elems(Tail(s)) = Elems(s) \ {Head(s)}
         /\ Head(s) \in Elems(s)
         /\ Distinct(Tail(s))
<1>1. /\ Len(s) \in Nat /\ Len(s) >= 1
      /\ DOMAIN s = 1 .. Len(s)
      /\ DOMAIN Tail(s) = 1 .. (Len(s) - 1)
      /\ \A i \in 1 .. (Len(s) - 1) : Tail(s)[i] = s[i + 1]
      /\ Head(s) = s[1]
  OBVIOUS
<1>2. \A i \in 1 .. Len(s) : i = 1 \/ i - 1 \in 1 .. (Len(s) - 1)
  BY <1>1
<1>3. \A i \in 1 .. Len(s) : i = 1 \/ (i - 1 \in DOMAIN Tail(s) /\ Tail(s)[i - 1] = s[i])
  BY <1>1, <1>2
<1>4. \A i \in DOMAIN Tail(s) : i + 1 \in 1 .. Len(s) /\ i + 1 # 1 /\ Tail(s)[i] = s[i + 1]
  BY <1>1
<1>5. Elems(Tail(s)) \subseteq Elems(s) \ {Head(s)}
  BY <1>1, <1>4 DEF Elems, Distinct
<1>6. Elems(s) \ {Head(s)} \subseteq Elems(Tail(s))
  <2>1. SUFFICES ASSUME NEW i \in DOMAIN s, s[i] # Head(s)
                 PROVE  s[i] \in Elems(Tail(s))
    BY DEF Elems
  <2>2. i - 1 \in DOMAIN Tail(s) /\ Tail(s)[i - 1] = s[i]
    BY <1>1, <1>3, <2>1
  <2>3. QED
    BY <2>2 DEF Elems
<1>7. Distinct(Tail(s))
  BY <1>1, <1>4 DEF Distinct
<1>8. QED
  BY <1>1, <1>5, <1>6, <1>7 DEF Elems

(* Wherever the head is found in a list of distinct elements, removing it  *)
(* leaves the tail.                                                        *)
LEMMA RemoveHead ==
  ASSUME NEW S, NEW s \in Seq(S), s # <<>>, Distinct(s), NEW i \in DOMAIN s, s[i] = Head(s)
  PROVE  RemoveAt(s, i) = Tail(s)
<1>1. /\ Len(s) \in Nat /\ Len(s) >= 1
      /\ DOMAIN s = 1 .. Len(s)
      /\ Head(s) = s[1]
  OBVIOUS
<1>2. i = 1
  BY <1>1 DEF Distinct
<1>3. SubSeq(s, 1, 0) = <<>> /\ SubSeq(s, 2, Len(s)) = Tail(s)
  BY <1>1
<1>4. <<>> \o Tail(s) = Tail(s)
  BY <1>1
<1>5. QED
  BY <1>2, <1>3, <1>4 DEF RemoveAt

(* A finite set of integers above m has a highest element: among the sets  *)
(* of what lies above an element, the smallest is that of the highest.     *)
LEMMA Highest ==
  ASSUME NEW n \in Nat, NEW U, U \subseteq -1 .. n, U # {}
  PROVE  \E m \in U : \A j \in U : j <= m
<1> DEFINE Above(j) == (j + 1) .. n
           T == {Above(j) : j \in U}
<1>1. T \subseteq FiniteSubsetsOf(Nat) /\ T # {}
  <2>1. ASSUME NEW j \in U PROVE Above(j) \in FiniteSubsetsOf(Nat)
    <3>1. j + 1 \in Nat
      OBVIOUS
    <3>2. IsFiniteSet(Above(j)) /\ Above(j) \subseteq Nat
      BY <3>1, FS_Interval
    <3>3. QED
      BY <3>2 DEF FiniteSubsetsOf
  <2>2. QED
    BY <2>1
<1>2. PICK s \in T : \A t \in T : ~ (<<t, s>> \in StrictSubsetOrdering(Nat))
  BY <1>1, FS_StrictSubsetOrderingWellFounded, WFMin
<1>3. PICK m \in U : s = Above(m)
  OBVIOUS
<1>4. ASSUME NEW j \in U, j > m PROVE FALSE
  <2>1. m \in Int /\ j \in Int /\ m + 1 <= j /\ j <= n
    BY <1>4
  <2>2. Above(j) \subseteq Above(m)
    BY <2>1
  <2>3. j \in Above(m) /\ j \notin Above(j)
    BY <2>1
  <2>4. Above(j) \in SUBSET Nat /\ Above(m) \in SUBSET Nat
    BY <1>1 DEF FiniteSubsetsOf
  <2>5. <<Above(j), Above(m)>> \in StrictSubsetOrdering(Nat)
    BY <2>2, <2>3, <2>4 DEF StrictSubsetOrdering
  <2>6. QED
    BY <1>2, <1>3, <2>5
<1>5. QED
  BY <1>4

(* A set of natural numbers has a lowest one: among the intervals up to    *)
(* each of them, the smallest is that of the lowest.                       *)
LEMMA Lowest ==
  ASSUME NEW U, U \subseteq Nat, U # {}
  PROVE  \E m \in U : \A j \in U : m <= j
<1> DEFINE Below(j) == 0 .. j
           T == {Below(j) : j \in U}
<1>1. T \subseteq FiniteSubsetsOf(Nat) /\ T # {}
  <2>1. ASSUME NEW j \in U PROVE Below(j) \in FiniteSubsetsOf(Nat)
    <3>1. IsFiniteSet(Below(j)) /\ Below(j) \subseteq Nat
      BY FS_Interval
    <3>2. QED
      BY <3>1 DEF FiniteSubsetsOf
  <2>2. QED
    BY <2>1
<1>2. PICK s \in T : \A t \in T : ~ (<<t, s>> \in StrictSubsetOrdering(Nat))
  BY <1>1, FS_StrictSubsetOrderingWellFounded, WFMin
<1>3. PICK m \in U : s = Below(m)
  OBVIOUS
<1>4. ASSUME NEW j \in U, j < m PROVE FALSE
  <2>1. m \in Nat /\ j \in Nat
    OBVIOUS
  <2>2. Below(j) \subseteq Below(m) /\ m \in Below(m) /\ m \notin Below(j)
    BY <1>4, <2>1
  <2>3. Below(j) \in SUBSET Nat /\ Below(m) \in SUBSET Nat
    BY <1>1 DEF FiniteSubsetsOf
  <2>4. <<Below(j), Below(m)>> \in StrictSubsetOrdering(Nat)
    BY <2>2, <2>3 DEF StrictSubsetOrdering
  <2>5. QED
    BY <1>2, <1>3, <2>4
<1>5. ASSUME NEW j \in U PROVE m <= j
  <2>1. m \in Nat /\ j \in Nat /\ ~ (j < m)
    BY <1>4
  <2>2. QED
    BY <2>1
<1>6. QED
  BY <1>5

(* What is left when the element at one place is removed.                  *)
LEMMA RemoveAtFacts ==
  ASSUME NEW S, NEW s \in Seq(S), NEW i \in 1 .. Len(s)
  PROVE  /\ RemoveAt(s, i) \in Seq(S)
         /\ Len(RemoveAt(s, i)) = Len(s) - 1
         /\ \A k \in 1 .. (Len(s) - 1) : RemoveAt(s, i)[k] = IF k < i THEN s[k] ELSE s[k + 1]
<1> DEFINE a == SubSeq(s, 1, i - 1)
           b == SubSeq(s, i + 1, Len(s))
<1>0. Len(s) \in Nat /\ i \in Nat /\ i >= 1 /\ i <= Len(s)
  OBVIOUS
<1>1. a \in Seq(S) /\ Len(a) = i - 1 /\ \A k \in 1 .. (i - 1) : a[k] = s[k]
  BY <1>0
<1>2. b \in Seq(S) /\ Len(b) = Len(s) - i
  BY <1>0
<1>3. \A k \in 1 .. (Len(s) - i) : b[k] = s[k + i]
  BY <1>0
<1> HIDE DEF a, b
<1>4. a \o b \in Seq(S) /\ Len(a \o b) = Len(s) - 1
  BY <1>0, <1>1, <1>2
<1>5. ASSUME NEW k \in 1 .. (Len(s) - 1) PROVE (a \o b)[k] = IF k < i THEN s[k] ELSE s[k + 1]
  <2>1. CASE k < i
    <3>1. (a \o b)[k] = a[k]
      BY <1>0, <1>1, <1>2, <2>1
    <3>2. QED
      BY <1>0, <1>1, <2>1, <3>1
  <2>2. CASE ~ (k < i)
    <3>1. (a \o b)[k] = b[k - (i - 1)]
      BY <1>0, <1>1, <1>2, <2>2
    <3>2. k - (i - 1) \in 1 .. (Len(s) - i) /\ (k - (i - 1)) + i = k + 1
      BY <1>0, <2>2
    <3>3. b[k - (i - 1)] = s[(k - (i - 1)) + i]
      BY <1>3, <3>2
    <3>4. QED
      BY <2>2, <3>1, <3>2, <3>3
  <2>3. QED
    BY <2>1, <2>2
<1>6. RemoveAt(s, i) = a \o b
  BY DEF RemoveAt, a, b
<1>7. QED
  BY <1>4, <1>5, <1>6

(* RemoveFirst removes an element at the place where it is found.          *)
LEMMA RemoveFirstAt ==
  ASSUME NEW S, NEW s \in Seq(S), NEW e, e \in Elems(s)
  PROVE  \E i \in 1 .. Len(s) : s[i] = e /\ RemoveFirst(s, e) = RemoveAt(s, i)
<1> DEFINE I == {i \in 1 .. Len(s) : s[i] = e}
<1>1. I \subseteq Nat /\ I # {}
  BY DEF Elems
<1>2. \E m \in I : \A j \in I : m <= j
  BY <1>1, Lowest
<1>3. Min(I) \in I
  BY <1>2 DEF Min
<1>4. RemoveFirst(s, e) = RemoveAt(s, SelectInSeq(s, LAMBDA v : v = e))
  BY <1>1 DEF RemoveFirst
<1>5. SelectInSeq(s, LAMBDA v : v = e) = Min(I)
  BY <1>1 DEF SelectInSeq
<1>6. QED
  BY <1>3, <1>4, <1>5

(* Removing the first occurrence of an element removes nothing else, and   *)
(* leaves none of it in a list of distinct elements.                       *)
LEMMA RemoveFirstFacts ==
  ASSUME NEW S, NEW s \in Seq(S), NEW e
  PROVE  /\ RemoveFirst(s, e) \in Seq(S)
         /\ Elems(RemoveFirst(s, e)) \subseteq Elems(s)
         /\ Elems(s) \ {e} \subseteq Elems(RemoveFirst(s, e))
         /\ Distinct(s) => Distinct(RemoveFirst(s, e)) /\ e \notin Elems(RemoveFirst(s, e))
<1>1. CASE e \notin Elems(s)
  <2>1. RemoveFirst(s, e) = s
    BY <1>1 DEF RemoveFirst, Elems
  <2>2. QED
    BY <1>1, <2>1
<1>2. CASE e \in Elems(s)
  <2>1. PICK i \in 1 .. Len(s) : s[i] = e /\ RemoveFirst(s, e) = RemoveAt(s, i)
    BY <1>2, RemoveFirstAt
  <2> DEFINE r == RemoveAt(s, i)
             n == Len(s)
  <2>2. n \in Nat /\ i \in Nat /\ i >= 1 /\ i <= n /\ DOMAIN s = 1 .. n
    OBVIOUS
  <2>3. /\ r \in Seq(S) /\ Len(r) = n - 1
        /\ \A k \in 1 .. (n - 1) : r[k] = IF k < i THEN s[k] ELSE s[k + 1]
    BY RemoveAtFacts
  <2> HIDE DEF r, n
  <2>4. DOMAIN r = 1 .. (n - 1)
    BY <2>2, <2>3
  <2> DEFINE At(k) == IF k < i THEN k ELSE k + 1
  <2>5. \A k \in 1 .. (n - 1) : At(k) \in 1 .. n /\ At(k) # i /\ r[k] = s[At(k)]
    BY <2>2, <2>3
  <2>6. \A j \in 1 .. n : j # i => \E k \in 1 .. (n - 1) : At(k) = j
    <3>1. ASSUME NEW j \in 1 .. n, j # i PROVE \E k \in 1 .. (n - 1) : At(k) = j
      <4>1. CASE j < i
        <5>1. j \in 1 .. (n - 1) /\ At(j) = j
          BY <2>2, <4>1
        <5>2. QED
          BY <5>1
      <4>2. CASE j > i
        <5>1. j - 1 \in 1 .. (n - 1) /\ At(j - 1) = j
          BY <2>2, <4>2
        <5>2. QED
          BY <5>1
      <4>3. QED
        BY <2>2, <3>1, <4>1, <4>2
    <3>2. QED
      BY <3>1
  <2>7. \A k, l \in 1 .. (n - 1) : At(k) = At(l) => k = l
    BY <2>2
  <2> HIDE DEF At
  <2>8. Elems(r) \subseteq Elems(s)
    BY <2>2, <2>4, <2>5 DEF Elems
  <2>9. Elems(s) \ {e} \subseteq Elems(r)
    <3>1. ASSUME NEW x \in Elems(s), x # e PROVE x \in Elems(r)
      <4>1. PICK j \in 1 .. n : s[j] = x
        BY <2>2 DEF Elems
      <4>2. j # i
        BY <2>1, <3>1, <4>1
      <4>3. PICK k \in 1 .. (n - 1) : At(k) = j
        BY <2>6, <4>2
      <4>4. r[k] = x
        BY <2>5, <4>1, <4>3
      <4>5. QED
        BY <2>4, <4>4 DEF Elems
    <3>2. QED
      BY <3>1
  <2>10. ASSUME Distinct(s) PROVE Distinct(r) /\ e \notin Elems(r)
    <3>1. ASSUME NEW k \in 1 .. (n - 1), NEW l \in 1 .. (n - 1), r[k] = r[l] PROVE k = l
      <4>1. s[At(k)] = s[At(l)] /\ At(k) \in 1 .. n /\ At(l) \in 1 .. n
        BY <2>5, <3>1
      <4>2. At(k) = At(l)
        BY <2>2, <2>10, <4>1 DEF Distinct
      <4>3. QED
        BY <2>7, <4>2
    <3>2. ASSUME NEW k \in 1 .. (n - 1), r[k] = e PROVE FALSE
      <4>1. s[At(k)] = s[i] /\ At(k) \in 1 .. n /\ At(k) # i
        BY <2>1, <2>5, <3>2
      <4>2. QED
        BY <2>2, <2>10, <4>1 DEF Distinct
    <3>3. QED
      BY <2>4, <3>1, <3>2 DEF Distinct, Elems
  <2>11. QED
    BY <2>1, <2>3, <2>8, <2>9, <2>10 DEF r
<1>3. QED
  BY <1>1, <1>2

(* Taking the head removes at most that one element.                       *)
LEMMA TailFacts ==
  ASSUME NEW S, NEW s \in Seq(S), s # <<>>
  PROVE  /\ Head(s) \in S /\ Head(s) \in Elems(s) /\ Tail(s) \in Seq(S)
         /\ Elems(Tail(s)) \subseteq Elems(s)
         /\ Elems(s) \ {Head(s)} \subseteq Elems(Tail(s))
<1>1. /\ Len(s) \in Nat /\ Len(s) >= 1 /\ DOMAIN s = 1 .. Len(s) /\ Head(s) = s[1]
      /\ Tail(s) \in Seq(S) /\ Len(Tail(s)) = Len(s) - 1
      /\ \A i \in 1 .. (Len(s) - 1) : Tail(s)[i] = s[i + 1]
  OBVIOUS
<1>2. DOMAIN Tail(s) = 1 .. (Len(s) - 1)
  BY <1>1
<1>3. Head(s) \in Elems(s) /\ Head(s) \in S
  BY <1>1 DEF Elems
<1>4. ASSUME NEW e \in Elems(Tail(s)) PROVE e \in Elems(s)
  <2>1. PICK i \in 1 .. (Len(s) - 1) : Tail(s)[i] = e
    BY <1>2 DEF Elems
  <2>2. i + 1 \in 1 .. Len(s) /\ s[i + 1] = e
    BY <1>1, <2>1
  <2>3. QED
    BY <1>1, <2>2 DEF Elems
<1>5. ASSUME NEW e \in Elems(s), e # Head(s) PROVE e \in Elems(Tail(s))
  <2>1. PICK i \in 1 .. Len(s) : s[i] = e
    BY <1>1 DEF Elems
  <2>2. i # 1
    BY <1>1, <1>5, <2>1
  <2>3. i - 1 \in 1 .. (Len(s) - 1) /\ (i - 1) + 1 = i
    BY <1>1, <2>2
  <2>4. Tail(s)[i - 1] = e
    BY <1>1, <2>1, <2>3
  <2>5. QED
    BY <1>2, <2>3, <2>4 DEF Elems
<1>6. QED
  BY <1>1, <1>3, <1>4, <1>5

LEMMA ConcatElems ==
  ASSUME NEW S, NEW s \in Seq(S), NEW t \in Seq(S)
  PROVE  s \o t \in Seq(S) /\ Elems(s \o t) = Elems(s) \union Elems(t)
<1> DEFINE u == s \o t
           m == Len(s)
           n == Len(t)
<1>1. /\ u \in Seq(S) /\ m \in Nat /\ n \in Nat /\ Len(u) = m + n
      /\ DOMAIN s = 1 .. m /\ DOMAIN t = 1 .. n
      /\ \A i \in 1 .. m : u[i] = s[i]
      /\ \A i \in (m + 1) .. (m + n) : u[i] = t[i - m]
  OBVIOUS
<1> HIDE DEF u, m, n
<1>2. DOMAIN u = 1 .. (m + n)
  BY <1>1
<1>3. ASSUME NEW e \in Elems(u) PROVE e \in Elems(s) \union Elems(t)
  <2>1. PICK i \in 1 .. (m + n) : u[i] = e
    BY <1>2 DEF Elems
  <2>2. CASE i <= m
    <3>1. i \in 1 .. m
      BY <1>1, <2>2
    <3>2. s[i] = e
      BY <1>1, <2>1, <3>1
    <3>3. QED
      BY <1>1, <3>1, <3>2 DEF Elems
  <2>3. CASE i > m
    <3>1. i \in (m + 1) .. (m + n) /\ i - m \in 1 .. n
      BY <1>1, <2>3
    <3>2. QED
      BY <1>1, <2>1, <3>1 DEF Elems
  <2>4. QED
    BY <1>1, <2>2, <2>3
<1>4. ASSUME NEW e \in Elems(s) PROVE e \in Elems(u)
  <2>1. PICK i \in 1 .. m : s[i] = e
    BY <1>1 DEF Elems
  <2>2. i \in 1 .. (m + n) /\ u[i] = e
    BY <1>1, <2>1
  <2>3. QED
    BY <1>2, <2>2 DEF Elems
<1>5. ASSUME NEW e \in Elems(t) PROVE e \in Elems(u)
  <2>1. PICK i \in 1 .. n : t[i] = e
    BY <1>1 DEF Elems
  <2>2. i + m \in (m + 1) .. (m + n) /\ (i + m) - m = i /\ i + m \in 1 .. (m + n)
    BY <1>1
  <2> DEFINE k == i + m
  <2>3. u[k] = t[k - m]
    <3>1. k \in (m + 1) .. (m + n)
      BY <2>2
    <3> HIDE DEF k
    <3>2. QED
      BY <1>1, <3>1
  <2>4. u[i + m] = e
    BY <2>1, <2>2, <2>3
  <2>5. QED
    BY <1>2, <2>2, <2>4 DEF Elems
<1>6. QED
  BY <1>1, <1>3, <1>4, <1>5 DEF u

-------------------------------------------------------------------------------
(* Induction over the natural numbers, for a set instead of a predicate:   *)
(* what is not in the set would have a lowest element.                     *)
LEMMA Induct ==
  ASSUME NEW T, 0 \in T, \A n \in Nat : n \in T => n + 1 \in T
  PROVE  Nat \subseteq T
<1>1. SUFFICES ASSUME Nat \ T # {} PROVE FALSE
  OBVIOUS
<1>2. PICK m \in Nat \ T : \A j \in Nat \ T : m <= j
  BY <1>1, Lowest
<1>3. m # 0 /\ m - 1 \in Nat
  BY <1>2
<1>4. m - 1 \in T
  BY <1>2, <1>3
<1>5. m \in T
  BY <1>3, <1>4
<1>6. QED
  BY <1>5

(* What putting two sequences one behind the other gives, unit by unit.     *)
LEMMA ConcatFacts ==
  ASSUME NEW S, NEW s \in Seq(S), NEW t \in Seq(S)
  PROVE  /\ s \o t \in Seq(S)
         /\ Len(s \o t) = Len(s) + Len(t)
         /\ \A i \in 1 .. Len(s) : (s \o t)[i] = s[i]
         /\ \A i \in 1 .. Len(t) : (s \o t)[Len(s) + i] = t[i]
<1>1. Len(s) \in Nat /\ Len(t) \in Nat
  OBVIOUS
<1>2. s \o t \in Seq(S) /\ Len(s \o t) = Len(s) + Len(t)
  OBVIOUS
<1>3. \A i \in 1 .. Len(s) : (s \o t)[i] = s[i]
  BY <1>1
<1>4. \A i \in 1 .. Len(t) : (s \o t)[Len(s) + i] = t[i]
  BY <1>1
<1>5. QED
  BY <1>2, <1>3, <1>4

Associative(Q) == \A a, b, c \in Q : (a \o b) \o c = a \o (b \o c)

LEMMA ConcatAssoc == \A S : Associative(Seq(S))
BY ConcatAssociative DEF Associative

-------------------------------------------------------------------------------
(* What FlattenSeq returns: its recursive function exists, and whatever    *)
(* meets its equation from the empty sequence on ends in the same value.   *)

Flattening(S, s, m, f) ==
  /\ f \in [0 .. m -> Seq(S)]
  /\ f[0] = <<>>
  /\ \A i \in 1 .. m : f[i] = f[i - 1] \o s[i]

LEMMA FlatteningFurther ==
  ASSUME NEW S, NEW s \in Seq(Seq(S)), NEW m \in Nat, m + 1 <= Len(s),
         NEW f, Flattening(S, s, m, f)
  PROVE  \E g : Flattening(S, s, m + 1, g)
<1> DEFINE last == f[m] \o s[m + 1]
           g == [k \in 0 .. (m + 1) |-> IF k = m + 1 THEN last ELSE f[k]]
<1>1. f \in [0 .. m -> Seq(S)] /\ f[0] = <<>> /\ \A i \in 1 .. m : f[i] = f[i - 1] \o s[i]
  BY DEF Flattening
<1>2. s[m + 1] \in Seq(S)
  OBVIOUS
<1>3. f[m] \in Seq(S)
  BY <1>1
<1>4. last \in Seq(S)
  BY <1>2, <1>3, ConcatFacts
<1>5. \A i \in 0 .. (m + 1) : i = m + 1 \/ i \in 0 .. m
  OBVIOUS
<1>6. \A i \in 1 .. (m + 1) : i - 1 \in 0 .. m /\ i - 1 \in 0 .. (m + 1) /\ i - 1 # m + 1
                              /\ i \in 0 .. (m + 1) /\ (i # m + 1 => i \in 1 .. m)
  OBVIOUS
<1>7. 0 \in 0 .. (m + 1) /\ 0 # m + 1
  OBVIOUS
<1>8. last = f[m] \o s[m + 1]
  OBVIOUS
<1>9. m = (m + 1) - 1
  OBVIOUS
<1> HIDE DEF last
<1>10. g \in [0 .. (m + 1) -> Seq(S)]
  BY <1>1, <1>4, <1>5
<1>11. g[0] = <<>>
  BY <1>1, <1>7
<1>12. ASSUME NEW i \in 1 .. (m + 1) PROVE g[i] = g[i - 1] \o s[i]
  <2>1. g[i - 1] = f[i - 1]
    BY <1>6
  <2>2. CASE i = m + 1
    <3>1. g[i] = last
      BY <1>6, <2>2
    <3>2. QED
      BY <1>8, <1>9, <2>1, <2>2, <3>1
  <2>3. CASE i # m + 1
    <3>1. g[i] = f[i]
      BY <1>6, <2>3
    <3>2. QED
      BY <1>1, <1>6, <2>1, <2>3, <3>1
  <2>4. QED
    BY <2>2, <2>3
<1> HIDE DEF g
<1>13. Flattening(S, s, m + 1, g)
  BY <1>10, <1>11, <1>12 DEF Flattening
<1>14. QED
  BY <1>13

(* Unit by unit there is such a function up to every length.               *)
LEMMA FlatteningExists ==
  ASSUME NEW S, NEW s \in Seq(Seq(S))
  PROVE  \E f : Flattening(S, s, Len(s), f)
<1> DEFINE T == {m \in Nat : m <= Len(s) => \E f : Flattening(S, s, m, f)}
<1>0. Len(s) \in Nat
  OBVIOUS
<1>1. 0 \in T
  <2> DEFINE g == [k \in 0 .. 0 |-> <<>>]
  <2>1. g \in [0 .. 0 -> Seq(S)] /\ g[0] = <<>>
    OBVIOUS
  <2> HIDE DEF g
  <2>2. Flattening(S, s, 0, g)
    BY <2>1 DEF Flattening
  <2>3. QED
    BY <2>2
<1>2. \A m \in Nat : m \in T => m + 1 \in T
  BY <1>0, FlatteningFurther
<1>3. Nat \subseteq T
  <2> HIDE DEF T
  <2>1. QED
    BY <1>1, <1>2, Induct
<1>4. QED
  BY <1>0, <1>3

(* The equation of a function defined by recursion on a number determines  *)
(* it.                                                                     *)
LEMMA FlattenedBy ==
  ASSUME NEW S, NEW s \in Seq(Seq(S)), NEW f, Flattening(S, s, Len(s), f)
  PROVE  FlattenSeq(s) = f[Len(s)] /\ FlattenSeq(s) \in Seq(S)
<1> DEFINE n == Len(s)
           Rule(h, i) == IF i = 1 THEN s[i] ELSE h[i - 1] \o s[i]
           D == [i \in 1 .. n |-> f[i]]
           flat == CHOOSE h : h = [i \in 1 .. n |-> Rule(h, i)]
<1>0. n \in Nat
  OBVIOUS
<1>1. /\ f \in [0 .. n -> Seq(S)] /\ f[0] = <<>>
      /\ \A i \in 1 .. n : f[i] = f[i - 1] \o s[i]
  BY DEF Flattening
<1>2. f[n] \in Seq(S)
  BY <1>0, <1>1
<1>3. CASE n = 0
  <2>1. s = <<>> /\ FlattenSeq(s) = s
    BY <1>3 DEF FlattenSeq
  <2>2. QED
    BY <1>1, <1>2, <1>3, <2>1
<1>4. CASE n # 0
  <2>1. FlattenSeq(s) = flat[n]
    BY <1>4 DEF FlattenSeq
  <2>2. \A i \in 1 .. n : s[i] \in Seq(S)
    OBVIOUS
  <2> HIDE DEF n
  <2>3. ASSUME NEW i \in 1 .. n PROVE f[i] = Rule(f, i)
    <3>1. CASE i = 1
      <4>1. f[i] = f[i - 1] \o s[i] /\ s[i] \in Seq(S)
        BY <1>1, <2>2
      <4>2. <<>> \o s[i] = s[i]
        BY <4>1
      <4>3. f[i - 1] = <<>>
        BY <1>1, <3>1
      <4>4. QED
        BY <3>1, <4>1, <4>2, <4>3
    <3>2. CASE i # 1
      BY <1>1, <3>2
    <3>3. QED
      BY <3>1, <3>2
  <2>4. ASSUME NEW i \in 1 .. n PROVE D[i] = f[i] /\ (i # 1 => D[i - 1] = f[i - 1])
    BY <1>0
  <2>5. D = [i \in 1 .. n |-> D[i]]
    OBVIOUS
  <2> HIDE DEF D
  <2>6. \A i \in 1 .. n : D[i] = Rule(D, i)
    BY <2>3, <2>4
  <2> HIDE DEF Rule
  <2>7. D = [i \in 1 .. n |-> Rule(D, i)]
    BY <2>5, <2>6
  <2>8. flat = [i \in 1 .. n |-> Rule(flat, i)]
    BY <2>7
  <2> DEFINE T == {m \in Nat : m + 1 <= n => flat[m + 1] = f[m + 1]}
  <2> HIDE DEF flat
  <2>9. \A i \in 1 .. n : flat[i] = Rule(flat, i) /\ f[i] = Rule(f, i)
    BY <2>3, <2>8
  <2> USE DEF Rule
  <2>10. 0 \in T
    BY <2>9
  <2>11. ASSUME NEW m \in Nat, m \in T PROVE m + 1 \in T
    <3>1. SUFFICES ASSUME (m + 1) + 1 <= n PROVE flat[(m + 1) + 1] = f[(m + 1) + 1]
      OBVIOUS
    <3>2. /\ (m + 1) + 1 \in 1 .. n /\ (m + 1) + 1 # 1 /\ ((m + 1) + 1) - 1 = m + 1
          /\ m + 1 <= n
      BY <1>0, <3>1
    <3>3. flat[m + 1] = f[m + 1]
      BY <2>11, <3>2
    <3>4. QED
      BY <2>9, <3>2, <3>3
  <2>12. Nat \subseteq T
    <3> HIDE DEF T
    <3>1. QED
      BY <2>10, <2>11, Induct
  <2>13. n - 1 \in Nat /\ (n - 1) + 1 = n
    <3> HIDE DEF T
    <3>1. QED
      BY <1>0, <1>4
  <2>14. n - 1 \in T
    <3> HIDE DEF T
    <3>1. QED
      BY <2>12, <2>13
  <2>15. flat[n] = f[n]
    BY <2>13, <2>14
  <2>16. QED
    BY <1>2, <2>1, <2>15 DEF n
<1>5. QED
  BY <1>3, <1>4

(* The joined text of a list that is empty, that has grown at its end, and *)
(* that has lost its head; the text of the last element grown, and two     *)
(* neighbours joined into one.                                             *)
LEMMA FlattenNothing ==
  ASSUME NEW S
  PROVE  FlattenSeq(<<>>) = <<>>
BY DEF FlattenSeq

LEMMA FlattenAppend ==
  ASSUME NEW S, NEW s \in Seq(Seq(S)), NEW d \in Seq(S)
  PROVE  FlattenSeq(Append(s, d)) = FlattenSeq(s) \o d
<1> DEFINE n == Len(s)
           t == Append(s, d)
<1>0. /\ n \in Nat /\ t \in Seq(Seq(S)) /\ Len(t) = n + 1
      /\ t[n + 1] = d /\ \A i \in 1 .. n : t[i] = s[i]
  OBVIOUS
<1>1. PICK f : Flattening(S, t, n + 1, f)
  BY <1>0, FlatteningExists
<1> HIDE DEF n, t
<1>2. /\ f \in [0 .. (n + 1) -> Seq(S)] /\ f[0] = <<>>
      /\ \A i \in 1 .. (n + 1) : f[i] = f[i - 1] \o t[i]
  BY <1>1 DEF Flattening
<1> DEFINE g == [i \in 0 .. n |-> f[i]]
<1>3. Flattening(S, s, n, g)
  <2>1. g \in [0 .. n -> Seq(S)] /\ g[0] = <<>>
    BY <1>0, <1>2
  <2>2. ASSUME NEW i \in 1 .. n PROVE g[i] = g[i - 1] \o s[i]
    <3>1. g[i] = f[i] /\ g[i - 1] = f[i - 1] /\ i \in 1 .. (n + 1)
      BY <1>0
    <3>2. QED
      BY <1>0, <1>2, <3>1
  <2> HIDE DEF g
  <2>3. QED
    BY <2>1, <2>2 DEF Flattening
<1>4. FlattenSeq(s) = g[n] /\ g[n] = f[n]
  BY <1>0, <1>3, FlattenedBy, SMTT(30) DEF n
<1>5. FlattenSeq(t) = f[n + 1]
  BY <1>0, <1>1, FlattenedBy
<1>6. f[n + 1] = f[n] \o d
  <2>1. n + 1 \in 1 .. (n + 1) /\ (n + 1) - 1 = n
    BY <1>0
  <2>2. QED
    BY <1>0, <1>2, <2>1
<1>7. QED
  BY <1>4, <1>5, <1>6 DEF t

LEMMA FlattenHead ==
  ASSUME NEW S, NEW s \in Seq(Seq(S)), s # <<>>
  PROVE  FlattenSeq(s) = Head(s) \o FlattenSeq(Tail(s))
<1>a. Associative(Seq(S))
  BY ConcatAssoc
<1> DEFINE n == Len(s)
           h == Head(s)
           t == Tail(s)
<1>0. /\ n \in Nat /\ n >= 1 /\ h \in Seq(S) /\ h = s[1]
      /\ t \in Seq(Seq(S)) /\ Len(t) = n - 1
      /\ \A i \in 1 .. (n - 1) : t[i] = s[i + 1]
      /\ \A i \in 1 .. n : s[i] \in Seq(S)
  OBVIOUS
<1>1. PICK f : Flattening(S, t, n - 1, f)
  BY <1>0, FlatteningExists
<1> HIDE DEF n, h, t
<1>2. /\ f \in [0 .. (n - 1) -> Seq(S)] /\ f[0] = <<>>
      /\ \A i \in 1 .. (n - 1) : f[i] = f[i - 1] \o t[i]
  BY <1>1 DEF Flattening
<1> DEFINE g == [i \in 0 .. n |-> IF i = 0 THEN <<>> ELSE h \o f[i - 1]]
<1>3. \A i \in 1 .. n : i - 1 \in 0 .. (n - 1) /\ i \in 0 .. n /\ i # 0 /\ i - 1 \in 0 .. n
  BY <1>0
<1>4. \A i \in 1 .. n : f[i - 1] \in Seq(S) /\ h \o f[i - 1] \in Seq(S)
  <2>1. TAKE i \in 1 .. n
  <2>2. f[i - 1] \in Seq(S)
    BY <1>2, <1>3
  <2>3. QED
    BY <1>0, <2>2, ConcatFacts
<1>5. \A i \in 1 .. n : g[i] = h \o f[i - 1]
  BY <1>3
<1>6. g[0] = <<>>
  BY <1>0
<1>7. g \in [0 .. n -> Seq(S)]
  <2>1. ASSUME NEW i \in 0 .. n, i # 0 PROVE i \in 1 .. n
    BY <1>0, <2>1
  <2>2. QED
    BY <1>4, <2>1
<1> HIDE DEF g
<1>8. ASSUME NEW i \in 1 .. n PROVE g[i] = g[i - 1] \o s[i]
  <2>1. CASE i = 1
    <3>1. f[i - 1] = <<>> /\ g[i - 1] = <<>>
      BY <1>2, <1>6, <2>1
    <3>2. h \o <<>> = h /\ <<>> \o h = h
      BY <1>0
    <3>3. s[i] = h
      BY <1>0, <2>1
    <3>4. QED
      BY <1>5, <3>1, <3>2, <3>3
  <2>2. CASE i # 1
    <3>1. i - 1 \in 1 .. (n - 1) /\ i - 1 \in 1 .. n /\ (i - 1) + 1 = i
      BY <1>0, <2>2
    <3>2. f[i - 1] = f[(i - 1) - 1] \o s[i]
      BY <1>0, <1>2, <3>1
    <3>3. g[i - 1] = h \o f[(i - 1) - 1] /\ f[(i - 1) - 1] \in Seq(S)
      BY <1>4, <1>5, <3>1
    <3>4. h \o (f[(i - 1) - 1] \o s[i]) = (h \o f[(i - 1) - 1]) \o s[i]
      BY <1>0, <1>a, <3>3, Zenon DEF Associative
    <3>5. QED
      BY <1>5, <3>2, <3>3, <3>4
  <2>3. QED
    BY <2>1, <2>2
<1>9. Flattening(S, s, n, g)
  BY <1>6, <1>7, <1>8 DEF Flattening
<1>10. FlattenSeq(s) = g[n]
  BY <1>9, FlattenedBy DEF n
<1>11. FlattenSeq(t) = f[n - 1]
  BY <1>0, <1>1, FlattenedBy
<1>12. g[n] = h \o f[n - 1]
  <2>1. n \in 1 .. n
    BY <1>0
  <2>2. QED
    BY <1>5, <2>1
<1>13. QED
  BY <1>10, <1>11, <1>12 DEF h, t

\* The last sequence grows.
LEMMA FlattenGrown ==
  ASSUME NEW S, NEW s \in Seq(Seq(S)), NEW d \in Seq(S), s # <<>>
  PROVE  FlattenSeq([s EXCEPT ![Len(s)] = s[Len(s)] \o d]) = FlattenSeq(s) \o d
<1>a. Associative(Seq(S))
  BY ConcatAssoc
<1> DEFINE n == Len(s)
           x == s[n] \o d
           t == [s EXCEPT ![n] = x]
<1>0. n \in Nat /\ n >= 1 /\ n \in 1 .. n /\ s[n] \in Seq(S)
  OBVIOUS
<1>1. x \in Seq(S) /\ x = s[n] \o d
  BY <1>0, ConcatFacts
<1> HIDE DEF x
<1>2. /\ t \in Seq(Seq(S)) /\ Len(t) = n /\ t[n] = x
      /\ \A i \in 1 .. (n - 1) : t[i] = s[i]
  BY <1>0, <1>1
<1>3. PICK f : Flattening(S, s, n, f)
  BY FlatteningExists
<1> HIDE DEF n, t
<1>4. /\ f \in [0 .. n -> Seq(S)] /\ f[0] = <<>>
      /\ \A i \in 1 .. n : f[i] = f[i - 1] \o s[i]
  BY <1>3 DEF Flattening
<1>5. f[n] \in Seq(S) /\ f[n - 1] \in Seq(S)
  <2>1. n - 1 \in 0 .. n /\ n \in 0 .. n
    BY <1>0
  <2>2. QED
    BY <1>4, <2>1
<1>6. f[n] \o d \in Seq(S)
  BY <1>5, ConcatFacts
<1> DEFINE y == f[n] \o d
           g == [f EXCEPT ![n] = y]
<1> HIDE DEF y
<1>7. /\ g \in [0 .. n -> Seq(S)] /\ g[n] = y
      /\ \A i \in 0 .. n : i # n => g[i] = f[i]
  BY <1>0, <1>4, <1>6, SMTT(30) DEF y
<1> HIDE DEF g
<1>8. ASSUME NEW i \in 1 .. n PROVE g[i] = g[i - 1] \o t[i]
  <2>0. i - 1 \in 0 .. n /\ i - 1 # n /\ i \in 0 .. n
    BY <1>0
  <2>1. g[i - 1] = f[i - 1]
    BY <1>7, <2>0
  <2>2. CASE i = n
    <3>1. y = (f[n - 1] \o s[n]) \o d
      BY <1>0, <1>4 DEF y
    <3>2. (f[n - 1] \o s[n]) \o d = f[n - 1] \o (s[n] \o d)
      BY <1>0, <1>a, <1>5, Zenon DEF Associative
    <3>3. QED
      BY <1>1, <1>2, <1>7, <2>1, <2>2, <3>1, <3>2, Zenon
  <2>3. CASE i # n
    <3>1. i \in 1 .. (n - 1)
      BY <1>0, <2>3
    <3>2. QED
      BY <1>2, <1>4, <1>7, <2>0, <2>1, <2>3, <3>1
  <2>4. QED
    BY <2>2, <2>3
<1>9. g[0] = <<>>
  <2>1. 0 \in 0 .. n /\ 0 # n
    BY <1>0
  <2>2. QED
    BY <1>4, <1>7, <2>1
<1>10. Flattening(S, t, n, g)
  BY <1>7, <1>8, <1>9 DEF Flattening
<1>11. FlattenSeq(t) = g[n]
  BY <1>2, <1>10, FlattenedBy
<1>12. FlattenSeq(s) = f[n]
  BY <1>3, FlattenedBy DEF n
<1>13. QED
  BY <1>7, <1>11, <1>12 DEF t, x, y, n

\* The sequence at one place and the one behind it become one.
LEMMA FlattenJoined ==
  ASSUME NEW S, NEW s \in Seq(Seq(S)), NEW i \in 1 .. (Len(s) - 1)
  PROVE  FlattenSeq(RemoveAt([s EXCEPT ![i] = s[i] \o s[i + 1]], i + 1)) = FlattenSeq(s)
<1>a. Associative(Seq(S))
  BY ConcatAssoc
<1> DEFINE n == Len(s)
           x == s[i] \o s[i + 1]
           r == [s EXCEPT ![i] = x]
           t == RemoveAt(r, i + 1)
<1>0. /\ n \in Nat /\ i \in Nat /\ i >= 1 /\ i + 1 <= n /\ i \in 1 .. n /\ i + 1 \in 1 .. n
      /\ s[i] \in Seq(S) /\ s[i + 1] \in Seq(S)
  OBVIOUS
<1>1. x \in Seq(S) /\ x = s[i] \o s[i + 1]
  BY <1>0, ConcatFacts
<1> HIDE DEF x
<1>2. /\ r \in Seq(Seq(S)) /\ Len(r) = n /\ r[i] = x
      /\ \A k \in 1 .. n : k # i => r[k] = s[k]
  <2>1. PICK T : T = Seq(S)
    OBVIOUS
  <2>2. s \in Seq(T) /\ i \in 1 .. Len(s) /\ x \in T
    BY <1>0, <1>1, <2>1
  <2>3. /\ r \in Seq(T) /\ Len(r) = Len(s) /\ r[i] = x
        /\ \A k \in 1 .. Len(s) : k # i => r[k] = s[k]
    BY <2>2, ExceptSeq
  <2> HIDE DEF r
  <2>4. QED
    BY <2>1, <2>3
<1> HIDE DEF r
<1>3. /\ t \in Seq(Seq(S)) /\ Len(t) = n - 1
      /\ \A k \in 1 .. (n - 1) : t[k] = IF k < i + 1 THEN r[k] ELSE r[k + 1]
  BY <1>0, <1>2, RemoveAtFacts
<1>4. PICK f : Flattening(S, s, n, f)
  BY FlatteningExists
<1> HIDE DEF n, t
<1>5. /\ f \in [0 .. n -> Seq(S)] /\ f[0] = <<>>
      /\ \A k \in 1 .. n : f[k] = f[k - 1] \o s[k]
  BY <1>4 DEF Flattening
<1> DEFINE g == [k \in 0 .. (n - 1) |-> IF k < i THEN f[k] ELSE f[k + 1]]
<1>6. \A k \in 0 .. (n - 1) : k \in 0 .. n /\ k + 1 \in 0 .. n
  BY <1>0
<1>7. \A k \in 0 .. (n - 1) : g[k] = IF k < i THEN f[k] ELSE f[k + 1]
  OBVIOUS
<1>8. g \in [0 .. (n - 1) -> Seq(S)] /\ g[0] = <<>>
  <2>1. \A k \in 0 .. (n - 1) : f[k] \in Seq(S) /\ f[k + 1] \in Seq(S)
    BY <1>5, <1>6
  <2>2. 0 \in 0 .. (n - 1) /\ 0 < i
    BY <1>0
  <2>3. g \in [0 .. (n - 1) -> Seq(S)]
    BY <2>1
  <2> HIDE DEF g
  <2>4. QED
    BY <1>5, <1>7, <2>2, <2>3
<1> HIDE DEF g
<1>9. ASSUME NEW k \in 1 .. (n - 1) PROVE g[k] = g[k - 1] \o t[k]
  <2>0. k \in 0 .. (n - 1) /\ k - 1 \in 0 .. (n - 1) /\ k \in 1 .. n /\ k + 1 \in 1 .. n
    BY <1>0
  <2>1. CASE k < i
    <3>1. g[k] = f[k] /\ g[k - 1] = f[k - 1] /\ t[k] = s[k]
      <4>1. k - 1 < i /\ k < i + 1 /\ k # i
        BY <1>0, <2>1
      <4>2. QED
        BY <1>2, <1>3, <1>7, <2>0, <2>1, <4>1
    <3>2. QED
      BY <1>5, <2>0, <3>1
  <2>2. CASE k = i
    <3>1. g[k] = f[i + 1] /\ g[k - 1] = f[i - 1] /\ t[k] = x
      <4>1. ~ (k < i) /\ k - 1 < i /\ k < i + 1 /\ k + 1 = i + 1 /\ k - 1 = i - 1
        BY <1>0, <2>2
      <4>2. QED
        BY <1>2, <1>3, <1>7, <2>0, <2>2, <4>1
    <3>2. f[i + 1] = f[i] \o s[i + 1] /\ f[i] = f[i - 1] \o s[i]
      <4>1. (i + 1) - 1 = i
        BY <1>0
      <4>2. QED
        BY <1>0, <1>5, <4>1
    <3>3. f[i - 1] \in Seq(S)
      BY <1>0, <1>5
    <3>4. (f[i - 1] \o s[i]) \o s[i + 1] = f[i - 1] \o (s[i] \o s[i + 1])
      BY <1>0, <1>a, <3>3, Zenon DEF Associative
    <3>5. QED
      BY <1>1, <3>1, <3>2, <3>4, Zenon
  <2>3. CASE k > i
    <3>1. g[k] = f[k + 1] /\ g[k - 1] = f[(k - 1) + 1] /\ t[k] = r[k + 1]
      <4>1. ~ (k < i) /\ ~ (k - 1 < i) /\ ~ (k < i + 1)
        BY <1>0, <2>3
      <4>2. QED
        BY <1>3, <1>7, <2>0, <4>1
    <3>2. (k - 1) + 1 = k /\ (k + 1) - 1 = k /\ k + 1 # i
      BY <1>0, <2>3
    <3>3. r[k + 1] = s[k + 1]
      BY <1>2, <2>0, <3>2
    <3>4. QED
      BY <1>5, <2>0, <3>1, <3>2, <3>3
  <2>4. k < i \/ k = i \/ k > i
    BY <1>0
  <2>5. QED
    BY <2>1, <2>2, <2>3, <2>4
<1>10. Flattening(S, t, n - 1, g)
  BY <1>8, <1>9 DEF Flattening
<1>11. FlattenSeq(t) = g[n - 1]
  BY <1>3, <1>10, FlattenedBy
<1>12. FlattenSeq(s) = f[n]
  BY <1>4, FlattenedBy DEF n
<1>13. g[n - 1] = f[n]
  <2>1. n - 1 \in 0 .. (n - 1) /\ ~ (n - 1 < i) /\ (n - 1) + 1 = n
    BY <1>0
  <2>2. QED
    BY <1>7, <2>1
<1>14. QED
  BY <1>11, <1>12, <1>13 DEF t, r, x

-------------------------------------------------------------------------------
(* Sums over finite sets.  Summing says of F that it maps every subset of  *)
(* S to the sum of f over it, whichever element is taken first.            *)
Numeric(f, S) == \A x \in S : f[x] \in Int

Summing(f, S, F) ==
  /\ F \in [SUBSET S -> Int]
  /\ F[{}] = 0
  /\ \A s \in SUBSET S : \A x \in s : F[s] = f[x] + F[s \ {x}]

\* g takes the elements of each subset one by one, c saying which comes first.
Taking(f, S, g, c) ==
  /\ g[{}] = 0
  /\ \A s \in SUBSET S : s # {} => c[s] \in s /\ g[s] = f[c[s]] + g[s \ {c[s]}]

SumOf(f, S) == (CHOOSE F : Summing(f, S, F))[S]

(* There is such a sum, by induction over the cardinality.                 *)
LEMMA SummingFurther ==
  ASSUME NEW S, NEW a, a \notin S, NEW f, Numeric(f, S \union {a}), NEW F, Summing(f, S, F)
  PROVE  \E G : Summing(f, S \union {a}, G)
<1> DEFINE G == [s \in SUBSET (S \union {a}) |-> IF a \in s THEN f[a] + F[s \ {a}] ELSE F[s]]
<1>0. \A x \in S \union {a} : f[x] \in Int
  BY DEF Numeric
<1>1. F \in [SUBSET S -> Int] /\ F[{}] = 0
      /\ \A s \in SUBSET S : \A x \in s : F[s] = f[x] + F[s \ {x}]
  BY DEF Summing
<1>2. \A s \in SUBSET (S \union {a}) : s \ {a} \in SUBSET S /\ (a \notin s => s \in SUBSET S)
  OBVIOUS
<1>3. \A s \in SUBSET S : F[s] \in Int
  BY <1>1
<1>4. \A s \in SUBSET (S \union {a}) : G[s] = IF a \in s THEN f[a] + F[s \ {a}] ELSE F[s]
  OBVIOUS
<1>5. G \in [SUBSET (S \union {a}) -> Int]
  <2>1. ASSUME NEW s \in SUBSET (S \union {a})
        PROVE  (IF a \in s THEN f[a] + F[s \ {a}] ELSE F[s]) \in Int
    <3>1. F[s \ {a}] \in Int /\ f[a] \in Int
      BY <1>0, <1>2, <1>3
    <3>2. CASE a \in s
      BY <3>1, <3>2
    <3>3. CASE a \notin s
      BY <1>2, <1>3, <3>3
    <3>4. QED
      BY <3>2, <3>3
  <2>2. QED
    BY <2>1
<1>6. G[{}] = 0
  BY <1>1, <1>4
<1> HIDE DEF G
<1>7. ASSUME NEW s \in SUBSET (S \union {a}), NEW x \in s
      PROVE  G[s] = f[x] + G[s \ {x}]
  <2>1. s \ {x} \in SUBSET (S \union {a})
    OBVIOUS
  <2>2. CASE x = a
    BY <1>4, <2>1, <2>2
  <2>3. CASE x # a /\ a \in s
    <3>1. x \in s \ {a} /\ s \ {a} \in SUBSET S /\ (s \ {a}) \ {x} = (s \ {x}) \ {a}
          /\ (s \ {a}) \ {x} \in SUBSET S /\ a \in s \ {x}
      BY <1>2, <2>3
    <3>2. F[s \ {a}] = f[x] + F[(s \ {a}) \ {x}]
      BY <1>1, <3>1
    <3>3. F[(s \ {a}) \ {x}] \in Int /\ F[s \ {a}] \in Int
      BY <1>3, <3>1
    <3>4. G[s] = f[a] + F[s \ {a}] /\ G[s \ {x}] = f[a] + F[(s \ {a}) \ {x}]
      BY <1>4, <2>1, <2>3, <3>1
    <3>5. f[a] \in Int /\ f[x] \in Int
      BY <1>0, <1>7
    <3>6. QED
      BY <3>2, <3>3, <3>4, <3>5
  <2>4. CASE a \notin s
    BY <1>1, <1>2, <1>4, <2>1, <2>4
  <2>5. QED
    BY <2>2, <2>3, <2>4
<1>8. Summing(f, S \union {a}, G)
  BY <1>5, <1>6, <1>7 DEF Summing
<1>9. QED
  BY <1>8

LEMMA SummingExists ==
  ASSUME NEW S, IsFiniteSet(S), NEW f, Numeric(f, S)
  PROVE  \E F : Summing(f, S, F)
<1> DEFINE T == {n \in Nat : \A s \in SUBSET S : Cardinality(s) = n => \E F : Summing(f, s, F)}
<1>1. 0 \in T
  <2>1. ASSUME NEW s \in SUBSET S, Cardinality(s) = 0 PROVE \E F : Summing(f, s, F)
    <3>1. s = {}
      BY <2>1, FS_Subset, FS_EmptySet
    <3> DEFINE F == [t \in {{}} |-> 0]
    <3>2. SUBSET s = {{}} /\ F \in [{{}} -> Int] /\ F[{}] = 0
      BY <3>1
    <3> HIDE DEF F
    <3>3. Summing(f, s, F)
      BY <3>1, <3>2 DEF Summing
    <3>4. QED
      BY <3>3
  <2>2. QED
    BY <2>1
<1>2. ASSUME NEW n \in Nat, n \in T PROVE n + 1 \in T
  <2>1. ASSUME NEW s \in SUBSET S, Cardinality(s) = n + 1 PROVE \E F : Summing(f, s, F)
    <3>1. IsFiniteSet(s)
      BY FS_Subset
    <3>2. s # {}
      BY <2>1, FS_EmptySet
    <3>3. PICK a : a \in s
      BY <3>2
    <3>4. Cardinality(s \ {a}) = n /\ s \ {a} \in SUBSET S
      <4>1. Cardinality(s \ {a}) = Cardinality(s) - 1
        BY <3>1, <3>3, FS_RemoveElement
      <4>2. QED
        BY <2>1, <4>1
    <3>5. PICK F : Summing(f, s \ {a}, F)
      BY <1>2, <3>4
    <3>6. (s \ {a}) \union {a} = s
      BY <3>3
    <3>7. Numeric(f, s)
      BY DEF Numeric
    <3>8. QED
      BY <3>5, <3>6, <3>7, SummingFurther
  <2>2. QED
    BY <2>1
<1>3. Nat \subseteq T
  <2> HIDE DEF T
  <2>1. QED
    BY <1>1, <1>2, Induct
<1>4. Cardinality(S) \in Nat
  BY FS_CardinalityType
<1>5. QED
  BY <1>3, <1>4

(* A function that takes the elements in any order c gives the sum.        *)
LEMMA SumTaken ==
  ASSUME NEW S, IsFiniteSet(S), NEW f, NEW F, Summing(f, S, F), NEW g, NEW c, Taking(f, S, g, c)
  PROVE  g[S] = F[S]
<1> DEFINE T == {n \in Nat : \A s \in SUBSET S : Cardinality(s) = n => g[s] = F[s]}
<1>1. 0 \in T
  <2>1. ASSUME NEW s \in SUBSET S, Cardinality(s) = 0 PROVE g[s] = F[s]
    <3>1. s = {}
      BY <2>1, FS_Subset, FS_EmptySet
    <3>2. QED
      BY <3>1 DEF Summing, Taking
  <2>2. QED
    BY <2>1
<1>2. ASSUME NEW n \in Nat, n \in T PROVE n + 1 \in T
  <2>1. ASSUME NEW s \in SUBSET S, Cardinality(s) = n + 1 PROVE g[s] = F[s]
    <3>1. IsFiniteSet(s)
      BY FS_Subset
    <3>2. s # {}
      BY <2>1, FS_EmptySet
    <3>3. c[s] \in s /\ g[s] = f[c[s]] + g[s \ {c[s]}]
      BY <3>2 DEF Taking
    <3>4. Cardinality(s \ {c[s]}) = n /\ s \ {c[s]} \in SUBSET S
      <4>1. Cardinality(s \ {c[s]}) = Cardinality(s) - 1
        BY <3>1, <3>3, FS_RemoveElement
      <4>2. QED
        BY <2>1, <4>1
    <3>5. g[s \ {c[s]}] = F[s \ {c[s]}]
      BY <1>2, <3>4
    <3>6. F[s] = f[c[s]] + F[s \ {c[s]}]
      BY <3>3 DEF Summing
    <3>7. QED
      BY <3>3, <3>5, <3>6
  <2>2. QED
    BY <2>1
<1>3. Nat \subseteq T
  <2> HIDE DEF T
  <2>1. QED
    BY <1>1, <1>2, Induct
<1>4. Cardinality(S) \in Nat
  BY FS_CardinalityType
<1>5. QED
  BY <1>3, <1>4

LEMMA SumOfIs ==
  ASSUME NEW S, IsFiniteSet(S), NEW f, Numeric(f, S), NEW F, Summing(f, S, F)
  PROVE  SumOf(f, S) = F[S] /\ SumOf(f, S) \in Int
<1> DEFINE G == CHOOSE H : Summing(f, S, H)
<1>1. Summing(f, S, G)
  OBVIOUS
<1>2. SumOf(f, S) = G[S]
  BY DEF SumOf
<1> HIDE DEF G
<1> DEFINE c == [s \in SUBSET S |-> CHOOSE x : x \in s]
<1>3. ASSUME NEW s \in SUBSET S, s # {} PROVE c[s] \in s /\ G[s] = f[c[s]] + G[s \ {c[s]}]
  <2>1. c[s] \in s
    BY <1>3
  <2> HIDE DEF c
  <2>2. QED
    BY <1>1, <2>1 DEF Summing
<1> HIDE DEF c
<1>4. G[{}] = 0 /\ F[S] \in Int
  BY <1>1 DEF Summing
<1>5. Taking(f, S, G, c)
  BY <1>3, <1>4 DEF Taking
<1>6. QED
  BY <1>2, <1>4, <1>5, SumTaken

LEMMA SumTaking ==
  ASSUME NEW S, IsFiniteSet(S), NEW f, Numeric(f, S), NEW g, NEW c, Taking(f, S, g, c)
  PROVE  g[S] = SumOf(f, S)
<1>1. PICK F : Summing(f, S, F)
  BY SummingExists
<1>2. SumOf(f, S) = F[S]
  BY <1>1, SumOfIs
<1>3. g[S] = F[S]
  BY <1>1, SumTaken
<1>4. QED
  BY <1>2, <1>3

LEMMA SumNothing == ASSUME NEW f PROVE SumOf(f, {}) = 0
<1>1. IsFiniteSet({}) /\ Numeric(f, {})
  BY FS_EmptySet DEF Numeric
<1>2. PICK F : Summing(f, {}, F)
  BY <1>1, SummingExists
<1>3. QED
  BY <1>1, <1>2, SumOfIs DEF Summing

(* One element apart.                                                      *)
LEMMA SumWithout ==
  ASSUME NEW S, IsFiniteSet(S), NEW f, Numeric(f, S), NEW x \in S
  PROVE  /\ SumOf(f, S) = f[x] + SumOf(f, S \ {x})
         /\ f[x] \in Int /\ SumOf(f, S) \in Int /\ SumOf(f, S \ {x}) \in Int
<1>1. PICK F : Summing(f, S, F)
  BY SummingExists
<1> DEFINE R == S \ {x}
           E == [s \in SUBSET R |-> F[s]]
<1>2. IsFiniteSet(R) /\ Numeric(f, R) /\ R \in SUBSET S
  BY FS_Subset DEF Numeric
<1>3. Summing(f, R, E)
  <2>1. \A s \in SUBSET R : s \in SUBSET S /\ E[s] = F[s] /\ F[s] \in Int
    BY <1>1 DEF Summing
  <2>2. E \in [SUBSET R -> Int]
    BY <2>1
  <2>3. E[{}] = 0
    BY <1>1 DEF Summing
  <2> HIDE DEF E
  <2>4. ASSUME NEW s \in SUBSET R, NEW y \in s PROVE E[s] = f[y] + E[s \ {y}]
    <3>1. s \ {y} \in SUBSET R
      OBVIOUS
    <3>2. F[s] = f[y] + F[s \ {y}]
      BY <1>1, <2>1 DEF Summing
    <3>3. QED
      BY <2>1, <3>1, <3>2
  <2>5. QED
    BY <2>2, <2>3, <2>4 DEF Summing
<1>4. SumOf(f, S) = F[S] /\ SumOf(f, S) \in Int
  BY <1>1, SumOfIs
<1>5. E[R] = F[R]
  OBVIOUS
<1> HIDE DEF E, R
<1>6. SumOf(f, R) = E[R] /\ SumOf(f, R) \in Int
  BY <1>2, <1>3, SumOfIs
<1>7. F[S] = f[x] + F[R]
  BY <1>1 DEF Summing, R
<1>8. f[x] \in Int
  BY DEF Numeric
<1>9. QED
  BY <1>4, <1>5, <1>6, <1>7, <1>8 DEF R

(* The sum of equal functions.                                             *)
LEMMA SumCongruent ==
  ASSUME NEW S, IsFiniteSet(S), NEW f, NEW e, Numeric(f, S), \A x \in S : f[x] = e[x]
  PROVE  SumOf(f, S) = SumOf(e, S)
<1>1. Numeric(e, S)
  BY DEF Numeric
<1>2. PICK F : Summing(f, S, F)
  BY SummingExists
<1>3. Summing(e, S, F)
  <2>1. ASSUME NEW s \in SUBSET S, NEW x \in s PROVE F[s] = e[x] + F[s \ {x}]
    BY <1>2 DEF Summing
  <2>2. QED
    BY <1>2, <2>1 DEF Summing
<1>4. QED
  BY <1>1, <1>2, <1>3, SumOfIs

(* The summand of one element changes.                                     *)
LEMMA SumChanged ==
  ASSUME NEW S, IsFiniteSet(S), NEW x \in S, NEW f, NEW e, Numeric(f, S), Numeric(e, S),
         \A y \in S : y # x => f[y] = e[y]
  PROVE  SumOf(e, S) = (SumOf(f, S) - f[x]) + e[x]
<1>1. IsFiniteSet(S \ {x}) /\ Numeric(f, S \ {x}) /\ \A y \in S \ {x} : f[y] = e[y]
  BY FS_Subset DEF Numeric
<1>2. SumOf(f, S \ {x}) = SumOf(e, S \ {x})
  BY <1>1, SumCongruent
<1>3. /\ SumOf(f, S) = f[x] + SumOf(f, S \ {x})
      /\ f[x] \in Int /\ SumOf(f, S) \in Int /\ SumOf(f, S \ {x}) \in Int
  BY SumWithout
<1>4. /\ SumOf(e, S) = e[x] + SumOf(e, S \ {x})
      /\ e[x] \in Int /\ SumOf(e, S) \in Int
  BY SumWithout
<1>5. QED
  BY <1>2, <1>3, <1>4

(* A sum stays within a set of numbers that is closed under addition.      *)
LEMMA SumWithin ==
  ASSUME NEW S, IsFiniteSet(S), NEW f, NEW C \in SUBSET Int, 0 \in C,
         \A m, n \in C : m + n \in C, \A x \in S : f[x] \in C
  PROVE  SumOf(f, S) \in C
<1> DEFINE T == {n \in Nat : \A s \in SUBSET S : Cardinality(s) = n => SumOf(f, s) \in C}
<1>1. 0 \in T
  <2>1. ASSUME NEW s \in SUBSET S, Cardinality(s) = 0 PROVE SumOf(f, s) \in C
    <3>1. s = {}
      BY <2>1, FS_Subset, FS_EmptySet
    <3>2. QED
      BY <3>1, SumNothing
  <2>2. QED
    BY <2>1
<1>2. ASSUME NEW n \in Nat, n \in T PROVE n + 1 \in T
  <2>1. ASSUME NEW s \in SUBSET S, Cardinality(s) = n + 1 PROVE SumOf(f, s) \in C
    <3>1. IsFiniteSet(s)
      BY FS_Subset
    <3>2. s # {}
      BY <2>1, FS_EmptySet
    <3>3. PICK a : a \in s
      BY <3>2
    <3>4. Cardinality(s \ {a}) = n /\ s \ {a} \in SUBSET S
      <4>1. Cardinality(s \ {a}) = Cardinality(s) - 1
        BY <3>1, <3>3, FS_RemoveElement
      <4>2. QED
        BY <2>1, <4>1
    <3>5. SumOf(f, s \ {a}) \in C
      BY <1>2, <3>4
    <3>6. Numeric(f, s) /\ f[a] \in C
      BY <3>3 DEF Numeric
    <3>7. SumOf(f, s) = f[a] + SumOf(f, s \ {a})
      BY <3>1, <3>3, <3>6, SumWithout
    <3>8. QED
      BY <3>5, <3>6, <3>7
  <2>2. QED
    BY <2>1
<1>3. Nat \subseteq T
  <2> HIDE DEF T
  <2>1. QED
    BY <1>1, <1>2, Induct
<1>4. Cardinality(S) \in Nat
  BY FS_CardinalityType
<1>5. QED
  BY <1>3, <1>4

(* A sum of natural numbers is not below any of them.                      *)
LEMMA SumNat ==
  ASSUME NEW S, IsFiniteSet(S), NEW f, \A x \in S : f[x] \in Nat
  PROVE  SumOf(f, S) \in Nat /\ \A x \in S : f[x] <= SumOf(f, S)
<1>1. Nat \in SUBSET Int /\ 0 \in Nat /\ \A m, n \in Nat : m + n \in Nat
  OBVIOUS
<1>2. SumOf(f, S) \in Nat
  BY <1>1, SumWithin
<1>3. ASSUME NEW x \in S PROVE f[x] <= SumOf(f, S)
  <2>1. Numeric(f, S)
    BY DEF Numeric
  <2>2. SumOf(f, S) = f[x] + SumOf(f, S \ {x}) /\ f[x] \in Nat
    BY <2>1, SumWithout
  <2>3. SumOf(f, S \ {x}) \in Nat
    <3>1. IsFiniteSet(S \ {x}) /\ \A y \in S \ {x} : f[y] \in Nat
      BY FS_Subset
    <3>2. QED
      BY <1>1, <3>1, SumWithin
  <2>4. QED
    BY <2>2, <2>3
<1>4. QED
  BY <1>2, <1>3

(* The sum of numbers that are not positive is not.                        *)
LEMMA SumNegative ==
  ASSUME NEW S, IsFiniteSet(S), NEW f, \A x \in S : f[x] \in Int /\ f[x] <= 0
  PROVE  SumOf(f, S) \in Int /\ SumOf(f, S) <= 0
<1> DEFINE C == {n \in Int : n <= 0}
<1>1. C \in SUBSET Int /\ 0 \in C /\ \A m, n \in C : m + n \in C
  OBVIOUS
<1>2. \A x \in S : f[x] \in C
  OBVIOUS
<1>3. SumOf(f, S) \in C
  <2> HIDE DEF C
  <2>1. QED
    BY <1>1, <1>2, SumWithin
<1>4. QED
  BY <1>3

(* What is 0 outside R adds nothing to the sum over R.                     *)
LEMMA SumPart ==
  ASSUME NEW S, IsFiniteSet(S), NEW R \in SUBSET S, NEW f, Numeric(f, S),
         \A x \in S \ R : f[x] = 0
  PROVE  SumOf(f, S) = SumOf(f, R)
<1> DEFINE T == {n \in Nat : \A s \in SUBSET S :
                   R \subseteq s /\ Cardinality(s \ R) = n => SumOf(f, s) = SumOf(f, R)}
<1>0. \A s \in SUBSET S : IsFiniteSet(s) /\ IsFiniteSet(s \ R) /\ Numeric(f, s)
  BY FS_Subset DEF Numeric
<1>1. 0 \in T
  <2>1. ASSUME NEW s \in SUBSET S, R \subseteq s, Cardinality(s \ R) = 0
        PROVE  SumOf(f, s) = SumOf(f, R)
    <3>1. s \ R = {}
      BY <1>0, <2>1, FS_EmptySet
    <3>2. s = R
      BY <2>1, <3>1
    <3>3. QED
      BY <3>2
  <2>2. QED
    BY <2>1
<1>2. ASSUME NEW n \in Nat, n \in T PROVE n + 1 \in T
  <2>1. ASSUME NEW s \in SUBSET S, R \subseteq s, Cardinality(s \ R) = n + 1
        PROVE  SumOf(f, s) = SumOf(f, R)
    <3>1. s \ R # {}
      BY <1>0, <2>1, FS_EmptySet
    <3>2. PICK a : a \in s \ R
      BY <3>1
    <3>3. (s \ {a}) \ R = (s \ R) \ {a} /\ R \subseteq s \ {a} /\ s \ {a} \in SUBSET S
      BY <2>1, <3>2
    <3>4. Cardinality((s \ R) \ {a}) = Cardinality(s \ R) - 1
      BY <1>0, <3>2, FS_RemoveElement
    <3>5. Cardinality((s \ {a}) \ R) = n
      BY <2>1, <3>3, <3>4
    <3>6. SumOf(f, s \ {a}) = SumOf(f, R)
      BY <1>2, <3>3, <3>5
    <3>7. SumOf(f, s) = f[a] + SumOf(f, s \ {a}) /\ SumOf(f, s \ {a}) \in Int
      BY <1>0, <3>2, SumWithout
    <3>8. f[a] = 0
      BY <3>2
    <3>9. QED
      BY <3>6, <3>7, <3>8
  <2>2. QED
    BY <2>1
<1>3. Nat \subseteq T
  <2> HIDE DEF T
  <2>1. QED
    BY <1>1, <1>2, Induct
<1>4. Cardinality(S \ R) \in Nat
  BY <1>0, FS_CardinalityType
<1>5. QED
  BY <1>3, <1>4
===============================================================================
