-------------------------- MODULE ClientBufferProofs --------------------------
EXTENDS ClientOutput, ClientInput, QueueLemmas, TLAPS

(* Proofs about the two buffers of a client (networking.c).                  *)
(*                                                                           *)
(* The output buffers of ClientOutput: whatever a client is answered reaches *)
(* its socket once and in order (StreamInv), and the memory of the list is   *)
(* counted and limited (LimitInv).  FoldLeft adds up the memory of the list  *)
(* and FlattenSeq joins its texts; what these two recursive definitions      *)
(* return is proved first, by induction over the length of the list.         *)
(*                                                                           *)
(* The query buffer of ClientInput: what the assertions of its parser say    *)
(* (AssertInv), and that the commands it executes are those of the stream of *)
(* bytes the client sent (ImplementsRequests).                               *)

-------------------------------------------------------------------------------
(* What FoldLeft returns when it adds up the memory of the texts of a list. *)

Memory(r) == FoldLeft(LAMBDA sum, o : sum + getStringObjectSdsUsedMemory(o), 0, r)

\* The recursion of FoldLeft, on the sets of places of a list whose texts take w.
Folding(w, h, s) == IF s = {} THEN 0 ELSE h[s \ {Max(s)}] + w[Max(s)]

Folded(w, n, h) ==
  /\ h \in [SUBSET (1 .. n) -> Nat]
  /\ \A s \in SUBSET (1 .. n) : h[s] = Folding(w, h, s)

LEMMA MaxFacts ==
  ASSUME NEW n \in Nat, NEW s \in SUBSET (1 .. n), s # {}
  PROVE  Max(s) \in s /\ \A y \in s : y <= Max(s)
<1>1. s \subseteq -1 .. n
  OBVIOUS
<1>2. PICK m \in s : \A y \in s : y <= m
  BY <1>1, Highest
<1>3. \A y \in s : m >= y
  <2>1. m \in Int /\ \A y \in s : y \in Int
    OBVIOUS
  <2>2. QED
    BY <1>2, <2>1
<1>4. Max(s) \in s /\ \A y \in s : Max(s) >= y
  BY <1>3 DEF Max
<1>5. QED
  BY <1>4

LEMMA FoldedFurther ==
  ASSUME NEW N \in Nat, NEW w \in [1 .. N -> Nat], NEW n \in Nat, n + 1 <= N,
         NEW h, Folded(w, n, h)
  PROVE  \E g : Folded(w, n + 1, g)
<1> DEFINE S == SUBSET (1 .. n)
           R == SUBSET (1 .. (n + 1))
           g == [s \in R |-> IF n + 1 \in s THEN h[s \ {n + 1}] + w[n + 1] ELSE h[s]]
<1>1. h \in [S -> Nat] /\ \A s \in S : h[s] = Folding(w, h, s)
  BY DEF Folded
<1>2. w[n + 1] \in Nat
  OBVIOUS
<1>3. \A s \in R : s \ {n + 1} \in S /\ (n + 1 \notin s => s \in S)
  OBVIOUS
<1>4. \A s \in S : s \in R /\ n + 1 \notin s
  OBVIOUS
<1>5. ASSUME NEW s \in R, n + 1 \in s PROVE Max(s) = n + 1
  <2>1. n + 1 \in Nat
    OBVIOUS
  <2>2. Max(s) \in s /\ n + 1 <= Max(s)
    BY <1>5, <2>1, MaxFacts
  <2>3. Max(s) \in 1 .. (n + 1)
    BY <2>2
  <2>4. QED
    BY <2>2, <2>3
<1>6. ASSUME NEW s \in S, s # {} PROVE Max(s) \in s /\ s \ {Max(s)} \in S
  BY <1>6, MaxFacts
<1> HIDE DEF S, R
<1>7. g \in [R -> Nat]
  BY <1>1, <1>2, <1>3
<1>8. \A s \in R : g[s] = IF n + 1 \in s THEN h[s \ {n + 1}] + w[n + 1] ELSE h[s]
  OBVIOUS
<1> HIDE DEF g
<1>9. \A s \in S : g[s] = h[s]
  BY <1>4, <1>8
<1>10. ASSUME NEW s \in R PROVE g[s] = Folding(w, g, s)
  <2>1. CASE n + 1 \in s
    <3>1. Folding(w, g, s) = g[s \ {n + 1}] + w[n + 1]
      BY <1>5, <2>1 DEF Folding
    <3>2. QED
      BY <1>3, <1>8, <1>9, <2>1, <3>1
  <2>2. CASE n + 1 \notin s
    <3>1. s \in S /\ g[s] = Folding(w, h, s)
      BY <1>1, <1>3, <1>9, <2>2
    <3>2. Folding(w, h, s) = Folding(w, g, s)
      BY <1>6, <1>9, <3>1 DEF Folding
    <3>3. QED
      BY <3>1, <3>2
  <2>3. QED
    BY <2>1, <2>2
<1>11. Folded(w, n + 1, g)
  BY <1>7, <1>10 DEF Folded, R
<1>12. QED
  BY <1>11

LEMMA FoldedExists ==
  ASSUME NEW n \in Nat, NEW w \in [1 .. n -> Nat]
  PROVE  \E h : Folded(w, n, h)
<1> DEFINE T == {m \in Nat : m <= n => \E h : Folded(w, m, h)}
<1>1. 0 \in T
  <2> DEFINE g == [s \in SUBSET (1 .. 0) |-> 0]
  <2>1. SUBSET (1 .. 0) = {{}}
    OBVIOUS
  <2>2. Folded(w, 0, g)
    BY <2>1 DEF Folded, Folding
  <2>3. QED
    BY <2>2
<1>2. \A m \in Nat : m \in T => m + 1 \in T
  BY FoldedFurther
<1>3. Nat \subseteq T
  <2> HIDE DEF T
  <2>1. QED
    BY <1>1, <1>2, Induct
<1>4. QED
  BY <1>3

\* The sums of the first numbers of a list.
Sums(w, n, v) ==
  /\ v \in [0 .. n -> Int]
  /\ v[0] = 0
  /\ \A i \in 1 .. n : v[i] = v[i - 1] + w[i]

LEMMA FoldingUpto ==
  ASSUME NEW n \in Nat, NEW i \in 1 .. n, NEW w, NEW h
  PROVE  /\ Folding(w, h, 1 .. i) = h[1 .. (i - 1)] + w[i]
         /\ 1 .. i \in SUBSET (1 .. n)
<1>1. /\ i \in 1 .. i /\ 1 .. i # {} /\ (1 .. i) \ {i} = 1 .. (i - 1)
      /\ 1 .. i \in SUBSET (1 .. n)
  OBVIOUS
<1>2. Max(1 .. i) = i
  <2>1. Max(1 .. i) \in 1 .. i /\ i <= Max(1 .. i)
    BY <1>1, MaxFacts
  <2>2. QED
    BY <2>1
<1>3. QED
  BY <1>1, <1>2 DEF Folding

LEMMA FoldedSums ==
  ASSUME NEW n \in Nat, NEW w \in [1 .. n -> Nat], NEW h, Folded(w, n, h)
  PROVE  Sums(w, n, [i \in 0 .. n |-> h[1 .. i]])
<1> DEFINE v == [i \in 0 .. n |-> h[1 .. i]]
<1>1. \A i \in 0 .. n : 1 .. i \in SUBSET (1 .. n)
  OBVIOUS
<1>2. \A i \in 0 .. n : h[1 .. i] \in Nat /\ h[1 .. i] = Folding(w, h, 1 .. i)
  BY <1>1 DEF Folded
<1>3. v \in [0 .. n -> Int]
  BY <1>2
<1>4. v[0] = 0
  <2>1. 1 .. 0 = {} /\ 0 \in 0 .. n
    OBVIOUS
  <2>2. QED
    BY <1>2, <2>1 DEF Folding
<1>5. ASSUME NEW i \in 1 .. n PROVE v[i] = v[i - 1] + w[i]
  <2>1. i \in 0 .. n /\ i - 1 \in 0 .. n
    OBVIOUS
  <2>2. h[1 .. i] = h[1 .. (i - 1)] + w[i]
    BY <1>2, <2>1, FoldingUpto
  <2>3. QED
    BY <2>1, <2>2
<1> HIDE DEF v
<1>6. Sums(w, n, v)
  BY <1>3, <1>4, <1>5 DEF Sums
<1>7. QED
  BY <1>6 DEF v

LEMMA SumsUnique ==
  ASSUME NEW n \in Nat, NEW w \in [1 .. n -> Nat], NEW u, NEW v, Sums(w, n, u), Sums(w, n, v)
  PROVE  u[n] = v[n]
<1> DEFINE T == {m \in Nat : m <= n => u[m] = v[m]}
<1>1. 0 \in T
  BY DEF Sums
<1>2. ASSUME NEW m \in Nat, m \in T PROVE m + 1 \in T
  <2>1. SUFFICES ASSUME m + 1 <= n PROVE u[m + 1] = v[m + 1]
    OBVIOUS
  <2>2. m + 1 \in 1 .. n /\ (m + 1) - 1 = m /\ u[m] = v[m]
    BY <1>2, <2>1
  <2>3. QED
    BY <2>2 DEF Sums
<1>3. Nat \subseteq T
  <2> HIDE DEF T
  <2>1. QED
    BY <1>1, <1>2, Induct
<1>4. QED
  BY <1>3

LEMMA UsedMemoryNat ==
  ASSUME NEW o \in StringObject
  PROVE  getStringObjectSdsUsedMemory(o) \in Nat
<1>1. o.cap \in Nat /\ Len(o.data) \in Nat
  BY DEF StringObject
<1>2. SdsHeader \in Nat
  BY OutputAssumption
<1>3. QED
  BY <1>1, <1>2 DEF getStringObjectSdsUsedMemory

Weights(r) == [i \in 1 .. Len(r) |-> getStringObjectSdsUsedMemory(r[i])]

LEMMA WeightsType ==
  ASSUME NEW r \in Seq(StringObject)
  PROVE  Len(r) \in Nat /\ Weights(r) \in [1 .. Len(r) -> Nat]
<1>1. \A i \in 1 .. Len(r) : r[i] \in StringObject
  OBVIOUS
<1>2. \A i \in 1 .. Len(r) : getStringObjectSdsUsedMemory(r[i]) \in Nat
  BY <1>1, UsedMemoryNat
<1>3. QED
  BY <1>2 DEF Weights

LEMMA MemorySums ==
  ASSUME NEW r \in Seq(StringObject)
  PROVE  /\ Memory(r) \in Nat
         /\ \E v : Sums(Weights(r), Len(r), v)
         /\ \A v : Sums(Weights(r), Len(r), v) => Memory(r) = v[Len(r)]
<1> DEFINE n == Len(r)
           w == Weights(r)
           S == SUBSET DOMAIN r
           Rule(g, s) == IF s = {} THEN 0
                         ELSE LET x == Max(s)
                              IN  g[s \ {x}] + getStringObjectSdsUsedMemory(r[x])
           iter == CHOOSE g : g = [s \in S |-> Rule(g, s)]
<1>1. Memory(r) = iter[DOMAIN r]
  BY DEF Memory, FoldLeft, MapThenFoldSet
<1>2. n \in Nat /\ w \in [1 .. n -> Nat] /\ DOMAIN r = 1 .. n
  BY WeightsType
<1>3. ASSUME NEW g, NEW s \in S PROVE Rule(g, s) = Folding(w, g, s)
  <2>1. s # {} => Max(s) \in 1 .. n
    BY <1>2, MaxFacts
  <2>2. s # {} => w[Max(s)] = getStringObjectSdsUsedMemory(r[Max(s)])
    BY <2>1 DEF Weights
  <2> HIDE DEF w
  <2>3. QED
    BY <2>2 DEF Folding
<1>4. PICK h : Folded(w, n, h)
  BY <1>2, FoldedExists
<1> HIDE DEF n, w, Rule
<1>5. h = [s \in S |-> Rule(h, s)]
  BY <1>2, <1>3, <1>4 DEF Folded
<1>6. iter = [s \in S |-> Rule(iter, s)]
  BY <1>5
<1> HIDE DEF iter
<1>7. \A s \in S : iter[s] = Folding(w, iter, s)
  BY <1>3, <1>6
<1>8. \A i \in 1 .. n : iter[1 .. i] = iter[1 .. (i - 1)] + w[i] /\ h[1 .. i] = h[1 .. (i - 1)] + w[i]
  <2>1. TAKE i \in 1 .. n
  <2>2. /\ Folding(w, iter, 1 .. i) = iter[1 .. (i - 1)] + w[i]
        /\ Folding(w, h, 1 .. i) = h[1 .. (i - 1)] + w[i]
        /\ 1 .. i \in S
    BY <1>2, FoldingUpto
  <2> HIDE DEF S
  <2>3. iter[1 .. i] = Folding(w, iter, 1 .. i)
    BY <1>7, <2>2
  <2>4. h[1 .. i] = Folding(w, h, 1 .. i)
    BY <1>2, <1>4, <2>2 DEF Folded, S
  <2>5. QED
    BY <2>2, <2>3, <2>4
<1>9. iter[1 .. n] = h[1 .. n]
  <2> DEFINE T == {m \in Nat : m <= n => iter[1 .. m] = h[1 .. m]}
  <2>1. 0 \in T
    <3>1. 1 .. 0 = {} /\ {} \in S
      OBVIOUS
    <3>2. QED
      BY <1>2, <1>4, <1>7, <3>1 DEF Folded, Folding
  <2>2. ASSUME NEW m \in Nat, m \in T PROVE m + 1 \in T
    <3>1. SUFFICES ASSUME m + 1 <= n PROVE iter[1 .. (m + 1)] = h[1 .. (m + 1)]
      OBVIOUS
    <3>2. m + 1 \in 1 .. n /\ (m + 1) - 1 = m /\ iter[1 .. m] = h[1 .. m]
      BY <1>2, <2>2, <3>1
    <3>3. QED
      BY <1>8, <3>2
  <2>3. Nat \subseteq T
    <3> HIDE DEF T
    <3>1. QED
      BY <2>1, <2>2, Induct
  <2>4. QED
    BY <1>2, <2>3
<1>10. Sums(w, n, [i \in 0 .. n |-> h[1 .. i]])
  BY <1>2, <1>4, FoldedSums
<1>11. [i \in 0 .. n |-> h[1 .. i]][n] = h[1 .. n] /\ h[1 .. n] \in Nat
  BY <1>2, <1>4 DEF Folded
<1>12. \A v : Sums(w, n, v) => Memory(r) = v[n]
  BY <1>1, <1>2, <1>9, <1>10, <1>11, SumsUnique
<1>13. QED
  BY <1>1, <1>2, <1>9, <1>10, <1>11, <1>12 DEF n, w

LEMMA MemoryBy ==
  ASSUME NEW r \in Seq(StringObject), NEW v, v \in [0 .. Len(r) -> Int], v[0] = 0,
         \A i \in 1 .. Len(r) : v[i] = v[i - 1] + getStringObjectSdsUsedMemory(r[i])
  PROVE  Memory(r) = v[Len(r)]
<1>1. \A i \in 1 .. Len(r) : v[i] = v[i - 1] + Weights(r)[i]
  BY DEF Weights
<1>2. Sums(Weights(r), Len(r), v)
  BY <1>1 DEF Sums
<1>3. QED
  BY <1>2, MemorySums

LEMMA MemoryIs ==
  ASSUME NEW r \in Seq(StringObject)
  PROVE  \E v \in [0 .. Len(r) -> Int] :
           /\ v[0] = 0
           /\ \A i \in 1 .. Len(r) : v[i] = v[i - 1] + getStringObjectSdsUsedMemory(r[i])
           /\ Memory(r) = v[Len(r)]
<1>1. PICK v : Sums(Weights(r), Len(r), v)
  BY MemorySums
<1>2. Memory(r) = v[Len(r)]
  BY <1>1, MemorySums
<1>3. \A i \in 1 .. Len(r) : Weights(r)[i] = getStringObjectSdsUsedMemory(r[i])
  BY DEF Weights
<1>4. v \in [0 .. Len(r) -> Int] /\ v[0] = 0
      /\ \A i \in 1 .. Len(r) : v[i] = v[i - 1] + getStringObjectSdsUsedMemory(r[i])
  BY <1>1, <1>3 DEF Sums
<1>5. QED
  BY <1>2, <1>4

LEMMA MemoryNothing == Memory(<<>>) = 0
<1>1. <<>> \in Seq(StringObject) /\ Len(<<>>) = 0
  OBVIOUS
<1>2. PICK v \in [0 .. 0 -> Int] : v[0] = 0 /\ Memory(<<>>) = v[0]
  BY <1>1, MemoryIs
<1>3. QED
  BY <1>2

LEMMA MemoryAppend ==
  ASSUME NEW r \in Seq(StringObject), NEW o \in StringObject
  PROVE  Memory(Append(r, o)) = Memory(r) + getStringObjectSdsUsedMemory(o)
<1> DEFINE n == Len(r)
           t == Append(r, o)
           m == getStringObjectSdsUsedMemory(o)
<1>0. /\ n \in Nat /\ t \in Seq(StringObject) /\ Len(t) = n + 1
      /\ t[n + 1] = o /\ \A i \in 1 .. n : t[i] = r[i]
  BY AppendProperties
<1>1. m \in Nat
  BY UsedMemoryNat
<1>2. PICK v \in [0 .. n -> Int] :
        /\ v[0] = 0
        /\ \A i \in 1 .. n : v[i] = v[i - 1] + getStringObjectSdsUsedMemory(r[i])
        /\ Memory(r) = v[n]
  BY MemoryIs
<1> HIDE DEF n, t
<1> DEFINE u == [i \in 0 .. (n + 1) |-> IF i = n + 1 THEN v[n] + m ELSE v[i]]
<1>3. /\ u \in [0 .. (n + 1) -> Int] /\ u[0] = 0 /\ u[n + 1] = v[n] + m
      /\ \A i \in 0 .. n : u[i] = v[i]
  <2> HIDE DEF m
  <2>0. n \in 0 .. n /\ \A i \in 0 .. (n + 1) : i = n + 1 \/ i \in 0 .. n
    BY <1>0
  <2>1. v[n] + m \in Int /\ \A i \in 0 .. (n + 1) : i = n + 1 \/ (i \in 0 .. n /\ v[i] \in Int)
    <3>1. v[n] \in Int
      BY <1>2, <2>0
    <3>2. QED
      BY <1>1, <1>2, <2>0, <3>1
  <2>2. /\ 0 \in 0 .. (n + 1) /\ 0 # n + 1 /\ n + 1 \in 0 .. (n + 1)
        /\ \A i \in 0 .. n : i \in 0 .. (n + 1) /\ i # n + 1
    BY <1>0
  <2>3. QED
    BY <1>2, <2>1, <2>2
<1> HIDE DEF u
<1>4. ASSUME NEW i \in 1 .. (n + 1) PROVE u[i] = u[i - 1] + getStringObjectSdsUsedMemory(t[i])
  <2>1. CASE i = n + 1
    <3>1. i - 1 = n /\ n \in 0 .. n
      BY <1>0, <2>1
    <3>2. QED
      BY <1>0, <1>3, <2>1, <3>1
  <2>2. CASE i # n + 1
    <3>1. i \in 1 .. n /\ i \in 0 .. n /\ i - 1 \in 0 .. n
      BY <1>0, <2>2
    <3>2. QED
      BY <1>0, <1>2, <1>3, <3>1
  <2>3. QED
    BY <2>1, <2>2
<1>5. Memory(t) = u[n + 1]
  BY <1>0, <1>3, <1>4, MemoryBy
<1>6. QED
  BY <1>2, <1>3, <1>5 DEF t

LEMMA MemoryExcept ==
  ASSUME NEW r \in Seq(StringObject), NEW i \in 1 .. Len(r), NEW o \in StringObject
  PROVE  Memory([r EXCEPT ![i] = o]) =
           Memory(r) - getStringObjectSdsUsedMemory(r[i]) + getStringObjectSdsUsedMemory(o)
<1> DEFINE n == Len(r)
           t == [r EXCEPT ![i] = o]
           d == getStringObjectSdsUsedMemory(o) - getStringObjectSdsUsedMemory(r[i])
<1>0. /\ n \in Nat /\ i \in 1 .. n /\ t \in Seq(StringObject) /\ Len(t) = n
      /\ \A k \in 1 .. n : t[k] = IF k = i THEN o ELSE r[k]
      /\ r[i] \in StringObject
  BY ExceptSeq
<1>1. /\ getStringObjectSdsUsedMemory(o) \in Nat
      /\ \A k \in 1 .. n : getStringObjectSdsUsedMemory(r[k]) \in Nat
  <2>1. \A k \in 1 .. n : r[k] \in StringObject
    OBVIOUS
  <2>2. QED
    BY <2>1, UsedMemoryNat
<1>2. PICK v \in [0 .. n -> Int] :
        /\ v[0] = 0
        /\ \A k \in 1 .. n : v[k] = v[k - 1] + getStringObjectSdsUsedMemory(r[k])
        /\ Memory(r) = v[n]
  BY MemoryIs
<1>3. d \in Int /\ getStringObjectSdsUsedMemory(o) = getStringObjectSdsUsedMemory(r[i]) + d
  BY <1>0, <1>1
<1> HIDE DEF n, t, d
<1> DEFINE u == [k \in 0 .. n |-> IF k < i THEN v[k] ELSE v[k] + d]
<1>4. /\ u \in [0 .. n -> Int] /\ u[0] = 0 /\ u[n] = v[n] + d
      /\ \A k \in 0 .. n : u[k] = IF k < i THEN v[k] ELSE v[k] + d
  <2>1. \A k \in 0 .. n : v[k] \in Int /\ v[k] + d \in Int
    BY <1>2, <1>3
  <2>2. 0 \in 0 .. n /\ 0 < i /\ n \in 0 .. n /\ ~ (n < i)
    BY <1>0
  <2>3. QED
    BY <1>2, <2>1, <2>2
<1> HIDE DEF u
<1>5. ASSUME NEW k \in 1 .. n PROVE u[k] = u[k - 1] + getStringObjectSdsUsedMemory(t[k])
  <2>0. /\ k \in 0 .. n /\ k - 1 \in 0 .. n /\ v[k - 1] \in Int
        /\ v[k] = v[k - 1] + getStringObjectSdsUsedMemory(r[k])
        /\ getStringObjectSdsUsedMemory(r[k]) \in Nat
    BY <1>0, <1>1, <1>2, SMTT(30)
  <2>1. CASE k = i
    <3>1. u[k] = v[k] + d /\ u[k - 1] = v[k - 1]
      BY <1>0, <1>4, <2>0, <2>1
    <3>2. t[k] = o /\ r[k] = r[i]
      BY <1>0, <2>1
    <3>3. QED
      BY <1>3, <2>0, <2>1, <3>1, <3>2
  <2>2. CASE k # i
    <3>1. t[k] = r[k] /\ (k < i <=> k - 1 < i)
      BY <1>0, <2>2
    <3>2. QED
      BY <1>3, <1>4, <2>0, <3>1
  <2>3. QED
    BY <2>1, <2>2
<1>6. Memory(t) = u[n]
  BY <1>0, <1>4, <1>5, MemoryBy
<1>7. v[n] \in Int
  BY <1>0, <1>2
<1>8. QED
  BY <1>0, <1>1, <1>2, <1>4, <1>6, <1>7 DEF t, d

LEMMA MemoryRemove ==
  ASSUME NEW r \in Seq(StringObject), NEW i \in 1 .. Len(r)
  PROVE  Memory(RemoveAt(r, i)) = Memory(r) - getStringObjectSdsUsedMemory(r[i])
<1>r. /\ RemoveAt(r, i) \in Seq(StringObject) /\ Len(RemoveAt(r, i)) = Len(r) - 1
      /\ \A k \in 1 .. (Len(r) - 1) : RemoveAt(r, i)[k] = IF k < i THEN r[k] ELSE r[k + 1]
  BY RemoveAtFacts
<1>n. Len(r) \in Nat /\ i \in 1 .. Len(r)
  OBVIOUS
<1> DEFINE n == Len(r)
           t == RemoveAt(r, i)
           d == getStringObjectSdsUsedMemory(r[i])
<1>0. /\ n \in Nat /\ i \in 1 .. n /\ t \in Seq(StringObject) /\ Len(t) = n - 1
      /\ \A k \in 1 .. (n - 1) : t[k] = IF k < i THEN r[k] ELSE r[k + 1]
  BY <1>r, <1>n
<1>1. \A k \in 1 .. n : getStringObjectSdsUsedMemory(r[k]) \in Nat
  <2>1. \A k \in 1 .. n : r[k] \in StringObject
    OBVIOUS
  <2>2. QED
    BY <2>1, UsedMemoryNat
<1>2. PICK v \in [0 .. n -> Int] :
        /\ v[0] = 0
        /\ \A k \in 1 .. n : v[k] = v[k - 1] + getStringObjectSdsUsedMemory(r[k])
        /\ Memory(r) = v[n]
  BY MemoryIs
<1>3. d \in Nat /\ v[i] = v[i - 1] + d /\ i - 1 \in 0 .. n /\ v[i - 1] \in Int
  BY <1>0, <1>1, <1>2
<1> HIDE DEF n, t, d
<1> DEFINE u == [k \in 0 .. (n - 1) |-> IF k < i THEN v[k] ELSE v[k + 1] - d]
<1>4. /\ u \in [0 .. (n - 1) -> Int] /\ u[0] = 0
      /\ \A k \in 0 .. (n - 1) : u[k] = IF k < i THEN v[k] ELSE v[k + 1] - d
  <2>1. \A k \in 0 .. (n - 1) : v[k] \in Int /\ v[k + 1] - d \in Int
    BY <1>0, <1>2, <1>3, SMTT(30)
  <2>2. 0 \in 0 .. (n - 1) /\ 0 < i
    BY <1>0
  <2>3. QED
    BY <1>2, <2>1, <2>2
<1> HIDE DEF u
<1>5. ASSUME NEW k \in 1 .. (n - 1)
      PROVE  u[k] = u[k - 1] + getStringObjectSdsUsedMemory(t[k])
  <2>0. /\ k \in 1 .. n /\ k + 1 \in 1 .. n /\ (k + 1) - 1 = k /\ (k - 1) + 1 = k
        /\ k \in 0 .. (n - 1) /\ k - 1 \in 0 .. (n - 1)
    BY <1>0
  <2>1. /\ v[k - 1] \in Int /\ v[k] \in Int
        /\ v[k] = v[k - 1] + getStringObjectSdsUsedMemory(r[k])
        /\ v[k + 1] = v[k] + getStringObjectSdsUsedMemory(r[k + 1])
        /\ getStringObjectSdsUsedMemory(r[k + 1]) \in Nat
    <3>1. k - 1 \in 0 .. n /\ k \in 0 .. n
      BY <1>0
    <3>2. v[k - 1] \in Int /\ v[k] \in Int
      BY <1>2, <3>1
    <3>3. v[k + 1] = v[(k + 1) - 1] + getStringObjectSdsUsedMemory(r[k + 1])
      BY <1>2, <2>0
    <3>4. QED
      BY <1>1, <1>2, <2>0, <3>2, <3>3
  <2>2. CASE k < i
    <3>1. t[k] = r[k] /\ u[k] = v[k] /\ u[k - 1] = v[k - 1]
      <4>1. k - 1 < i
        BY <1>0, <2>2
      <4>2. QED
        BY <1>0, <1>4, <2>0, <2>2, <4>1
    <3>2. QED
      BY <2>1, <3>1
  <2>3. CASE k = i
    <3>1. t[k] = r[k + 1] /\ u[k] = v[k + 1] - d /\ u[k - 1] = v[k - 1]
      <4>1. k - 1 < i /\ ~ (k < i)
        BY <1>0, <2>3
      <4>2. QED
        BY <1>0, <1>4, <2>0, <4>1
    <3>2. v[k] = v[k - 1] + d
      BY <1>3, <2>3
    <3>3. QED
      BY <1>3, <2>1, <3>1, <3>2, SMTT(30)
  <2>4. CASE k > i
    <3>1. t[k] = r[k + 1] /\ u[k] = v[k + 1] - d /\ u[k - 1] = v[k] - d
      <4>1. ~ (k - 1 < i) /\ ~ (k < i)
        BY <1>0, <2>4
      <4>2. QED
        BY <1>0, <1>4, <2>0, <4>1
    <3>2. QED
      BY <1>3, <2>1, <3>1
  <2>5. k < i \/ k = i \/ k > i
    BY <1>0
  <2>6. QED
    BY <2>2, <2>3, <2>4, <2>5
<1>6. Memory(t) = u[n - 1]
  BY <1>0, <1>4, <1>5, MemoryBy
<1>7. u[n - 1] = v[n] - d
  <2>1. n - 1 \in 0 .. (n - 1) /\ (n - 1) + 1 = n /\ (n - 1 < i => i = n)
    BY <1>0
  <2>2. CASE i = n
    <3>1. n - 1 < i /\ u[n - 1] = v[n - 1]
      BY <1>0, <1>4, <2>1, <2>2
    <3>2. QED
      BY <1>3, <2>2, <3>1
  <2>3. CASE i # n
    BY <1>4, <2>1, <2>3
  <2>4. QED
    BY <2>2, <2>3
<1>8. QED
  BY <1>2, <1>6, <1>7 DEF t, d

LEMMA MemoryTail ==
  ASSUME NEW r \in Seq(StringObject), r # <<>>
  PROVE  Memory(Tail(r)) = Memory(r) - getStringObjectSdsUsedMemory(Head(r))
<1>1. Len(r) \in Nat /\ 1 \in 1 .. Len(r) /\ Head(r) = r[1]
  OBVIOUS
<1>2. SubSeq(r, 1, 0) = <<>> /\ SubSeq(r, 2, Len(r)) = Tail(r) /\ Tail(r) \in Seq(StringObject)
  BY <1>1
<1>3. <<>> \o Tail(r) = Tail(r)
  BY <1>2, ConcatEmptySeq
<1>4. RemoveAt(r, 1) = Tail(r)
  BY <1>2, <1>3 DEF RemoveAt
<1>5. QED
  BY <1>1, <1>4, MemoryRemove

-------------------------------------------------------------------------------
(* The objects of the list.                                                *)

LEMMA NewUnitsType ==
  ASSUME made \in Nat, NEW n \in Nat
  PROVE  NewUnits(n) \in Seq(Nat) /\ Len(NewUnits(n)) = n
BY DEF NewUnits

LEMMA ObjectTypes ==
  ASSUME NEW d \in Seq(Nat), NEW spare \in Nat
  PROVE  /\ RawObject(d, spare) \in StringObject /\ RawObject(d, spare).data = d
         /\ SharedObject(d, spare) \in StringObject /\ SharedObject(d, spare).data = d
         /\ createStringObject(d) \in StringObject /\ createStringObject(d).data = d
<1>1. Len(d) \in Nat /\ Len(d) + spare \in Nat /\ Len(d) + 0 \in Nat
  OBVIOUS
<1>2. RawObject(d, spare) \in StringObject /\ RawObject(d, spare).data = d
  BY <1>1 DEF RawObject, StringObject
<1>3. RawObject(d, 0) \in StringObject /\ RawObject(d, 0).data = d
  BY <1>1 DEF RawObject, StringObject
<1>4. SharedObject(d, spare) \in StringObject /\ SharedObject(d, spare).data = d
  BY <1>2 DEF SharedObject, StringObject
<1>5. EmbObject(d) \in StringObject /\ EmbObject(d).data = d
  BY <1>3 DEF EmbObject, StringObject
<1>6. QED
  BY <1>2, <1>3, <1>4, <1>5 DEF createStringObject

LEMMA OpenLengthType ==
  ASSUME NEW u \in Nat
  PROVE  /\ OpenLength(u) \in StringObject
         /\ OpenLength(u).data = <<u>> /\ OpenLength(u).open
         /\ getStringObjectSdsUsedMemory(OpenLength(u)) = 0
<1>1. <<u>> \in Seq(Nat) /\ Len(<<u>>) = 1
  OBVIOUS
<1>2. RawObject(<<u>>, 0) \in StringObject /\ RawObject(<<u>>, 0).data = <<u>>
  BY <1>1, ObjectTypes
<1>3. /\ OpenLength(u) \in StringObject
      /\ OpenLength(u).data = <<u>> /\ OpenLength(u).open
  BY <1>2 DEF OpenLength, StringObject
<1>4. QED
  BY <1>3 DEF getStringObjectSdsUsedMemory

LEMMA CatenatedType ==
  ASSUME NEW o \in StringObject, NEW d \in Seq(Nat)
  PROVE  /\ Catenated(o, d) \in StringObject
         /\ Catenated(o, d).data = o.data \o d
         /\ Catenated(o, d).open = o.open
<1> DEFINE t == o.data \o d
           c == IF Len(o.data) + Len(d) <= o.cap THEN o.cap ELSE 2 * (Len(o.data) + Len(d))
<1>1. o.data \in Seq(Nat) /\ o.cap \in Nat
  BY DEF StringObject
<1>2. t \in Seq(Nat)
  BY <1>1, ConcatProperties
<1>3. c \in Nat
  BY <1>1
<1>4. Catenated(o, d) = [o EXCEPT !.data = t, !.cap = c]
  BY DEF Catenated
<1> HIDE DEF t, c
<1>5. QED
  BY <1>2, <1>3, <1>4 DEF StringObject, t

LEMMA DupType ==
  ASSUME NEW o \in StringObject
  PROVE  /\ dupLastObjectIfNeeded(o) \in StringObject
         /\ dupLastObjectIfNeeded(o).data = o.data
         /\ dupLastObjectIfNeeded(o).open = o.open
<1>1. Len(o.data) \in Nat
  BY DEF StringObject
<1>2. QED
  BY <1>1 DEF dupLastObjectIfNeeded, StringObject

-------------------------------------------------------------------------------
(* The texts of the list, in their order.                                  *)

Texts(r) == [i \in DOMAIN r |-> r[i].data]

LEMMA TextsType ==
  ASSUME NEW r \in Seq(StringObject)
  PROVE  /\ Texts(r) \in Seq(Seq(Nat)) /\ Len(Texts(r)) = Len(r)
         /\ \A i \in 1 .. Len(r) : Texts(r)[i] = r[i].data /\ r[i].data \in Seq(Nat)
         /\ FlattenSeq(Texts(r)) \in Seq(Nat)
<1>1. Len(r) \in Nat /\ DOMAIN r = 1 .. Len(r) /\ \A i \in 1 .. Len(r) : r[i] \in StringObject
  OBVIOUS
<1>2. \A i \in 1 .. Len(r) : r[i].data \in Seq(Nat)
  BY <1>1 DEF StringObject
<1>3. PICK T : T = Seq(Nat)
  OBVIOUS
<1>4. Texts(r) = [i \in 1 .. Len(r) |-> r[i].data]
  BY <1>1 DEF Texts
<1>5. Texts(r) \in Seq(T) /\ Len(Texts(r)) = Len(r)
  BY <1>1, <1>2, <1>3, <1>4
<1>6. \A i \in 1 .. Len(r) : Texts(r)[i] = r[i].data
  BY <1>4
<1>7. Texts(r) \in Seq(Seq(Nat))
  BY <1>3, <1>5
<1>8. FlattenSeq(Texts(r)) \in Seq(Nat)
  BY <1>7, FlatteningExists, FlattenedBy
<1>9. QED
  BY <1>2, <1>5, <1>6, <1>7, <1>8

LEMMA TextsAppend ==
  ASSUME NEW r \in Seq(StringObject), NEW o \in StringObject
  PROVE  FlattenSeq(Texts(Append(r, o))) = FlattenSeq(Texts(r)) \o o.data
<1>1. PICK T : T = Seq(Nat)
  OBVIOUS
<1>2. /\ Texts(r) \in Seq(T) /\ Len(Texts(r)) = Len(r)
      /\ \A i \in 1 .. Len(r) : Texts(r)[i] = r[i].data
  BY <1>1, TextsType
<1>3. /\ Append(r, o) \in Seq(StringObject) /\ Len(Append(r, o)) = Len(r) + 1
      /\ \A i \in 1 .. Len(r) : Append(r, o)[i] = r[i]
      /\ Append(r, o)[Len(r) + 1] = o
  BY AppendProperties
<1>4. /\ Texts(Append(r, o)) \in Seq(T) /\ Len(Texts(Append(r, o))) = Len(r) + 1
      /\ \A i \in 1 .. (Len(r) + 1) : Texts(Append(r, o))[i] = Append(r, o)[i].data
  BY <1>1, <1>3, TextsType
<1>5. o.data \in T /\ Len(r) \in Nat
  BY <1>1 DEF StringObject
<1>6. /\ Append(Texts(r), o.data) \in Seq(T) /\ Len(Append(Texts(r), o.data)) = Len(r) + 1
      /\ \A i \in 1 .. Len(r) : Append(Texts(r), o.data)[i] = Texts(r)[i]
      /\ Append(Texts(r), o.data)[Len(r) + 1] = o.data
  BY <1>2, <1>5, AppendProperties
<1>7. ASSUME NEW i \in 1 .. (Len(r) + 1) PROVE Texts(Append(r, o))[i] = Append(Texts(r), o.data)[i]
  <2>1. CASE i = Len(r) + 1
    BY <1>3, <1>4, <1>6, <2>1
  <2>2. CASE i # Len(r) + 1
    <3>1. i \in 1 .. Len(r)
      BY <1>5, <2>2
    <3>2. QED
      BY <1>2, <1>3, <1>4, <1>6, <3>1
  <2>3. QED
    BY <2>1, <2>2
<1>8. Texts(Append(r, o)) = Append(Texts(r), o.data)
  BY <1>4, <1>6, <1>7, SeqEqual
<1>9. Texts(r) \in Seq(Seq(Nat)) /\ o.data \in Seq(Nat)
  BY <1>1, <1>2, <1>5
<1>10. QED
  BY <1>8, <1>9, FlattenAppend

LEMMA TextsTail ==
  ASSUME NEW r \in Seq(StringObject), r # <<>>
  PROVE  FlattenSeq(Texts(r)) = Head(r).data \o FlattenSeq(Texts(Tail(r)))
<1>1. PICK T : T = Seq(Nat)
  OBVIOUS
<1>2. /\ Texts(r) \in Seq(T) /\ Len(Texts(r)) = Len(r)
      /\ \A i \in 1 .. Len(r) : Texts(r)[i] = r[i].data
  BY <1>1, TextsType
<1>3. /\ Tail(r) \in Seq(StringObject) /\ Len(Tail(r)) = Len(r) - 1
      /\ \A i \in 1 .. (Len(r) - 1) : Tail(r)[i] = r[i + 1]
      /\ Len(r) \in Nat /\ Len(r) >= 1 /\ Head(r) = r[1]
  OBVIOUS
<1>4. /\ Texts(Tail(r)) \in Seq(T) /\ Len(Texts(Tail(r))) = Len(r) - 1
      /\ \A i \in 1 .. (Len(r) - 1) : Texts(Tail(r))[i] = Tail(r)[i].data
  BY <1>1, <1>3, TextsType
<1>5. Texts(r) # <<>>
  BY <1>2, <1>3
<1>6. /\ Tail(Texts(r)) \in Seq(T) /\ Len(Tail(Texts(r))) = Len(r) - 1
      /\ \A i \in 1 .. (Len(r) - 1) : Tail(Texts(r))[i] = Texts(r)[i + 1]
      /\ Head(Texts(r)) = Texts(r)[1]
  BY <1>2, <1>3, <1>5
<1>7. ASSUME NEW i \in 1 .. (Len(r) - 1) PROVE Texts(Tail(r))[i] = Tail(Texts(r))[i]
  <2>1. i + 1 \in 1 .. Len(r)
    BY <1>3
  <2>2. QED
    BY <1>2, <1>3, <1>4, <1>6, <2>1
<1>8. Texts(Tail(r)) = Tail(Texts(r))
  BY <1>4, <1>6, <1>7, SeqEqual
<1>9. Head(Texts(r)) = Head(r).data
  BY <1>2, <1>3, <1>6
<1>10. Texts(r) \in Seq(Seq(Nat))
  BY <1>1, <1>2
<1>11. QED
  BY <1>5, <1>8, <1>9, <1>10, FlattenHead

LEMMA TextsExcept ==
  ASSUME NEW r \in Seq(StringObject), NEW i \in 1 .. Len(r), NEW o \in StringObject
  PROVE  Texts([r EXCEPT ![i] = o]) = [Texts(r) EXCEPT ![i] = o.data]
<1> DEFINE t == [r EXCEPT ![i] = o]
           n == Len(r)
<1>0. n \in Nat /\ i \in 1 .. n /\ DOMAIN r = 1 .. n
  OBVIOUS
<1>1. DOMAIN t = 1 .. n /\ \A k \in 1 .. n : t[k] = IF k = i THEN o ELSE r[k]
  BY <1>0
<1> HIDE DEF t, n
<1>2. QED
  BY <1>0, <1>1 DEF Texts, t

\* The last text grows by d.
LEMMA TextsGrown ==
  ASSUME NEW r \in Seq(StringObject), NEW o \in StringObject, NEW d \in Seq(Nat),
         r # <<>>, o.data = Last(r).data \o d
  PROVE  FlattenSeq(Texts([r EXCEPT ![Len(r)] = o])) = FlattenSeq(Texts(r)) \o d
<1>1. Len(r) \in 1 .. Len(r) /\ Last(r) = r[Len(r)]
  BY DEF Last
<1>2. Texts(r) \in Seq(Seq(Nat)) /\ Len(Texts(r)) = Len(r) /\ Texts(r)[Len(r)] = Last(r).data
  BY <1>1, TextsType
<1>3. Texts([r EXCEPT ![Len(r)] = o])
        = [Texts(r) EXCEPT ![Len(Texts(r))] = Texts(r)[Len(Texts(r))] \o d]
  <2>1. Texts([r EXCEPT ![Len(r)] = o]) = [Texts(r) EXCEPT ![Len(r)] = o.data]
    BY <1>1, TextsExcept
  <2>2. o.data = Texts(r)[Len(r)] \o d
    BY <1>2
  <2>3. QED
    BY <1>2, <2>1, <2>2
<1>4. Texts(r) # <<>>
  BY <1>1, <1>2
<1>5. QED
  BY <1>2, <1>3, <1>4, FlattenGrown

\* A text is joined with the one behind it.
LEMMA TextsJoined ==
  ASSUME NEW r \in Seq(StringObject), NEW i \in 1 .. (Len(r) - 1), NEW o \in StringObject,
         o.data = r[i].data \o r[i + 1].data
  PROVE  FlattenSeq(Texts(RemoveAt([r EXCEPT ![i] = o], i + 1))) = FlattenSeq(Texts(r))
<1> DEFINE t == [r EXCEPT ![i] = o]
           n == Len(r)
<1>0. n \in Nat /\ i \in 1 .. (n - 1) /\ i \in 1 .. n /\ i + 1 \in 1 .. n
  OBVIOUS
<1>1. t \in Seq(StringObject) /\ Len(t) = n
  BY <1>0, ExceptSeq
<1>2. Texts(t) = [Texts(r) EXCEPT ![i] = o.data]
  BY <1>0, TextsExcept
<1>3. /\ Texts(r) \in Seq(Seq(Nat)) /\ Len(Texts(r)) = n
      /\ Texts(r)[i] = r[i].data /\ Texts(r)[i + 1] = r[i + 1].data
  BY <1>0, TextsType
<1> HIDE DEF t, n
<1>4. PICK T : T = Seq(Nat)
  OBVIOUS
<1>5. /\ Texts(t) \in Seq(T) /\ Len(Texts(t)) = n
      /\ \A k \in 1 .. n : Texts(t)[k] = t[k].data
  BY <1>1, <1>4, TextsType
<1>6. /\ RemoveAt(t, i + 1) \in Seq(StringObject) /\ Len(RemoveAt(t, i + 1)) = n - 1
      /\ \A k \in 1 .. (n - 1) : RemoveAt(t, i + 1)[k] = IF k < i + 1 THEN t[k] ELSE t[k + 1]
  BY <1>0, <1>1, RemoveAtFacts
<1>7. /\ RemoveAt(Texts(t), i + 1) \in Seq(T) /\ Len(RemoveAt(Texts(t), i + 1)) = n - 1
      /\ \A k \in 1 .. (n - 1) :
           RemoveAt(Texts(t), i + 1)[k] = IF k < i + 1 THEN Texts(t)[k] ELSE Texts(t)[k + 1]
  BY <1>0, <1>5, RemoveAtFacts
<1>8. /\ Texts(RemoveAt(t, i + 1)) \in Seq(T) /\ Len(Texts(RemoveAt(t, i + 1))) = n - 1
      /\ \A k \in 1 .. (n - 1) : Texts(RemoveAt(t, i + 1))[k] = RemoveAt(t, i + 1)[k].data
  BY <1>4, <1>6, TextsType
<1>9. ASSUME NEW k \in 1 .. (n - 1)
      PROVE  Texts(RemoveAt(t, i + 1))[k] = RemoveAt(Texts(t), i + 1)[k]
  <2>1. k \in 1 .. n /\ k + 1 \in 1 .. n
    BY <1>0
  <2>2. QED
    BY <1>5, <1>6, <1>7, <1>8, <2>1
<1>10. Texts(RemoveAt(t, i + 1)) = RemoveAt(Texts(t), i + 1)
  BY <1>7, <1>8, <1>9, SeqEqual
<1>11. Texts(RemoveAt(t, i + 1))
         = RemoveAt([Texts(r) EXCEPT ![i] = Texts(r)[i] \o Texts(r)[i + 1]], i + 1)
  BY <1>2, <1>3, <1>10
<1>12. i \in 1 .. (Len(Texts(r)) - 1)
  BY <1>0, <1>3
<1>13. QED
  BY <1>3, <1>11, <1>12, FlattenJoined DEF t

-------------------------------------------------------------------------------
(* What is left of a text when k of its units are sent.                    *)

Rest(w, k) == SubSeq(w, k + 1, Len(w))

LEMMA RestType ==
  ASSUME NEW w \in Seq(Nat), NEW k \in 0 .. Len(w)
  PROVE  Rest(w, k) \in Seq(Nat) /\ Len(Rest(w, k)) = Len(w) - k
         /\ \A i \in 1 .. (Len(w) - k) : Rest(w, k)[i] = w[k + i]
<1>1. Len(w) \in Nat /\ k \in Int /\ k + 1 \in Int
  OBVIOUS
<1>2. \A i \in (k + 1) .. Len(w) : w[i] \in Nat
  OBVIOUS
<1>3. /\ Rest(w, k) \in Seq(Nat)
      /\ Len(Rest(w, k)) = IF k + 1 <= Len(w) THEN Len(w) - (k + 1) + 1 ELSE 0
      /\ \A i \in 1 .. (Len(w) - (k + 1) + 1) : Rest(w, k)[i] = w[(k + 1) + i - 1]
  BY <1>1, <1>2, SubSeqProperties, SMTT(30) DEF Rest
<1>4. \A i \in 1 .. (Len(w) - k) : i \in 1 .. (Len(w) - (k + 1) + 1) /\ (k + 1) + i - 1 = k + i
  BY <1>1
<1>5. Len(Rest(w, k)) = Len(w) - k
  BY <1>1, <1>3
<1>6. QED
  BY <1>3, <1>4, <1>5

\* More is added behind it.
LEMMA RestGrown ==
  ASSUME NEW w \in Seq(Nat), NEW k \in 0 .. Len(w), NEW d \in Seq(Nat)
  PROVE  Rest(w \o d, k) = Rest(w, k) \o d
<1> DEFINE m == Len(w)
           n == Len(d)
           l == Rest(w \o d, k)
           r == Rest(w, k) \o d
<1>0. m \in Nat /\ n \in Nat /\ k \in Nat /\ k <= m
  OBVIOUS
<1>1. /\ w \o d \in Seq(Nat) /\ Len(w \o d) = m + n
      /\ \A i \in 1 .. m : (w \o d)[i] = w[i]
      /\ \A i \in 1 .. n : (w \o d)[m + i] = d[i]
  BY ConcatFacts
<1>2. /\ Rest(w, k) \in Seq(Nat) /\ Len(Rest(w, k)) = m - k
      /\ \A i \in 1 .. (m - k) : Rest(w, k)[i] = w[k + i]
  BY RestType
<1> HIDE DEF m, n
<1>3. /\ l \in Seq(Nat) /\ Len(l) = (m + n) - k
      /\ \A i \in 1 .. ((m + n) - k) : l[i] = (w \o d)[k + i]
  <2>1. k \in 0 .. Len(w \o d)
    BY <1>0, <1>1
  <2>2. QED
    BY <1>1, <2>1, RestType
<1>4. /\ r \in Seq(Nat) /\ Len(r) = (m - k) + n
      /\ \A i \in 1 .. (m - k) : r[i] = Rest(w, k)[i]
      /\ \A i \in 1 .. n : r[(m - k) + i] = d[i]
  <2>0. Rest(w, k) \in Seq(Nat)
    BY <1>2
  <2>1. /\ Rest(w, k) \o d \in Seq(Nat) /\ Len(Rest(w, k) \o d) = Len(Rest(w, k)) + Len(d)
        /\ \A i \in 1 .. Len(Rest(w, k)) : (Rest(w, k) \o d)[i] = Rest(w, k)[i]
        /\ \A i \in 1 .. Len(d) : (Rest(w, k) \o d)[Len(Rest(w, k)) + i] = d[i]
    BY <2>0, ConcatFacts
  <2>2. Len(Rest(w, k)) = m - k /\ Len(d) = n
    BY <1>2 DEF n
  <2>3. QED
    BY <2>1, <2>2
<1> HIDE DEF l, r
<1>5. ASSUME NEW i \in 1 .. Len(l) PROVE l[i] = r[i]
  <2>0. i \in 1 .. ((m + n) - k)
    BY <1>3
  <2>1. CASE i <= m - k
    <3>1. i \in 1 .. (m - k) /\ k + i \in 1 .. m
      BY <1>0, <2>0, <2>1
    <3>2. QED
      BY <1>1, <1>2, <1>3, <1>4, <2>0, <3>1
  <2>2. CASE ~ (i <= m - k)
    <3>1. /\ i - (m - k) \in 1 .. n /\ m + (i - (m - k)) = k + i /\ (m - k) + (i - (m - k)) = i
      BY <1>0, <2>0, <2>2
    <3>2. l[i] = d[i - (m - k)]
      BY <1>1, <1>3, <2>0, <3>1
    <3>3. r[i] = d[i - (m - k)]
      BY <1>4, <3>1
    <3>4. QED
      BY <3>2, <3>3
  <2>3. QED
    BY <2>1, <2>2
<1>6. Len(l) = Len(r)
  BY <1>0, <1>3, <1>4
<1>7. l = r
  BY <1>3, <1>4, <1>5, <1>6, SeqEqual
<1>8. QED
  BY <1>7 DEF l, r

\* k more units of what is in front are sent.
LEMMA RestWritten ==
  ASSUME NEW d \in Seq(Nat), NEW q \in Seq(Nat), NEW s \in Nat, NEW k \in 1 .. (Len(d) - s)
  PROVE  /\ Rest(d \o q, s) = SubSeq(d, s + 1, s + k) \o Rest(d \o q, s + k)
         /\ SubSeq(d, s + 1, s + k) \in Seq(Nat)
         /\ Rest(d \o q, s + k) \in Seq(Nat)
<1> DEFINE w == d \o q
<1>0. Len(d) \in Nat /\ Len(q) \in Nat /\ k \in Nat
  OBVIOUS
<1>1. w \in Seq(Nat) /\ Len(w) = Len(d) + Len(q)
  BY ConcatProperties
<1>2. SubSeq(w, s + 1, s + k) = SubSeq(d, s + 1, s + k)
  <2>1. s + 1 \in 1 .. Len(d) /\ s + k \in 1 .. Len(d)
    BY <1>0
  <2>2. QED
    BY <2>1, SubSeqOfConcat1
<1> HIDE DEF w
<1>3. SubSeq(w, s + 1, s + k) \o SubSeq(w, (s + k) + 1, Len(w)) = SubSeq(w, s + 1, Len(w))
  <2>1. s + 1 \in 1 .. (Len(w) + 1) /\ s + k \in ((s + 1) - 1) .. Len(w)
        /\ Len(w) \in (s + k) .. Len(w)
    BY <1>0, <1>1
  <2>2. QED
    BY <1>1, <2>1, ConcatAdjacentSubSeq
<1>4. SubSeq(d, s + 1, s + k) \in Seq(Nat)
  BY <1>0
<1>5. s + k \in 0 .. Len(w)
  BY <1>0, <1>1
<1>6. Rest(w, s + k) \in Seq(Nat)
  BY <1>1, <1>5, RestType
<1>7. QED
  BY <1>2, <1>3, <1>4, <1>6 DEF Rest, w

\* All of what was in front is sent.
LEMMA RestBehind ==
  ASSUME NEW d \in Seq(Nat), NEW q \in Seq(Nat)
  PROVE  Rest(d \o q, Len(d)) = Rest(q, 0)
<1> DEFINE w == d \o q
           m == Len(d)
           n == Len(q)
<1>0. m \in Nat /\ n \in Nat /\ m \in 0 .. (m + n) /\ 0 \in 0 .. n /\ (m + n) - m = n
  OBVIOUS
<1>1. w \in Seq(Nat) /\ Len(w) = m + n /\ \A i \in 1 .. n : w[m + i] = q[i]
  BY ConcatFacts
<1> HIDE DEF w, m, n
<1>2. /\ Rest(w, m) \in Seq(Nat) /\ Len(Rest(w, m)) = n
      /\ \A i \in 1 .. n : Rest(w, m)[i] = w[m + i]
  <2>1. m \in 0 .. Len(w) /\ Len(w) - m = n
    BY <1>0, <1>1
  <2>2. QED
    BY <1>1, <2>1, RestType
<1>3. /\ Rest(q, 0) \in Seq(Nat) /\ Len(Rest(q, 0)) = n
      /\ \A i \in 1 .. n : Rest(q, 0)[i] = q[i]
  <2>1. 0 \in 0 .. Len(q) /\ Len(q) - 0 = n /\ \A i \in 1 .. n : 0 + i = i
    BY <1>0 DEF n
  <2>2. QED
    <3>1. /\ Rest(q, 0) \in Seq(Nat) /\ Len(Rest(q, 0)) = Len(q) - 0
          /\ \A i \in 1 .. (Len(q) - 0) : Rest(q, 0)[i] = q[0 + i]
      BY <2>1, RestType
    <3>2. QED
      BY <2>1, <3>1
<1>4. \A i \in 1 .. n : Rest(w, m)[i] = Rest(q, 0)[i]
  BY <1>1, <1>2, <1>3
<1>5. Rest(w, m) = Rest(q, 0)
  BY <1>2, <1>3, <1>4, SeqEqual
<1>6. QED
  BY <1>5 DEF w, m

Numbers(n) == [i \in 1 .. n |-> i]

LEMMA NumbersGrown ==
  ASSUME NEW m \in Nat, NEW n \in Nat
  PROVE  /\ Numbers(m) \o [i \in 1 .. n |-> m + i] = Numbers(m + n)
         /\ Numbers(m) \in Seq(Nat)
<1> DEFINE d == [i \in 1 .. n |-> m + i]
<1>1. d \in Seq(Nat) /\ Len(d) = n /\ \A i \in 1 .. n : d[i] = m + i
  OBVIOUS
<1>2. /\ Numbers(m) \in Seq(Nat) /\ Len(Numbers(m)) = m
      /\ \A i \in 1 .. m : Numbers(m)[i] = i
  BY DEF Numbers
<1>3. /\ Numbers(m + n) \in Seq(Nat) /\ Len(Numbers(m + n)) = m + n
      /\ \A i \in 1 .. (m + n) : Numbers(m + n)[i] = i
  BY DEF Numbers
<1> HIDE DEF d
<1>4. /\ Numbers(m) \o d \in Seq(Nat) /\ Len(Numbers(m) \o d) = m + n
      /\ \A i \in 1 .. m : (Numbers(m) \o d)[i] = Numbers(m)[i]
      /\ \A i \in 1 .. n : (Numbers(m) \o d)[m + i] = d[i]
  <2>0. Numbers(m) \in Seq(Nat) /\ d \in Seq(Nat)
    BY <1>1, <1>2
  <2>1. /\ Numbers(m) \o d \in Seq(Nat) /\ Len(Numbers(m) \o d) = Len(Numbers(m)) + Len(d)
        /\ \A i \in 1 .. Len(Numbers(m)) : (Numbers(m) \o d)[i] = Numbers(m)[i]
        /\ \A i \in 1 .. Len(d) : (Numbers(m) \o d)[Len(Numbers(m)) + i] = d[i]
    BY <2>0, ConcatFacts
  <2>2. QED
    BY <1>1, <1>2, <2>1
<1>5. ASSUME NEW i \in 1 .. (m + n) PROVE (Numbers(m) \o d)[i] = Numbers(m + n)[i]
  <2>1. CASE i <= m
    <3>1. i \in 1 .. m
      BY <2>1
    <3>2. QED
      BY <1>2, <1>3, <1>4, <3>1
  <2>2. CASE i > m
    <3>1. i - m \in 1 .. n /\ m + (i - m) = i
      BY <2>2
    <3>2. QED
      BY <1>1, <1>3, <1>4, <3>1, SMTT(30)
  <2>3. i <= m \/ i > m
    OBVIOUS
  <2>4. QED
    BY <2>1, <2>2, <2>3
<1>6. Numbers(m) \o d = Numbers(m + n)
  BY <1>3, <1>4, <1>5, SeqEqual
<1>7. QED
  BY <1>2, <1>6 DEF d

-------------------------------------------------------------------------------
(* The inductive invariant.  To what the runs check it adds that the write *)
(* handler is registered while it sends, and that the limits hold whenever *)
(* no length is open, not only at the loop: what is sent makes the list    *)
(* smaller and never starts the clock.                                     *)

Queued(b, r) == b \o FlattenSeq(Texts(r))

Streamed == wire \o Rest(Queued(buf, reply), sentlen) = Numbers(made)

Handled ==
  /\ phase # "freed" => (Pending \/ closeAfterReply => writable)
  /\ phase = "send" => writable /\ Open = {}

Accounted == replyBytes = Memory(reply)

Limited ==
  Open = {} /\ replyBytes # 0 /\ ~closeAsap =>
    /\ getClientOutputBufferMemoryUsage < HardLimit
    /\ getClientOutputBufferMemoryUsage >= SoftLimit => softTime # 0

OutputIInv == TypeOK /\ Streamed /\ WriterReady /\ Handled /\ Accounted /\ Limited

LEMMA QueuedType ==
  ASSUME NEW b \in Seq(Nat), NEW r \in Seq(StringObject)
  PROVE  /\ Queued(b, r) \in Seq(Nat)
         /\ Len(Queued(b, r)) = Len(b) + Len(FlattenSeq(Texts(r)))
<1>1. FlattenSeq(Texts(r)) \in Seq(Nat)
  BY TextsType
<1>2. QED
  BY <1>1, ConcatProperties DEF Queued

\* What sentlen points into is in front of all that is queued.
LEMMA SentWithin ==
  ASSUME TypeOK, WriterReady
  PROVE  /\ Queued(buf, reply) \in Seq(Nat)
         /\ sentlen \in 0 .. Len(Queued(buf, reply))
         /\ Rest(Queued(buf, reply), sentlen) \in Seq(Nat)
<1>1. buf \in Seq(Nat) /\ reply \in Seq(StringObject) /\ sentlen \in Nat
  BY DEF TypeOK
<1>2. /\ Queued(buf, reply) \in Seq(Nat)
      /\ Len(Queued(buf, reply)) = Len(buf) + Len(FlattenSeq(Texts(reply)))
      /\ FlattenSeq(Texts(reply)) \in Seq(Nat)
  BY <1>1, QueuedType, TextsType
<1>3. Len(buf) \in Nat /\ Len(FlattenSeq(Texts(reply))) \in Nat
  BY <1>1, <1>2
<1> DEFINE Within == sentlen \in 0 .. Len(Queued(buf, reply))
<1>4. CASE buf # <<>> \/ sentlen = 0
  <2>1. sentlen <= Len(buf)
    BY <1>1, <1>3, <1>4 DEF WriterReady
  <2>2. Within
    BY <1>1, <1>2, <1>3, <2>1
  <2>3. QED
    BY <1>2, <2>2, RestType
<1>5. CASE buf = <<>> /\ sentlen # 0
  <2>1. reply # <<>> /\ sentlen < Len(Head(reply).data)
    BY <1>1, <1>5 DEF WriterReady
  <2>2. FlattenSeq(Texts(reply)) = Head(reply).data \o FlattenSeq(Texts(Tail(reply)))
    BY <1>1, <2>1, TextsTail
  <2>3. Head(reply).data \in Seq(Nat) /\ Tail(reply) \in Seq(StringObject)
    <3>1. Head(reply) \in StringObject /\ Tail(reply) \in Seq(StringObject)
      BY <1>1, <2>1
    <3>2. QED
      BY <3>1 DEF StringObject
  <2>4. FlattenSeq(Texts(Tail(reply))) \in Seq(Nat)
    BY <2>3, TextsType
  <2>5. /\ Len(FlattenSeq(Texts(reply)))
             = Len(Head(reply).data) + Len(FlattenSeq(Texts(Tail(reply))))
        /\ Len(Head(reply).data) \in Nat /\ Len(FlattenSeq(Texts(Tail(reply)))) \in Nat
    BY <2>2, <2>3, <2>4, ConcatProperties
  <2>6. Within
    BY <1>1, <1>2, <1>3, <2>1, <2>5
  <2>7. QED
    BY <1>2, <2>6, RestType
<1>6. QED
  BY <1>4, <1>5

LEMMA UnsentIs ==
  ASSUME TypeOK
  PROVE  Unsent = Rest(Queued(buf, reply), sentlen)
BY DEF Unsent, Rest, Queued, Texts

\* What the runs check follows.
LEMMA OutputImplies ==
  ASSUME OutputIInv
  PROVE  StreamInv /\ LimitInv
<1>1. wire \o Unsent = [i \in 1 .. made |-> i]
  BY UnsentIs DEF OutputIInv, Streamed, Numbers
<1>2. StreamInv
  BY <1>1 DEF OutputIInv, StreamInv
<1>3. replyBytes = FoldLeft(LAMBDA sum, o : sum + getStringObjectSdsUsedMemory(o), 0, reply)
  BY DEF OutputIInv, Accounted, Memory
<1>4. AtLoop /\ replyBytes # 0 /\ ~closeAsap =>
        /\ getClientOutputBufferMemoryUsage < HardLimit
        /\ getClientOutputBufferMemoryUsage >= SoftLimit => softTime # 0
  BY DEF OutputIInv, Limited, AtLoop
<1>5. QED
  BY <1>2, <1>3, <1>4 DEF LimitInv

LEMMA NothingQueued == Queued(<<>>, <<>>) = <<>>
<1>1. <<>> \in Seq(StringObject) /\ <<>> \in Seq(Nat) /\ Len(<<>>) = 0
  OBVIOUS
<1>2. Texts(<<>>) \in Seq(Seq(Nat)) /\ Len(Texts(<<>>)) = 0
  BY <1>1, TextsType
<1>3. Texts(<<>>) = <<>>
  BY <1>2
<1>4. FlattenSeq(Texts(<<>>)) = <<>>
  BY <1>2, <1>3 DEF FlattenSeq
<1>5. QED
  BY <1>1, <1>4, ConcatEmptySeq DEF Queued

LEMMA NothingSent == <<>> \o Rest(<<>>, 0) = Numbers(0)
<1>1. <<>> \in Seq(Nat) /\ Len(<<>>) = 0
  OBVIOUS
<1>2. SubSeq(<<>>, 0 + 1, 0) = <<>>
  BY SubSeqEmpty
<1>3. Rest(<<>>, 0) = <<>>
  BY <1>1, <1>2 DEF Rest
<1>4. Numbers(0) \in Seq(Nat) /\ Len(Numbers(0)) = 0
  BY DEF Numbers
<1>5. Numbers(0) = <<>>
  BY <1>4
<1>6. QED
  BY <1>1, <1>3, <1>5, ConcatEmptySeq

LEMMA OutputInit == Init => OutputIInv
<1> SUFFICES ASSUME Init PROVE OutputIInv
  OBVIOUS
<1>1. TypeOK
  <2>1. 0 \in 0 .. 1 /\ 0 \in 0 .. (MaxPerEvent + 1) /\ Len(<<>>) <= Chunk /\ 1 \in Nat \ {0}
    BY OutputAssumption
  <2>2. <<>> \in Seq(Nat) /\ <<>> \in Seq(StringObject)
    OBVIOUS
  <2>3. QED
    BY <2>1, <2>2 DEF Init, TypeOK
<1>2. Streamed
  BY NothingQueued, NothingSent DEF Init, Streamed
<1>3. WriterReady /\ Handled
  BY DEF Init, WriterReady, Handled, Pending, Open
<1>4. Accounted /\ Limited
  BY MemoryNothing DEF Init, Accounted, Limited
<1>5. QED
  BY <1>1, <1>2, <1>3, <1>4 DEF OutputIInv

\* What a step that frees the client leaves.
LEMMA FreedKeeps ==
  ASSUME OutputIInv, Freed
  PROVE  OutputIInv'
<1>1. now \in Nat \ {0} /\ now' = now
  BY DEF OutputIInv, TypeOK, Freed
<1>2. TypeOK'
  <2>1. 0 \in 0 .. now /\ 0 \in 0 .. (MaxPerEvent + 1) /\ Len(<<>>) <= Chunk
    BY <1>1, OutputAssumption
  <2>2. <<>> \in Seq(Nat) /\ <<>> \in Seq(StringObject)
    OBVIOUS
  <2>3. QED
    BY <1>1, <2>1, <2>2 DEF Freed, TypeOK
<1>3. Streamed'
  BY NothingQueued, NothingSent DEF Freed, Streamed
<1>4. WriterReady' /\ Handled'
  BY DEF Freed, WriterReady, Handled, Pending, Open
<1>5. Accounted' /\ Limited'
  BY MemoryNothing DEF Freed, Accounted, Limited
<1>6. QED
  BY <1>2, <1>3, <1>4, <1>5 DEF OutputIInv

-------------------------------------------------------------------------------
(* The limits.                                                             *)

LEMMA UsageShrinks ==
  ASSUME NEW b \in Nat, NEW c \in Nat, c <= b, NEW m \in Nat, NEW n \in Nat, n <= m
  PROVE  /\ b + ListItem * m \in Nat /\ c + ListItem * n \in Nat
         /\ c + ListItem * n <= b + ListItem * m
<1>1. ListItem \in Nat
  BY OutputAssumption
<1>2. ListItem * m \in Nat /\ ListItem * n \in Nat /\ ListItem * (m - n) \in Nat
  BY <1>1
<1>3. ListItem * m = ListItem * n + ListItem * (m - n)
  BY <1>1
<1>4. QED
  BY <1>2, <1>3

(* asyncCloseClientOnOutputBufferLimitReached after the list has grown.     *)
LEMMA LimitsApplied ==
  ASSUME OutputIInv, asyncCloseClientOnOutputBufferLimitReached,
         now' = now, reply' \in Seq(StringObject), replyBytes' = Memory(reply')
  PROVE  /\ replyBytes' \in Nat
         /\ closeAsap' \in BOOLEAN
         /\ softTime' \in 0 .. now
         /\ Limited'
<1>1. replyBytes' \in Nat
  BY MemorySums
<1>2. closeAsap \in BOOLEAN /\ softTime \in 0 .. now /\ now \in Nat \ {0}
  BY DEF OutputIInv, TypeOK
<1>3. Len(reply') \in Nat
  OBVIOUS
<1>4. replyBytes' + ListItem * Len(reply') \in Nat
  BY <1>1, <1>3, UsageShrinks
<1>5. HardLimit \in Nat /\ SoftLimit \in Nat
  BY OutputAssumption
<1> DEFINE usage == replyBytes' + ListItem * Len(reply')
           soft == usage >= SoftLimit
           tooLong == soft /\ softTime # 0 /\ now - softTime > SoftSeconds
<1>6. usage = getClientOutputBufferMemoryUsage'
  BY DEF getClientOutputBufferMemoryUsage
<1>7. IF replyBytes' = 0 \/ closeAsap
      THEN UNCHANGED <<closeAsap, softTime>>
      ELSE /\ closeAsap' = (usage >= HardLimit \/ tooLong)
           /\ softTime' = IF ~soft THEN 0 ELSE IF softTime = 0 THEN now ELSE softTime
  BY <1>6 DEF asyncCloseClientOnOutputBufferLimitReached
<1>8. usage \in Nat
  BY <1>4
<1> HIDE DEF usage
<1>9. closeAsap' \in BOOLEAN
  BY <1>2, <1>7
<1>10. softTime' \in 0 .. now
  <2>1. 0 \in 0 .. now /\ now \in 0 .. now
    BY <1>2
  <2>2. QED
    BY <1>2, <1>7, <2>1
<1>11. Limited'
  <2>1. SUFFICES ASSUME replyBytes' # 0, ~closeAsap'
                 PROVE  usage < HardLimit /\ (usage >= SoftLimit => softTime' # 0)
    BY <1>6 DEF Limited
  <2>2. CASE closeAsap
    BY <1>7, <2>1, <2>2
  <2>3. CASE ~closeAsap
    <3>1. closeAsap' = (usage >= HardLimit \/ tooLong)
          /\ softTime' = IF ~soft THEN 0 ELSE IF softTime = 0 THEN now ELSE softTime
      BY <1>7, <2>1, <2>3
    <3>2. ~ (usage >= HardLimit)
      BY <2>1, <3>1
    <3>3. usage < HardLimit
      BY <1>5, <1>8, <3>2
    <3>4. usage >= SoftLimit => softTime' # 0
      BY <1>2, <3>1
    <3>5. QED
      BY <3>3, <3>4
  <2>4. QED
    BY <2>2, <2>3
<1>12. QED
  BY <1>1, <1>9, <1>10, <1>11

(* A list that became smaller needs no call of it.                         *)
LEMMA LimitsKept ==
  ASSUME OutputIInv, Open = {}, closeAsap' = closeAsap, softTime' = softTime,
         replyBytes' \in Nat, replyBytes' <= replyBytes,
         Len(reply') \in Nat, Len(reply') <= Len(reply)
  PROVE  Limited'
<1>1. replyBytes \in Nat /\ Len(reply) \in Nat
  BY DEF OutputIInv, TypeOK
<1>2. /\ getClientOutputBufferMemoryUsage \in Nat
      /\ getClientOutputBufferMemoryUsage' \in Nat
      /\ getClientOutputBufferMemoryUsage' <= getClientOutputBufferMemoryUsage
  BY <1>1, UsageShrinks DEF getClientOutputBufferMemoryUsage
<1>3. HardLimit \in Nat /\ SoftLimit \in Nat
  BY OutputAssumption
<1>4. SUFFICES ASSUME replyBytes' # 0, ~closeAsap'
               PROVE  /\ getClientOutputBufferMemoryUsage' < HardLimit
                      /\ getClientOutputBufferMemoryUsage' >= SoftLimit => softTime' # 0
  BY DEF Limited
<1>5. replyBytes # 0 /\ ~closeAsap
  BY <1>1, <1>4
<1>6. /\ getClientOutputBufferMemoryUsage < HardLimit
      /\ getClientOutputBufferMemoryUsage >= SoftLimit => softTime # 0
  BY <1>5 DEF OutputIInv, Limited
<1>7. QED
  BY <1>2, <1>3, <1>6

-------------------------------------------------------------------------------
(* Adding replies.                                                         *)

\* The stream when d is queued behind all else.
LEMMA StreamGrown ==
  ASSUME OutputIInv, NEW n \in Nat, made' = made + n, wire' = wire, sentlen' = sentlen,
         Queued(buf', reply') = Queued(buf, reply) \o NewUnits(n)
  PROVE  Streamed'
<1> DEFINE w == Queued(buf, reply)
           d == NewUnits(n)
<1>1. made \in Nat /\ wire \in Seq(Nat)
  BY DEF OutputIInv, TypeOK
<1>2. w \in Seq(Nat) /\ sentlen \in 0 .. Len(w) /\ Rest(w, sentlen) \in Seq(Nat)
  BY SentWithin DEF OutputIInv
<1>3. d \in Seq(Nat) /\ d = [i \in 1 .. n |-> made + i]
  BY <1>1, NewUnitsType DEF NewUnits
<1>4. wire \o Rest(w, sentlen) = Numbers(made)
  BY DEF OutputIInv, Streamed
<1> HIDE DEF w, d
<1>5. Rest(w \o d, sentlen) = Rest(w, sentlen) \o d
  BY <1>2, <1>3, RestGrown
<1>6. wire \o (Rest(w, sentlen) \o d) = (wire \o Rest(w, sentlen)) \o d
  <2>1. Associative(Seq(Nat))
    BY ConcatAssoc
  <2>2. QED
    BY <1>1, <1>2, <1>3, <2>1, Zenon DEF Associative
<1>7. Numbers(made) \o d = Numbers(made + n)
  BY <1>1, <1>3, NumbersGrown
<1>8. wire \o Rest(w \o d, sentlen) = Numbers(made + n)
  BY <1>4, <1>5, <1>6, <1>7
<1>9. Queued(buf', reply') = w \o d
  BY DEF w, d
<1>10. QED
  BY <1>8, <1>9 DEF Streamed

\* A string goes to the list.
LEMMA ListGrown ==
  ASSUME OutputIInv, NEW n \in Nat, NEW o \in StringObject, o.data = NewUnits(n), AddToList(o)
  PROVE  /\ reply' \in Seq(StringObject) /\ reply' # <<>>
         /\ FlattenSeq(Texts(reply')) = FlattenSeq(Texts(reply)) \o NewUnits(n)
         /\ replyBytes' = Memory(reply')
         /\ reply # <<>> => /\ Len(Head(reply).data) <= Len(Head(reply').data)
<1>1. /\ reply \in Seq(StringObject) /\ made \in Nat /\ Len(reply) \in Nat
      /\ replyBytes = Memory(reply) /\ replyBytes \in Nat
  BY DEF OutputIInv, TypeOK, Accounted
<1>2. o.data \in Seq(Nat) /\ Len(o.data) \in Nat
  BY <1>1, NewUnitsType
<1>3. CASE reply # <<>> /\ Appendable(Last(reply), o.data)
  <2> DEFINE tail == Last(reply)
             longer == Catenated(dupLastObjectIfNeeded(tail), o.data)
             m == Len(reply)
  <2>1. /\ reply' = [reply EXCEPT ![m] = longer]
        /\ replyBytes' = replyBytes - getStringObjectSdsUsedMemory(tail)
                                    + getStringObjectSdsUsedMemory(longer)
    BY <1>3 DEF AddToList
  <2>2. m \in 1 .. m /\ tail = reply[m] /\ tail \in StringObject /\ m \in Nat /\ Head(reply) = reply[1]
    BY <1>1, <1>3 DEF Last
  <2>3. longer \in StringObject /\ longer.data = tail.data \o o.data
    <3>1. dupLastObjectIfNeeded(tail) \in StringObject /\ dupLastObjectIfNeeded(tail).data = tail.data
      BY <2>2, DupType
    <3>2. QED
      BY <1>2, <3>1, CatenatedType
  <2> HIDE DEF longer, tail
  <2>4. /\ reply' \in Seq(StringObject) /\ Len(reply') = m
        /\ \A k \in 1 .. m : reply'[k] = IF k = m THEN longer ELSE reply[k]
    BY <1>1, <2>1, <2>2, <2>3, ExceptSeq
  <2>5. FlattenSeq(Texts(reply')) = FlattenSeq(Texts(reply)) \o o.data
    BY <1>1, <1>2, <1>3, <2>1, <2>3, TextsGrown DEF tail
  <2>6. Memory(reply') = Memory(reply) - getStringObjectSdsUsedMemory(reply[m])
                                       + getStringObjectSdsUsedMemory(longer)
    BY <1>1, <2>1, <2>2, <2>3, MemoryExcept
  <2>7. Len(Head(reply).data) <= Len(Head(reply').data)
    <3>1. reply' # <<>> /\ Head(reply') = reply'[1]
      BY <2>2, <2>4
    <3>2. tail.data \in Seq(Nat) /\ Head(reply).data \in Seq(Nat)
      <4>1. Head(reply) \in StringObject
        BY <1>1, <1>3
      <4>2. QED
        BY <2>2, <4>1 DEF StringObject
    <3>3. Len(longer.data) = Len(tail.data) + Len(o.data) /\ Len(tail.data) \in Nat
          /\ Len(Head(reply).data) \in Nat
      BY <1>2, <2>3, <3>2, ConcatProperties
    <3>4. CASE m = 1
      BY <1>2, <2>2, <2>4, <3>1, <3>3, <3>4
    <3>5. CASE m # 1
      <4>1. reply'[1] = reply[1]
        BY <2>2, <2>4, <3>5
      <4>2. QED
        BY <2>2, <3>1, <3>3, <4>1
    <3>6. QED
      BY <3>4, <3>5
  <2>8. reply' # <<>>
    BY <2>2, <2>4
  <2>9. QED
    BY <1>1, <2>1, <2>2, <2>4, <2>5, <2>6, <2>7, <2>8
<1>4. CASE ~ (reply # <<>> /\ Appendable(Last(reply), o.data))
  <2>1. reply' = Append(reply, o) /\ replyBytes' = replyBytes + getStringObjectSdsUsedMemory(o)
    BY <1>4 DEF AddToList
  <2>2. reply' \in Seq(StringObject) /\ reply' # <<>>
    BY <1>1, <2>1, AppendProperties
  <2>3. FlattenSeq(Texts(reply')) = FlattenSeq(Texts(reply)) \o o.data
    BY <1>1, <2>1, TextsAppend
  <2>4. Memory(reply') = Memory(reply) + getStringObjectSdsUsedMemory(o)
    BY <1>1, <2>1, MemoryAppend
  <2>5. reply # <<>> => Head(reply') = Head(reply)
    BY <1>1, <2>1, AppendHead
  <2>6. reply # <<>> => Len(Head(reply).data) \in Nat
    <3>1. ASSUME reply # <<>> PROVE Head(reply).data \in Seq(Nat)
      <4>1. Head(reply) \in StringObject
        BY <1>1, <3>1
      <4>2. QED
        BY <4>1 DEF StringObject
    <3>2. QED
      BY <3>1
  <2>7. QED
    BY <1>1, <2>1, <2>2, <2>3, <2>4, <2>5, <2>6
<1>5. QED
  BY <1>3, <1>4

(* addReply: into the buffer, onto the last text of the list, or a text of *)
(* its own; and nothing for a client that is to be closed.                 *)
LEMMA AddKeeps ==
  ASSUME OutputIInv, NEW n \in Nat, NEW o \in StringObject, o.data = NewUnits(n), Add(o),
         closeAfterReply' \in BOOLEAN
  PROVE  OutputIInv'
<1>1. /\ phase = "loop" /\ phase' = "loop" /\ writable' = (writable \/ ~Pending)
      /\ sentlen' = sentlen /\ now' = now /\ total' = total /\ wire' = wire
  BY DEF Add, prepareClientToWrite
<1>2. TypeOK /\ WriterReady /\ Handled /\ Accounted /\ Limited /\ Streamed
  BY DEF OutputIInv
<1>3. writable' = TRUE
  BY <1>1, <1>2 DEF Handled, TypeOK
<1>4. Handled'
  BY <1>1, <1>3 DEF Handled
<1>5. made \in Nat /\ NewUnits(n) \in Seq(Nat) /\ Len(NewUnits(n)) = n /\ Len(o.data) = n
  BY <1>2, NewUnitsType DEF TypeOK
<1>6. CASE closeAfterReply
  <2>1. UNCHANGED <<buf, reply, replyBytes, closeAsap, softTime, made>>
    BY <1>6 DEF Add
  <2>2. TypeOK'
    BY <1>1, <1>2, <1>3, <2>1 DEF TypeOK
  <2>3. Streamed'
    BY <1>1, <1>2, <2>1 DEF Streamed
  <2>4. WriterReady'
    BY <1>1, <1>2, <1>3, <2>1 DEF WriterReady
  <2>5. Accounted' /\ Limited'
    BY <1>1, <1>2, <2>1 DEF Accounted, Limited, Open, getClientOutputBufferMemoryUsage
  <2>6. QED
    BY <1>4, <2>2, <2>3, <2>4, <2>5 DEF OutputIInv
<1>7. CASE ~closeAfterReply /\ FitsBuffer(o.data)
  <2>1. /\ made' = made + n /\ buf' = buf \o NewUnits(n) /\ reply = <<>>
        /\ n <= Chunk - Len(buf)
        /\ UNCHANGED <<reply, replyBytes, closeAsap, softTime>>
    BY <1>5, <1>7 DEF Add, FitsBuffer
  <2>2. /\ buf' \in Seq(Nat) /\ Len(buf') = Len(buf) + n /\ Len(buf) \in Nat /\ made' \in Nat
        /\ buf \in Seq(Nat) /\ sentlen \in Nat
    <3>1. buf \in Seq(Nat) /\ sentlen \in Nat /\ Len(buf) \in Nat
      BY <1>2 DEF TypeOK
    <3>2. buf \o NewUnits(n) \in Seq(Nat) /\ Len(buf \o NewUnits(n)) = Len(buf) + n
      BY <1>5, <3>1, ConcatProperties
    <3>3. made + n \in Nat
      BY <1>5
    <3>4. QED
      BY <2>1, <3>1, <3>2, <3>3
  <2>3. Len(buf') <= Chunk
    BY <1>5, <2>1, <2>2, OutputAssumption
  <2>4. TypeOK'
    BY <1>1, <1>2, <1>3, <2>1, <2>2, <2>3 DEF TypeOK
  <2>5. Queued(buf', reply') = Queued(buf, reply) \o NewUnits(n)
    <3>1. <<>> \in Seq(StringObject)
      OBVIOUS
    <3>2. FlattenSeq(Texts(<<>>)) = <<>>
      <4>1. Texts(<<>>) \in Seq(Seq(Nat)) /\ Len(Texts(<<>>)) = 0
        BY <3>1, TextsType
      <4>2. Texts(<<>>) = <<>>
        BY <4>1
      <4>3. QED
        BY <4>2 DEF FlattenSeq
    <3>3. Queued(buf', reply') = buf' /\ Queued(buf, reply) = buf
      BY <2>1, <2>2, <3>2, ConcatEmptySeq DEF Queued
    <3>4. QED
      BY <2>1, <3>3
  <2>6. Streamed'
    BY <1>1, <1>5, <2>1, <2>5, StreamGrown
  <2>7. WriterReady'
    <3>1. sentlen <= Len(buf) /\ (buf = <<>> => sentlen = 0)
      BY <1>2, <2>1, <2>2 DEF WriterReady
    <3>2. buf' # <<>> => sentlen < Len(buf')
      <4>1. ASSUME buf' # <<>> PROVE Len(buf') # 0
        BY <2>2, <4>1
      <4>2. buf # <<>> => sentlen < Len(buf)
        BY <1>2 DEF WriterReady
      <4>3. QED
        BY <1>5, <2>2, <3>1, <4>1, <4>2
    <3>3. buf' = <<>> => sentlen = 0
      <4>1. ASSUME buf' = <<>> PROVE Len(buf) = 0
        BY <1>5, <2>2, <4>1
      <4>2. QED
        BY <2>2, <3>1, <4>1
    <3>4. QED
      BY <1>1, <1>3, <2>2, <3>2, <3>3 DEF WriterReady
  <2>8. Accounted' /\ Limited'
    BY <1>1, <1>2, <2>1 DEF Accounted, Limited, Open, getClientOutputBufferMemoryUsage
  <2>9. QED
    BY <1>4, <2>4, <2>6, <2>7, <2>8 DEF OutputIInv
<1>8. CASE ~closeAfterReply /\ ~FitsBuffer(o.data)
  <2>1. made' = made + n /\ AddToList(o) /\ buf' = buf
    BY <1>5, <1>8 DEF Add
  <2>2. /\ reply' \in Seq(StringObject) /\ reply' # <<>>
        /\ FlattenSeq(Texts(reply')) = FlattenSeq(Texts(reply)) \o NewUnits(n)
        /\ replyBytes' = Memory(reply')
        /\ reply # <<>> => Len(Head(reply).data) <= Len(Head(reply').data)
    BY <2>1, ListGrown
  <2>3. asyncCloseClientOnOutputBufferLimitReached
    BY <2>1 DEF AddToList
  <2>4. replyBytes' \in Nat /\ closeAsap' \in BOOLEAN /\ softTime' \in 0 .. now /\ Limited'
    BY <1>1, <2>2, <2>3, LimitsApplied
  <2>5. buf \in Seq(Nat) /\ reply \in Seq(StringObject) /\ sentlen \in Nat /\ made' \in Nat
    BY <1>2, <1>5, <2>1 DEF TypeOK
  <2>6. TypeOK'
    BY <1>1, <1>2, <1>3, <2>1, <2>2, <2>4, <2>5 DEF TypeOK
  <2>7. Queued(buf', reply') = Queued(buf, reply) \o NewUnits(n)
    <3>1. FlattenSeq(Texts(reply)) \in Seq(Nat)
      BY <2>5, TextsType
    <3>2. Associative(Seq(Nat))
      BY ConcatAssoc
    <3>3. (buf \o FlattenSeq(Texts(reply))) \o NewUnits(n)
            = buf \o (FlattenSeq(Texts(reply)) \o NewUnits(n))
      BY <1>5, <2>5, <3>1, <3>2, Zenon DEF Associative
    <3>4. QED
      BY <2>1, <2>2, <3>3 DEF Queued
  <2>8. Streamed'
    BY <1>1, <1>5, <2>1, <2>7, StreamGrown
  <2>9. WriterReady'
    <3>1. buf' # <<>> => sentlen' < Len(buf')
      BY <1>1, <1>2, <2>1 DEF WriterReady
    <3>2. ASSUME buf' = <<>>, sentlen' > 0 PROVE sentlen' < Len(Head(reply').data)
      <4>1. reply # <<>> /\ sentlen < Len(Head(reply).data)
        BY <1>1, <1>2, <2>1, <3>2 DEF WriterReady
      <4>2. Len(Head(reply).data) \in Nat /\ Len(Head(reply').data) \in Nat
        <5>1. Head(reply) \in StringObject /\ Head(reply') \in StringObject
          BY <2>2, <2>5, <4>1
        <5>2. QED
          BY <5>1 DEF StringObject
      <4>3. QED
        BY <1>1, <2>2, <2>5, <4>1, <4>2
    <3>3. QED
      BY <1>1, <1>3, <2>2, <3>1, <3>2 DEF WriterReady
  <2>10. Accounted'
    BY <2>2 DEF Accounted
  <2>11. QED
    BY <1>4, <2>4, <2>6, <2>8, <2>9, <2>10 DEF OutputIInv
<1>9. QED
  BY <1>6, <1>7, <1>8

LEMMA AddRepliesKeeps ==
  ASSUME OutputIInv,
         \/ \E n \in Sizes, spare \in Spares : addReply(n, spare) \/ addReplySds(n, spare)
         \/ \E n \in Sizes : addReplyString(n) \/ ReplyAndClose(n)
  PROVE  OutputIInv'
<1>1. made \in Nat /\ closeAfterReply \in BOOLEAN
  BY DEF OutputIInv, TypeOK
<1>2. Sizes \subseteq Nat /\ Spares \subseteq Nat
  BY OutputAssumption
<1>3. CASE \E n \in Sizes, spare \in Spares : addReply(n, spare) \/ addReplySds(n, spare)
  <2>1. PICK n \in Nat, spare \in Nat : addReply(n, spare) \/ addReplySds(n, spare)
    BY <1>2, <1>3
  <2>2. NewUnits(n) \in Seq(Nat)
    BY <1>1, NewUnitsType
  <2>3. /\ SharedObject(NewUnits(n), spare) \in StringObject
        /\ SharedObject(NewUnits(n), spare).data = NewUnits(n)
        /\ RawObject(NewUnits(n), spare) \in StringObject
        /\ RawObject(NewUnits(n), spare).data = NewUnits(n)
    BY <2>2, ObjectTypes
  <2>4. CASE addReply(n, spare)
    BY <1>1, <2>3, <2>4, AddKeeps DEF addReply
  <2>5. CASE addReplySds(n, spare)
    BY <1>1, <2>3, <2>5, AddKeeps DEF addReplySds
  <2>6. QED
    BY <2>1, <2>4, <2>5
<1>4. CASE \E n \in Sizes : addReplyString(n) \/ ReplyAndClose(n)
  <2>1. PICK n \in Nat : addReplyString(n) \/ ReplyAndClose(n)
    BY <1>2, <1>4
  <2>2. NewUnits(n) \in Seq(Nat) /\ 0 \in Nat
    BY <1>1, NewUnitsType
  <2>3. /\ createStringObject(NewUnits(n)) \in StringObject
        /\ createStringObject(NewUnits(n)).data = NewUnits(n)
    BY <2>2, ObjectTypes
  <2>4. Add(createStringObject(NewUnits(n))) /\ closeAfterReply' \in BOOLEAN
    BY <1>1, <2>1 DEF addReplyString, ReplyAndClose
  <2>5. QED
    BY <2>3, <2>4, AddKeeps
<1>5. QED
  BY <1>3, <1>4

LEMMA DeferredKeeps ==
  ASSUME OutputIInv, addDeferredMultiBulkLength
  PROVE  OutputIInv'
<1> DEFINE o == OpenLength(made + 1)
<1>1. TypeOK /\ WriterReady /\ Handled /\ Accounted /\ Streamed
  BY DEF OutputIInv
<1>2. /\ phase = "loop" /\ reply' = Append(reply, o) /\ made' = made + 1
      /\ writable' = (writable \/ ~Pending)
      /\ UNCHANGED <<phase, buf, replyBytes, sentlen, closeAfterReply, closeAsap, softTime, now,
                     total, wire>>
  BY DEF addDeferredMultiBulkLength, prepareClientToWrite, flags
<1>3. writable' = TRUE
  BY <1>1, <1>2 DEF Handled, TypeOK
<1>4. /\ made \in Nat /\ made + 1 \in Nat /\ reply \in Seq(StringObject) /\ buf \in Seq(Nat)
      /\ sentlen \in Nat /\ replyBytes \in Nat
  BY <1>1 DEF TypeOK
<1>5. /\ o \in StringObject /\ o.data = <<made + 1>> /\ o.open
      /\ getStringObjectSdsUsedMemory(o) = 0
  BY <1>4, OpenLengthType
<1> HIDE DEF o
<1>6. /\ reply' \in Seq(StringObject) /\ reply' # <<>> /\ Len(reply') = Len(reply) + 1
      /\ reply'[Len(reply) + 1] = o
  BY <1>2, <1>4, <1>5, AppendProperties
<1>7. TypeOK'
  BY <1>1, <1>2, <1>3, <1>4, <1>6 DEF TypeOK
<1>8. NewUnits(1) = <<made + 1>> /\ NewUnits(1) \in Seq(Nat)
  <2>1. NewUnits(1) \in Seq(Nat) /\ Len(NewUnits(1)) = 1
    BY <1>4, NewUnitsType
  <2>2. NewUnits(1)[1] = made + 1
    BY DEF NewUnits
  <2>3. QED
    BY <2>1, <2>2
<1>9. Queued(buf', reply') = Queued(buf, reply) \o NewUnits(1)
  <2>1. FlattenSeq(Texts(reply)) \in Seq(Nat)
    BY <1>4, TextsType
  <2>2. FlattenSeq(Texts(reply')) = FlattenSeq(Texts(reply)) \o NewUnits(1)
    BY <1>2, <1>4, <1>5, <1>8, TextsAppend
  <2>3. Associative(Seq(Nat))
    BY ConcatAssoc
  <2>4. (buf \o FlattenSeq(Texts(reply))) \o NewUnits(1)
          = buf \o (FlattenSeq(Texts(reply)) \o NewUnits(1))
    BY <1>4, <1>8, <2>1, <2>3, Zenon DEF Associative
  <2>5. QED
    BY <1>2, <2>2, <2>4 DEF Queued
<1>10. Streamed'
  BY <1>2, <1>9, StreamGrown
<1>11. WriterReady'
  <2>1. reply # <<>> => Head(reply') = Head(reply)
    BY <1>2, <1>4, <1>5, AppendHead
  <2>2. QED
    BY <1>1, <1>2, <1>3, <1>6, <2>1 DEF WriterReady
<1>12. Handled'
  BY <1>2, <1>3 DEF Handled
<1>13. Accounted'
  <2>1. Memory(reply') = Memory(reply) + 0
    BY <1>2, <1>4, <1>5, MemoryAppend
  <2>2. QED
    BY <1>1, <1>2, <1>4, <2>1 DEF Accounted
<1>14. Limited'
  <2>1. Len(reply) + 1 \in DOMAIN reply'
    BY <1>4, <1>6
  <2>2. Open' # {}
    BY <1>5, <1>6, <2>1 DEF Open
  <2>3. QED
    BY <2>2 DEF Limited
<1>15. QED
  BY <1>7, <1>10, <1>11, <1>12, <1>13, <1>14 DEF OutputIInv

(* setDeferredMultiBulkLength writes the length and joins the next text.   *)
LEMMA ListFilled ==
  ASSUME OutputIInv, NEW i, setDeferredMultiBulkLength(i)
  PROVE  /\ reply' \in Seq(StringObject) /\ reply' # <<>> /\ reply # <<>>
         /\ FlattenSeq(Texts(reply')) = FlattenSeq(Texts(reply))
         /\ replyBytes' = Memory(reply')
         /\ Len(Head(reply).data) <= Len(Head(reply').data)
<1> DEFINE m == Len(reply)
           raw == RawObject(<<>>, 0)
           len == Catenated(raw, reply[i].data)
           next == reply[i + 1]
           joined == Catenated(len, next.data)
<1>1. /\ reply \in Seq(StringObject) /\ m \in Nat
      /\ replyBytes = Memory(reply) /\ replyBytes \in Nat
  BY DEF OutputIInv, TypeOK, Accounted
<1>2. i \in 1 .. m /\ reply[i].open /\ reply[i] \in StringObject /\ i \in Nat
  BY <1>1 DEF setDeferredMultiBulkLength, Open
<1>3. reply[i].data \in Seq(Nat) /\ getStringObjectSdsUsedMemory(reply[i]) = 0
  BY <1>2 DEF StringObject, getStringObjectSdsUsedMemory
<1>4. raw \in StringObject /\ raw.data = <<>>
  <2>1. <<>> \in Seq(Nat)
    OBVIOUS
  <2>2. QED
    BY <2>1, ObjectTypes
<1>5. len \in StringObject /\ len.data = reply[i].data
  <2>1. len \in StringObject /\ len.data = raw.data \o reply[i].data
    BY <1>3, <1>4, CatenatedType
  <2>2. <<>> \o reply[i].data = reply[i].data
    BY <1>3, ConcatEmptySeq
  <2>3. QED
    BY <1>4, <2>1, <2>2
<1>6. reply # <<>> /\ Head(reply) = reply[1] /\ reply[1] \in StringObject /\ 1 \in 1 .. m
  BY <1>1, <1>2
<1>7. Head(reply).data \in Seq(Nat) /\ Len(Head(reply).data) \in Nat
  BY <1>6 DEF StringObject
<1>8. CASE i < m /\ ~next.open
  <2>0. next \in StringObject /\ next.data \in Seq(Nat) /\ i \in 1 .. (m - 1) /\ i + 1 \in 1 .. m
    <3>1. i \in 1 .. (m - 1) /\ i + 1 \in 1 .. m
      BY <1>1, <1>2, <1>8
    <3>2. next \in StringObject
      BY <1>1, <3>1
    <3>3. QED
      BY <3>1, <3>2 DEF StringObject
  <2>1. joined \in StringObject /\ joined.data = reply[i].data \o next.data
    BY <1>5, <2>0, CatenatedType
  <2> DEFINE r == [reply EXCEPT ![i] = joined]
  <2>2. /\ reply' = RemoveAt(r, i + 1)
        /\ replyBytes' = replyBytes - getStringObjectSdsUsedMemory(next)
                                    + getStringObjectSdsUsedMemory(joined)
    BY <1>8 DEF setDeferredMultiBulkLength
  <2> HIDE DEF joined, len, raw
  <2>3. /\ r \in Seq(StringObject) /\ Len(r) = m
        /\ \A k \in 1 .. m : r[k] = IF k = i THEN joined ELSE reply[k]
    BY <1>1, <1>2, <2>1, ExceptSeq
  <2>4. Memory(r) = Memory(reply) - getStringObjectSdsUsedMemory(reply[i])
                                  + getStringObjectSdsUsedMemory(joined)
    BY <1>1, <1>2, <2>1, MemoryExcept
  <2>5. FlattenSeq(Texts(RemoveAt(r, i + 1))) = FlattenSeq(Texts(reply))
    BY <1>1, <2>0, <2>1, TextsJoined
  <2> HIDE DEF r, m
  <2>6. /\ reply' \in Seq(StringObject) /\ Len(reply') = m - 1
        /\ \A k \in 1 .. (m - 1) : reply'[k] = IF k < i + 1 THEN r[k] ELSE r[k + 1]
    BY <2>0, <2>2, <2>3, RemoveAtFacts
  <2>7. Memory(reply') = Memory(r) - getStringObjectSdsUsedMemory(r[i + 1])
    BY <2>0, <2>2, <2>3, MemoryRemove
  <2>8. r[i + 1] = next
    BY <1>2, <2>0, <2>3
  <2>9. /\ getStringObjectSdsUsedMemory(next) \in Nat
        /\ getStringObjectSdsUsedMemory(joined) \in Nat
    BY <2>0, <2>1, UsedMemoryNat
  <2>10. replyBytes' = Memory(reply')
    BY <1>1, <1>3, <2>2, <2>4, <2>7, <2>8, <2>9
  <2>11. reply' # <<>> /\ Head(reply') = reply'[1] /\ reply'[1] = r[1]
    <3>1. 1 \in 1 .. (m - 1) /\ 1 < i + 1
      BY <1>1, <1>2, <2>0
    <3>2. QED
      BY <2>6, <3>1
  <2>12. Len(Head(reply).data) <= Len(Head(reply').data)
    <3>1. CASE i = 1
      <4>1. Head(reply') = joined /\ Head(reply) = reply[i]
        BY <1>6, <2>3, <2>11, <3>1
      <4>2. Len(joined.data) = Len(reply[i].data) + Len(next.data)
        BY <1>3, <2>0, <2>1, ConcatProperties
      <4>3. Len(reply[i].data) \in Nat /\ Len(next.data) \in Nat
        BY <1>3, <2>0
      <4> HIDE DEF next
      <4>4. Len(reply[i].data) <= Len(joined.data)
        <5>1. \A a \in Nat, b \in Nat : a <= a + b
          OBVIOUS
        <5>2. QED
          BY <4>2, <4>3, <5>1, Zenon
      <4>5. Head(reply).data = reply[i].data /\ Head(reply').data = joined.data
        BY <4>1
      <4>6. QED
        BY <4>4, <4>5
    <3>2. CASE i # 1
      <4>1. Head(reply') = Head(reply)
        BY <1>6, <2>3, <2>11, <3>2
      <4>2. QED
        BY <1>7, <4>1
    <3>3. QED
      BY <3>1, <3>2
  <2>13. QED
    BY <1>6, <2>2, <2>5, <2>6, <2>10, <2>11, <2>12
<1>9. CASE ~ (i < m /\ ~next.open)
  <2>1. /\ reply' = [reply EXCEPT ![i] = len]
        /\ replyBytes' = replyBytes + getStringObjectSdsUsedMemory(len)
    BY <1>9 DEF setDeferredMultiBulkLength
  <2> HIDE DEF joined, len, raw
  <2>2. /\ reply' \in Seq(StringObject) /\ Len(reply') = m
        /\ \A k \in 1 .. m : reply'[k] = IF k = i THEN len ELSE reply[k]
    BY <1>1, <1>2, <1>5, <2>1, ExceptSeq
  <2>3. Memory(reply') = Memory(reply) - getStringObjectSdsUsedMemory(reply[i])
                                       + getStringObjectSdsUsedMemory(len)
    BY <1>1, <1>2, <1>5, <2>1, MemoryExcept
  <2>4. replyBytes' = Memory(reply')
    <3>1. getStringObjectSdsUsedMemory(len) \in Nat
      BY <1>5, UsedMemoryNat
    <3>2. QED
      BY <1>1, <1>3, <2>1, <2>3, <3>1
  <2>5. Texts(reply') = Texts(reply)
    <3>1. Texts(reply') = [Texts(reply) EXCEPT ![i] = reply[i].data]
      <4>1. Texts([reply EXCEPT ![i] = len]) = [Texts(reply) EXCEPT ![i] = len.data]
        BY <1>1, <1>2, <1>5, TextsExcept
      <4>2. QED
        BY <1>5, <2>1, <4>1
    <3>2. [Texts(reply) EXCEPT ![i] = reply[i].data] = Texts(reply)
      <4>1. DOMAIN reply = 1 .. m
        BY <1>1
      <4>2. QED
        BY <1>2, <4>1 DEF Texts
    <3>3. QED
      BY <3>1, <3>2
  <2>6. reply' # <<>> /\ Head(reply') = reply'[1]
    BY <1>1, <1>6, <2>2
  <2>7. Head(reply').data = Head(reply).data
    BY <1>5, <1>6, <2>2, <2>6
  <2>8. QED
    BY <1>6, <1>7, <2>2, <2>4, <2>5, <2>6, <2>7
<1>10. QED
  BY <1>8, <1>9

LEMMA FinishKeeps ==
  ASSUME OutputIInv, NEW i, setDeferredMultiBulkLength(i)
  PROVE  OutputIInv'
<1>1. TypeOK /\ WriterReady /\ Handled /\ Accounted /\ Streamed
  BY DEF OutputIInv
<1>2. /\ phase = "loop" /\ asyncCloseClientOnOutputBufferLimitReached
      /\ UNCHANGED <<phase, buf, sentlen, writable, closeAfterReply, now, total, made, wire>>
  BY DEF setDeferredMultiBulkLength
<1>3. /\ reply' \in Seq(StringObject) /\ reply' # <<>> /\ reply # <<>>
      /\ FlattenSeq(Texts(reply')) = FlattenSeq(Texts(reply))
      /\ replyBytes' = Memory(reply')
      /\ Len(Head(reply).data) <= Len(Head(reply').data)
  BY ListFilled
<1>4. replyBytes' \in Nat /\ closeAsap' \in BOOLEAN /\ softTime' \in 0 .. now /\ Limited'
  BY <1>2, <1>3, LimitsApplied
<1>5. TypeOK'
  BY <1>1, <1>2, <1>3, <1>4 DEF TypeOK
<1>6. Streamed'
  BY <1>1, <1>2, <1>3 DEF Streamed, Queued
<1>7. writable
  BY <1>1, <1>2, <1>3 DEF Handled, Pending
<1>8. Handled'
  BY <1>2, <1>7 DEF Handled
<1>9. WriterReady'
  <2>1. Len(Head(reply).data) \in Nat /\ Len(Head(reply').data) \in Nat /\ sentlen \in Nat
    <3>1. Head(reply) \in StringObject /\ Head(reply') \in StringObject
      BY <1>1, <1>3 DEF TypeOK
    <3>2. QED
      BY <1>1, <3>1 DEF StringObject, TypeOK
  <2>2. buf' = <<>> /\ sentlen' > 0 => sentlen' < Len(Head(reply').data)
    BY <1>1, <1>2, <1>3, <2>1 DEF WriterReady
  <2>3. QED
    BY <1>1, <1>2, <1>3, <1>7, <2>2 DEF WriterReady
<1>10. Accounted'
  BY <1>3 DEF Accounted
<1>11. QED
  BY <1>4, <1>5, <1>6, <1>8, <1>9, <1>10 DEF OutputIInv

-------------------------------------------------------------------------------
(* Sending.                                                                *)

\* The stream when k more units of d, which is in front of all that is queued, are taken.
LEMMA StreamWritten ==
  ASSUME OutputIInv, NEW d \in Seq(Nat), NEW q \in Seq(Nat), Queued(buf, reply) = d \o q,
         NEW k \in 1 .. (Len(d) - sentlen), Write(d, k), made' = made,
         Rest(Queued(buf', reply'), sentlen') = Rest(d \o q, sentlen + k)
  PROVE  Streamed' /\ wire' \in Seq(Nat) /\ total' \in 0 .. (MaxPerEvent + 1)
<1> DEFINE part == SubSeq(d, sentlen + 1, sentlen + k)
           left == Rest(d \o q, sentlen + k)
<1>1. wire \in Seq(Nat) /\ sentlen \in Nat /\ total \in 0 .. (MaxPerEvent + 1)
  BY DEF OutputIInv, TypeOK
<1>2. /\ wire' = wire \o part
      /\ total' = IF total + k > MaxPerEvent THEN MaxPerEvent + 1 ELSE total + k
  BY DEF Write
<1>3. part \in Seq(Nat) /\ left \in Seq(Nat) /\ Rest(d \o q, sentlen) = part \o left
  BY <1>1, RestWritten
<1>4. wire \o Rest(d \o q, sentlen) = Numbers(made)
  BY DEF OutputIInv, Streamed
<1> HIDE DEF part, left
<1>5. wire' \in Seq(Nat)
  BY <1>1, <1>2, <1>3, ConcatProperties
<1>6. (wire \o part) \o left = wire \o (part \o left)
  <2>1. Associative(Seq(Nat))
    BY ConcatAssoc
  <2>2. QED
    BY <1>1, <1>3, <2>1, Zenon DEF Associative
<1>7. wire' \o left = Numbers(made)
  BY <1>2, <1>3, <1>4, <1>6
<1>8. Streamed'
  BY <1>7 DEF Streamed, left
<1>9. total' \in 0 .. (MaxPerEvent + 1)
  <2>1. MaxPerEvent \in Nat /\ k \in Nat
    BY OutputAssumption
  <2>2. QED
    BY <1>1, <1>2, <2>1
<1>10. QED
  BY <1>5, <1>8, <1>9

LEMMA WriteBufferKeeps ==
  ASSUME OutputIInv, NEW k, WriteBuffer(k)
  PROVE  OutputIInv'
<1> DEFINE q == FlattenSeq(Texts(reply))
<1>1. TypeOK /\ WriterReady /\ Handled /\ Accounted /\ Streamed /\ Limited
  BY DEF OutputIInv
<1>2. /\ phase = "send" /\ buf # <<>> /\ k \in 1 .. (Len(buf) - sentlen) /\ Write(buf, k)
      /\ UNCHANGED <<phase, reply, replyBytes, writable, closeAfterReply, closeAsap, softTime,
                     now, made>>
  BY DEF WriteBuffer, flags
<1>3. buf \in Seq(Nat) /\ reply \in Seq(StringObject) /\ sentlen \in Nat /\ Len(buf) \in Nat
  BY <1>1 DEF TypeOK
<1>4. q \in Seq(Nat)
  BY <1>3, TextsType
<1>5. writable /\ Open = {}
  BY <1>1, <1>2 DEF Handled
<1>6. Rest(Queued(buf', reply'), sentlen') = Rest(buf \o q, sentlen + k) /\ WriterReady'
      /\ buf' \in Seq(Nat) /\ Len(buf') <= Chunk /\ sentlen' \in Nat
  <2>1. CASE sentlen + k = Len(buf)
    <3>1. buf' = <<>> /\ sentlen' = 0
      BY <2>1 DEF WriteBuffer
    <3>2. <<>> \in Seq(Nat) /\ Len(<<>>) <= Chunk
      BY OutputAssumption
    <3>3. Queued(buf', reply') = q
      BY <1>2, <1>4, <3>1, ConcatEmptySeq DEF Queued
    <3>4. Rest(buf \o q, Len(buf)) = Rest(q, 0)
      BY <1>3, <1>4, RestBehind
    <3>5. WriterReady'
      BY <1>2, <3>1 DEF WriterReady
    <3>6. QED
      BY <2>1, <3>1, <3>2, <3>3, <3>4, <3>5
  <2>2. CASE sentlen + k # Len(buf)
    <3>1. buf' = buf /\ sentlen' = sentlen + k
      BY <2>2 DEF WriteBuffer
    <3>2. sentlen' \in Nat /\ sentlen' < Len(buf')
      BY <1>2, <1>3, <2>2, <3>1
    <3>3. WriterReady'
      BY <1>2, <3>1, <3>2 DEF WriterReady
    <3>4. Queued(buf', reply') = buf \o q
      BY <1>2, <3>1 DEF Queued
    <3>5. Len(buf') <= Chunk
      BY <1>1, <3>1 DEF TypeOK
    <3>6. QED
      BY <1>3, <3>1, <3>2, <3>3, <3>4, <3>5
  <2>3. QED
    BY <2>1, <2>2
<1>7. Queued(buf, reply) = buf \o q
  BY DEF Queued
<1> HIDE DEF q
<1>8. Streamed' /\ wire' \in Seq(Nat) /\ total' \in 0 .. (MaxPerEvent + 1)
  BY <1>2, <1>3, <1>4, <1>6, <1>7, StreamWritten
<1>9. TypeOK'
  BY <1>1, <1>2, <1>6, <1>8 DEF TypeOK
<1>10. Handled'
  BY <1>2, <1>5 DEF Handled, Open
<1>11. Accounted' /\ Limited'
  BY <1>1, <1>2 DEF Accounted, Limited, Open, getClientOutputBufferMemoryUsage
<1>12. QED
  BY <1>6, <1>8, <1>9, <1>10, <1>11 DEF OutputIInv

(* A text that is sent is taken off the list and off reply_bytes.          *)
LEMMA HeadTaken ==
  ASSUME OutputIInv, reply # <<>>, Open = {}, reply' = Tail(reply),
         replyBytes' = replyBytes - getStringObjectSdsUsedMemory(Head(reply)),
         closeAsap' = closeAsap, softTime' = softTime
  PROVE  /\ reply' \in Seq(StringObject) /\ replyBytes' \in Nat
         /\ Accounted' /\ Limited' /\ Open' = {}
<1>1. /\ reply \in Seq(StringObject) /\ replyBytes \in Nat /\ replyBytes = Memory(reply)
      /\ Head(reply) \in StringObject
  BY DEF OutputIInv, TypeOK, Accounted
<1>2. /\ reply' \in Seq(StringObject) /\ Len(reply') = Len(reply) - 1 /\ Len(reply) \in Nat
      /\ \A i \in 1 .. (Len(reply) - 1) : reply'[i] = reply[i + 1]
      /\ Len(reply') \in Nat
  BY <1>1
<1>3. Memory(reply') = replyBytes' /\ replyBytes' \in Nat
  BY <1>1, <1>2, MemoryTail, MemorySums
<1>4. replyBytes' <= replyBytes
  <2>1. getStringObjectSdsUsedMemory(Head(reply)) \in Nat
    BY <1>1, UsedMemoryNat
  <2>2. QED
    BY <1>1, <2>1
<1>5. Limited'
  BY <1>2, <1>3, <1>4, LimitsKept
<1>6. Open' = {}
  <2>1. ASSUME NEW i \in DOMAIN reply', reply'[i].open PROVE FALSE
    <3>1. i \in 1 .. (Len(reply) - 1)
      BY <1>2
    <3>2. i + 1 \in DOMAIN reply /\ reply[i + 1].open
      BY <1>1, <1>2, <2>1, <3>1
    <3>3. QED
      BY <3>2 DEF Open
  <2>2. QED
    BY <2>1 DEF Open
<1>7. QED
  BY <1>2, <1>3, <1>5, <1>6 DEF Accounted

LEMMA WriteObjectKeeps ==
  ASSUME OutputIInv, NEW k, WriteObject(k)
  PROVE  OutputIInv'
<1> DEFINE d == Head(reply).data
           q == FlattenSeq(Texts(Tail(reply)))
<1>1. TypeOK /\ WriterReady /\ Handled /\ Accounted /\ Streamed /\ Limited
  BY DEF OutputIInv
<1>2. /\ phase = "send" /\ buf = <<>> /\ reply # <<>> /\ k \in 1 .. (Len(d) - sentlen)
      /\ Write(d, k)
      /\ UNCHANGED <<phase, buf, writable, closeAfterReply, closeAsap, softTime, now, made>>
  BY DEF WriteObject, flags
<1>3. reply \in Seq(StringObject) /\ sentlen \in Nat /\ Head(reply) \in StringObject
      /\ Tail(reply) \in Seq(StringObject)
  BY <1>1, <1>2 DEF TypeOK
<1>4. d \in Seq(Nat) /\ q \in Seq(Nat) /\ Len(d) \in Nat
  <2>1. d \in Seq(Nat)
    BY <1>3 DEF StringObject
  <2>2. q \in Seq(Nat)
    BY <1>3, TextsType
  <2>3. QED
    BY <2>1, <2>2
<1>5. writable /\ Open = {}
  BY <1>1, <1>2 DEF Handled
<1>6. Queued(buf, reply) = d \o q
  <2>1. FlattenSeq(Texts(reply)) = d \o q
    BY <1>2, <1>3, TextsTail
  <2>2. d \o q \in Seq(Nat)
    BY <1>4, ConcatProperties
  <2>3. QED
    BY <1>2, <2>1, <2>2, ConcatEmptySeq DEF Queued
<1>7. /\ Rest(Queued(buf', reply'), sentlen') = Rest(d \o q, sentlen + k)
      /\ WriterReady' /\ sentlen' \in Nat
      /\ reply' \in Seq(StringObject) /\ replyBytes' \in Nat
      /\ Accounted' /\ Limited' /\ Open' = {}
  <2>1. CASE sentlen + k = Len(d)
    <3>1. /\ reply' = Tail(reply) /\ sentlen' = 0
          /\ replyBytes' = replyBytes - getStringObjectSdsUsedMemory(Head(reply))
      BY <2>1 DEF WriteObject
    <3>2. /\ reply' \in Seq(StringObject) /\ replyBytes' \in Nat
          /\ Accounted' /\ Limited' /\ Open' = {}
      BY <1>2, <1>5, <3>1, HeadTaken
    <3>3. Queued(buf', reply') = q
      BY <1>2, <1>4, <3>1, ConcatEmptySeq DEF Queued
    <3>4. Rest(d \o q, Len(d)) = Rest(q, 0)
      BY <1>4, RestBehind
    <3>5. WriterReady'
      BY <1>2, <3>1 DEF WriterReady
    <3>6. QED
      BY <2>1, <3>1, <3>2, <3>3, <3>4, <3>5
  <2>2. CASE sentlen + k # Len(d)
    <3>1. sentlen' = sentlen + k /\ reply' = reply /\ replyBytes' = replyBytes
      BY <2>2 DEF WriteObject
    <3>2. sentlen' \in Nat /\ sentlen' < Len(d)
      <4>1. PICK m \in Nat : m = Len(d)
        BY <1>4
      <4>2. sentlen \in Nat /\ k \in 1 .. (m - sentlen) /\ sentlen + k # m
        BY <1>2, <1>3, <2>2, <4>1
      <4>3. sentlen + k \in Nat /\ sentlen + k < m
        BY <4>2
      <4>4. QED
        BY <3>1, <4>1, <4>3
    <3>3. WriterReady'
      BY <1>2, <3>1, <3>2 DEF WriterReady
    <3>4. Queued(buf', reply') = d \o q
      BY <1>2, <1>6, <3>1
    <3>5. Accounted' /\ Limited' /\ Open' = {}
      BY <1>1, <1>2, <1>5, <3>1 DEF Accounted, Limited, Open, getClientOutputBufferMemoryUsage
    <3>6. reply' \in Seq(StringObject) /\ replyBytes' \in Nat
      BY <1>1, <3>1 DEF TypeOK
    <3>7. QED
      BY <3>1, <3>2, <3>3, <3>4, <3>5, <3>6
  <2>3. QED
    BY <2>1, <2>2
<1> HIDE DEF d, q
<1>8. Streamed' /\ wire' \in Seq(Nat) /\ total' \in 0 .. (MaxPerEvent + 1)
  BY <1>2, <1>4, <1>6, <1>7, StreamWritten
<1>9. TypeOK'
  BY <1>1, <1>2, <1>7, <1>8 DEF TypeOK
<1>10. Handled'
  BY <1>2, <1>5, <1>7 DEF Handled
<1>11. QED
  BY <1>7, <1>8, <1>9, <1>10 DEF OutputIInv

LEMMA SkipKeeps ==
  ASSUME OutputIInv, SkipEmptyObject
  PROVE  OutputIInv'
<1> DEFINE q == FlattenSeq(Texts(Tail(reply)))
<1>1. TypeOK /\ WriterReady /\ Handled /\ Accounted /\ Streamed /\ Limited
  BY DEF OutputIInv
<1>2. /\ phase = "send" /\ buf = <<>> /\ reply # <<>> /\ Head(reply).data = <<>>
      /\ reply' = Tail(reply)
      /\ replyBytes' = replyBytes - getStringObjectSdsUsedMemory(Head(reply))
      /\ UNCHANGED <<phase, buf, sentlen, writable, closeAfterReply, closeAsap, softTime, now,
                     total, made, wire>>
  BY DEF SkipEmptyObject, flags
<1>3. reply \in Seq(StringObject) /\ sentlen \in Nat /\ Tail(reply) \in Seq(StringObject)
  BY <1>1, <1>2 DEF TypeOK
<1>4. writable /\ Open = {}
  BY <1>1, <1>2 DEF Handled
<1>5. sentlen = 0
  BY <1>1, <1>2, <1>3 DEF WriterReady
<1>6. /\ reply' \in Seq(StringObject) /\ replyBytes' \in Nat
      /\ Accounted' /\ Limited' /\ Open' = {}
  BY <1>2, <1>4, HeadTaken
<1>7. Queued(buf', reply') = Queued(buf, reply)
  <2>1. FlattenSeq(Texts(reply)) = <<>> \o q
    BY <1>2, <1>3, TextsTail
  <2>2. q \in Seq(Nat)
    BY <1>3, TextsType
  <2>3. FlattenSeq(Texts(reply)) = q
    BY <2>1, <2>2, ConcatEmptySeq
  <2>4. QED
    BY <1>2, <2>3 DEF Queued
<1>8. Streamed'
  BY <1>1, <1>2, <1>7 DEF Streamed
<1>9. TypeOK'
  BY <1>1, <1>2, <1>6 DEF TypeOK
<1>10. WriterReady' /\ Handled'
  BY <1>2, <1>4, <1>5, <1>6 DEF WriterReady, Handled
<1>11. QED
  BY <1>6, <1>8, <1>9, <1>10 DEF OutputIInv

\* The handler is entered, or ends with something left to be sent.
LEMMA TurnKeeps ==
  ASSUME OutputIInv, StartSending \/ WouldBlock \/ PauseSending
  PROVE  OutputIInv'
<1>1. TypeOK /\ WriterReady /\ Handled /\ Accounted /\ Streamed /\ Limited
  BY DEF OutputIInv
<1>2. /\ phase \in {"loop", "send"} /\ phase' \in {"loop", "send"} /\ total' = 0
      /\ writable /\ Open = {}
      /\ UNCHANGED <<buf, reply, replyBytes, sentlen, writable, closeAfterReply, closeAsap,
                     softTime, now, made, wire>>
  BY <1>1 DEF StartSending, WouldBlock, PauseSending, AtLoop, AtWrite, Handled, flags
<1>3. TypeOK'
  <2>1. 0 \in 0 .. (MaxPerEvent + 1)
    BY OutputAssumption
  <2>2. QED
    BY <1>1, <1>2, <2>1 DEF TypeOK
<1>4. Streamed'
  BY <1>1, <1>2 DEF Streamed
<1>5. WriterReady'
  BY <1>1, <1>2 DEF WriterReady
<1>6. Handled'
  BY <1>2 DEF Handled, Open
<1>7. Accounted' /\ Limited'
  BY <1>1, <1>2 DEF Accounted, Limited, Open, getClientOutputBufferMemoryUsage
<1>8. QED
  BY <1>3, <1>4, <1>5, <1>6, <1>7 DEF OutputIInv

LEMMA AllSentKeeps ==
  ASSUME OutputIInv, AllSent
  PROVE  OutputIInv'
<1>1. CASE closeAfterReply
  BY <1>1, FreedKeeps DEF AllSent
<1>2. CASE ~closeAfterReply
  <2>1. TypeOK /\ Handled /\ Accounted /\ Limited
    BY DEF OutputIInv
  <2>2. /\ buf = <<>> /\ reply = <<>> /\ phase' = "loop" /\ sentlen' = 0 /\ writable' = FALSE
        /\ total' = 0 /\ made' = 0 /\ wire' = <<>>
        /\ UNCHANGED <<buf, reply, replyBytes, closeAfterReply, closeAsap, softTime, now>>
    BY <1>2 DEF AllSent, Pending, flags
  <2>3. TypeOK'
    <3>1. 0 \in 0 .. (MaxPerEvent + 1) /\ <<>> \in Seq(Nat)
      BY OutputAssumption
    <3>2. QED
      BY <2>1, <2>2, <3>1 DEF TypeOK
  <2>4. Streamed'
    BY <2>2, NothingQueued, NothingSent DEF Streamed
  <2>5. WriterReady' /\ Handled'
    BY <1>2, <2>2 DEF WriterReady, Handled, Pending
  <2>6. Accounted' /\ Limited'
    BY <2>1, <2>2 DEF Accounted, Limited, Open, getClientOutputBufferMemoryUsage
  <2>7. QED
    BY <2>3, <2>4, <2>5, <2>6 DEF OutputIInv
<1>3. QED
  BY <1>1, <1>2

LEMMA TickKeeps ==
  ASSUME OutputIInv, Tick
  PROVE  OutputIInv'
<1>1. TypeOK /\ WriterReady /\ Handled /\ Accounted /\ Streamed /\ Limited
  BY DEF OutputIInv
<1>2. /\ now' = now + 1
      /\ UNCHANGED <<phase, buf, reply, replyBytes, sentlen, writable, closeAfterReply, closeAsap,
                     softTime, total, made, wire>>
  BY DEF Tick, flags
<1>3. now' \in Nat \ {0} /\ softTime' \in 0 .. now'
  BY <1>1, <1>2 DEF TypeOK
<1>4. TypeOK'
  BY <1>1, <1>2, <1>3 DEF TypeOK
<1>5. Streamed' /\ Accounted'
  BY <1>1, <1>2 DEF Streamed, Accounted
<1>6. WriterReady' /\ Handled'
  BY <1>1, <1>2 DEF WriterReady, Handled, Pending, Open
<1>7. Limited'
  BY <1>1, <1>2 DEF Limited, Open, getClientOutputBufferMemoryUsage
<1>8. QED
  BY <1>4, <1>5, <1>6, <1>7 DEF OutputIInv

LEMMA StandstillKeeps ==
  ASSUME OutputIInv, UNCHANGED vars
  PROVE  OutputIInv'
<1>1. TypeOK /\ WriterReady /\ Handled /\ Accounted /\ Streamed /\ Limited
  BY DEF OutputIInv
<1>2. UNCHANGED <<phase, buf, reply, replyBytes, sentlen, writable, closeAfterReply, closeAsap,
                  softTime, now, total, made, wire>>
  BY DEF vars, flags
<1>3. TypeOK'
  BY <1>1, <1>2 DEF TypeOK
<1>4. Streamed' /\ Accounted'
  BY <1>1, <1>2 DEF Streamed, Accounted
<1>5. WriterReady' /\ Handled'
  BY <1>1, <1>2 DEF WriterReady, Handled, Pending, Open
<1>6. Limited'
  BY <1>1, <1>2 DEF Limited, Open, getClientOutputBufferMemoryUsage
<1>7. QED
  BY <1>3, <1>4, <1>5, <1>6 DEF OutputIInv

LEMMA OutputNext == OutputIInv /\ [Next]_vars => OutputIInv'
<1> SUFFICES ASSUME OutputIInv, [Next]_vars PROVE OutputIInv'
  OBVIOUS
<1>1. CASE AddReplies
  BY <1>1, AddRepliesKeeps, DeferredKeeps DEF AddReplies
<1>2. CASE FinishReplies
  BY <1>2, FinishKeeps DEF FinishReplies
<1>3. CASE sendReplyToClient
  <2>1. CASE StartSending \/ WouldBlock \/ PauseSending
    BY <2>1, TurnKeeps
  <2>2. CASE WriteSome
    BY <2>2, WriteBufferKeeps, WriteObjectKeeps DEF WriteSome
  <2>3. CASE SkipEmptyObject
    BY <2>3, SkipKeeps
  <2>4. CASE AllSent
    BY <2>4, AllSentKeeps
  <2>5. QED
    BY <1>3, <2>1, <2>2, <2>3, <2>4 DEF sendReplyToClient
<1>4. CASE FreeQueued \/ Disconnected
  BY <1>4, FreedKeeps DEF FreeQueued, Disconnected
<1>5. CASE Tick
  BY <1>5, TickKeeps
<1>6. CASE UNCHANGED vars
  BY <1>6, StandstillKeeps
<1>7. QED
  BY <1>1, <1>2, <1>3, <1>4, <1>5, <1>6 DEF Next

(* The invariant that the two theorems below rest on, for every size of    *)
(* the buffer and of the replies, every limit and every amount the socket  *)
(* takes at once.                                                          *)
THEOREM OutputInductive == Spec => []OutputIInv
<1>1. QED
  BY OutputInit, OutputNext, PTL DEF Spec

(* Whatever a client is answered reaches its socket once and in the order  *)
(* in which it was added, for every size of the buffer, of the replies and *)
(* of what the socket takes: addReply and its relatives, the lengths that  *)
(* setDeferredMultiBulkLength fills in, and sendReplyToClient.             *)
THEOREM StreamFaithful == Spec => []StreamInv
<1>1. OutputIInv => StreamInv
  BY OutputImplies
<1>2. QED
  BY <1>1, OutputInductive, PTL

(* reply_bytes is the memory of the texts in the list, and a client over a *)
(* limit of its output buffer is, between commands, scheduled for closing  *)
(* or has its clock running: asyncCloseClientOnOutputBufferLimitReached    *)
(* has been called since the list last grew.                               *)
THEOREM LimitsEnforced == Spec => []LimitInv
<1>1. OutputIInv => LimitInv
  BY OutputImplies
<1>2. QED
  BY <1>1, OutputInductive, PTL

-------------------------------------------------------------------------------
(* The input of a client. *)

\* Outside the loop over the arguments the parser has trimmed the buffer.  An argument
\* whose length is known belongs to a multi bulk command that lacks it.
ParserInv ==
  /\ stage # "bulks" => pos = 0
  /\ stage = "bulks" => reqtype = "multibulk"
  /\ reqtype # "multibulk" => multibulklen = 0 /\ bulklen = -1 /\ argv = <<>>
  /\ bulklen # -1 => multibulklen > 0

\* A large argument that is waited for is alone in the buffer.
BigArgInv ==
  stage \in {"idle", "input"} /\ ReadingBigArg => Len(querybuf) <= bulklen + 2

\* An inline command that was begun, or a multi bulk one without its number of arguments,
\* is still all in the buffer.
BeginsAnew ==
  stage \in {"idle", "input"} /\ closing = "no" =>
    /\ reqtype = "multibulk" /\ multibulklen = 0 =>
         argv = <<>> /\ querybuf # <<>> /\ querybuf[1] = "*"
    /\ reqtype = "inline" => querybuf # <<>> /\ querybuf[1] # "*"

(* The buffer holds what was read last of the query, without a gap: no     *)
(* byte is dropped between two that are parsed, and none is parsed twice.  *)
Unread(s, t, b) == \E c \in 0 .. t : b = SubSeq(s, c + 1, t)
UnreadInv == Unread(Stream, taken, querybuf)

InputIInv == InputTypeOK /\ ParserInv /\ BigArgInv /\ BeginsAnew /\ UnreadInv

LEMMA StreamType == query \in Queries => Stream \in Seq(STRING)
<1> SUFFICES ASSUME query \in Queries PROVE Stream \in Seq(STRING)
  OBVIOUS
<1> DEFINE texts == [i \in DOMAIN query |-> query[i].bytes]
<1>1. query \in Seq(Range(query)) /\ \A i \in DOMAIN query : query[i].bytes \in Seq(STRING)
  BY InputAssumption DEF IsItem
<1>2. DOMAIN query = 1 .. Len(query) /\ Len(query) \in Nat
  BY <1>1
<1>3. texts \in Seq(Seq(STRING))
  BY <1>1, <1>2
<1>4. PICK f : Flattening(STRING, texts, Len(texts), f)
  BY <1>3, FlatteningExists
<1>5. FlattenSeq(texts) \in Seq(STRING)
  BY <1>3, <1>4, FlattenedBy
<1>6. QED
  BY <1>5 DEF Stream, Bytes

(* What SubSeq returns from behind the first m elements to the n-th.        *)
LEMMA SubSeqAfter ==
  ASSUME NEW S, NEW s \in Seq(S), NEW m \in Nat, NEW n \in 0 .. Len(s), m <= n
  PROVE  /\ SubSeq(s, m + 1, n) \in Seq(S)
         /\ Len(SubSeq(s, m + 1, n)) = n - m
         /\ \A i \in 1 .. (n - m) : SubSeq(s, m + 1, n)[i] = s[m + i]
<1>1. /\ m + 1 \in Nat /\ n \in Nat /\ \A i \in (m + 1) .. n : i \in 1 .. Len(s)
      /\ m + 1 \in Int /\ n \in Int
  OBVIOUS
<1>2. \A i \in (m + 1) .. n : s[i] \in S
  BY <1>1
<1>3. /\ SubSeq(s, m + 1, n) \in Seq(S)
      /\ Len(SubSeq(s, m + 1, n)) = IF m + 1 <= n THEN n - (m + 1) + 1 ELSE 0
      /\ \A i \in 1 .. n - (m + 1) + 1 : SubSeq(s, m + 1, n)[i] = s[(m + 1) + i - 1]
  BY <1>1, <1>2, SubSeqProperties
<1>4. QED
  BY <1>1, <1>3

LEMMA EqualSequences ==
  ASSUME NEW S, NEW s \in Seq(S), NEW t \in Seq(S), NEW n, Len(s) = n, Len(t) = n,
         \A i \in 1 .. n : s[i] = t[i]
  PROVE  s = t
OBVIOUS

(* What a read appends, and what the parser takes from the front, leaves   *)
(* the rest of what was read.                                              *)
LEMMA UnreadGrown ==
  ASSUME NEW s \in Seq(STRING), NEW t \in Nat, NEW b, Unread(s, t, b),
         NEW n \in Nat, t + n <= Len(s)
  PROVE  Unread(s, t + n, b \o SubSeq(s, t + 1, t + n))
<1>1. PICK c \in 0 .. t : b = SubSeq(s, c + 1, t)
  BY DEF Unread
<1> DEFINE more == SubSeq(s, t + 1, t + n)
           whole == SubSeq(s, c + 1, t + n)
<1>0. /\ c \in Nat /\ t \in 0 .. Len(s) /\ t + n \in 0 .. Len(s)
      /\ c <= t /\ t <= t + n /\ c <= t + n /\ t + n - t = n
  OBVIOUS
<1>2. b \in Seq(STRING) /\ Len(b) = t - c /\ \A i \in 1 .. (t - c) : b[i] = s[c + i]
  BY <1>0, <1>1, SubSeqAfter
<1>3. more \in Seq(STRING) /\ Len(more) = n /\ \A i \in 1 .. n : more[i] = s[t + i]
  BY ONLY s \in Seq(STRING), <1>0, SubSeqAfter, SMTT(30)
<1>4. /\ whole \in Seq(STRING) /\ Len(whole) = t + n - c
      /\ \A i \in 1 .. (t + n - c) : whole[i] = s[c + i]
  BY <1>0, SubSeqAfter
<1> HIDE DEF more, whole
<1>5. /\ b \o more \in Seq(STRING) /\ Len(b \o more) = Len(b) + Len(more)
      /\ \A i \in 1 .. Len(b) : (b \o more)[i] = b[i]
      /\ \A i \in 1 .. Len(more) : (b \o more)[Len(b) + i] = more[i]
  <2>1. b \in Seq(STRING) /\ more \in Seq(STRING)
    BY <1>2, <1>3
  <2>2. QED
    BY ONLY <2>1, ConcatFacts
<1> DEFINE joined == b \o more
<1> HIDE DEF joined
<1>10. /\ joined \in Seq(STRING) /\ Len(joined) = t + n - c
       /\ \A i \in 1 .. (t - c) : joined[i] = b[i]
       /\ \A i \in 1 .. n : joined[(t - c) + i] = more[i]
  <2>1. Len(b) + Len(more) = t + n - c /\ Len(b) = t - c /\ Len(more) = n
    BY <1>0, <1>2, <1>3
  <2>2. QED
    BY <1>5, <2>1 DEF joined
<1>6. ASSUME NEW i \in 1 .. (t + n - c) PROVE joined[i] = whole[i]
  <2>1. CASE i <= t - c
    <3>1. i \in 1 .. (t - c)
      BY <1>0, <2>1
    <3>2. QED
      BY <1>2, <1>4, <1>10, <3>1
  <2>2. CASE i > t - c
    <3> DEFINE j == i - (t - c)
    <3>1. j \in 1 .. n /\ t + j = c + i /\ i = (t - c) + j
      BY <1>0, <2>2
    <3> HIDE DEF j
    <3>2. joined[i] = more[j] /\ more[j] = s[t + j] /\ whole[i] = s[c + i]
      BY <1>3, <1>4, <1>10, <3>1
    <3>3. QED
      BY <3>1, <3>2
  <2>3. QED
    BY <1>0, <2>1, <2>2
<1>7. joined = whole
  BY <1>4, <1>10, <1>6, EqualSequences
<1>8. b \o SubSeq(s, t + 1, t + n) = SubSeq(s, c + 1, t + n)
  BY <1>7 DEF joined, more, whole
<1>9. c \in 0 .. (t + n)
  OBVIOUS
<1>11. QED
  BY <1>8, <1>9 DEF Unread

LEMMA UnreadTrimmed ==
  ASSUME NEW s \in Seq(STRING), NEW t \in 0 .. Len(s), NEW b, Unread(s, t, b),
         NEW n \in 0 .. Len(b) + 1
  PROVE  Unread(s, t, SubSeq(b, n + 1, Len(b)))
<1>1. PICK c \in 0 .. t : b = SubSeq(s, c + 1, t)
  BY DEF Unread
<1>2. b \in Seq(STRING) /\ Len(b) = t - c /\ \A i \in 1 .. (t - c) : b[i] = s[c + i]
  <2>1. c \in Nat /\ c <= t
    OBVIOUS
  <2>2. QED
    BY <1>1, <2>1, SubSeqAfter, SMTT(30)
<1> DEFINE rest == SubSeq(b, n + 1, Len(b))
<1>3. CASE n <= Len(b)
  <2> DEFINE whole == SubSeq(s, (c + n) + 1, t)
  <2>0. /\ n \in Nat /\ Len(b) \in 0 .. Len(b) /\ c + n \in Nat /\ c + n <= t
        /\ t - (c + n) = t - c - n
    BY <1>2, <1>3
  <2>1. /\ rest \in Seq(STRING) /\ Len(rest) = t - c - n
        /\ \A i \in 1 .. (t - c - n) : rest[i] = b[n + i]
    BY <1>2, <1>3, <2>0, SubSeqAfter
  <2>2. /\ whole \in Seq(STRING) /\ Len(whole) = t - c - n
        /\ \A i \in 1 .. (t - c - n) : whole[i] = s[c + n + i]
    BY <1>2, <1>3, <2>0, SubSeqAfter
  <2> HIDE DEF rest, whole
  <2>3. ASSUME NEW i \in 1 .. (t - c - n) PROVE rest[i] = whole[i]
    <3>1. n + i \in 1 .. (t - c) /\ c + (n + i) = c + n + i
      BY <1>2, <1>3
    <3>2. QED
      BY <1>2, <2>1, <2>2, <3>1
  <2>4. rest = whole
    BY <2>1, <2>2, <2>3
  <2>5. SubSeq(b, n + 1, Len(b)) = SubSeq(s, (c + n) + 1, t) /\ c + n \in 0 .. t
    <3>1. c + n \in 0 .. t /\ (c + n) + 1 = c + n + 1
      BY <1>2, <1>3
    <3>2. QED
      BY <1>2, <2>4, <3>1, SMTT(30) DEF rest, whole
  <2>6. QED
    BY <2>5 DEF Unread
<1>4. CASE n = Len(b) + 1
  <2>1. SubSeq(b, n + 1, Len(b)) = <<>>
    BY <1>2, <1>4, SubSeqEmpty
  <2>2. SubSeq(s, t + 1, t) = <<>>
    BY SubSeqEmpty
  <2>3. SubSeq(b, n + 1, Len(b)) = SubSeq(s, t + 1, t) /\ t \in 0 .. t
    BY <2>1, <2>2
  <2>4. QED
    BY <2>3 DEF Unread
<1>5. QED
  BY <1>3, <1>4

LEMMA FindFacts ==
  ASSUME NEW s \in Seq(STRING), NEW b, NEW from \in 0 .. Len(s)
  PROVE  \/ /\ Find(s, b, from) = -1
            /\ \A i \in (from + 1) .. Len(s) : s[i] # b
         \/ /\ Find(s, b, from) \in from .. (Len(s) - 1)
            /\ s[Find(s, b, from) + 1] = b
            /\ \A i \in (from + 1) .. Find(s, b, from) : s[i] # b
<1> DEFINE I == {i \in (from + 1) .. Len(s) : s[i] = b}
<1>1. CASE I = {}
  BY <1>1 DEF Find, SelectInSubSeq
<1>2. CASE I # {}
  <2>1. I \subseteq Nat
    OBVIOUS
  <2>2. PICK m \in I : \A j \in I : m <= j
    BY <1>2, <2>1, Lowest
  <2>3. Min(I) \in I /\ \A j \in I : Min(I) <= j
    BY <2>2 DEF Min
  <2>4. Find(s, b, from) = Min(I) - 1
    BY <1>2 DEF Find, SelectInSubSeq
  <2>5. \A j \in (from + 1) .. Len(s) : s[j] = b => Min(I) <= j
    BY <2>3
  <2>6. Min(I) \in (from + 1) .. Len(s) /\ s[Min(I)] = b
    BY <2>3
  <2> HIDE DEF I
  <2>7. Min(I) = (Min(I) - 1) + 1 /\ Min(I) - 1 \in from .. (Len(s) - 1)
    BY <2>6
  <2>8. ASSUME NEW i \in (from + 1) .. (Min(I) - 1) PROVE s[i] # b
    <3>1. i \in (from + 1) .. Len(s) /\ ~ (Min(I) <= i)
      BY <2>6
    <3>2. QED
      BY <2>5, <3>1
  <2>9. QED
    BY <2>4, <2>6, <2>7, <2>8
<1>3. QED
  BY <1>1, <1>2

-------------------------------------------------------------------------------
(* What sdssplitargs returns: the n-th word has a beginning and an end.    *)

Upto(S, i) == {j \in S : j <= i}

LEMMA Ranked ==
  ASSUME NEW S, S \subseteq Nat, IsFiniteSet(S), NEW n \in 1 .. Cardinality(S)
  PROVE  \E i \in S : Cardinality(Upto(S, i)) = n
<1> DEFINE N == Cardinality(S)
           T == {k \in Nat : k + 1 <= N => \E i \in S : Cardinality(Upto(S, i)) = k + 1}
<1>1. N \in Nat
  BY FS_CardinalityType
<1>2. \A i \in S : IsFiniteSet(Upto(S, i)) /\ Upto(S, i) \subseteq S
  <2>1. \A i \in S : Upto(S, i) \subseteq S
    BY DEF Upto
  <2>2. QED
    BY <2>1, FS_Subset
<1>3. 0 \in T
  <2>1. SUFFICES ASSUME 1 <= N PROVE \E i \in S : Cardinality(Upto(S, i)) = 1
    OBVIOUS
  <2>2. S # {}
    BY <2>1, FS_EmptySet
  <2>3. PICK m \in S : \A j \in S : m <= j
    BY <2>2, Lowest
  <2>4. \A j \in S : j <= m <=> j = m
    BY <2>3
  <2>5. Upto(S, m) = {m}
    BY <2>4 DEF Upto
  <2>6. QED
    BY <2>5, FS_Singleton
<1>4. ASSUME NEW k \in Nat, k \in T PROVE k + 1 \in T
  <2>1. SUFFICES ASSUME (k + 1) + 1 <= N
                 PROVE  \E i \in S : Cardinality(Upto(S, i)) = (k + 1) + 1
    OBVIOUS
  <2>2. k + 1 <= N
    BY <1>1, <2>1
  <2>3. PICK i \in S : Cardinality(Upto(S, i)) = k + 1
    BY <1>4, <2>2
  <2>4. S \ Upto(S, i) # {}
    <3>1. CASE S \ Upto(S, i) = {}
      <4>1. Upto(S, i) = S
        BY <1>2, <3>1
      <4>2. QED
        BY <1>1, <2>1, <2>3, <4>1
    <3>2. QED
      BY <3>1
  <2>5. PICK m \in S \ Upto(S, i) : \A j \in S \ Upto(S, i) : m <= j
    <3>1. S \ Upto(S, i) \subseteq Nat
      OBVIOUS
    <3>2. QED
      BY <2>4, <3>1, Lowest
  <2>6. i \in Nat /\ m \in Nat /\ i < m
    BY <2>5 DEF Upto
  <2>7. \A j \in S : j <= m <=> j <= i \/ j = m
    <3>1. ASSUME NEW j \in S PROVE j <= m <=> j <= i \/ j = m
      <4>1. j \in Nat /\ (j <= i \/ m <= j)
        BY <2>5 DEF Upto
      <4>2. QED
        BY <2>6, <4>1
    <3>2. QED
      BY <3>1
  <2>8. Upto(S, m) = Upto(S, i) \union {m} /\ m \notin Upto(S, i)
    BY <2>5, <2>7 DEF Upto
  <2>9. Cardinality(Upto(S, i) \union {m}) = Cardinality(Upto(S, i)) + 1
    BY <1>2, <2>8, FS_AddElement
  <2>10. QED
    BY <2>3, <2>8, <2>9
<1>5. Nat \subseteq T
  <2> HIDE DEF T
  <2>1. QED
    BY <1>3, <1>4, Induct
<1>6. n - 1 \in Nat /\ (n - 1) + 1 = n /\ n <= N
  BY <1>1
<1>7. n - 1 \in T
  BY <1>5, <1>6
<1>8. QED
  BY <1>6, <1>7

LEMMA WordsType ==
  ASSUME NEW line \in Seq(STRING)
  PROVE  Words(line) \in Seq(Seq(STRING))
<1>0. \A l \in Nat : l + 1 \notin 1 .. l
  OBVIOUS
<1> DEFINE blank(i) == i \notin DOMAIN line \/ line[i] \in {" ", CR}
           begins == {i \in DOMAIN line : ~blank(i) /\ blank(i - 1)}
           begin(n) == CHOOSE i \in begins : Cardinality({j \in begins : j <= i}) = n
           last(i, j) == blank(j + 1) /\ \A k \in i .. j : ~blank(k)
           end(i) == CHOOSE j \in i .. Len(line) : last(i, j)
<1>1. Len(line) \in Nat /\ DOMAIN line = 1 .. Len(line)
  OBVIOUS
<1>2. begins \subseteq 1 .. Len(line)
  BY <1>1
<1>12. \A i \in begins : ~blank(i)
  OBVIOUS
<1>3. IsFiniteSet(begins)
  <2> HIDE DEF begins, blank
  <2>1. IsFiniteSet(1 .. Len(line))
    BY <1>1, FS_Interval
  <2>2. QED
    BY <1>2, <2>1, FS_Subset
<1>4. Cardinality(begins) \in Nat
  <2> HIDE DEF begins
  <2>1. QED
    BY <1>3, FS_CardinalityType
<1>5. ASSUME NEW n \in 1 .. Cardinality(begins) PROVE begin(n) \in begins
  <2> HIDE DEF begins, blank
  <2>1. begins \subseteq Nat
    BY <1>1, <1>2
  <2>2. \E i \in begins : Cardinality(Upto(begins, i)) = n
    BY <1>3, <2>1, Ranked
  <2>3. \E i \in begins : Cardinality({j \in begins : j <= i}) = n
    BY <2>2 DEF Upto
  <2>4. QED
    BY <2>3
<1>6. ASSUME NEW i \in begins PROVE end(i) \in i .. Len(line)
  <2> DEFINE behind == {m \in (i + 1) .. (Len(line) + 1) : blank(m)}
  <2>0. i \in 1 .. Len(line) /\ ~blank(i)
    BY <1>2, <1>12
  <2>11. Len(line) + 1 \notin DOMAIN line
    <3>1. Len(line) + 1 \notin 1 .. Len(line)
      BY <1>0, <1>1, Zenon
    <3>2. QED
      BY <1>1, <3>1, Zenon
  <2>12. blank(Len(line) + 1)
    BY <2>11
  <2>3. \A m \in behind : blank(m) /\ m \in (i + 1) .. (Len(line) + 1)
    OBVIOUS
  <2>4. \A m \in (i + 1) .. (Len(line) + 1) : m \notin behind => ~blank(m)
    OBVIOUS
  <2> HIDE DEF begins, blank
  <2>1. Len(line) + 1 \in behind
    BY <1>1, <2>0, <2>12
  <2>2. behind \subseteq Nat
    <3>1. behind \subseteq (i + 1) .. (Len(line) + 1)
      OBVIOUS
    <3> HIDE DEF behind
    <3>2. QED
      BY <1>1, <2>0, <3>1
  <2> HIDE DEF behind
  <2>5. PICK m \in behind : \A k \in behind : m <= k
    BY <2>1, <2>2, Lowest
  <2>6. m - 1 \in i .. Len(line) /\ (m - 1) + 1 = m
    BY <1>1, <2>0, <2>3
  <2>7. ASSUME NEW k \in i .. (m - 1) PROVE ~blank(k)
    <3>1. CASE k = i
      BY <2>0, <3>1
    <3>2. CASE k # i
      <4>1. k \in (i + 1) .. (Len(line) + 1) /\ ~ (m <= k)
        BY <1>1, <2>0, <2>6, <3>2
      <4>2. QED
        BY <2>4, <2>5, <4>1
    <3>3. QED
      BY <3>1, <3>2
  <2>8. last(i, m - 1)
    BY <2>3, <2>6, <2>7
  <2> HIDE DEF last
  <2>9. \E j \in i .. Len(line) : last(i, j)
    BY <2>6, <2>8
  <2>10. QED
    BY <2>9
<1>7. Words(line) = [n \in 1 .. Cardinality(begins) |-> SubSeq(line, begin(n), end(begin(n)))]
  BY DEF Words
<1> HIDE DEF begins, begin, end
<1>8. ASSUME NEW n \in 1 .. Cardinality(begins)
      PROVE  SubSeq(line, begin(n), end(begin(n))) \in Seq(STRING)
  <2>1. begin(n) \in 1 .. Len(line)
    BY <1>2, <1>5
  <2>2. end(begin(n)) \in begin(n) .. Len(line)
    BY <1>5, <1>6
  <2>3. /\ begin(n) \in Int /\ end(begin(n)) \in Int
        /\ \A i \in begin(n) .. end(begin(n)) : line[i] \in STRING
    BY <1>1, <2>1, <2>2
  <2>4. QED
    BY <2>3, SubSeqProperties
<1> DEFINE word(n) == SubSeq(line, begin(n), end(begin(n)))
<1> HIDE DEF word
<1>9. \A n \in 1 .. Cardinality(begins) : word(n) \in Seq(STRING)
  BY <1>8 DEF word
<1>10. Words(line) = [n \in 1 .. Cardinality(begins) |-> word(n)]
  BY <1>7 DEF word
<1>11. QED
  BY <1>4, <1>9, <1>10

-------------------------------------------------------------------------------
(* Init and the steps.                                                     *)

LEMMA InputSizes == {IoBufLen, BigArg, InlineMax, MaxQuery, MaxArgs, MaxBulk} \subseteq Nat \ {0}
BY InputAssumption

LEMMA InputInitially == InputInit => InputIInv
<1> SUFFICES ASSUME InputInit PROVE InputIInv
  OBVIOUS
<1>1. Stream \in Seq(STRING)
  BY StreamType DEF InputInit
<1>2. InputTypeOK
  <2>1. 0 \in 0 .. Len(Stream)
    BY <1>1
  <2>2. <<>> \in Seq(STRING) /\ <<>> \in Seq(Seq(STRING)) /\ <<>> \in Seq(Seq(Seq(STRING)))
    OBVIOUS
  <2>3. 0 \in 0 .. Len(querybuf)
    BY DEF InputInit
  <2>4. 0 \in 0 .. MaxArgs /\ -1 \in -1 .. MaxBulk
    BY InputSizes
  <2>5. /\ taken = 0 /\ querybuf = <<>> /\ pos = 0 /\ multibulklen = 0 /\ bulklen = -1
        /\ argv = <<>> /\ executed = <<>>
    BY DEF InputInit
  <2>6. /\ stage \in {"idle", "input", "bulks", "closed", "overrun"} /\ held \in BOOLEAN
        /\ closing \in {"no", "malformed", "big"} /\ query \in Queries
        /\ reqtype \in {"none", "inline", "multibulk"} /\ everHeld \in BOOLEAN
    BY DEF InputInit
  <2>7. QED
    BY <2>1, <2>2, <2>3, <2>4, <2>5, <2>6 DEF InputTypeOK
<1>3. ParserInv /\ BigArgInv /\ BeginsAnew
  BY DEF InputInit, ParserInv, BigArgInv, BeginsAnew, ReadingBigArg
<1>4. UnreadInv
  <2>1. SubSeq(Stream, 0 + 1, 0) = <<>>
    BY SubSeqEmpty
  <2>2. 0 \in 0 .. 0
    OBVIOUS
  <2>3. Unread(Stream, 0, <<>>)
    BY <2>1, <2>2 DEF Unread
  <2>4. QED
    BY <2>3 DEF UnreadInv, InputInit
<1>5. QED
  BY <1>2, <1>3, <1>4 DEF InputIInv

(* What sdsrange leaves of the buffer.                                     *)
LEMMA WithoutFacts ==
  ASSUME InputIInv, NEW n \in 0 .. Len(querybuf) + 1
  PROVE  /\ Without(n) \in Seq(STRING)
         /\ Unread(Stream, taken, Without(n))
         /\ n <= Len(querybuf) => Len(Without(n)) = Len(querybuf) - n
<1>1. /\ Stream \in Seq(STRING) /\ taken \in 0 .. Len(Stream) /\ querybuf \in Seq(STRING)
      /\ Unread(Stream, taken, querybuf)
  BY StreamType DEF InputIInv, InputTypeOK, UnreadInv
<1>2. Unread(Stream, taken, Without(n))
  BY <1>1, UnreadTrimmed DEF Without
<1>3. ASSUME n <= Len(querybuf)
      PROVE  Without(n) \in Seq(STRING) /\ Len(Without(n)) = Len(querybuf) - n
  <2>1. n \in Nat /\ Len(querybuf) \in 0 .. Len(querybuf)
    BY <1>1
  <2>2. QED
    BY <1>1, <1>3, <2>1, SubSeqAfter DEF Without
<1>4. ASSUME n > Len(querybuf) PROVE Without(n) = <<>>
  <2>1. n + 1 \in Int /\ Len(querybuf) \in Int /\ Len(querybuf) < n + 1
    BY <1>1, <1>4
  <2>2. QED
    BY <2>1, SubSeqEmpty DEF Without
<1>5. n <= Len(querybuf) \/ n > Len(querybuf)
  BY <1>1
<1>6. <<>> \in Seq(STRING) /\ (n > Len(querybuf) => ~ n <= Len(querybuf))
  BY <1>1
<1>7. QED
  BY <1>2, <1>3, <1>4, <1>5, <1>6

(* Where a line ends that the parser has found.                            *)
LEMMA LineFacts ==
  ASSUME querybuf \in Seq(STRING), NEW b, NEW from \in 0 .. Len(querybuf)
  PROVE  /\ LineArrived(Find(querybuf, b, from)) =>
              Find(querybuf, b, from) \in from .. (Len(querybuf) - 2)
         /\ Find(querybuf, b, from) # -1 =>
              LineLen(Find(querybuf, b, from)) \in 0 .. (Len(querybuf) - 1)
<1> DEFINE at == Find(querybuf, b, from)
<1>0. Len(querybuf) \in Nat
  OBVIOUS
<1>1. at = -1 \/ at \in from .. (Len(querybuf) - 1)
  BY FindFacts
<1> HIDE DEF at
<1>2. LineArrived(at) => at \in from .. (Len(querybuf) - 2)
  BY <1>0, <1>1 DEF LineArrived
<1>3. at # -1 => LineLen(at) \in 0 .. (Len(querybuf) - 1)
  BY <1>0, <1>1 DEF LineLen
<1>4. QED
  BY <1>2, <1>3 DEF at

(* A step that leaves the query and what was read of it.                   *)
LEMMA SameStream ==
  ASSUME InputIInv, UNCHANGED <<query, taken>>
  PROVE  /\ Stream' = Stream /\ taken' \in 0 .. Len(Stream') /\ query' \in Queries
         /\ UnreadInv' <=> Unread(Stream, taken, querybuf')
BY DEF InputIInv, InputTypeOK, UnreadInv, Stream

LEMMA ReadKeeps == InputIInv /\ Read => InputIInv'
<1> SUFFICES ASSUME InputIInv, Read PROVE InputIInv'
  OBVIOUS
<1>1. /\ stage = "idle" /\ stage' \in {"overrun", "input"}
      /\ UNCHANGED <<held, closing, pos, reqtype, multibulklen, bulklen, argv, query, executed,
                     everHeld>>
  BY DEF Read, parser
<1>2. PICK n \in 1 .. ReadLen :
        /\ taken + n <= Len(Stream) /\ taken' = taken + n
        /\ querybuf' = querybuf \o SubSeq(Stream, taken + 1, taken + n)
  BY DEF Read
<1>3. /\ InputTypeOK /\ ParserInv /\ BigArgInv /\ BeginsAnew
      /\ Unread(Stream, taken, querybuf)
  BY DEF InputIInv, UnreadInv
<1>4. Stream \in Seq(STRING) /\ Stream' = Stream /\ Len(Stream) \in Nat
  BY <1>1, <1>3, StreamType DEF InputTypeOK, Stream
<1>5. /\ taken \in Nat /\ n \in Nat /\ n >= 1 /\ taken + n \in 0 .. Len(Stream)
      /\ taken + n - taken = n
  <2>1. taken \in Nat /\ bulklen \in Int /\ Len(querybuf) \in Nat
    BY <1>3, InputSizes DEF InputTypeOK
  <2>2. ReadLen \in Int
    BY <2>1, InputSizes DEF ReadLen, Remaining
  <2>3. QED
    BY <1>2, <1>4, <2>1, <2>2
<1> DEFINE more == SubSeq(Stream, taken + 1, taken + n)
<1>6. more \in Seq(STRING) /\ Len(more) = n
  BY <1>4, <1>5, SubSeqAfter
<1>7. querybuf \in Seq(STRING) /\ Len(querybuf) \in Nat
  BY <1>3 DEF InputTypeOK
<1>8. querybuf' = querybuf \o more
  BY <1>2
<1> HIDE DEF more
<1>9. /\ querybuf' \in Seq(STRING) /\ Len(querybuf') = Len(querybuf) + n
      /\ \A i \in 1 .. Len(querybuf) : querybuf'[i] = querybuf[i]
  BY <1>6, <1>7, <1>8, ConcatFacts
<1>10. Unread(Stream, taken + n, querybuf \o SubSeq(Stream, taken + 1, taken + n))
  BY <1>3, <1>4, <1>5, UnreadGrown
<1>11. UnreadInv'
  BY <1>2, <1>4, <1>10 DEF UnreadInv
<1>12. InputTypeOK'
  <2>1. taken' \in 0 .. Len(Stream')
    BY <1>2, <1>4, <1>5
  <2>2. pos' \in 0 .. Len(querybuf')
    BY <1>1, <1>3, <1>5, <1>7, <1>9 DEF InputTypeOK
  <2>3. QED
    BY <1>1, <1>3, <1>9, <2>1, <2>2 DEF InputTypeOK
<1>13. ParserInv'
  BY <1>1, <1>3 DEF ParserInv
<1>14. BeginsAnew'
  <2>1. ASSUME querybuf # <<>> PROVE querybuf' # <<>> /\ querybuf'[1] = querybuf[1]
    <3>1. 1 \in 1 .. Len(querybuf)
      BY <1>7, <2>1
    <3>2. Len(querybuf') # 0
      BY <1>5, <1>7, <1>9
    <3>3. QED
      BY <1>9, <3>1, <3>2
  <2>2. QED
    BY <1>1, <1>3, <2>1 DEF BeginsAnew
<1>15. BigArgInv'
  <2>1. SUFFICES ASSUME ReadingBigArg PROVE Len(querybuf') <= bulklen + 2
    BY <1>1 DEF BigArgInv, ReadingBigArg
  <2>2. Len(querybuf) <= bulklen + 2 /\ bulklen \in Int
    BY <1>1, <1>3, <2>1 DEF BigArgInv, InputTypeOK
  <2>3. ReadLen <= Remaining
    BY <1>7, <2>1, <2>2, InputSizes DEF ReadLen, Remaining
  <2>4. Remaining \in Int /\ ReadLen \in Int
    BY <1>7, <2>2, InputSizes DEF ReadLen, Remaining
  <2>5. n <= Remaining
    BY <1>2, <1>5, <2>3, <2>4
  <2>6. QED
    BY <1>5, <1>7, <1>9, <2>2, <2>5 DEF Remaining
<1>16. QED
  BY <1>11, <1>12, <1>13, <1>14, <1>15 DEF InputIInv

(* Steps that leave the buffer, the parser and what was executed alone.    *)
LEMMA StandstillKeepsInput ==
  ASSUME InputIInv,
         UNCHANGED <<closing, querybuf, pos, parser, query, taken, executed>>,
         stage' \in {"idle", "input", "bulks", "closed", "overrun"},
         held' \in BOOLEAN, everHeld' \in BOOLEAN,
         stage' \in {"idle", "input"} => stage \in {"idle", "input"},
         stage' # "bulks" => stage # "bulks",
         stage' = "bulks" => reqtype = "multibulk"
  PROVE  InputIInv'
<1>1. InputTypeOK /\ ParserInv /\ BigArgInv /\ BeginsAnew /\ Unread(Stream, taken, querybuf)
  BY DEF InputIInv, UnreadInv
<1>2. InputTypeOK' /\ UnreadInv'
  BY <1>1, SameStream DEF InputTypeOK, parser
<1>3. ParserInv' /\ BigArgInv' /\ BeginsAnew'
  BY <1>1 DEF ParserInv, BigArgInv, BeginsAnew, ReadingBigArg, parser
<1>4. QED
  BY <1>2, <1>3 DEF InputIInv

(* A command is executed, or a blank one is skipped, and its bytes are     *)
(* taken from the buffer.                                                  *)
LEMMA ExecuteKeeps ==
  ASSUME InputIInv, NEW args \in Seq(Seq(STRING)), Execute(args),
         NEW n \in 0 .. Len(querybuf) + 1, querybuf' = Without(n),
         UNCHANGED <<closing, query, taken>>, pos' = 0, stage' = "input"
  PROVE  InputIInv'
<1>1. InputTypeOK
  BY DEF InputIInv
<1>2. /\ querybuf' \in Seq(STRING) /\ Unread(Stream, taken, querybuf')
  BY WithoutFacts
<1>3. executed' \in Seq(Seq(Seq(STRING))) /\ held' \in BOOLEAN /\ everHeld' \in BOOLEAN
  <2>1. executed' \in Seq(Seq(Seq(STRING)))
    <3>1. executed' = executed \/ executed' = Append(executed, args)
      BY DEF Execute
    <3>2. executed \in Seq(Seq(Seq(STRING)))
      BY <1>1 DEF InputTypeOK
    <3>3. Append(executed, args) \in Seq(Seq(Seq(STRING)))
      BY <3>2, AppendProperties
    <3>4. QED
      BY <3>1, <3>2, <3>3
  <2>2. held' \in BOOLEAN
    BY <1>1 DEF InputTypeOK, Execute
  <2>3. everHeld' \in BOOLEAN
    <3>1. everHeld' = (everHeld \/ held')
      BY DEF Execute
    <3>2. QED
      BY <1>1, <2>2, <3>1 DEF InputTypeOK
  <2>4. QED
    BY <2>1, <2>2, <2>3
<1>4. reqtype' = "none" /\ multibulklen' = 0 /\ bulklen' = -1 /\ argv' = <<>>
  BY DEF Execute, resetClient
<1>5. UnreadInv'
  BY <1>2, SameStream
<1>6. InputTypeOK'
  <2>1. 0 \in 0 .. Len(querybuf') /\ 0 \in 0 .. MaxArgs /\ -1 \in -1 .. MaxBulk
    BY <1>2, InputSizes
  <2>2. <<>> \in Seq(Seq(STRING))
    OBVIOUS
  <2>3. QED
    BY <1>1, <1>2, <1>3, <1>4, <2>1, <2>2, SameStream DEF InputTypeOK
<1>7. ParserInv' /\ BigArgInv' /\ BeginsAnew'
  BY <1>4 DEF ParserInv, BigArgInv, BeginsAnew, ReadingBigArg
<1>8. QED
  BY <1>5, <1>6, <1>7 DEF InputIInv

(* An error ends the processing of what is in the buffer.                  *)
LEMMA ErrorKeeps ==
  ASSUME InputIInv, NEW why \in {"malformed", "big"}, NEW from \in 0 .. Len(querybuf),
         ProtocolError(why, from), UNCHANGED <<multibulklen, bulklen, argv>>,
         reqtype' \in {"inline", "multibulk"}, bulklen = -1,
         reqtype' = "inline" => reqtype # "multibulk"
  PROVE  InputIInv'
<1>1. InputTypeOK /\ ParserInv
  BY DEF InputIInv
<1>2. /\ querybuf' = Without(from) /\ pos' = 0 /\ stage' = "idle" /\ closing' = why
      /\ UNCHANGED <<held, query, taken, executed, everHeld>>
  BY DEF ProtocolError
<1>3. Len(querybuf) \in Nat /\ from \in 0 .. Len(querybuf) + 1
  BY <1>1 DEF InputTypeOK
<1>4. querybuf' \in Seq(STRING) /\ Unread(Stream, taken, querybuf')
  BY <1>2, <1>3, WithoutFacts
<1>5. UnreadInv'
  BY <1>2, <1>4, SameStream
<1>6. InputTypeOK'
  <2>1. 0 \in 0 .. Len(querybuf')
    BY <1>4
  <2>2. QED
    BY <1>1, <1>2, <1>4, <2>1, SameStream DEF InputTypeOK
<1>7. ParserInv' /\ BigArgInv' /\ BeginsAnew'
  BY <1>1, <1>2, InputSizes DEF ParserInv, BigArgInv, BeginsAnew, ReadingBigArg
<1>8. QED
  BY <1>5, <1>6, <1>7 DEF InputIInv

(* A command of which more must arrive is left in the buffer.              *)
LEMMA WaitKeeps ==
  ASSUME InputIInv, NEW type \in {"inline", "multibulk"}, Parses(type), WaitForMore(type),
         type = "multibulk" => multibulklen = 0
  PROVE  InputIInv'
<1>1. InputTypeOK /\ ParserInv /\ BigArgInv /\ BeginsAnew /\ Unread(Stream, taken, querybuf)
  BY DEF InputIInv, UnreadInv
<1>2. /\ reqtype' = type /\ stage = "input" /\ stage' = "idle" /\ RequestType = type
      /\ UNCHANGED <<held, closing, querybuf, pos, multibulklen, bulklen, argv, query, taken,
                     executed, everHeld>>
      /\ querybuf # <<>>
  BY DEF WaitForMore, Parses
<1>3. UnreadInv' /\ InputTypeOK'
  BY <1>1, <1>2, SameStream DEF InputTypeOK
<1>4. type = "inline" => reqtype # "multibulk"
  BY <1>2 DEF RequestType
<1>5. type = "multibulk" /\ reqtype # "multibulk" => querybuf[1] = "*"
  BY <1>2 DEF RequestType
<1>6. ParserInv'
  BY <1>1, <1>2, <1>4 DEF ParserInv
<1>7. type = "inline" => querybuf[1] # "*"
  <2>1. closing = "no"
    BY DEF Parses
  <2>2. reqtype = "none" \/ reqtype = "inline" \/ reqtype = "multibulk"
    BY <1>1 DEF InputTypeOK
  <2>3. QED
    BY <1>1, <1>2, <2>1, <2>2 DEF RequestType, BeginsAnew
<1>8. BeginsAnew'
  BY <1>1, <1>2, <1>5, <1>7 DEF ParserInv, BeginsAnew
<1>9. BigArgInv'
  BY <1>1, <1>2, <1>4 DEF ParserInv, BigArgInv, ReadingBigArg
<1>10. QED
  BY <1>3, <1>6, <1>8, <1>9 DEF InputIInv

LEMMA InlineKeeps == InputIInv /\ (InlineIncomplete \/ Inline) => InputIInv'
<1> SUFFICES ASSUME InputIInv, InlineIncomplete \/ Inline PROVE InputIInv'
  OBVIOUS
<1>1. InputTypeOK /\ ParserInv
  BY DEF InputIInv
<1>2. Parses("inline") /\ stage = "input" /\ pos = 0 /\ reqtype # "multibulk"
  BY <1>1 DEF InlineIncomplete, Inline, Parses, RequestType, ParserInv
<1>3. bulklen = -1 /\ Len(querybuf) \in Nat /\ 0 \in 0 .. Len(querybuf)
  BY <1>1, <1>2 DEF ParserInv, InputTypeOK
<1>4. CASE InlineIncomplete
  <2>1. CASE ProtocolError("big", 0) /\ reqtype' = "inline"
             /\ UNCHANGED <<multibulklen, bulklen, argv>>
    BY <1>2, <1>3, <2>1, ErrorKeeps
  <2>2. CASE WaitForMore("inline")
    BY <1>2, <2>2, WaitKeeps
  <2>3. QED
    BY <1>4, <2>1, <2>2 DEF InlineIncomplete
<1>5. CASE Inline
  <2> DEFINE newline == Find(querybuf, LF, 0)
             line == SubSeq(querybuf, 1, LineLen(newline))
  <2>1. newline # -1
    BY <1>5 DEF Inline
  <2>2. LineLen(newline) \in 0 .. (Len(querybuf) - 1)
    BY <1>1, <1>3, <2>1, LineFacts DEF InputTypeOK
  <2>3. \/ /\ ProtocolError("malformed", 0) /\ reqtype' = "inline"
           /\ UNCHANGED <<multibulklen, bulklen, argv>>
        \/ /\ Execute(Words(line))
           /\ querybuf' = Without(LineLen(newline) + 2)
           /\ UNCHANGED <<stage, closing, pos, query, taken>>
    BY <1>5 DEF Inline
  <2> HIDE DEF newline
  <2>4. line \in Seq(STRING)
    <3>1. \A i \in 1 .. LineLen(newline) : querybuf[i] \in STRING
      BY <1>1, <1>3, <2>2 DEF InputTypeOK
    <3>2. 1 \in Int /\ LineLen(newline) \in Int
      BY <1>3, <2>2
    <3>3. QED
      BY <3>1, <3>2, SubSeqProperties
  <2> HIDE DEF line
  <2>5. Words(line) \in Seq(Seq(STRING))
    BY <2>4, WordsType
  <2>6. LineLen(newline) + 2 \in 0 .. Len(querybuf) + 1
    BY <1>3, <2>2
  <2>7. CASE ProtocolError("malformed", 0) /\ reqtype' = "inline"
             /\ UNCHANGED <<multibulklen, bulklen, argv>>
    BY <1>2, <1>3, <2>7, ErrorKeeps
  <2>8. CASE /\ Execute(Words(line))
             /\ querybuf' = Without(LineLen(newline) + 2)
             /\ UNCHANGED <<stage, closing, pos, query, taken>>
    <3>1. pos' = 0 /\ stage' = "input" /\ UNCHANGED <<closing, query, taken>>
      BY <1>2, <2>8
    <3>2. QED
      BY <2>5, <2>6, <2>8, <3>1, ExecuteKeeps
  <2>9. QED
    BY <2>3, <2>7, <2>8
<1>6. QED
  BY <1>4, <1>5

LEMMA CountKeeps == InputIInv /\ (CountIncomplete \/ Count) => InputIInv'
<1> SUFFICES ASSUME InputIInv, CountIncomplete \/ Count PROVE InputIInv'
  OBVIOUS
<1>1. InputTypeOK /\ ParserInv /\ Unread(Stream, taken, querybuf)
  BY DEF InputIInv, UnreadInv
<1>2. Parses("multibulk") /\ stage = "input" /\ pos = 0 /\ multibulklen = 0 /\ bulklen = -1
  BY <1>1 DEF CountIncomplete, Count, Parses, ParserInv, InputTypeOK
<1>3. Len(querybuf) \in Nat /\ 0 \in 0 .. Len(querybuf) /\ querybuf \in Seq(STRING)
  BY <1>1 DEF InputTypeOK
<1>4. CASE CountIncomplete
  <2>1. CASE ProtocolError("big", 0) /\ reqtype' = "multibulk"
             /\ UNCHANGED <<multibulklen, bulklen, argv>>
    BY <1>2, <1>3, <2>1, ErrorKeeps
  <2>2. CASE WaitForMore("multibulk")
    BY <1>2, <2>2, WaitKeeps
  <2>3. QED
    BY <1>4, <2>1, <2>2 DEF CountIncomplete
<1>5. CASE Count
  <2> DEFINE newline == Find(querybuf, CR, 0)
             number == Number(SubSeq(querybuf, 2, newline))
  <2>1. newline \in 0 .. (Len(querybuf) - 2)
    BY <1>3, <1>5, LineFacts DEF Count
  <2>2. \/ /\ number \in 1 .. MaxArgs
           /\ reqtype' = "multibulk" /\ multibulklen' = number /\ pos' = newline + 2
           /\ stage' = "bulks"
           /\ UNCHANGED <<held, closing, querybuf, bulklen, argv, query, taken, executed,
                          everHeld>>
        \/ /\ Execute(<<>>)
           /\ querybuf' = Without(newline + 2)
           /\ UNCHANGED <<stage, closing, pos, query, taken>>
        \/ /\ ProtocolError("malformed", 0)
           /\ reqtype' = "multibulk"
           /\ UNCHANGED <<multibulklen, bulklen, argv>>
    BY <1>5 DEF Count
  <2> HIDE DEF newline, number
  <2>3. newline + 2 \in 0 .. Len(querybuf) /\ newline + 2 \in 0 .. Len(querybuf) + 1
    BY <1>3, <2>1
  <2>4. CASE /\ number \in 1 .. MaxArgs
             /\ reqtype' = "multibulk" /\ multibulklen' = number /\ pos' = newline + 2
             /\ stage' = "bulks"
             /\ UNCHANGED <<held, closing, querybuf, bulklen, argv, query, taken, executed,
                            everHeld>>
    <3>1. number \in 0 .. MaxArgs /\ number > 0
      BY <2>4, InputSizes
    <3>2. InputTypeOK'
      BY <1>1, <2>3, <2>4, <3>1, SameStream DEF InputTypeOK
    <3>3. UnreadInv'
      BY <1>1, <2>4, SameStream
    <3>4. ParserInv' /\ BigArgInv' /\ BeginsAnew'
      BY <1>2, <2>4, <3>1 DEF ParserInv, BigArgInv, BeginsAnew
    <3>5. QED
      BY <3>2, <3>3, <3>4 DEF InputIInv
  <2>5. CASE /\ Execute(<<>>)
             /\ querybuf' = Without(newline + 2)
             /\ UNCHANGED <<stage, closing, pos, query, taken>>
    <3>1. <<>> \in Seq(Seq(STRING))
      OBVIOUS
    <3>2. pos' = 0 /\ stage' = "input" /\ UNCHANGED <<closing, query, taken>>
      BY <1>2, <2>5
    <3>3. QED
      BY <2>3, <2>5, <3>1, <3>2, ExecuteKeeps
  <2>6. CASE /\ ProtocolError("malformed", 0)
             /\ reqtype' = "multibulk"
             /\ UNCHANGED <<multibulklen, bulklen, argv>>
    BY <1>2, <1>3, <2>6, ErrorKeeps
  <2>7. QED
    BY <2>2, <2>4, <2>5, <2>6
<1>6. QED
  BY <1>4, <1>5

(* The loop over the arguments: the buffer is trimmed to where it stands,  *)
(* or to where a large argument begins.                                    *)
LEMMA BulksKeep ==
  ASSUME InputIInv, stage = "bulks", stage' \in {"idle", "bulks"},
         NEW n \in 0 .. Len(querybuf), querybuf' = Without(n), pos' = 0,
         bulklen' \in -1 .. MaxBulk, multibulklen > 0,
         stage' = "idle" => Len(Without(n)) <= bulklen' + 2 \/ bulklen' = -1,
         UNCHANGED <<held, closing, reqtype, multibulklen, argv, query, taken, executed,
                     everHeld>>
  PROVE  InputIInv'
<1>1. InputTypeOK /\ ParserInv
  BY DEF InputIInv
<1>2. n \in 0 .. Len(querybuf) + 1
  BY <1>1 DEF InputTypeOK
<1>3. querybuf' \in Seq(STRING) /\ Unread(Stream, taken, querybuf')
  BY <1>2, WithoutFacts
<1>4. 0 \in 0 .. Len(querybuf')
  BY <1>3
<1>5. InputTypeOK' /\ UnreadInv'
  BY <1>1, <1>3, <1>4, SameStream DEF InputTypeOK
<1>6. ParserInv'
  BY <1>1 DEF ParserInv
<1>7. BeginsAnew' /\ BigArgInv'
  BY <1>1, InputSizes DEF ParserInv, BeginsAnew, BigArgInv, ReadingBigArg
<1>8. QED
  BY <1>5, <1>6, <1>7 DEF InputIInv

LEMMA LengthKeeps == InputIInv /\ (LengthIncomplete \/ Length) => InputIInv'
<1> SUFFICES ASSUME InputIInv, LengthIncomplete \/ Length PROVE InputIInv'
  OBVIOUS
<1>1. InputTypeOK /\ ParserInv
  BY DEF InputIInv
<1>2. stage = "bulks" /\ multibulklen > 0 /\ bulklen = -1 /\ reqtype = "multibulk"
  BY <1>1 DEF LengthIncomplete, Length, ParserInv
<1>3. Len(querybuf) \in Nat /\ pos \in 0 .. Len(querybuf) /\ querybuf \in Seq(STRING)
  BY <1>1 DEF InputTypeOK
<1>4. ASSUME NEW why \in {"malformed", "big"}, NEW from \in 0 .. Len(querybuf),
             ProtocolError(why, from), UNCHANGED parser
      PROVE  InputIInv'
  <2>1. /\ UNCHANGED <<multibulklen, bulklen, argv>>
        /\ reqtype' \in {"inline", "multibulk"} /\ reqtype' # "inline"
    BY <1>2, <1>4 DEF parser
  <2>2. QED
    BY <1>2, <1>4, <2>1, ErrorKeeps
<1>5. CASE LengthIncomplete
  <2>1. CASE ProtocolError("big", 0)
    <3>1. 0 \in 0 .. Len(querybuf)
      BY <1>3
    <3>2. UNCHANGED parser
      BY <1>5 DEF LengthIncomplete
    <3>3. QED
      BY <1>4, <2>1, <3>1, <3>2
  <2>2. CASE /\ querybuf' = Unparsed /\ pos' = 0 /\ stage' = "idle"
             /\ UNCHANGED <<held, closing, query, taken, executed, everHeld>>
    <3>1. UNCHANGED <<reqtype, multibulklen, bulklen, argv>>
      BY <1>5 DEF LengthIncomplete, parser
    <3>2. querybuf' = Without(pos)
      BY <2>2 DEF Unparsed
    <3>3. bulklen' \in -1 .. MaxBulk /\ bulklen' = -1 /\ stage' \in {"idle", "bulks"}
      BY <1>1, <1>2, <2>2, <3>1 DEF InputTypeOK
    <3>4. QED
      BY <1>2, <1>3, <2>2, <3>1, <3>2, <3>3, BulksKeep
  <2>3. QED
    BY <1>5, <2>1, <2>2 DEF LengthIncomplete
<1>6. CASE Length
  <2> DEFINE newline == Find(querybuf, CR, pos)
             number == Number(SubSeq(querybuf, pos + 2, newline))
  <2>1. newline \in pos .. (Len(querybuf) - 2)
    BY <1>3, <1>6, LineFacts DEF Length
  <2>2. \/ ProtocolError("malformed", pos) /\ UNCHANGED parser
        \/ /\ number \in 0 .. MaxBulk /\ bulklen' = number
           /\ \/ querybuf' = Without(newline + 2) /\ pos' = 0
              \/ pos' = newline + 2 /\ UNCHANGED querybuf
           /\ UNCHANGED <<stage, held, closing, reqtype, multibulklen, argv, query, taken,
                          executed, everHeld>>
    BY <1>6 DEF Length
  <2> HIDE DEF newline, number
  <2>3. newline + 2 \in 0 .. Len(querybuf)
    BY <1>3, <2>1
  <2>4. CASE ProtocolError("malformed", pos) /\ UNCHANGED parser
    BY <1>3, <1>4, <2>4
  <2>5. CASE /\ number \in 0 .. MaxBulk /\ bulklen' = number
             /\ querybuf' = Without(newline + 2) /\ pos' = 0
             /\ UNCHANGED <<stage, held, closing, reqtype, multibulklen, argv, query, taken,
                            executed, everHeld>>
    <3>1. bulklen' \in -1 .. MaxBulk /\ stage' \in {"idle", "bulks"} /\ stage' # "idle"
      BY <1>2, <2>5, InputSizes
    <3>2. QED
      BY <1>2, <2>3, <2>5, <3>1, BulksKeep
  <2>6. CASE /\ number \in 0 .. MaxBulk /\ bulklen' = number
             /\ pos' = newline + 2 /\ UNCHANGED querybuf
             /\ UNCHANGED <<stage, held, closing, reqtype, multibulklen, argv, query, taken,
                            executed, everHeld>>
    <3>1. bulklen' \in -1 .. MaxBulk
      BY <2>6, InputSizes
    <3>2. InputTypeOK'
      BY <1>1, <2>3, <2>6, <3>1, SameStream DEF InputTypeOK
    <3>3. UnreadInv'
      BY <2>6, SameStream DEF InputIInv, UnreadInv
    <3>4. ParserInv' /\ BigArgInv' /\ BeginsAnew'
      BY <1>1, <1>2, <2>6 DEF ParserInv, BigArgInv, BeginsAnew
    <3>5. QED
      BY <3>2, <3>3, <3>4 DEF InputIInv
  <2>7. QED
    BY <2>2, <2>4, <2>5, <2>6
<1>7. QED
  BY <1>5, <1>6

LEMMA ArgKeeps == InputIInv /\ (ArgIncomplete \/ Arg) => InputIInv'
<1> SUFFICES ASSUME InputIInv, ArgIncomplete \/ Arg PROVE InputIInv'
  OBVIOUS
<1>1. InputTypeOK /\ ParserInv
  BY DEF InputIInv
<1>2. /\ stage = "bulks" /\ multibulklen > 0 /\ bulklen # -1 /\ reqtype = "multibulk"
      /\ multibulklen \in 1 .. MaxArgs
  BY <1>1, InputSizes DEF ArgIncomplete, Arg, ParserInv, InputTypeOK
<1>3. /\ Len(querybuf) \in Nat /\ pos \in 0 .. Len(querybuf) /\ querybuf \in Seq(STRING)
      /\ bulklen \in 0 .. MaxBulk
  BY <1>1, <1>2, InputSizes DEF InputTypeOK
<1>4. CASE ArgIncomplete
  <2>1. /\ querybuf' = Without(pos) /\ pos' = 0 /\ stage' = "idle"
        /\ UNCHANGED <<held, closing, reqtype, multibulklen, bulklen, argv, query, taken,
                       executed, everHeld>>
    BY <1>4 DEF ArgIncomplete, parser, Unparsed
  <2>2. Len(Without(pos)) = Len(querybuf) - pos
    BY <1>3, WithoutFacts
  <2>3. Len(Without(pos)) <= bulklen' + 2
    BY <1>3, <1>4, <2>1, <2>2 DEF ArgIncomplete, ArgArrived
  <2>4. bulklen' \in -1 .. MaxBulk /\ stage' \in {"idle", "bulks"}
    BY <1>3, <2>1
  <2>5. QED
    BY <1>2, <1>3, <2>1, <2>3, <2>4, BulksKeep
<1>5. CASE Arg
  <2> DEFINE arg == SubSeq(querybuf, pos + 1, pos + bulklen)
  <2>1. /\ argv' = Append(argv, arg) /\ bulklen' = -1 /\ multibulklen' = multibulklen - 1
        /\ \/ querybuf' = <<>> /\ pos' = 0
           \/ pos' = pos + bulklen + 2 /\ UNCHANGED querybuf
        /\ UNCHANGED <<stage, held, closing, reqtype, query, taken, executed, everHeld>>
    BY <1>5 DEF Arg
  <2>2. Len(querybuf) - pos >= bulklen + 2
    BY <1>5 DEF Arg, ArgArrived
  <2>3. arg \in Seq(STRING)
    <3>1. pos \in Nat /\ pos + bulklen \in 0 .. Len(querybuf) /\ pos <= pos + bulklen
      BY <1>3, <2>2
    <3>2. QED
      BY <1>3, <3>1, SubSeqAfter
  <2> HIDE DEF arg
  <2>4. argv' \in Seq(Seq(STRING))
    BY <1>1, <2>1, <2>3, AppendProperties DEF InputTypeOK
  <2>5. /\ querybuf' \in Seq(STRING) /\ pos' \in 0 .. Len(querybuf')
        /\ Unread(Stream, taken, querybuf')
    <3>1. CASE querybuf' = <<>> /\ pos' = 0
      <4>1. Len(querybuf) + 1 \in Int /\ Len(querybuf) \in Int /\ Len(querybuf) < Len(querybuf) + 1
            /\ Len(querybuf) \in 0 .. Len(querybuf) + 1
        BY <1>3
      <4>2. Without(Len(querybuf)) = <<>>
        BY <4>1, SubSeqEmpty DEF Without
      <4>3. Unread(Stream, taken, <<>>)
        BY <4>1, <4>2, WithoutFacts
      <4>4. <<>> \in Seq(STRING) /\ 0 \in 0 .. Len(<<>>)
        OBVIOUS
      <4>5. QED
        BY <3>1, <4>3, <4>4
    <3>2. CASE pos' = pos + bulklen + 2 /\ UNCHANGED querybuf
      <4>1. pos + bulklen + 2 \in 0 .. Len(querybuf)
        BY <1>3, <2>2
      <4>2. QED
        BY <1>3, <3>2, <4>1 DEF InputIInv, UnreadInv
    <3>3. QED
      BY <2>1, <3>1, <3>2
  <2>6. multibulklen' \in 0 .. MaxArgs /\ bulklen' \in -1 .. MaxBulk
    BY <1>2, <2>1, InputSizes
  <2>7. InputTypeOK'
    BY <1>1, <2>1, <2>4, <2>5, <2>6, SameStream DEF InputTypeOK
  <2>8. UnreadInv'
    BY <2>1, <2>5, SameStream
  <2>9. ParserInv' /\ BigArgInv' /\ BeginsAnew'
    BY <1>1, <1>2, <2>1 DEF ParserInv, BigArgInv, BeginsAnew
  <2>10. QED
    BY <2>7, <2>8, <2>9 DEF InputIInv
<1>6. QED
  BY <1>4, <1>5

LEMMA ArgsDoneKeeps == InputIInv /\ ArgsDone => InputIInv'
<1> SUFFICES ASSUME InputIInv, ArgsDone PROVE InputIInv'
  OBVIOUS
<1>1. pos \in 0 .. Len(querybuf) + 1 /\ argv \in Seq(Seq(STRING))
  BY DEF InputIInv, InputTypeOK
<1>2. /\ Execute(argv) /\ querybuf' = Without(pos) /\ pos' = 0 /\ stage' = "input"
      /\ UNCHANGED <<closing, query, taken>>
  BY DEF ArgsDone, Unparsed
<1>3. QED
  BY <1>1, <1>2, ExecuteKeeps

LEMMA InputKeeps == InputIInv /\ [InputNext]_inputVars => InputIInv'
<1> SUFFICES ASSUME InputIInv, [InputNext]_inputVars PROVE InputIInv'
  OBVIOUS
<1>1. CASE Read
  BY <1>1, ReadKeeps
<1>2. CASE ReadEnd \/ Hold \/ Resume \/ InputEnds \/ TakeUp \/ UNCHANGED inputVars
  <2>1. held \in BOOLEAN /\ everHeld \in BOOLEAN
        /\ stage \in {"idle", "input", "bulks", "closed", "overrun"}
    BY DEF InputIInv, InputTypeOK
  <2>2. stage = "bulks" => reqtype = "multibulk"
    BY DEF InputIInv, ParserInv
  <2>3. UNCHANGED <<closing, querybuf, pos, parser, query, taken, executed>>
    BY <1>2 DEF ReadEnd, Hold, Resume, InputEnds, TakeUp, inputVars
  <2>4. held' \in BOOLEAN /\ everHeld' \in BOOLEAN
    BY <1>2, <2>1 DEF ReadEnd, Hold, Resume, InputEnds, TakeUp, inputVars
  <2>5. stage' = "bulks" => reqtype = "multibulk"
    <3>1. CASE TakeUp
      <4>1. RequestType = "multibulk" /\ multibulklen > 0
        BY <3>1 DEF TakeUp, Parses
      <4>2. reqtype # "multibulk" => multibulklen = 0
        BY DEF InputIInv, ParserInv
      <4>3. QED
        BY <4>1, <4>2
    <3>2. CASE ~TakeUp
      BY <1>2, <2>2, <3>2 DEF ReadEnd, Hold, Resume, InputEnds, inputVars
    <3>3. QED
      BY <3>1, <3>2
  <2>6. /\ stage' \in {"idle", "input", "bulks", "closed", "overrun"}
        /\ stage' \in {"idle", "input"} => stage \in {"idle", "input"}
        /\ stage' # "bulks" => stage # "bulks"
    BY <1>2, <2>1 DEF ReadEnd, Hold, Resume, InputEnds, TakeUp, Parses, inputVars
  <2>7. QED
    BY <2>3, <2>4, <2>5, <2>6, StandstillKeepsInput
<1>3. CASE InlineIncomplete \/ Inline
  BY <1>3, InlineKeeps
<1>4. CASE CountIncomplete \/ Count
  BY <1>4, CountKeeps
<1>5. CASE LengthIncomplete \/ Length
  BY <1>5, LengthKeeps
<1>6. CASE ArgIncomplete \/ Arg
  BY <1>6, ArgKeeps
<1>7. CASE ArgsDone
  BY <1>7, ArgsDoneKeeps
<1>8. QED
  BY <1>1, <1>2, <1>3, <1>4, <1>5, <1>6, <1>7
     DEF InputNext, readQueryFromClient, processInputBuffer, processMultibulkBuffer

(* The invariant that the theorem below rests on, for every query, however *)
(* it is cut into reads, and every size of reads, lines and arguments.     *)
THEOREM InputInductive == InputSpec => []InputIInv
<1>1. QED
  BY InputInitially, InputKeeps, PTL DEF InputSpec

(* read is never asked for a negative number of bytes while a large        *)
(* argument is read, and what processMultibulkBuffer asserts when it       *)
(* begins anew and when it goes on is so, for every query, malformed ones  *)
(* too: readQueryFromClient, processInputBuffer, networking.c.             *)
THEOREM AssertionsHold == InputSpec => []AssertInv
<1>1. InputIInv => AssertInv
  <2> SUFFICES ASSUME InputIInv PROVE AssertInv
    OBVIOUS
  <2>1. InputTypeOK /\ ParserInv /\ BigArgInv /\ BeginsAnew
    BY DEF InputIInv
  <2>2. stage = "idle" /\ ReadingBigArg => 0 <= Remaining /\ ReadLen >= 0
    <3>1. SUFFICES ASSUME stage = "idle", ReadingBigArg PROVE 0 <= Remaining /\ ReadLen >= 0
      OBVIOUS
    <3>2. Len(querybuf) <= bulklen + 2 /\ Len(querybuf) \in Nat /\ bulklen \in Int
      BY <2>1, <3>1, InputSizes DEF BigArgInv, InputTypeOK
    <3>3. 0 <= Remaining
      BY <3>2 DEF Remaining
    <3>4. IoBufLen \in Nat
      BY InputSizes
    <3>5. QED
      BY <3>3, <3>4 DEF ReadLen
  <2>3. stage = "input" /\ reqtype = "multibulk" /\ multibulklen = 0 /\ closing = "no" =>
          argv = <<>> /\ bulklen = -1 /\ querybuf # <<>> /\ querybuf[1] = "*"
    <3>1. multibulklen = 0 => bulklen = -1
      BY <2>1 DEF ParserInv, InputTypeOK
    <3>2. QED
      BY <2>1, <3>1 DEF BeginsAnew
  <2>4. bulklen # -1 => multibulklen > 0
    BY <2>1 DEF ParserInv
  <2>5. QED
    BY <2>1, <2>2, <2>3, <2>4 DEF AssertInv
<1>2. QED
  BY <1>1, InputInductive, PTL

-------------------------------------------------------------------------------
(* The stream of requests. *)

\* In the loop over the arguments nothing has gone wrong, and a command that lacks none of
\* them has at least one.
LoopInv == stage = "bulks" => closing = "no" /\ (multibulklen = 0 => argv # <<>>)

LEMMA AppendAny ==
  ASSUME NEW S, NEW s \in Seq(S), NEW e
  PROVE  Append(s, e) # <<>>
<1>1. s \in Seq(S \union {e}) /\ e \in S \union {e}
  OBVIOUS
<1>2. QED
  BY <1>1, AppendProperties

LEMMA LoopKeeps == InputIInv /\ LoopInv /\ [InputNext]_inputVars => LoopInv'
<1> SUFFICES ASSUME InputIInv, LoopInv, [InputNext]_inputVars, stage' = "bulks"
             PROVE  closing' = "no" /\ (multibulklen' = 0 => argv' # <<>>)
  BY DEF LoopInv
<1>1. InputTypeOK
  BY DEF InputIInv
<1>2. CASE Count
  <2>1. closing = "no" /\ stage = "input"
    BY <1>2 DEF Count, Parses
  <2>2. multibulklen' \in 1 .. MaxArgs /\ closing' = closing
    BY <1>2, <2>1 DEF Count, Execute, ProtocolError
  <2>3. QED
    BY <2>1, <2>2, InputSizes
<1>3. CASE TakeUp
  BY <1>3 DEF TakeUp, Parses, parser
<1>4. CASE LengthIncomplete \/ Length
  BY <1>4 DEF LoopInv, LengthIncomplete, Length, ProtocolError, parser
<1>5. CASE Arg
  <2>1. argv' = Append(argv, SubSeq(querybuf, pos + 1, pos + bulklen)) /\ closing' = closing
        /\ stage = "bulks"
    BY <1>5 DEF Arg
  <2>2. argv \in Seq(Seq(STRING))
    BY <1>1 DEF InputTypeOK
  <2>3. \A e : Append(argv, e) # <<>>
    BY <2>2, AppendAny
  <2>4. QED
    BY <2>1, <2>3 DEF LoopInv
<1>6. CASE ArgIncomplete \/ ArgsDone \/ Read \/ ReadEnd \/ Hold \/ Resume \/ InputEnds
  BY <1>6 DEF ArgIncomplete, ArgsDone, Read, ReadEnd, Hold, Resume, InputEnds
<1>7. CASE InlineIncomplete \/ Inline \/ CountIncomplete
  BY <1>7 DEF InlineIncomplete, Inline, CountIncomplete, Parses, WaitForMore, ProtocolError
<1>8. CASE UNCHANGED inputVars
  BY <1>8 DEF LoopInv, inputVars, parser
<1>9. QED
  BY <1>2, <1>3, <1>4, <1>5, <1>6, <1>7, <1>8
     DEF InputNext, readQueryFromClient, processInputBuffer, processMultibulkBuffer

THEOREM LoopInductive == InputSpec => []LoopInv
<1>1. InputInit => LoopInv
  BY DEF InputInit, LoopInv
<1>2. QED
  BY <1>1, LoopKeeps, InputInductive, PTL DEF InputSpec

-------------------------------------------------------------------------------
(* What is in the buffer is found in the stream, as far behind.            *)

Begun(t, b) == t - Len(b)

LEMMA Window ==
  ASSUME NEW s \in Seq(STRING), NEW t \in 0 .. Len(s), NEW b, Unread(s, t, b)
  PROVE  /\ b \in Seq(STRING) /\ Len(b) \in Nat /\ Begun(t, b) \in Nat
         /\ Begun(t, b) + Len(b) = t
         /\ \A i \in 1 .. Len(b) : b[i] = s[Begun(t, b) + i]
<1>1. PICK c \in 0 .. t : b = SubSeq(s, c + 1, t)
  BY DEF Unread
<1>2. b \in Seq(STRING) /\ Len(b) = t - c /\ \A i \in 1 .. (t - c) : b[i] = s[c + i]
  BY <1>1, SubSeqAfter
<1>3. t - Len(b) = c /\ Len(b) \in Nat /\ c \in Nat /\ c + Len(b) = t
  BY <1>2
<1>4. QED
  BY <1>2, <1>3 DEF Begun

LEMMA WindowPart ==
  ASSUME NEW s \in Seq(STRING), NEW t \in 0 .. Len(s), NEW b, Unread(s, t, b),
         NEW m \in Nat, NEW n \in 0 .. Len(b)
  PROVE  SubSeq(b, m + 1, n) = SubSeq(s, Begun(t, b) + m + 1, Begun(t, b) + n)
<1> DEFINE c == Begun(t, b)
           part == SubSeq(b, m + 1, n)
           same == SubSeq(s, (c + m) + 1, c + n)
<1>1. /\ b \in Seq(STRING) /\ Len(b) \in Nat /\ c \in Nat /\ c + Len(b) = t
      /\ \A i \in 1 .. Len(b) : b[i] = s[c + i]
  BY Window
<1> HIDE DEF c
<1>2. CASE m <= n
  <2>1. c + m \in Nat /\ c + n \in 0 .. Len(s) /\ c + m <= c + n /\ (c + n) - (c + m) = n - m
    BY <1>1, <1>2
  <2>2. part \in Seq(STRING) /\ Len(part) = n - m /\ \A i \in 1 .. (n - m) : part[i] = b[m + i]
    BY <1>1, <1>2, SubSeqAfter
  <2>3. /\ same \in Seq(STRING) /\ Len(same) = n - m
        /\ \A i \in 1 .. (n - m) : same[i] = s[(c + m) + i]
    BY ONLY s \in Seq(STRING), <2>1, SubSeqAfter, SMTT(30)
  <2> HIDE DEF part, same
  <2>4. ASSUME NEW i \in 1 .. (n - m) PROVE part[i] = same[i]
    <3>1. m + i \in 1 .. Len(b) /\ c + (m + i) = (c + m) + i
      BY <1>1, <1>2
    <3>2. QED
      BY <1>1, <2>2, <2>3, <3>1
  <2>5. part = same
    <3>1. \A i \in 1 .. (n - m) : part[i] = same[i]
      BY <2>4
    <3>2. QED
      BY <2>2, <2>3, <3>1, EqualSequences
  <2>6. c + m + 1 = (c + m) + 1
    BY <1>1
  <2>7. QED
    BY <2>5, <2>6 DEF part, same, c
<1>3. CASE n < m
  <2>1. /\ m + 1 \in Int /\ n \in Int /\ n < m + 1
        /\ (c + m + 1) \in Int /\ c + n \in Int /\ c + n < c + m + 1
    BY <1>1, <1>3
  <2>2. SubSeq(b, m + 1, n) = <<>> /\ SubSeq(s, c + m + 1, c + n) = <<>>
    BY <2>1, SubSeqEmpty
  <2>3. QED
    BY <2>2 DEF c
<1>4. m <= n \/ n < m
  BY <1>1
<1>5. QED
  BY <1>2, <1>3, <1>4

(* What is found in the buffer is what is found in the stream; what is not *)
(* is not in the part of the stream that was read.                         *)
LEMMA WindowFind ==
  ASSUME NEW s \in Seq(STRING), NEW t \in 0 .. Len(s), NEW b, Unread(s, t, b),
         NEW x, NEW from \in 0 .. Len(b)
  PROVE  /\ Find(b, x, from) # -1 =>
              Find(s, x, Begun(t, b) + from) = Begun(t, b) + Find(b, x, from)
         /\ Find(b, x, from) = -1 => Find(s, x, Begun(t, b) + from) \notin 0 .. (t - 1)
<1> DEFINE c == Begun(t, b)
           here == Find(b, x, from)
           there == Find(s, x, c + from)
<1>1. /\ b \in Seq(STRING) /\ Len(b) \in Nat /\ c \in Nat /\ c + Len(b) = t
      /\ \A i \in 1 .. Len(b) : b[i] = s[c + i]
  BY Window
<1>2. \/ here = -1 /\ \A i \in (from + 1) .. Len(b) : b[i] # x
      \/ /\ here \in from .. (Len(b) - 1) /\ b[here + 1] = x
         /\ \A i \in (from + 1) .. here : b[i] # x
  BY <1>1, FindFacts
<1> HIDE DEF c
<1>3. c + from \in 0 .. Len(s)
  BY <1>1
<1>4. \/ there = -1 /\ \A i \in (c + from + 1) .. Len(s) : s[i] # x
      \/ /\ there \in (c + from) .. (Len(s) - 1) /\ s[there + 1] = x
         /\ \A i \in (c + from + 1) .. there : s[i] # x
  BY <1>3, FindFacts
<1> HIDE DEF here, there
<1>5. ASSUME here # -1 PROVE there = c + here
  <2>1. here \in from .. (Len(b) - 1) /\ b[here + 1] = x
        /\ \A i \in (from + 1) .. here : b[i] # x
    BY <1>2, <1>5
  <2>2. here + 1 \in 1 .. Len(b) /\ c + here + 1 \in (c + from + 1) .. Len(s)
        /\ c + (here + 1) = c + here + 1
    BY <1>1, <2>1
  <2>3. s[c + here + 1] = x
    BY <1>1, <2>1, <2>2
  <2>4. there \in (c + from) .. (Len(s) - 1) /\ s[there + 1] = x
        /\ \A i \in (c + from + 1) .. there : s[i] # x
    BY <1>4, <2>2, <2>3
  <2>5. ~ (c + here + 1 <= there)
    BY <1>1, <2>1, <2>2, <2>3, <2>4, SMTT(30)
  <2>6. ASSUME there < c + here PROVE FALSE
    <3>1. there + 1 - c \in (from + 1) .. here /\ there + 1 - c \in 1 .. Len(b)
          /\ c + (there + 1 - c) = there + 1
      BY <1>1, <2>1, <2>4, <2>6
    <3>2. b[there + 1 - c] = s[there + 1]
      BY <1>1, <3>1
    <3>3. QED
      BY <2>1, <2>4, <3>1, <3>2
  <2>7. there \in Int /\ here \in Int /\ there <= c + here /\ c + here <= there
    <3>1. there \in Int /\ here \in Int /\ c \in Int
      BY <1>1, <2>1, <2>4
    <3>2. QED
      BY <2>5, <2>6, <3>1
  <2>8. QED
    BY <1>1, <2>7
<1>6. ASSUME here = -1 PROVE there \notin 0 .. (t - 1)
  <2>1. \A i \in (from + 1) .. Len(b) : b[i] # x
    BY <1>2, <1>6
  <2>2. SUFFICES ASSUME there \in 0 .. (t - 1) PROVE FALSE
    OBVIOUS
  <2>3. there \in (c + from) .. (Len(s) - 1) /\ s[there + 1] = x
    BY <1>4, <2>2
  <2>4. there + 1 - c \in (from + 1) .. Len(b) /\ there + 1 - c \in 1 .. Len(b)
        /\ c + (there + 1 - c) = there + 1
    BY <1>1, <2>2, <2>3
  <2>5. b[there + 1 - c] = s[there + 1]
    BY <1>1, <2>4
  <2>6. QED
    BY <2>1, <2>3, <2>4, <2>5
<1>7. QED
  BY <1>5, <1>6 DEF here, there, c

(* The operators of Protocol are the same in both modules.                 *)
LEMMA SameProtocol ==
  /\ Requests!CR = CR /\ Requests!LF = LF
  /\ \A s, b, from : Requests!Find(s, b, from) = Find(s, b, from)
  /\ \A s : Requests!IsNumber(s) = IsNumber(s)
  /\ \A s : Requests!Number(s) = Number(s)
  /\ \A s : Requests!Words(s) = Words(s)
  /\ \A s : Requests!Unbalanced(s) = Unbalanced(s)
<1>1. Requests!CR = CR /\ Requests!LF = LF
  BY DEF Requests!CR, Requests!LF, CR, LF
<1>2. \A s, b, from : Requests!Find(s, b, from) = Find(s, b, from)
  BY DEF Requests!Find, Find, Requests!SelectInSubSeq, SelectInSubSeq, Requests!Min, Min
<1>3. \A s : Requests!IsNumber(s) = IsNumber(s)
  BY DEF Requests!IsNumber, IsNumber, Requests!Digits, Digits, Requests!DigitValue, DigitValue,
         Requests!Range, Range
<1>4. \A s : Requests!Number(s) = Number(s)
  BY DEF Requests!Number, Number, Requests!Digits, Digits, Requests!DigitValue, DigitValue,
         Requests!FoldLeft, FoldLeft, Requests!MapThenFoldSet, MapThenFoldSet, Requests!Max, Max
<1>5. \A s : Requests!Words(s) = Words(s)
  BY DEF Requests!Words, Words, Requests!CR, CR, Requests!Cardinality, Cardinality
<1>6. \A s : Requests!Unbalanced(s) = Unbalanced(s)
  BY DEF Requests!Unbalanced, Unbalanced
<1>7. QED
  BY <1>1, <1>2, <1>3, <1>4, <1>5, <1>6

-------------------------------------------------------------------------------
(* Each step of the parser is one of the stream of requests, or none.      *)

Origin == Begun(taken, querybuf)

LEMMA InStream ==
  ASSUME InputIInv
  PROVE  /\ Stream \in Seq(STRING) /\ Len(Stream) \in Nat
         /\ taken \in 0 .. Len(Stream) /\ Unread(Stream, taken, querybuf)
         /\ querybuf \in Seq(STRING) /\ Len(querybuf) \in Nat /\ pos \in 0 .. Len(querybuf)
         /\ Origin \in Nat /\ Origin + Len(querybuf) = taken /\ offset = Origin + pos
         /\ \A i \in 1 .. Len(querybuf) : querybuf[i] = Stream[Origin + i]
<1>1. /\ Stream \in Seq(STRING) /\ taken \in 0 .. Len(Stream)
      /\ Unread(Stream, taken, querybuf) /\ pos \in 0 .. Len(querybuf)
  BY StreamType DEF InputIInv, InputTypeOK, UnreadInv
<1>2. /\ querybuf \in Seq(STRING) /\ Len(querybuf) \in Nat
      /\ Origin \in Nat /\ Origin + Len(querybuf) = taken
      /\ \A i \in 1 .. Len(querybuf) : querybuf[i] = Stream[Origin + i]
  BY <1>1, Window DEF Origin
<1>3. offset = Origin + pos
  BY <1>1, <1>2 DEF offset, Origin, Begun
<1>4. Len(Stream) \in Nat
  BY <1>1
<1>5. QED
  BY <1>1, <1>2, <1>3, <1>4

LEMMA NothingRead ==
  ASSUME UNCHANGED <<query, closing, multibulklen, bulklen, argv, executed>>, offset' = offset
  PROVE  UNCHANGED Requests!streamVars
BY DEF Requests!streamVars, Stream

(* How far the stream is read when the buffer is trimmed.                  *)
LEMMA Trimmed ==
  ASSUME InputIInv, taken' = taken, pos' = 0, NEW n \in 0 .. Len(querybuf) + 1,
         querybuf' = Without(n)
  PROVE  /\ n <= Len(querybuf) => offset' = Origin + n
         /\ n = Len(querybuf) + 1 => offset' = Origin + Len(querybuf)
<1>1. /\ Len(querybuf) \in Nat /\ taken \in Int /\ Origin \in Nat
      /\ Origin + Len(querybuf) = taken /\ querybuf \in Seq(STRING)
  BY InStream
<1>2. offset' = taken - (Len(querybuf') - 0)
  BY DEF offset
<1>3. ASSUME n <= Len(querybuf) PROVE offset' = Origin + n
  <2>1. Len(querybuf') = Len(querybuf) - n
    BY <1>3, WithoutFacts
  <2>2. QED
    BY <1>1, <1>2, <2>1
<1>4. ASSUME n = Len(querybuf) + 1 PROVE offset' = Origin + Len(querybuf)
  <2>1. n + 1 \in Int /\ Len(querybuf) \in Int /\ Len(querybuf) < n + 1
    BY <1>1, <1>4
  <2>2. querybuf' = <<>>
    BY <2>1, SubSeqEmpty DEF Without
  <2>3. Len(querybuf') = 0
    BY <2>2
  <2>4. QED
    BY <1>1, <1>2, <2>3
<1>5. QED
  BY <1>3, <1>4

(* An end of a line that is found from pos on, in the buffer and in the    *)
(* stream.                                                                 *)
LEMMA LineInStream ==
  ASSUME InputIInv, NEW b
  PROVE  /\ Find(querybuf, b, pos) # -1 =>
              /\ Find(querybuf, b, pos) \in pos .. (Len(querybuf) - 1)
              /\ Requests!Find(Stream, b, offset) = Origin + Find(querybuf, b, pos)
         /\ Find(querybuf, b, pos) = -1 =>
              Requests!Find(Stream, b, offset) \notin 0 .. (taken - 1)
<1>1. /\ Stream \in Seq(STRING) /\ taken \in 0 .. Len(Stream)
      /\ Unread(Stream, taken, querybuf) /\ pos \in 0 .. Len(querybuf)
      /\ querybuf \in Seq(STRING) /\ offset = Origin + pos
  BY InStream
<1>2. Requests!Find(Stream, b, offset) = Find(Stream, b, offset)
  BY SameProtocol
<1>3. /\ Find(querybuf, b, pos) # -1 =>
           Find(Stream, b, offset) = Origin + Find(querybuf, b, pos)
      /\ Find(querybuf, b, pos) = -1 => Find(Stream, b, offset) \notin 0 .. (taken - 1)
  BY <1>1, WindowFind DEF Origin
<1>4. Find(querybuf, b, pos) # -1 => Find(querybuf, b, pos) \in pos .. (Len(querybuf) - 1)
  BY <1>1, FindFacts
<1>5. QED
  BY <1>2, <1>3, <1>4

LEMMA PartInStream ==
  ASSUME InputIInv, NEW m \in Nat, NEW n \in 0 .. Len(querybuf)
  PROVE  SubSeq(querybuf, m + 1, n) = SubSeq(Stream, Origin + m + 1, Origin + n)
<1>1. /\ Stream \in Seq(STRING) /\ taken \in 0 .. Len(Stream)
      /\ Unread(Stream, taken, querybuf)
  BY InStream
<1>2. SubSeq(querybuf, m + 1, n)
        = SubSeq(Stream, Begun(taken, querybuf) + m + 1, Begun(taken, querybuf) + n)
  BY <1>1, WindowPart, ZenonT(30)
<1>3. QED
  BY <1>2 DEF Origin

(* A command begins where one begins in the stream.                        *)
LEMMA BeginsInStream ==
  ASSUME InputIInv, NEW type \in {"inline", "multibulk"}, Parses(type),
         type = "multibulk" => multibulklen = 0
  PROVE  /\ Requests!Begins(type = "multibulk") /\ closing = "no" /\ pos = 0
         /\ offset = Origin /\ offset < taken /\ multibulklen = 0 /\ bulklen = -1
         /\ argv = <<>>
<1>1. /\ stage = "input" /\ querybuf # <<>> /\ closing = "no" /\ RequestType = type
  BY DEF Parses
<1>2. InputTypeOK /\ ParserInv /\ BeginsAnew
  BY DEF InputIInv
<1>3. pos = 0
  BY <1>1, <1>2 DEF ParserInv
<1>4. /\ Len(querybuf) \in Nat /\ Len(querybuf) # 0 /\ 1 \in 1 .. Len(querybuf)
      /\ Origin \in Nat /\ offset = Origin /\ offset < taken /\ taken <= Len(Stream)
      /\ querybuf[1] = Stream[offset + 1] /\ Len(Stream) \in Nat /\ taken \in Nat
  <2>1. Len(querybuf) \in Nat /\ Len(querybuf) # 0
    BY <1>1, InStream
  <2>2. 1 \in 1 .. Len(querybuf)
    BY <2>1
  <2>3. querybuf[1] = Stream[Origin + 1] /\ offset = Origin
    BY <1>3, <2>2, InStream
  <2>4. Origin < taken /\ taken <= Len(Stream)
    BY <2>1, InStream
  <2>5. QED
    BY <2>1, <2>2, <2>3, <2>4, InStream
<1>5. multibulklen = 0
  BY <1>1, <1>2 DEF RequestType, ParserInv
<1>6. argv = <<>> /\ bulklen = -1
  BY <1>1, <1>2, <1>5 DEF ParserInv, BeginsAnew, InputTypeOK
<1>7. (querybuf[1] = "*") = (type = "multibulk")
  <2>1. CASE reqtype = "none"
    BY <1>1, <2>1 DEF RequestType
  <2>2. CASE reqtype = "multibulk"
    BY <1>1, <1>2, <1>5, <2>2 DEF RequestType, BeginsAnew
  <2>3. CASE reqtype = "inline"
    BY <1>1, <1>2, <2>3 DEF RequestType, BeginsAnew
  <2>4. QED
    BY <1>2, <2>1, <2>2, <2>3 DEF InputTypeOK
<1>8. offset < Len(Stream)
  BY <1>4
<1>9. Requests!Begins(type = "multibulk")
  BY <1>1, <1>4, <1>5, <1>6, <1>7, <1>8 DEF Requests!Begins
<1>10. QED
  BY <1>1, <1>3, <1>4, <1>5, <1>6, <1>9

LEMMA StandstillReadsNothing ==
  ASSUME InputIInv,
         Read \/ ReadEnd \/ Hold \/ Resume \/ InputEnds \/ TakeUp \/ UNCHANGED inputVars
  PROVE  UNCHANGED Requests!streamVars
<1>1. UNCHANGED <<query, closing, multibulklen, bulklen, argv, executed, pos>>
  BY DEF Read, ReadEnd, Hold, Resume, InputEnds, TakeUp, inputVars, parser
<1>2. CASE Read
  <2>1. PICK n \in 1 .. ReadLen :
          /\ taken + n <= Len(Stream) /\ taken' = taken + n
          /\ querybuf' = querybuf \o SubSeq(Stream, taken + 1, taken + n)
    BY <1>2 DEF Read
  <2>2. Stream \in Seq(STRING) /\ Len(Stream) \in Nat /\ taken \in 0 .. Len(Stream)
        /\ querybuf \in Seq(STRING) /\ Len(querybuf) \in Nat /\ pos \in 0 .. Len(querybuf)
    BY InStream
  <2>3. ReadLen \in Int
    BY InputSizes, <2>2, SMTT(30) DEF ReadLen, Remaining, InputIInv, InputTypeOK
  <2>4. n \in Nat /\ taken \in Nat /\ taken + n \in 0 .. Len(Stream) /\ taken <= taken + n
        /\ (taken + n) - taken = n
    BY <2>1, <2>2, <2>3
  <2>5. SubSeq(Stream, taken + 1, taken + n) \in Seq(STRING)
        /\ Len(SubSeq(Stream, taken + 1, taken + n)) = n
    BY <2>2, <2>4, SubSeqAfter
  <2>6. Len(querybuf') = Len(querybuf) + n
    BY <2>1, <2>2, <2>5
  <2>7. offset' = offset
    BY <1>1, <2>1, <2>2, <2>4, <2>6 DEF offset
  <2>8. QED
    BY <1>1, <2>7, NothingRead
<1>3. CASE ReadEnd \/ Hold \/ Resume \/ InputEnds \/ TakeUp \/ UNCHANGED inputVars
  <2>1. UNCHANGED <<taken, querybuf, pos>>
    BY <1>3 DEF ReadEnd, Hold, Resume, InputEnds, TakeUp, inputVars
  <2>2. offset' = offset
    BY <2>1 DEF offset
  <2>3. QED
    BY <1>1, <2>2, NothingRead
<1>4. QED
  BY <1>2, <1>3

LEMMA WaitReadsNothing ==
  ASSUME InputIInv, NEW type, WaitForMore(type)
  PROVE  UNCHANGED Requests!streamVars
<1>1. UNCHANGED <<query, closing, multibulklen, bulklen, argv, executed, pos, taken, querybuf>>
  BY DEF WaitForMore
<1>2. offset' = offset
  BY <1>1 DEF offset
<1>3. QED
  BY <1>1, <1>2, NothingRead

(* What was parsed is cut off: the stream is read no further by that.      *)
LEMMA UnparsedReadsNothing ==
  ASSUME InputIInv, taken' = taken, pos' = 0, querybuf' = Unparsed
  PROVE  offset' = offset
<1>1. pos \in 0 .. Len(querybuf) /\ Len(querybuf) \in Nat /\ offset = Origin + pos
  BY InStream
<1>2. pos \in 0 .. Len(querybuf) + 1 /\ pos <= Len(querybuf) /\ querybuf' = Without(pos)
  BY <1>1 DEF Unparsed
<1>3. QED
  BY <1>1, <1>2, Trimmed

LEMMA ErrorReads ==
  ASSUME InputIInv, NEW why, NEW from \in 0 .. Len(querybuf), ProtocolError(why, from),
         UNCHANGED <<multibulklen, bulklen, argv>>
  PROVE  Requests!Fails(why) /\ offset' = Origin + from
<1>1. closing' = why /\ querybuf' = Without(from) /\ pos' = 0
      /\ UNCHANGED <<query, taken, executed>>
  BY DEF ProtocolError
<1>2. from \in 0 .. Len(querybuf) + 1 /\ from <= Len(querybuf)
  BY InStream
<1>3. offset' = Origin + from
  BY <1>1, <1>2, Trimmed
<1>4. Requests!Fails(why)
  BY <1>1, SameStream DEF Requests!Fails
<1>5. QED
  BY <1>3, <1>4

LEMMA ExecuteReads ==
  ASSUME InputIInv, NEW args, Execute(args), UNCHANGED <<query, closing>>
  PROVE  Requests!Executes(args)
BY DEF Execute, resetClient, Requests!Executes, Stream

LEMMA LongLineInStream ==
  ASSUME InputIInv, NEW b, Find(querybuf, b, pos) = -1, Len(querybuf) > InlineMax
  PROVE  Requests!LongLine(b, Origin)
<1>1. /\ Len(Stream) \in Nat /\ taken \in 0 .. Len(Stream) /\ Len(querybuf) \in Nat
      /\ Origin \in Nat /\ Origin + Len(querybuf) = taken
  BY InStream
<1>2. InlineMax \in Nat
  BY InputSizes
<1>3. Origin + InlineMax < Len(Stream)
      /\ 0 .. (Origin + InlineMax) \subseteq 0 .. (taken - 1)
  BY <1>1, <1>2
<1>4. Requests!Find(Stream, b, offset) \notin 0 .. (taken - 1)
  BY LineInStream
<1>5. QED
  BY <1>3, <1>4 DEF Requests!LongLine

LEMMA TooBigReads ==
  ASSUME InputIInv, ProtocolError("big", 0), closing = "no", Len(querybuf) > InlineMax,
         UNCHANGED <<multibulklen, bulklen, argv>>,
         \/ /\ Requests!Begins(FALSE) /\ pos = 0 /\ Find(querybuf, LF, pos) = -1
         \/ /\ Requests!Begins(TRUE) /\ pos = 0 /\ Find(querybuf, CR, pos) = -1
         \/ /\ multibulklen > 0 /\ bulklen = -1 /\ Find(querybuf, CR, pos) = -1
  PROVE  Requests!TooBig
<1>1. 0 \in 0 .. Len(querybuf) /\ Origin \in Nat /\ offset = Origin + pos
      /\ pos \in 0 .. Len(querybuf) /\ Len(querybuf) \in Nat
  BY InStream
<1>2. Requests!Fails("big") /\ offset' = Origin + 0
  BY <1>1, ErrorReads
<1>3. offset' = Origin /\ Origin \in 0 .. offset /\ (pos = 0 => Origin = offset)
  BY <1>1, <1>2
<1>4. \/ Requests!Begins(FALSE) /\ Origin = offset /\ Requests!LongLine(Requests!LF, Origin)
      \/ Requests!Begins(TRUE) /\ Origin = offset /\ Requests!LongLine(Requests!CR, Origin)
      \/ multibulklen > 0 /\ bulklen = -1 /\ Requests!LongLine(Requests!CR, Origin)
  BY <1>3, LongLineInStream, SameProtocol
<1>5. QED
  BY <1>2, <1>3, <1>4 DEF Requests!TooBig

LEMMA InlineIncompleteReads ==
  ASSUME InputIInv, InlineIncomplete
  PROVE  Requests!TooBig \/ UNCHANGED Requests!streamVars
<1>1. /\ Parses("inline") /\ Find(querybuf, LF, 0) = -1
      /\ \/ /\ Len(querybuf) > InlineMax /\ ProtocolError("big", 0)
            /\ UNCHANGED <<multibulklen, bulklen, argv>>
         \/ WaitForMore("inline")
  BY DEF InlineIncomplete
<1>2. CASE /\ Len(querybuf) > InlineMax /\ ProtocolError("big", 0)
           /\ UNCHANGED <<multibulklen, bulklen, argv>>
  <2>1. Requests!Begins(FALSE) /\ closing = "no" /\ pos = 0
    BY <1>1, BeginsInStream
  <2>2. Find(querybuf, LF, pos) = -1
    BY <1>1, <1>2, <2>1
  <2>3. QED
    BY <1>2, <2>1, <2>2, TooBigReads
<1>3. CASE WaitForMore("inline")
  BY <1>3, WaitReadsNothing
<1>4. QED
  BY <1>1, <1>2, <1>3

LEMMA CountIncompleteReads ==
  ASSUME InputIInv, CountIncomplete
  PROVE  Requests!TooBig \/ UNCHANGED Requests!streamVars
<1>1. /\ Parses("multibulk") /\ multibulklen = 0
      /\ \/ /\ Find(querybuf, CR, 0) = -1 /\ Len(querybuf) > InlineMax
            /\ ProtocolError("big", 0) /\ UNCHANGED <<multibulklen, bulklen, argv>>
         \/ WaitForMore("multibulk")
  BY DEF CountIncomplete
<1>2. CASE /\ Find(querybuf, CR, 0) = -1 /\ Len(querybuf) > InlineMax
           /\ ProtocolError("big", 0) /\ UNCHANGED <<multibulklen, bulklen, argv>>
  <2>1. Requests!Begins(TRUE) /\ closing = "no" /\ pos = 0
    BY <1>1, BeginsInStream
  <2>2. Find(querybuf, CR, pos) = -1
    BY <1>1, <1>2, <2>1
  <2>3. QED
    BY <1>2, <2>1, <2>2, TooBigReads
<1>3. CASE WaitForMore("multibulk")
  BY <1>3, WaitReadsNothing
<1>4. QED
  BY <1>1, <1>2, <1>3

(* The line that an inline command is on, in the buffer and in the stream. *)
LEMMA InlineLine ==
  ASSUME InputIInv, Parses("inline"), Find(querybuf, LF, 0) # -1
  PROVE  LET newline == Find(querybuf, LF, 0)
             there == Requests!Find(Stream, Requests!LF, offset)
             end == IF there > offset /\ Stream[there] = Requests!CR
                    THEN there - 1 ELSE there
         IN /\ newline \in 0 .. (Len(querybuf) - 1) /\ there = offset + newline
            /\ LineLen(newline) \in 0 .. newline
            /\ end = offset + LineLen(newline)
            /\ SubSeq(querybuf, 1, LineLen(newline)) = SubSeq(Stream, offset + 1, end)
<1> DEFINE newline == Find(querybuf, LF, 0)
           there == Requests!Find(Stream, Requests!LF, offset)
           end == IF there > offset /\ Stream[there] = Requests!CR THEN there - 1 ELSE there
<1>1. pos = 0 /\ offset = Origin
  BY BeginsInStream
<1>2. newline \in 0 .. (Len(querybuf) - 1) /\ there = offset + newline
  BY <1>1, LineInStream, SameProtocol
<1>3. /\ Origin \in Nat /\ Len(querybuf) \in Nat
      /\ \A i \in 1 .. Len(querybuf) : querybuf[i] = Stream[Origin + i]
  BY InStream
<1> HIDE DEF newline, there
<1>4. newline > 0 => querybuf[newline] = Stream[there]
  <2>1. newline > 0 => newline \in 1 .. Len(querybuf)
    BY <1>2, <1>3
  <2>2. QED
    BY <1>1, <1>2, <1>3, <2>1
<1>5. newline > 0 <=> there > offset
  BY <1>1, <1>2, <1>3
<1>6. LineLen(newline) \in 0 .. newline /\ end = offset + LineLen(newline)
  <2>1. CASE newline > 0 /\ querybuf[newline] = CR
    <3>1. LineLen(newline) = newline - 1 /\ end = there - 1
      BY <1>4, <1>5, <2>1, SameProtocol DEF LineLen
    <3>2. QED
      BY <1>1, <1>2, <1>3, <2>1, <3>1
  <2>2. CASE ~ (newline > 0 /\ querybuf[newline] = CR)
    <3>1. LineLen(newline) = newline /\ end = there
      BY <1>4, <1>5, <2>2, SameProtocol DEF LineLen
    <3>2. QED
      BY <1>1, <1>2, <1>3, <3>1
  <2>3. QED
    BY <2>1, <2>2
<1> HIDE DEF end
<1>7. SubSeq(querybuf, 1, LineLen(newline)) = SubSeq(Stream, offset + 1, end)
  <2>1. LineLen(newline) \in 0 .. Len(querybuf) /\ 0 \in Nat /\ Origin + 0 + 1 = offset + 1
        /\ Origin + LineLen(newline) = end /\ 0 + 1 = 1
    BY <1>1, <1>2, <1>3, <1>6
  <2>2. SubSeq(querybuf, 0 + 1, LineLen(newline))
          = SubSeq(Stream, Origin + 0 + 1, Origin + LineLen(newline))
    BY <2>1, PartInStream
  <2>3. QED
    BY <2>1, <2>2
<1>8. QED
  BY <1>2, <1>6, <1>7 DEF newline, there, end

LEMMA InlineReads ==
  ASSUME InputIInv, Inline
  PROVE  Requests!InlineCommand
<1> DEFINE newline == Find(querybuf, LF, 0)
           line == SubSeq(querybuf, 1, LineLen(newline))
           there == Requests!Find(Stream, Requests!LF, offset)
           end == IF there > offset /\ Stream[there] = Requests!CR THEN there - 1 ELSE there
           same == SubSeq(Stream, offset + 1, end)
<1>1. Parses("inline") /\ newline # -1
  BY DEF Inline
<1>2. Requests!Begins(FALSE) /\ pos = 0 /\ offset = Origin /\ closing = "no"
  BY <1>1, BeginsInStream
<1>3. /\ newline \in 0 .. (Len(querybuf) - 1) /\ there = offset + newline
      /\ LineLen(newline) \in 0 .. newline /\ end = offset + LineLen(newline) /\ line = same
  BY <1>1, InlineLine
<1>4. Origin \in Nat /\ Len(querybuf) \in Nat
  BY InStream
<1>5. \/ Unbalanced(line) /\ ProtocolError("malformed", 0)
         /\ UNCHANGED <<multibulklen, bulklen, argv>>
      \/ /\ ~ Unbalanced(line) /\ Execute(Words(line))
         /\ querybuf' = Without(LineLen(newline) + 2)
         /\ UNCHANGED <<stage, closing, pos, query, taken>>
  BY DEF Inline
<1>6. Requests!Unbalanced(same) = Unbalanced(line) /\ Requests!Words(same) = Words(line)
  BY <1>3, SameProtocol
<1>7. there # -1
  <2> HIDE DEF newline, there, end, line, same
  <2>1. QED
    BY <1>2, <1>3, <1>4
<1>8. CASE Unbalanced(line) /\ ProtocolError("malformed", 0)
           /\ UNCHANGED <<multibulklen, bulklen, argv>>
  <2>1. 0 \in 0 .. Len(querybuf)
    BY <1>4
  <2>2. Requests!Fails("malformed") /\ offset' = Origin + 0
    BY <1>8, <2>1, ErrorReads
  <2>3. offset' = offset
    BY <1>2, <1>4, <2>2
  <2>4. Requests!Unbalanced(same)
    BY <1>6, <1>8
  <2>5. QED
    BY <1>2, <1>7, <2>2, <2>3, <2>4 DEF Requests!InlineCommand
<1>9. CASE /\ ~ Unbalanced(line) /\ Execute(Words(line))
           /\ querybuf' = Without(LineLen(newline) + 2)
           /\ UNCHANGED <<stage, closing, pos, query, taken>>
  <2>1. Requests!Executes(Requests!Words(same))
    BY <1>6, <1>9, ExecuteReads
  <2>2. pos' = 0 /\ taken' = taken
    BY <1>2, <1>9
  <2> DEFINE n == LineLen(newline) + 2
  <2>3. n \in 0 .. Len(querybuf) + 1
    <3> HIDE DEF newline
    <3>1. QED
      BY <1>3, <1>4
  <2>4. /\ n <= Len(querybuf) => offset' = Origin + n
        /\ n = Len(querybuf) + 1 => offset' = Origin + Len(querybuf)
    BY <1>9, <2>2, <2>3, Trimmed
  <2>5. offset' \in {there + 1, end + 2}
    <3> HIDE DEF newline, there, end, line, same
    <3>1. LineLen(newline) \in Int /\ newline \in Int
      BY <1>3
    <3>2. n <= Len(querybuf) \/ n = Len(querybuf) + 1
      BY <1>4, <2>3
    <3>3. CASE n <= Len(querybuf)
      <4>1. offset' = end + 2
        BY <1>2, <1>3, <1>4, <2>4, <3>1, <3>3
      <4>2. QED
        BY <4>1
    <3>4. CASE n = Len(querybuf) + 1
      <4>1. offset' = there + 1
        BY <1>2, <1>3, <1>4, <2>4, <3>1, <3>4
      <4>2. QED
        BY <4>1
    <3>5. QED
      BY <3>2, <3>3, <3>4
  <2>6. ~ Requests!Unbalanced(same)
    BY <1>6, <1>9
  <2>7. QED
    BY <1>2, <1>7, <2>1, <2>5, <2>6 DEF Requests!InlineCommand
<1>10. QED
  BY <1>5, <1>8, <1>9

(* A line of a multi bulk command, in the buffer and in the stream.        *)
LEMMA BulkLine ==
  ASSUME InputIInv, LineArrived(Find(querybuf, CR, pos))
  PROVE  LET newline == Find(querybuf, CR, pos)
             there == Requests!Find(Stream, Requests!CR, offset)
         IN /\ newline \in pos .. (Len(querybuf) - 2) /\ there = Origin + newline
            /\ Requests!Ends(there)
            /\ SubSeq(querybuf, pos + 2, newline) = SubSeq(Stream, offset + 2, there)
            /\ querybuf[pos + 1] = Stream[offset + 1]
<1> DEFINE newline == Find(querybuf, CR, pos)
           there == Requests!Find(Stream, Requests!CR, offset)
<1>1. newline # -1 /\ newline <= Len(querybuf) - 2
  BY DEF LineArrived
<1>2. newline \in pos .. (Len(querybuf) - 1) /\ there = Origin + newline
  BY <1>1, LineInStream, SameProtocol
<1>3. /\ Origin \in Nat /\ Len(querybuf) \in Nat /\ pos \in 0 .. Len(querybuf)
      /\ Origin + Len(querybuf) = taken /\ taken \in 0 .. Len(Stream) /\ Len(Stream) \in Nat
      /\ offset = Origin + pos
      /\ \A i \in 1 .. Len(querybuf) : querybuf[i] = Stream[Origin + i]
  BY InStream
<1> HIDE DEF newline, there
<1>4. newline \in pos .. (Len(querybuf) - 2) /\ newline \in 0 .. Len(querybuf)
  BY <1>1, <1>2, <1>3
<1>5. there # -1 /\ there + 2 <= Len(Stream)
  BY <1>2, <1>3, <1>4
<1>6. Requests!Ends(there)
  BY <1>5 DEF Requests!Ends
<1>7. pos + 1 \in Nat /\ (pos + 1) + 1 = pos + 2 /\ Origin + (pos + 1) + 1 = offset + 2
      /\ pos + 1 \in 1 .. Len(querybuf) /\ Origin + (pos + 1) = offset + 1
  BY <1>3, <1>4
<1>8. SubSeq(querybuf, (pos + 1) + 1, newline)
        = SubSeq(Stream, Origin + (pos + 1) + 1, Origin + newline)
  BY <1>4, <1>7, PartInStream
<1>9. SubSeq(querybuf, pos + 2, newline) = SubSeq(Stream, offset + 2, there)
  BY <1>2, <1>7, <1>8
<1>10. querybuf[pos + 1] = Stream[offset + 1]
  BY <1>3, <1>7
<1>11. QED
  BY <1>2, <1>4, <1>6, <1>9, <1>10 DEF newline, there

LEMMA CountReads ==
  ASSUME InputIInv, Count
  PROVE  Requests!ArgCount
<1> DEFINE newline == Find(querybuf, CR, 0)
           number == SubSeq(querybuf, 2, newline)
           there == Requests!Find(Stream, Requests!CR, offset)
           same == SubSeq(Stream, offset + 2, there)
<1>1. Parses("multibulk") /\ multibulklen = 0 /\ LineArrived(newline)
  BY DEF Count
<1>2. Requests!Begins(TRUE) /\ pos = 0 /\ offset = Origin /\ closing = "no"
  BY <1>1, BeginsInStream
<1>3. /\ newline \in 0 .. (Len(querybuf) - 2) /\ there = Origin + newline
      /\ Requests!Ends(there) /\ number = same
  <2>1. 0 + 2 = 2 /\ LineArrived(Find(querybuf, CR, pos))
    BY <1>1, <1>2
  <2>2. QED
    BY <1>2, <2>1, BulkLine
<1>4. Origin \in Nat /\ Len(querybuf) \in Nat
  BY InStream
<1>5. Requests!IsNumber(same) = IsNumber(number) /\ Requests!Number(same) = Number(number)
  BY <1>3, SameProtocol
<1> DEFINE good == IsNumber(number) /\ Number(number) \in 1 .. MaxArgs
           none == IsNumber(number) /\ Number(number) <= 0
<1>6. \/ /\ good
         /\ multibulklen' = Number(number) /\ pos' = newline + 2
         /\ UNCHANGED <<closing, querybuf, bulklen, argv, query, taken, executed>>
      \/ /\ none
         /\ Execute(<<>>)
         /\ querybuf' = Without(newline + 2) /\ UNCHANGED <<closing, pos, query, taken>>
      \/ /\ ~ good /\ ~ none
         /\ ProtocolError("malformed", 0) /\ UNCHANGED <<multibulklen, bulklen, argv>>
  BY DEF Count
<1>7. ~ (good /\ none)
  <2>1. ASSUME Number(number) \in 1 .. MaxArgs, Number(number) <= 0 PROVE FALSE
    <3> DEFINE v == Number(number)
    <3>1. v \in 1 .. MaxArgs /\ v <= 0
      BY <2>1
    <3> HIDE DEF v
    <3>2. QED
      BY <3>1, InputSizes
  <2>2. QED
    BY <2>1
<1> DEFINE g == Requests!IsNumber(same) /\ Requests!Number(same) \in 1 .. MaxArgs
           z == Requests!IsNumber(same) /\ Requests!Number(same) <= 0
<1>8. g = good /\ z = none /\ Number(number) = Requests!Number(same)
  BY <1>5
<1>9. CASE /\ good
           /\ multibulklen' = Number(number) /\ pos' = newline + 2
           /\ UNCHANGED <<closing, querybuf, bulklen, argv, query, taken, executed>>
  <2>1. offset' = there + 2
    <3>1. offset' = taken - (Len(querybuf) - (newline + 2))
      BY <1>9 DEF offset
    <3>2. Origin + Len(querybuf) = taken
      BY InStream
    <3> HIDE DEF newline, there
    <3>3. QED
      BY <1>3, <1>4, <3>1, <3>2
  <2>2. g /\ ~ z /\ multibulklen' = Requests!Number(same)
    BY <1>7, <1>8, <1>9
  <2>3. UNCHANGED <<Stream, bulklen, argv, executed, closing>>
    BY <1>9, SameStream
  <2> HIDE DEF number
  <2>4. QED
    BY <1>2, <1>3, <2>1, <2>2, <2>3 DEF Requests!ArgCount
<1>10. CASE /\ none
            /\ Execute(<<>>)
            /\ querybuf' = Without(newline + 2) /\ UNCHANGED <<closing, pos, query, taken>>
  <2>1. Requests!Executes(<<>>)
    BY <1>10, ExecuteReads
  <2>2. offset' = there + 2
    <3> DEFINE n == newline + 2
    <3>1. n \in 0 .. Len(querybuf) + 1 /\ n <= Len(querybuf)
      <4> HIDE DEF newline
      <4>1. QED
        BY <1>3, <1>4
    <3>2. pos' = 0 /\ taken' = taken
      BY <1>2, <1>10
    <3>3. offset' = Origin + n
      BY <1>10, <3>1, <3>2, Trimmed
    <3> HIDE DEF newline, there
    <3>4. QED
      BY <1>3, <1>4, <3>3
  <2>3. z /\ ~ g
    BY <1>7, <1>8, <1>10
  <2> HIDE DEF number
  <2>4. QED
    BY <1>2, <1>3, <2>1, <2>2, <2>3 DEF Requests!ArgCount
<1>11. CASE /\ ~ good /\ ~ none
            /\ ProtocolError("malformed", 0) /\ UNCHANGED <<multibulklen, bulklen, argv>>
  <2>1. 0 \in 0 .. Len(querybuf)
    BY <1>4
  <2>2. Requests!Fails("malformed") /\ offset' = Origin + 0
    BY <1>11, <2>1, ErrorReads
  <2>3. offset' = offset
    BY <1>2, <1>4, <2>2
  <2>4. ~ g /\ ~ z
    BY <1>8, <1>11
  <2> HIDE DEF number
  <2>5. QED
    BY <1>2, <1>3, <2>2, <2>3, <2>4 DEF Requests!ArgCount
<1>12. QED
  BY <1>6, <1>9, <1>10, <1>11

LEMMA LengthIncompleteReads ==
  ASSUME InputIInv, LoopInv, LengthIncomplete
  PROVE  Requests!TooBig \/ UNCHANGED Requests!streamVars
<1>1. /\ stage = "bulks" /\ multibulklen > 0 /\ bulklen = -1 /\ UNCHANGED parser
      /\ \/ /\ Find(querybuf, CR, pos) = -1 /\ Len(querybuf) > InlineMax
            /\ ProtocolError("big", 0)
         \/ /\ querybuf' = Unparsed /\ pos' = 0
            /\ UNCHANGED <<held, closing, query, taken, executed, everHeld>>
  BY DEF LengthIncomplete
<1>2. UNCHANGED <<multibulklen, bulklen, argv>>
  BY <1>1 DEF parser
<1>3. CASE /\ Find(querybuf, CR, pos) = -1 /\ Len(querybuf) > InlineMax
           /\ ProtocolError("big", 0)
  <2>1. closing = "no"
    BY <1>1 DEF LoopInv
  <2>2. QED
    BY <1>1, <1>2, <1>3, <2>1, TooBigReads
<1>4. CASE /\ querybuf' = Unparsed /\ pos' = 0
           /\ UNCHANGED <<held, closing, query, taken, executed, everHeld>>
  <2>1. offset' = offset
    BY <1>4, UnparsedReadsNothing
  <2>2. QED
    BY <1>2, <1>4, <2>1, NothingRead
<1>5. QED
  BY <1>1, <1>3, <1>4

LEMMA LengthReads ==
  ASSUME InputIInv, LoopInv, Length
  PROVE  Requests!ArgLength
<1> DEFINE newline == Find(querybuf, CR, pos)
           number == SubSeq(querybuf, pos + 2, newline)
           there == Requests!Find(Stream, Requests!CR, offset)
           same == SubSeq(Stream, offset + 2, there)
<1>1. stage = "bulks" /\ multibulklen > 0 /\ bulklen = -1 /\ LineArrived(newline)
  BY DEF Length
<1>2. closing = "no"
  BY <1>1 DEF LoopInv
<1>3. /\ newline \in pos .. (Len(querybuf) - 2) /\ there = Origin + newline
      /\ Requests!Ends(there) /\ number = same /\ querybuf[pos + 1] = Stream[offset + 1]
  BY <1>1, BulkLine
<1>4. Origin \in Nat /\ Len(querybuf) \in Nat /\ pos \in 0 .. Len(querybuf)
      /\ offset = Origin + pos /\ Origin + Len(querybuf) = taken
  BY InStream
<1>5. Requests!IsNumber(same) = IsNumber(number) /\ Requests!Number(same) = Number(number)
  BY <1>3, SameProtocol
<1> DEFINE bad == \/ querybuf[pos + 1] # "$" \/ ~ IsNumber(number)
                  \/ Number(number) \notin 0 .. MaxBulk
           b == \/ Stream[offset + 1] # "$" \/ ~ Requests!IsNumber(same)
                \/ Requests!Number(same) \notin 0 .. MaxBulk
<1>6. b = bad
  BY <1>3, <1>5
<1>7. \/ bad /\ ProtocolError("malformed", pos) /\ UNCHANGED parser
      \/ /\ ~ bad /\ bulklen' = Number(number)
         /\ \/ querybuf' = Without(newline + 2) /\ pos' = 0
            \/ pos' = newline + 2 /\ UNCHANGED querybuf
         /\ UNCHANGED <<closing, multibulklen, argv, query, taken, executed>>
  BY DEF Length
<1>8. CASE bad /\ ProtocolError("malformed", pos) /\ UNCHANGED parser
  <2>1. UNCHANGED <<multibulklen, bulklen, argv>>
    BY <1>8 DEF parser
  <2>2. Requests!Fails("malformed") /\ offset' = Origin + pos
    BY <1>4, <1>8, <2>1, ErrorReads
  <2>3. b /\ offset' = offset
    BY <1>4, <1>6, <1>8, <2>2
  <2> HIDE DEF number
  <2>4. QED
    BY <1>1, <1>2, <1>3, <2>2, <2>3 DEF Requests!ArgLength
<1>9. CASE /\ ~ bad /\ bulklen' = Number(number)
           /\ \/ querybuf' = Without(newline + 2) /\ pos' = 0
              \/ pos' = newline + 2 /\ UNCHANGED querybuf
           /\ UNCHANGED <<closing, multibulklen, argv, query, taken, executed>>
  <2>1. ASSUME querybuf' = Without(newline + 2), pos' = 0
        PROVE  offset' = there + 2
    <3> DEFINE n == newline + 2
    <3>1. n \in 0 .. Len(querybuf) + 1 /\ n <= Len(querybuf)
      <4> HIDE DEF newline
      <4>1. QED
        BY <1>3, <1>4, SMTT(30)
    <3>2. taken' = taken
      BY <1>9
    <3>3. offset' = Origin + n
      BY <2>1, <3>1, <3>2, Trimmed
    <3> HIDE DEF newline, there
    <3>4. offset' = there + 2
      BY <1>3, <1>4, <3>3
    <3>5. QED
      BY <3>4
  <2>2. ASSUME pos' = newline + 2, UNCHANGED querybuf
        PROVE  offset' = there + 2
    <3>1. offset' = taken - (Len(querybuf) - (newline + 2))
      BY <1>9, <2>2 DEF offset
    <3> HIDE DEF newline, there
    <3>2. offset' = there + 2
      BY <1>3, <1>4, <3>1
    <3>3. QED
      BY <3>2
  <2>3. offset' = there + 2
    BY <1>9, <2>1, <2>2
  <2>4. ~ b /\ bulklen' = Requests!Number(same)
    BY <1>5, <1>6, <1>9
  <2>5. UNCHANGED <<Stream, multibulklen, argv, executed, closing>>
    BY <1>9, SameStream
  <2> HIDE DEF number
  <2>6. QED
    BY <1>1, <1>2, <1>3, <2>3, <2>4, <2>5 DEF Requests!ArgLength
<1>10. QED
  BY <1>7, <1>8, <1>9

LEMMA ArgIncompleteReadsNothing ==
  ASSUME InputIInv, ArgIncomplete
  PROVE  UNCHANGED Requests!streamVars
<1>1. querybuf' = Unparsed /\ pos' = 0
      /\ UNCHANGED <<query, taken, closing, multibulklen, bulklen, argv, executed>>
  BY DEF ArgIncomplete, parser
<1>2. offset' = offset
  BY <1>1, UnparsedReadsNothing
<1>3. QED
  BY <1>1, <1>2, NothingRead

LEMMA ArgReads ==
  ASSUME InputIInv, LoopInv, Arg
  PROVE  Requests!Argument
<1>1. /\ stage = "bulks" /\ bulklen # -1 /\ Len(querybuf) - pos >= bulklen + 2
      /\ argv' = Append(argv, SubSeq(querybuf, pos + 1, pos + bulklen))
      /\ \/ pos = 0 /\ Len(querybuf) = bulklen + 2 /\ querybuf' = <<>> /\ pos' = 0
         \/ pos' = pos + bulklen + 2 /\ UNCHANGED querybuf
      /\ bulklen' = -1 /\ multibulklen' = multibulklen - 1
      /\ UNCHANGED <<closing, query, taken, executed>>
  BY DEF Arg, ArgArrived, ArgFillsBuffer
<1>2. closing = "no"
  BY <1>1 DEF LoopInv
<1>3. /\ Origin \in Nat /\ Len(querybuf) \in Nat /\ pos \in 0 .. Len(querybuf)
      /\ offset = Origin + pos /\ Origin + Len(querybuf) = taken
      /\ taken \in 0 .. Len(Stream) /\ Len(Stream) \in Nat
  BY InStream
<1>4. bulklen \in Nat
  BY <1>1, InputSizes DEF InputIInv, InputTypeOK
<1>5. offset + bulklen + 2 <= Len(Stream)
  BY <1>1, <1>3, <1>4
<1>6. SubSeq(querybuf, pos + 1, pos + bulklen) = SubSeq(Stream, offset + 1, offset + bulklen)
  <2>1. pos \in Nat /\ pos + bulklen \in 0 .. Len(querybuf)
        /\ Origin + pos + 1 = offset + 1 /\ Origin + (pos + bulklen) = offset + bulklen
    BY <1>1, <1>3, <1>4
  <2>2. SubSeq(querybuf, pos + 1, pos + bulklen)
          = SubSeq(Stream, Origin + pos + 1, Origin + (pos + bulklen))
    BY <2>1, PartInStream
  <2>3. QED
    BY <2>1, <2>2
<1>7. offset' = offset + bulklen + 2
  <2>1. CASE /\ pos = 0 /\ Len(querybuf) = bulklen + 2
             /\ querybuf' = <<>> /\ pos' = 0
    <3>1. offset' = taken - (Len(<<>>) - 0) /\ Len(<<>>) = 0
      BY <1>1, <2>1 DEF offset
    <3>2. QED
      BY <1>3, <1>4, <2>1, <3>1
  <2>2. CASE pos' = pos + bulklen + 2 /\ UNCHANGED querybuf
    <3>1. offset' = taken - (Len(querybuf) - (pos + bulklen + 2))
      BY <1>1, <2>2 DEF offset
    <3>2. QED
      BY <1>3, <1>4, <3>1
  <2>3. QED
    BY <1>1, <2>1, <2>2
<1>8. UNCHANGED <<Stream, executed, closing>>
  BY <1>1, SameStream
<1>9. QED
  BY <1>1, <1>2, <1>5, <1>6, <1>7, <1>8 DEF Requests!Argument

LEMMA ArgsDoneReads ==
  ASSUME InputIInv, LoopInv, ArgsDone
  PROVE  Requests!MultibulkCommand
<1>1. /\ stage = "bulks" /\ multibulklen = 0 /\ Execute(argv)
      /\ querybuf' = Unparsed /\ pos' = 0 /\ UNCHANGED <<closing, query, taken>>
  BY DEF ArgsDone
<1>2. closing = "no" /\ argv # <<>>
  BY <1>1 DEF LoopInv
<1>3. Requests!Executes(argv)
  BY <1>1, ExecuteReads
<1>4. offset' = offset
  BY <1>1, UnparsedReadsNothing
<1>5. QED
  BY <1>1, <1>2, <1>3, <1>4 DEF Requests!MultibulkCommand

LEMMA RequestsInitially == InputInit => Requests!StreamInit
<1> SUFFICES ASSUME InputInit PROVE Requests!StreamInit
  OBVIOUS
<1>1. /\ query \in Queries /\ taken = 0 /\ querybuf = <<>> /\ pos = 0 /\ multibulklen = 0
      /\ bulklen = -1 /\ argv = <<>> /\ executed = <<>> /\ closing = "no"
  BY DEF InputInit
<1>2. offset = 0
  <2>1. taken = 0 /\ pos = 0 /\ Len(querybuf) = 0
    BY <1>1
  <2>2. offset = 0 - (0 - 0)
    BY <2>1 DEF offset
  <2>3. QED
    BY <2>2
<1>3. Stream \in {Bytes(q) : q \in Queries}
  BY <1>1 DEF Stream
<1>4. QED
  BY <1>1, <1>2, <1>3 DEF Requests!StreamInit

LEMMA RequestsStep ==
  InputIInv /\ LoopInv /\ [InputNext]_inputVars
    => [Requests!StreamNext]_(Requests!streamVars)
<1> SUFFICES ASSUME InputIInv, LoopInv, [InputNext]_inputVars
             PROVE  Requests!StreamNext \/ UNCHANGED Requests!streamVars
  OBVIOUS
<1>1. CASE Read \/ ReadEnd \/ Hold \/ Resume \/ InputEnds \/ TakeUp \/ UNCHANGED inputVars
  BY <1>1, StandstillReadsNothing
<1>2. CASE InlineIncomplete
  BY <1>2, InlineIncompleteReads DEF Requests!StreamNext
<1>3. CASE Inline
  BY <1>3, InlineReads DEF Requests!StreamNext
<1>4. CASE CountIncomplete
  BY <1>4, CountIncompleteReads DEF Requests!StreamNext
<1>5. CASE Count
  BY <1>5, CountReads DEF Requests!StreamNext
<1>6. CASE LengthIncomplete
  BY <1>6, LengthIncompleteReads DEF Requests!StreamNext
<1>7. CASE Length
  BY <1>7, LengthReads DEF Requests!StreamNext
<1>8. CASE ArgIncomplete
  BY <1>8, ArgIncompleteReadsNothing
<1>9. CASE Arg
  BY <1>9, ArgReads DEF Requests!StreamNext
<1>10. CASE ArgsDone
  BY <1>10, ArgsDoneReads DEF Requests!StreamNext
<1>11. QED
  BY <1>1, <1>2, <1>3, <1>4, <1>5, <1>6, <1>7, <1>8, <1>9, <1>10
     DEF InputNext, readQueryFromClient, processInputBuffer, processMultibulkBuffer

(* However the network cut it and however long the client was held: every  *)
(* step of the input side of a client (networking.c) reads the stream of   *)
(* bytes it sent as RequestStream does, or nothing of it.                  *)
THEOREM RequestsImplemented == InputSpec => ImplementsRequests
<1>1. InputInit => Requests!StreamInit
  BY RequestsInitially
<1>2. InputIInv /\ LoopInv /\ [InputNext]_inputVars
        => [Requests!StreamNext]_(Requests!streamVars)
  BY RequestsStep
<1>3. QED
  BY <1>1, <1>2, InputInductive, LoopInductive, PTL
     DEF InputSpec, ImplementsRequests, Requests!StreamSpec
===============================================================================
