------------------------ MODULE QualityPassesProofs ------------------------
(***************************************************************************)
(* Proofs about QualityPasses: however a pass packs its items into chunks, *)
(* splits them, loses answers and goes through its rounds, an item that is *)
(* not settled yet is in exactly one place, and its tasks run out of work. *)
(***************************************************************************)
EXTENDS QualityPasses, SequenceTheorems, FiniteSetTheorems, TLAPS

-----------------------------------------------------------------------------
(* Items in order, chunks and tasks.                                       *)

\* The items of a set are put in order once each.
LEMMA InOrderHolds ==
    ASSUME NEW I \in SUBSET Items
    PROVE  InOrder(I) \in Seq(Items) /\ Range(InOrder(I)) = I /\ IsInjective(InOrder(I))
<1> DEFINE N       == Cardinality(I)
           upTo(i) == {j \in I : j <= i}
           Sorts(q) == q \in [1 .. N -> I] /\ \A j, k \in DOMAIN q : j < k => q[j] < q[k]
<1>0. IsFiniteSet(I) /\ N \in Nat /\ I \subseteq Int
      /\ IsFiniteSet(1 .. N) /\ Cardinality(1 .. N) = N
  <2>1. IsFiniteSet(Items)
    BY FS_Interval, PassAssumption DEF Items
  <2>2. IsFiniteSet(I) /\ N \in Nat
    BY <2>1, FS_Subset, FS_CardinalityType
  <2>3. IsFiniteSet(1 .. N) /\ Cardinality(1 .. N) = N
    BY <2>2, FS_Interval
  <2>4. QED
    BY <2>2, <2>3, PassAssumption DEF Items
<1>1. \A i \in I : Cardinality(upTo(i)) \in 1 .. N
  <2> SUFFICES ASSUME NEW i \in I
               PROVE  Cardinality(upTo(i)) \in 1 .. N
    OBVIOUS
  <2>1. upTo(i) \in SUBSET I /\ i \in upTo(i)
    BY <1>0
  <2>2. /\ IsFiniteSet(upTo(i)) /\ Cardinality(upTo(i)) <= N
        /\ Cardinality(upTo(i)) \in Nat /\ Cardinality(upTo(i)) # 0
    BY <1>0, <2>1, FS_Subset, FS_CardinalityType, FS_EmptySet
  <2>3. QED
    BY <1>0, <2>2
<1>2. \A i, j \in I : i < j => Cardinality(upTo(i)) < Cardinality(upTo(j))
  <2> SUFFICES ASSUME NEW i \in I, NEW j \in I, i < j
               PROVE  Cardinality(upTo(i)) < Cardinality(upTo(j))
    OBVIOUS
  <2>0. \A x \in I : x \in Int
    BY <1>0
  <2>1. upTo(i) \in SUBSET upTo(j) /\ j \in upTo(j) /\ j \notin upTo(i) /\ upTo(j) \in SUBSET I
    BY <2>0
  <2>2. IsFiniteSet(upTo(j)) /\ Cardinality(upTo(i)) <= Cardinality(upTo(j))
        /\ (Cardinality(upTo(j)) = Cardinality(upTo(i)) => upTo(j) = upTo(i))
    BY <1>0, <2>1, FS_Subset
  <2>3. Cardinality(upTo(i)) \in Int /\ Cardinality(upTo(j)) \in Int
    BY <1>0, <1>1
  <2>4. Cardinality(upTo(j)) # Cardinality(upTo(i))
    BY <2>1, <2>2
  <2> HIDE DEF upTo
  <2>5. QED
    BY <2>2, <2>3, <2>4
<1> DEFINE rank == [i \in I |-> Cardinality(upTo(i))]
<1>3. rank \in Injection(I, 1 .. N)
  <2> HIDE DEF N, upTo
  <2>1. rank \in [I -> 1 .. N]
    BY <1>1
  <2>2. \A i, j \in I : rank[i] = rank[j] => i = j
    BY <1>0, <1>1, <1>2
  <2>3. QED
    BY <2>1, <2>2 DEF Injection, IsInjective
<1>4. rank \in Surjection(I, 1 .. N)
  <2> HIDE DEF rank
  <2>1. QED
    BY <1>0, <1>3, FS_Injection
<1>5. \E q : Sorts(q)
  <2> DEFINE at == [k \in 1 .. N |-> CHOOSE i \in I : rank[i] = k]
  <2>1. \A k \in 1 .. N : at[k] \in I /\ rank[at[k]] = k
    <3> HIDE DEF rank, N
    <3>1. QED
      BY <1>4 DEF Surjection
  <2>2. \A i, j \in I : rank[i] < rank[j] => i < j
    <3> HIDE DEF N, upTo
    <3>1. QED
      BY <1>0, <1>1, <1>2
  <2>3. at \in [1 .. N -> I] /\ \A j, k \in 1 .. N : j < k => at[j] < at[k]
    <3> HIDE DEF rank, N
    <3>1. \A k \in 1 .. N : at[k] \in I
      BY <2>1
    <3>2. QED
      BY <2>1, <2>2, <3>1
  <2> HIDE DEF at, N
  <2>4. Sorts(at)
    BY <2>3
  <2>5. QED
    BY <2>4
<1> HIDE DEF rank, upTo
<1>6. Sorts(InOrder(I))
  BY <1>5 DEF InOrder
<1>7. InOrder(I) \in [1 .. N -> I] /\ DOMAIN InOrder(I) = 1 .. N
  BY <1>6
<1>8. IsInjective(InOrder(I))
  <2> SUFFICES ASSUME NEW j \in 1 .. N, NEW k \in 1 .. N, InOrder(I)[j] = InOrder(I)[k]
               PROVE  j = k
    BY <1>7 DEF IsInjective
  <2>0. InOrder(I)[j] \in I /\ InOrder(I)[k] \in I
    BY <1>7
  <2>1. InOrder(I)[j] \in Int /\ InOrder(I)[k] \in Int /\ j \in Int /\ k \in Int
    <3>1. \A x \in I : x \in Int
      BY <1>0
    <3>2. j \in Int /\ k \in Int
      OBVIOUS
    <3>3. QED
      BY <2>0, <3>1, <3>2
  <2>2. ~(j < k) /\ ~(k < j)
    BY <1>6, <1>7, <2>1
  <2>3. QED
    BY <2>1, <2>2
<1> HIDE DEF N, Sorts
<1>9. InOrder(I) \in Surjection(1 .. N, I)
  <2>1. InOrder(I) \in Injection(1 .. N, I)
    BY <1>7, <1>8 DEF Injection
  <2>2. QED
    BY <1>0, <2>1, FS_Injection DEF N
<1>10. Range(InOrder(I)) = I
  BY <1>7, <1>9 DEF Range, Surjection
<1>11. InOrder(I) \in Seq(Items)
  <2>1. InOrder(I) \in [1 .. N -> Items]
    BY <1>7
  <2>2. QED
    BY <1>0, <2>1, SeqDef
<1>12. QED
  BY <1>8, <1>10, <1>11

\* The bounds of a chunk, and the chunk an index falls into.
From(k)    == (k - 1) * ChunkSize + 1
Upto(k, n) == IF k * ChunkSize < n THEN k * ChunkSize ELSE n
ChunkOf(j) == (j - 1) \div ChunkSize + 1
Count(n)   == (n + ChunkSize - 1) \div ChunkSize

\* Every index falls into one chunk, and there are at most as many chunks as
\* indices.
LEMMA ChunkBounds ==
    ASSUME NEW n \in Nat
    PROVE  /\ Count(n) \in Nat /\ Count(n) <= n
           /\ \A k \in 1 .. Count(n) : From(k) \in 1 .. n /\ Upto(k, n) \in From(k) .. n
           /\ \A j \in 1 .. n : ChunkOf(j) \in 1 .. Count(n) /\ j \in From(ChunkOf(j)) .. Upto(ChunkOf(j), n)
           /\ \A k, l \in 1 .. Count(n) : k < l => Upto(k, n) < From(l)
<1> DEFINE C == ChunkSize
           K == Count(n)
<1>0. C \in Nat \ {0}
  BY PassAssumption
<1>1. \A k, l \in Int : k < l => (k + 1) * C <= l * C /\ k * C \in Int /\ l * C \in Int
  BY <1>0
<1>2. \A m \in Nat : /\ m \div C \in Nat /\ (m \div C) * C <= m
                     /\ m < (m \div C + 1) * C
  BY <1>0
<1>3. \A k \in Int : (k + 1) * C = k * C + C /\ (k - 1) * C = k * C - C /\ k * C \in Int
  BY <1>0
<1>4. n + C - 1 \in Nat
  BY <1>0
<1>5. K \in Nat /\ K * C <= n + C - 1 /\ n + C - 1 < K * C + C
  BY <1>2, <1>3, <1>4 DEF Count
<1>6. K <= n
  <2> SUFFICES ASSUME n < K
               PROVE  FALSE
    BY <1>5
  <2>1. (n + 1) * C <= K * C
    BY <1>1, <1>5
  <2>2. n <= n * C
    BY <1>0
  <2>3. QED
    BY <1>0, <1>3, <1>5, <2>1, <2>2
<1>7. \A k \in 1 .. K : (k - 1) * C \in Nat /\ (k - 1) * C < n /\ (k - 1) * C < k * C
  <2> SUFFICES ASSUME NEW k \in 1 .. K
               PROVE  (k - 1) * C \in Nat /\ (k - 1) * C < n /\ (k - 1) * C < k * C
    OBVIOUS
  <2>1. k * C <= K * C
    BY <1>0, <1>5
  <2>2. (k - 1) * C \in Nat /\ (k - 1) * C = k * C - C
    BY <1>0, <1>3
  <2>3. QED
    BY <1>0, <1>3, <1>5, <2>1, <2>2
<1>8. ASSUME NEW k \in 1 .. K
      PROVE  From(k) \in 1 .. n /\ Upto(k, n) \in From(k) .. n
  BY <1>3, <1>7 DEF From, Upto
<1>9. ASSUME NEW j \in 1 .. n
      PROVE  ChunkOf(j) \in 1 .. K /\ j \in From(ChunkOf(j)) .. Upto(ChunkOf(j), n)
  <2> DEFINE d == (j - 1) \div C
  <2>1. d \in Nat /\ d * C <= j - 1 /\ j - 1 < d * C + C
    BY <1>2, <1>3
  <2> HIDE DEF d
  <2>2. d < K
    <3> SUFFICES ASSUME K <= d
                 PROVE  FALSE
      BY <1>5, <2>1
    <3>1. K * C <= d * C
      BY <1>0, <1>5, <2>1
    <3>2. QED
      BY <1>0, <1>3, <1>5, <2>1, <3>1
  <2>3. ChunkOf(j) = d + 1 /\ From(d + 1) = d * C + 1 /\ (d + 1) * C = d * C + C
    BY <1>3, <2>1 DEF ChunkOf, From, d
  <2>4. d * C \in Int
    BY <1>3, <2>1
  <2>5. QED
    BY <1>0, <1>5, <2>1, <2>2, <2>3, <2>4 DEF Upto
<1>10. ASSUME NEW k \in 1 .. K, NEW l \in 1 .. K, k < l
       PROVE  Upto(k, n) < From(l)
  <2>1. k * C <= (l - 1) * C /\ (l - 1) * C \in Int /\ k * C \in Int
    BY <1>1, <1>3, <1>5, <1>10
  <2>2. QED
    BY <2>1 DEF Upto, From
<1>11. QED
  BY <1>5, <1>6, <1>8, <1>9, <1>10

\* The chunks of a sequence hold its items, each once.
LEMMA ChunksHold ==
    ASSUME NEW q \in Seq(Items), IsInjective(q)
    PROVE  /\ Chunks(q) \in Seq(Seq(Items) \ {<<>>}) /\ Len(Chunks(q)) <= Len(q)
           /\ \A i \in Items : i \in Range(q) <=> \E k \in DOMAIN Chunks(q) : i \in Range(Chunks(q)[k])
           /\ \A k, l \in DOMAIN Chunks(q) : \A i \in Items :
                 i \in Range(Chunks(q)[k]) /\ i \in Range(Chunks(q)[l]) => k = l
<1> DEFINE n == Len(q)
           S(k) == SubSeq(q, From(k), Upto(k, n))
<1>0. n \in Nat /\ DOMAIN q = 1 .. n /\ \A j \in 1 .. n : q[j] \in Items
  BY LenProperties, ElementOfSeq
<1>1. Chunks(q) = [k \in 1 .. Count(n) |-> S(k)]
  BY DEF Chunks, From, Upto, Count
<1>2. ASSUME NEW k \in 1 .. Count(n)
      PROVE  /\ S(k) \in Seq(Items) \ {<<>>}
             /\ \A i : i \in Range(S(k)) <=> \E j \in From(k) .. Upto(k, n) : i = q[j]
  <2>1. From(k) \in 1 .. n /\ Upto(k, n) \in From(k) .. n
    BY <1>0, ChunkBounds
  <2> DEFINE a == From(k)
             b == Upto(k, n)
  <2>2. a \in Nat /\ b \in Nat /\ 1 <= a /\ a <= b /\ b <= n
    BY <1>0, <2>1
  <2> HIDE DEF a, b
  <2>3. \A j \in a .. b : q[j] \in Items
    BY <1>0, <2>2
  <2>4. /\ SubSeq(q, a, b) \in Seq(Items)
        /\ Len(SubSeq(q, a, b)) = b - a + 1
        /\ \A j \in 1 .. b - a + 1 : SubSeq(q, a, b)[j] = q[a + j - 1]
    BY <2>2, <2>3, SubSeqProperties
  <2>5. DOMAIN SubSeq(q, a, b) = 1 .. b - a + 1
    BY <2>4, LenProperties
  <2>6. SubSeq(q, a, b) # <<>>
    BY <2>2, <2>4
  <2>7. \A i : i \in Range(SubSeq(q, a, b)) <=> \E j \in a .. b : i = q[j]
    <3> SUFFICES ASSUME NEW i
                 PROVE  i \in Range(SubSeq(q, a, b)) <=> \E j \in a .. b : i = q[j]
      OBVIOUS
    <3>1. ASSUME NEW j \in 1 .. b - a + 1
          PROVE  a + j - 1 \in a .. b /\ SubSeq(q, a, b)[j] = q[a + j - 1]
      BY <2>2, <2>4
    <3>2. ASSUME NEW j \in a .. b
          PROVE  j - a + 1 \in 1 .. b - a + 1 /\ SubSeq(q, a, b)[j - a + 1] = q[j]
      BY <2>2, <2>4
    <3>3. i \in Range(SubSeq(q, a, b)) <=> \E j \in 1 .. b - a + 1 : i = SubSeq(q, a, b)[j]
      BY <2>5 DEF Range
    <3>4. QED
      BY <3>1, <3>2, <3>3
  <2>8. QED
    BY <2>4, <2>6, <2>7 DEF a, b
<1> HIDE DEF S
<1>3. Chunks(q) \in [1 .. Count(n) -> Seq(Items) \ {<<>>}]
  BY <1>1, <1>2
<1>4. Count(n) \in Nat /\ Count(n) <= n
  BY <1>0, ChunkBounds
<1>5. /\ Chunks(q) \in Seq(Seq(Items) \ {<<>>})
      /\ DOMAIN Chunks(q) = 1 .. Count(n) /\ Len(Chunks(q)) = Count(n)
  <2>1. Chunks(q) \in Seq(Seq(Items) \ {<<>>})
    BY <1>3, <1>4, SeqDef
  <2>2. DOMAIN Chunks(q) = 1 .. Count(n)
    BY <1>3
  <2>3. QED
    BY <1>4, <2>1, <2>2, LenProperties
<1>6. ASSUME NEW i \in Range(q)
      PROVE  \E k \in DOMAIN Chunks(q) : i \in Range(Chunks(q)[k])
  <2>1. PICK j \in 1 .. n : q[j] = i
    BY <1>0 DEF Range
  <2>2. ChunkOf(j) \in 1 .. Count(n) /\ j \in From(ChunkOf(j)) .. Upto(ChunkOf(j), n)
    BY <1>0, ChunkBounds
  <2>3. QED
    BY <1>1, <1>2, <1>5, <2>1, <2>2
<1>7. ASSUME NEW k \in DOMAIN Chunks(q), NEW i \in Range(Chunks(q)[k])
      PROVE  i \in Range(q)
  <2>1. PICK j \in From(k) .. Upto(k, n) : i = q[j]
    BY <1>1, <1>2, <1>5, <1>7
  <2>2. j \in 1 .. n
    <3>1. k \in 1 .. Count(n)
      BY <1>5
    <3>2. From(k) \in 1 .. n /\ Upto(k, n) \in From(k) .. n
      BY <1>0, <3>1, ChunkBounds
    <3>3. QED
      BY <1>0, <3>2
  <2>3. QED
    BY <1>0, <2>1, <2>2 DEF Range
<1>8. ASSUME NEW k \in DOMAIN Chunks(q), NEW l \in DOMAIN Chunks(q), NEW i \in Items,
             i \in Range(Chunks(q)[k]), i \in Range(Chunks(q)[l])
      PROVE  k = l
  <2>1. PICK j \in From(k) .. Upto(k, n) : i = q[j]
    BY <1>1, <1>2, <1>5, <1>8
  <2>2. PICK m \in From(l) .. Upto(l, n) : i = q[m]
    BY <1>1, <1>2, <1>5, <1>8
  <2>3. k \in 1 .. Count(n) /\ l \in 1 .. Count(n)
    BY <1>5
  <2> DEFINE a(x) == From(x)
             b(x) == Upto(x, n)
  <2>0. /\ \A x \in 1 .. Count(n) : a(x) \in 1 .. n /\ b(x) \in a(x) .. n
        /\ \A x, y \in 1 .. Count(n) : x < y => b(x) < a(y)
    BY <1>0, ChunkBounds
  <2> HIDE DEF a, b
  <2>4. j \in 1 .. n /\ m \in 1 .. n
    <3>1. j \in a(k) .. b(k) /\ m \in a(l) .. b(l)
      BY DEF a, b
    <3>2. QED
      BY <1>0, <2>0, <2>3, <3>1
  <2>5. j = m
    BY <1>0, <2>1, <2>2, <2>4 DEF IsInjective
  <2>6. /\ a(k) \in Int /\ a(l) \in Int /\ b(k) \in Int /\ b(l) \in Int
        /\ (k < l => b(k) < a(l)) /\ (l < k => b(l) < a(k))
    BY <1>0, <2>0, <2>3
  <2>7. ~(k < l) /\ ~(l < k)
    <3>1. j \in a(k) .. b(k) /\ j \in a(l) .. b(l)
      BY <2>5 DEF a, b
    <3>2. QED
      BY <1>0, <2>4, <2>6, <3>1
  <2>8. QED
    BY <1>4, <2>3, <2>7
<1>9. QED
  BY <1>4, <1>5, <1>6, <1>7, <1>8

\* Two sequences without an item in common, one behind the other.
LEMMA ConcatHolds ==
    ASSUME NEW q \in Seq(Items), NEW r \in Seq(Items), IsInjective(q), IsInjective(r),
           Range(q) \cap Range(r) = {}
    PROVE  q \o r \in Seq(Items) /\ IsInjective(q \o r) /\ Range(q \o r) = Range(q) \cup Range(r)
<1>1. Range(q \o r) = Range(q) \cup Range(r)
  BY RangeConcatenation
<1>2. /\ q \o r \in Seq(Items) /\ Len(q \o r) = Len(q) + Len(r)
      /\ \A i \in 1 .. Len(q) + Len(r) :
            (q \o r)[i] = IF i <= Len(q) THEN q[i] ELSE r[i - Len(q)]
  BY ConcatProperties
<1>3. /\ Len(q) \in Nat /\ DOMAIN q = 1 .. Len(q)
      /\ Len(r) \in Nat /\ DOMAIN r = 1 .. Len(r)
      /\ DOMAIN (q \o r) = 1 .. Len(q) + Len(r)
  BY <1>2, LenProperties
<1>4. IsInjective(q \o r)
  <2> DEFINE z == q \o r
             n == Len(q)
             m == Len(r)
  <2> SUFFICES ASSUME NEW i \in 1 .. n + m, NEW j \in 1 .. n + m, z[i] = z[j], i < j
               PROVE  FALSE
    <3>1. \A i, j \in 1 .. n + m : z[i] = z[j] => ~(i < j) /\ ~(j < i)
      OBVIOUS
    <3>2. \A i, j \in 1 .. n + m : ~(i < j) /\ ~(j < i) => i = j
      BY <1>3
    <3>3. QED
      BY <1>3, <3>1, <3>2 DEF IsInjective
  <2>1. CASE j <= n
    <3>1. i \in DOMAIN q /\ j \in DOMAIN q /\ q[i] = q[j]
      BY <1>2, <1>3, <2>1
    <3>2. QED
      BY <3>1 DEF IsInjective
  <2>2. CASE i <= n /\ ~(j <= n)
    <3>1. i \in DOMAIN q /\ j - n \in DOMAIN r /\ q[i] = r[j - n]
      BY <1>2, <1>3, <2>2
    <3>2. QED
      BY <3>1 DEF Range
  <2>3. CASE ~(i <= n)
    <3>1. i - n \in DOMAIN r /\ j - n \in DOMAIN r /\ r[i - n] = r[j - n] /\ i - n # j - n
      BY <1>2, <1>3, <2>3
    <3>2. QED
      BY <3>1 DEF IsInjective
  <2>4. QED
    BY <1>3, <2>1, <2>2, <2>3
<1>5. QED
  BY <1>1, <1>2, <1>4

Task == [pc : {"absent", "waiting", "working", "asking", "over", "error"},
         chunk : Seq(Items), queue : Seq(Seq(Items)),
         found : [Items -> Verdicts \cup Texts \cup {"none"}]]

\* Every item of a sequence gets one task, and no other item does.
LEMMA TasksHold ==
    ASSUME NEW q \in Seq(Items), IsInjective(q)
    PROVE  /\ TasksFor(q) \in [Callers -> Task]
           /\ \A t \in Callers :
                 /\ TasksFor(q)[t].found = [i \in Items |-> "none"]
                 /\ \/ TasksFor(q)[t].pc = "absent" /\ TasksFor(q)[t].chunk = <<>>
                    \/ TasksFor(q)[t].pc = "waiting" /\ TasksFor(q)[t].queue = <<TasksFor(q)[t].chunk>>
           /\ \A t, u \in Callers :
                 t # u => Range(TasksFor(q)[t].chunk) \cap Range(TasksFor(q)[u].chunk) = {}
           /\ UNION {Range(TasksFor(q)[t].chunk) : t \in Callers} = Range(q)
<1> DEFINE K == TasksFor(q)
           D == DOMAIN Chunks(q)
<1>1. D \subseteq Callers
  <2>1. q \in Injection(1 .. Len(q), Items)
    BY LenProperties DEF Injection
  <2>2. Len(q) \in Nat /\ IsFiniteSet(Items) /\ Cardinality(Items) = ItemCount
        /\ Cardinality(1 .. Len(q)) = Len(q)
    <3>1. Len(q) \in Nat /\ ItemCount \in Nat
      BY LenProperties, PassAssumption
    <3>2. \A n \in Nat : IsFiniteSet(1 .. n) /\ Cardinality(1 .. n) = n
      BY FS_Interval
    <3>3. QED
      BY <3>1, <3>2 DEF Items
  <2>3. Len(q) <= ItemCount
    BY <2>1, <2>2, FS_Injection
  <2>4. Chunks(q) \in Seq(Seq(Items) \ {<<>>}) /\ Len(Chunks(q)) <= Len(q)
    BY ChunksHold
  <2>5. Len(Chunks(q)) \in Nat /\ D = 1 .. Len(Chunks(q))
    BY <2>4, LenProperties
  <2>6. QED
    BY <2>2, <2>3, <2>4, <2>5, PassAssumption DEF Items
<1>2. \A t \in D : Chunks(q)[t] \in Seq(Items)
  <2>1. Chunks(q) \in Seq(Seq(Items) \ {<<>>})
    BY ChunksHold
  <2>2. QED
    BY <2>1, ElementOfSeq, LenProperties
<1>3. \A t \in Callers :
         K[t] = IF t \in D THEN [NoTask EXCEPT !.pc = "waiting", !.chunk = Chunks(q)[t],
                                               !.queue = <<Chunks(q)[t]>>]
                ELSE NoTask
  BY DEF TasksFor
<1>4. NoTask \in Task /\ NoTask.found = [i \in Items |-> "none"] /\ NoTask.pc = "absent"
      /\ NoTask.chunk = <<>> /\ NoTask.queue = <<>>
  BY DEF NoTask, Task
<1>5. \A t \in D : /\ K[t] \in Task /\ K[t].found = NoTask.found /\ K[t].pc = "waiting"
                   /\ K[t].chunk = Chunks(q)[t] /\ K[t].queue = <<Chunks(q)[t]>>
  <2> SUFFICES ASSUME NEW t \in D
               PROVE  /\ K[t] \in Task /\ K[t].found = NoTask.found /\ K[t].pc = "waiting"
                      /\ K[t].chunk = Chunks(q)[t] /\ K[t].queue = <<Chunks(q)[t]>>
    OBVIOUS
  <2> DEFINE c == Chunks(q)[t]
  <2>1. c \in Seq(Items) /\ <<c>> \in Seq(Seq(Items))
    BY <1>2
  <2>2. K[t] = [NoTask EXCEPT !.pc = "waiting", !.chunk = c, !.queue = <<c>>]
    BY <1>1, <1>3
  <2> HIDE DEF c, K
  <2>3. QED
    BY <1>4, <2>1, <2>2 DEF Task, c
<1>6. \A t \in Callers \ D : K[t] = NoTask
  BY <1>3
<1>7. K \in [Callers -> Task]
  BY <1>4, <1>5, <1>6 DEF TasksFor
<1>8. \A t \in Callers : Range(K[t].chunk) = IF t \in D THEN Range(Chunks(q)[t]) ELSE {}
  <2>1. Range(<<>>) = {}
    BY DEF Range
  <2>2. \A t \in D : Range(K[t].chunk) = Range(Chunks(q)[t])
    BY <1>5, Zenon
  <2>3. \A t \in Callers \ D : Range(K[t].chunk) = {}
    BY <1>4, <1>6, <2>1, Zenon
  <2> HIDE DEF K, D
  <2>4. QED
    BY <2>2, <2>3
<1>9. \A t \in D : Range(Chunks(q)[t]) \subseteq Items
  BY <1>2, RangeOfSeq
<1> HIDE DEF K, D
<1>10. \A t, u \in Callers : t # u => Range(K[t].chunk) \cap Range(K[u].chunk) = {}
  <2>1. \A k, l \in D : \A i \in Items :
           i \in Range(Chunks(q)[k]) /\ i \in Range(Chunks(q)[l]) => k = l
    BY ChunksHold DEF D
  <2>2. QED
    BY <1>8, <1>9, <2>1
<1>11. UNION {Range(K[t].chunk) : t \in Callers} = Range(q)
  <2>1. \A i \in Items : i \in Range(q) <=> \E k \in D : i \in Range(Chunks(q)[k])
    BY ChunksHold DEF D
  <2>2. Range(q) \subseteq Items
    BY RangeOfSeq
  <2>3. QED
    BY <1>1, <1>8, <1>9, <2>1, <2>2
<1>12. \A t \in Callers :
          /\ K[t].found = [i \in Items |-> "none"]
          /\ \/ K[t].pc = "absent" /\ K[t].chunk = <<>>
             \/ K[t].pc = "waiting" /\ K[t].queue = <<K[t].chunk>>
  <2> SUFFICES ASSUME NEW t \in Callers
               PROVE  /\ K[t].found = [i \in Items |-> "none"]
                      /\ \/ K[t].pc = "absent" /\ K[t].chunk = <<>>
                         \/ K[t].pc = "waiting" /\ K[t].queue = <<K[t].chunk>>
    OBVIOUS
  <2>1. CASE t \in D
    BY <1>4, <1>5, <2>1, Zenon
  <2>2. CASE t \notin D
    BY <1>4, <1>6, <2>2, Zenon
  <2>3. QED
    BY <2>1, <2>2
<1>13. QED
  BY <1>7, <1>10, <1>11, <1>12 DEF K
-----------------------------------------------------------------------------
(* The invariant.                                                          *)

PassTyped ==
    /\ kind \in Kinds /\ stage \in {"review", "audit", "correct"} \cup Ended
    /\ task \in [Callers -> Task] /\ pending \in Seq(Items) /\ text \in [Items -> Texts]
    /\ records \in [Items -> Nat] /\ passed \subseteq Items

\* What a task of this stage may have found of an item it is done with.
Accepted(st) == IF st = "review" THEN {"keep"}
                ELSE IF st = "audit" THEN Verdicts ELSE Texts \cup {"none"}

Covered(items, queue, found, st) ==
    \A i \in items : found[i] \in Accepted(st) \/ \E k \in DOMAIN queue : i \in Range(queue[k])

\* A task has found something of every item of its chunk or has it still in its
\* queue; a task of a review does not fail.
TaskSound(k, st) ==
    /\ k.pc = "absent" => k.chunk = <<>>
    /\ k.pc \in {"waiting", "working", "asking"} => k.queue # <<>>
    /\ k.pc = "over" => k.queue = <<>>
    /\ k.pc = "error" => st # "review"
    /\ k.pc # "error" => Covered(Range(k.chunk), k.queue, k.found, st)

HeldBy(t) == Range(task[t].chunk)
Held      == UNION {HeldBy(t) : t \in Callers}
Open      == Range(pending) \cup Held

\* An item that is not settled is pending once or in one task's chunk.
OnePlace ==
    /\ IsInjective(pending)
    /\ Range(pending) \cap Held = {}
    /\ \A t, u \in Callers : t # u => HeldBy(t) \cap HeldBy(u) = {}
    /\ passed \cap Open = {}
    /\ \A i \in Items : records[i] = IF i \in passed \cup Open THEN 0 ELSE 1

\* EveryItemIsSettled is not inductive: it speaks of passes that have ended.
SettlingInv ==
    /\ PassTyped
    /\ stage \notin Ended => OnePlace /\ \A t \in Callers : TaskSound(task[t], stage)
    /\ stage \in Ended => AllJoined
    /\ EveryItemIsSettled

-----------------------------------------------------------------------------
(* A task.                                                                 *)

\* The parts of what is left in the queue, when its first chunk is dealt with
\* or split in two.
LEMMA QueueHolds ==
    ASSUME NEW Q \in Seq(Seq(Items)), Q # <<>>
    PROVE  /\ Head(Q) \in Seq(Items) /\ Tail(Q) \in Seq(Seq(Items))
           /\ \A k \in DOMAIN Q : \A i \in Range(Q[k]) :
                 i \in Range(Head(Q)) \/ \E l \in DOMAIN Tail(Q) : i \in Range(Tail(Q)[l])
<1>1. /\ Len(Q) \in Nat \ {0} /\ DOMAIN Q = 1 .. Len(Q) /\ Head(Q) = Q[1]
      /\ Head(Q) \in Seq(Items) /\ Tail(Q) \in Seq(Seq(Items))
      /\ Len(Tail(Q)) = Len(Q) - 1
      /\ \A l \in 1 .. Len(Tail(Q)) : Tail(Q)[l] = Q[l + 1]
  BY HeadTailProperties, LenProperties, EmptySeq
<1>2. DOMAIN Tail(Q) = 1 .. Len(Q) - 1
  BY <1>1, LenProperties
<1>3. ASSUME NEW k \in DOMAIN Q, k # 1
      PROVE  k - 1 \in DOMAIN Tail(Q) /\ Tail(Q)[k - 1] = Q[k]
  BY <1>1, <1>2, <1>3
<1>4. QED
  BY <1>1, <1>3

Halves(Q) ==
    LET b == Head(Q)
        mid == Len(b) \div 2
    IN  <<SubSeq(b, 1, mid), SubSeq(b, mid + 1, Len(b))>> \o Tail(Q)

LEMMA HalvesHold ==
    ASSUME NEW Q \in Seq(Seq(Items)), Q # <<>>
    PROVE  /\ Halves(Q) \in Seq(Seq(Items))
           /\ \A k \in DOMAIN Q : \A i \in Range(Q[k]) :
                 \E l \in DOMAIN Halves(Q) : i \in Range(Halves(Q)[l])
<1> DEFINE b   == Head(Q)
           n   == Len(b)
           mid == n \div 2
           one == SubSeq(b, 1, mid)
           two == SubSeq(b, mid + 1, n)
           H   == <<one, two>>
<1>1. /\ b \in Seq(Items) /\ Tail(Q) \in Seq(Seq(Items))
      /\ \A k \in DOMAIN Q : \A i \in Range(Q[k]) :
            i \in Range(b) \/ \E l \in DOMAIN Tail(Q) : i \in Range(Tail(Q)[l])
  BY QueueHolds
<1> HIDE DEF b
<1>2. /\ n \in Nat /\ DOMAIN b = 1 .. n /\ \A j \in 1 .. n : b[j] \in Items
      /\ mid \in Nat /\ mid <= n
  <2>1. n \in Nat /\ DOMAIN b = 1 .. n /\ \A j \in 1 .. n : b[j] \in Items
    BY <1>1, LenProperties, ElementOfSeq
  <2> HIDE DEF n
  <2>2. mid \in Nat /\ mid <= n
    BY <2>1
  <2>3. QED
    BY <2>1, <2>2 DEF n
<1> HIDE DEF n, mid
<1>3. /\ one \in Seq(Items) /\ Len(one) = mid /\ \A j \in 1 .. mid : one[j] = b[j]
  <2>1. \A j \in 1 .. mid : b[j] \in Items /\ 1 + j - 1 = j
    BY <1>2
  <2>2. /\ one \in Seq(Items) /\ Len(one) = IF 1 <= mid THEN mid - 1 + 1 ELSE 0
        /\ \A j \in 1 .. mid - 1 + 1 : one[j] = b[1 + j - 1]
    BY <1>2, <2>1, SubSeqProperties
  <2>3. QED
    BY <1>2, <2>1, <2>2
<1>4. /\ two \in Seq(Items) /\ Len(two) = n - mid
      /\ \A j \in 1 .. n - mid : two[j] = b[mid + j]
  <2>1. \A j \in mid + 1 .. n : b[j] \in Items
    BY <1>2
  <2>2. /\ two \in Seq(Items) /\ Len(two) = IF mid + 1 <= n THEN n - (mid + 1) + 1 ELSE 0
        /\ \A j \in 1 .. n - (mid + 1) + 1 : two[j] = b[(mid + 1) + j - 1]
    BY <1>2, <2>1, SubSeqProperties
  <2>3. \A j \in 1 .. n - mid : (mid + 1) + j - 1 = mid + j /\ j \in 1 .. n - (mid + 1) + 1
    BY <1>2
  <2>4. QED
    BY <1>2, <2>2, <2>3
<1> HIDE DEF one, two
<1>5. DOMAIN one = 1 .. mid /\ DOMAIN two = 1 .. n - mid
  BY <1>3, <1>4, LenProperties
<1>6. ASSUME NEW i \in Range(b)
      PROVE  i \in Range(one) \/ i \in Range(two)
  <2>1. PICK j \in 1 .. n : b[j] = i
    BY <1>2 DEF Range
  <2>2. CASE j <= mid
    <3>1. j \in DOMAIN one /\ one[j] = i
      BY <1>2, <1>3, <1>5, <2>1, <2>2
    <3>2. QED
      BY <3>1 DEF Range
  <2>3. CASE ~(j <= mid)
    <3>1. j - mid \in 1 .. n - mid /\ mid + (j - mid) = j
      BY <1>2, <2>3
    <3>2. j - mid \in DOMAIN two /\ two[j - mid] = i
      BY <1>4, <1>5, <2>1, <3>1
    <3>3. QED
      BY <3>2 DEF Range
  <2>4. QED
    BY <2>2, <2>3
<1>7. H \in Seq(Seq(Items)) /\ Len(H) = 2 /\ H[1] = one /\ H[2] = two
  BY <1>3, <1>4
<1>8. Halves(Q) = H \o Tail(Q)
  BY DEF Halves, b, n, mid, one, two
<1> HIDE DEF H
<1>9. /\ H \o Tail(Q) \in Seq(Seq(Items)) /\ Len(H \o Tail(Q)) = 2 + Len(Tail(Q))
      /\ \A l \in 1 .. 2 + Len(Tail(Q)) :
            (H \o Tail(Q))[l] = IF l <= 2 THEN H[l] ELSE Tail(Q)[l - 2]
  <2> DEFINE T == Tail(Q)
  <2>1. H \in Seq(Seq(Items)) /\ T \in Seq(Seq(Items)) /\ Len(H) = 2
    BY <1>1, <1>7
  <2> HIDE DEF T
  <2>2. /\ H \o T \in Seq(Seq(Items)) /\ Len(H \o T) = Len(H) + Len(T)
        /\ \A l \in 1 .. Len(H) + Len(T) :
              (H \o T)[l] = IF l <= Len(H) THEN H[l] ELSE T[l - Len(H)]
    BY <2>1, ConcatProperties
  <2>3. QED
    BY <2>1, <2>2 DEF T
<1>10. /\ DOMAIN (H \o Tail(Q)) = 1 .. 2 + Len(Tail(Q))
       /\ DOMAIN Tail(Q) = 1 .. Len(Tail(Q)) /\ Len(Tail(Q)) \in Nat
  BY <1>1, <1>9, LenProperties
<1>11. ASSUME NEW i \in Range(b)
       PROVE  \E l \in DOMAIN (H \o Tail(Q)) : i \in Range((H \o Tail(Q))[l])
  <2>1. /\ 1 \in DOMAIN (H \o Tail(Q)) /\ (H \o Tail(Q))[1] = one
        /\ 2 \in DOMAIN (H \o Tail(Q)) /\ (H \o Tail(Q))[2] = two
    BY <1>7, <1>9, <1>10
  <2>2. QED
    BY <1>6, <2>1
<1>12. ASSUME NEW l \in DOMAIN Tail(Q)
       PROVE  l + 2 \in DOMAIN (H \o Tail(Q)) /\ (H \o Tail(Q))[l + 2] = Tail(Q)[l]
  <2> DEFINE T == Tail(Q)
             W == H \o T
  <2>1. DOMAIN W = 1 .. 2 + Len(T) /\ DOMAIN T = 1 .. Len(T) /\ Len(T) \in Nat /\ l \in DOMAIN T
    BY <1>10, <1>12
  <2>2. \A j \in 1 .. 2 + Len(T) : W[j] = IF j <= 2 THEN H[j] ELSE T[j - 2]
    BY <1>9
  <2> HIDE DEF T, W
  <2>3. l + 2 \in 1 .. 2 + Len(T) /\ ~(l + 2 <= 2) /\ (l + 2) - 2 = l
    BY <2>1
  <2>4. l + 2 \in DOMAIN W /\ W[l + 2] = T[l]
    BY <2>1, <2>2, <2>3
  <2>5. QED
    BY <2>4 DEF T, W
<1> DEFINE Z == H \o Tail(Q)
<1>13. ASSUME NEW k \in DOMAIN Q, NEW i \in Range(Q[k])
       PROVE  \E l \in DOMAIN Z : i \in Range(Z[l])
  <2>1. CASE i \in Range(b)
    BY <1>11, <2>1
  <2>2. CASE \E l \in DOMAIN Tail(Q) : i \in Range(Tail(Q)[l])
    BY <1>12, <2>2
  <2>3. QED
    BY <1>1, <2>1, <2>2
<1> HIDE DEF Z
<1>14. Halves(Q) = Z /\ Z \in Seq(Seq(Items))
  BY <1>8, <1>9 DEF Z
<1>15. QED
  BY <1>13, <1>14

Findings == Verdicts \cup Texts \cup {"none"}

\* A task that goes on with what is left, having found something acceptable of
\* the rest.
LEMMA GoOnHolds ==
    ASSUME PassTyped, NEW t \in Callers, TaskSound(task[t], stage), task[t].pc \in {"working", "asking"},
           NEW queue \in Seq(Seq(Items)), NEW found \in [Items -> Findings],
           GoOn(t, queue, found), stage' = stage,
           \A i \in Items : task[t].found[i] \in Accepted(stage) => found[i] \in Accepted(stage),
           \A k \in DOMAIN task[t].queue : \A i \in Range(task[t].queue[k]) :
              found[i] \in Accepted(stage) \/ \E l \in DOMAIN queue : i \in Range(queue[l])
    PROVE  task'[t] \in Task /\ task'[t].chunk = task[t].chunk /\ TaskSound(task'[t], stage')
<1> DEFINE k  == task[t]
           nu == [k EXCEPT !.pc = IF queue = <<>> THEN "over" ELSE "working",
                           !.queue = queue, !.found = found]
<1>1. k \in Task /\ task'[t] = nu
  BY DEF PassTyped, GoOn, SetTask
<1>2. /\ nu \in Task /\ nu.chunk = k.chunk /\ nu.queue = queue /\ nu.found = found
      /\ nu.pc = IF queue = <<>> THEN "over" ELSE "working"
  BY <1>1 DEF Task, Findings
<1>3. Range(k.chunk) \subseteq Items
  BY <1>1, RangeOfSeq DEF Task
<1>4. Accepted(stage') = Accepted(stage)
  BY DEF Accepted
<1>5. Covered(Range(k.chunk), k.queue, k.found, stage)
  BY DEF TaskSound
<1>6. Covered(Range(k.chunk), queue, found, stage)
  BY <1>3, <1>5 DEF Covered
<1>7. Covered(Range(nu.chunk), nu.queue, nu.found, stage')
  BY <1>2, <1>4, <1>6 DEF Covered
<1> HIDE DEF nu, k
<1>8. TaskSound(nu, stage')
  BY <1>2, <1>7 DEF TaskSound
<1>9. QED
  BY <1>1, <1>2, <1>8 DEF k, TaskSound, Covered, Accepted

\* What is found of a chunk the provider answered is acceptable, and so is what
\* stands for a missing answer.
LEMMA OutcomesAccepted ==
    ASSUME PassTyped, stage \notin Ended, NEW b \in Seq(Items), NEW outcome,
           outcome \in Outcomes(b) \/ outcome = Failing(b)
    PROVE  \A i \in Range(b) : outcome[i] \in Accepted(stage) /\ outcome[i] \in Findings
<1>1. stage \in {"review", "audit", "correct"}
  BY DEF PassTyped
<1>2. \A i \in Range(b) : Failing(b)[i] = IF stage = "correct" THEN "none" ELSE "keep"
  BY DEF Failing
<1>3. CASE outcome = Failing(b)
  BY <1>1, <1>2, <1>3 DEF Accepted, Findings, Verdicts
<1>4. CASE outcome \in Outcomes(b) /\ stage = "review"
  BY <1>2, <1>4 DEF Outcomes, Accepted, Findings, Verdicts
<1>5. CASE outcome \in Outcomes(b) /\ stage = "audit"
  <2>1. outcome \in [Range(b) -> Verdicts]
    BY <1>5 DEF Outcomes
  <2>2. QED
    BY <1>5, <2>1 DEF Accepted, Findings
<1>6. CASE outcome \in Outcomes(b) /\ stage = "correct"
  <2>1. outcome \in [Range(b) -> Texts \cup {"none"}]
    BY <1>6 DEF Outcomes
  <2>2. QED
    BY <1>6, <2>1 DEF Accepted, Findings
<1>7. QED
  BY <1>1, <1>3, <1>4, <1>5, <1>6

\* A task is done with the first chunk of its queue.
LEMMA DoneWithChunk ==
    ASSUME PassTyped, stage \notin Ended, NEW t \in Callers, TaskSound(task[t], stage),
           task[t].pc \in {"working", "asking"}, NEW outcome,
           outcome \in Outcomes(Head(task[t].queue)) \/ outcome = Failing(Head(task[t].queue)),
           GoOn(t, Tail(task[t].queue), Finding(t, Head(task[t].queue), outcome)), stage' = stage
    PROVE  task'[t] \in Task /\ task'[t].chunk = task[t].chunk /\ TaskSound(task'[t], stage')
<1> DEFINE Q     == task[t].queue
           b     == Head(Q)
           found == Finding(t, b, outcome)
<1>1. task[t] \in Task /\ Q \in Seq(Seq(Items)) /\ Q # <<>>
  BY DEF PassTyped, Task, TaskSound
<1>2. /\ b \in Seq(Items) /\ Tail(Q) \in Seq(Seq(Items))
      /\ \A k \in DOMAIN Q : \A i \in Range(Q[k]) :
            i \in Range(b) \/ \E l \in DOMAIN Tail(Q) : i \in Range(Tail(Q)[l])
  BY <1>1, QueueHolds
<1>3. \A i \in Range(b) : outcome[i] \in Accepted(stage) /\ outcome[i] \in Findings
  BY <1>2, OutcomesAccepted
<1>4. \A i \in Items : found[i] = IF i \in Range(b) THEN outcome[i] ELSE task[t].found[i]
  BY DEF Finding
<1>5. found \in [Items -> Findings]
  BY <1>1, <1>3, <1>4 DEF Finding, Task, Findings
<1>6. Range(b) \subseteq Items
  BY <1>2, RangeOfSeq
<1> HIDE DEF found
<1>7. \A i \in Range(b) : found[i] \in Accepted(stage)
  BY <1>3, <1>4, <1>6
<1>8. \A i \in Items : task[t].found[i] \in Accepted(stage) => found[i] \in Accepted(stage)
  BY <1>4, <1>7
<1>9. GoOn(t, Tail(Q), found)
  BY DEF found
<1>10. \A k \in DOMAIN Q : \A i \in Range(Q[k]) :
          found[i] \in Accepted(stage) \/ \E l \in DOMAIN Tail(Q) : i \in Range(Tail(Q)[l])
  BY <1>2, <1>7
<1>11. QED
  BY <1>2, <1>5, <1>8, <1>9, <1>10, GoOnHolds

\* A task asks for the two halves of its first chunk instead.
LEMMA SplitsChunk ==
    ASSUME PassTyped, NEW t \in Callers, TaskSound(task[t], stage),
           task[t].pc \in {"working", "asking"},
           GoOn(t, Halves(task[t].queue), task[t].found), stage' = stage
    PROVE  task'[t] \in Task /\ task'[t].chunk = task[t].chunk /\ TaskSound(task'[t], stage')
<1> DEFINE Q == task[t].queue
<1>1. task[t].found \in [Items -> Findings] /\ Q \in Seq(Seq(Items)) /\ Q # <<>>
  BY DEF PassTyped, Task, TaskSound, Findings
<1>2. /\ Halves(Q) \in Seq(Seq(Items))
      /\ \A k \in DOMAIN Q : \A i \in Range(Q[k]) :
            \E l \in DOMAIN Halves(Q) : i \in Range(Halves(Q)[l])
  BY <1>1, HalvesHold
<1>3. QED
  BY <1>1, <1>2, GoOnHolds

\* A task that is only somewhere else now.
LEMMA MovesTask ==
    ASSUME PassTyped, NEW t \in Callers, TaskSound(task[t], stage), stage' = stage,
           NEW pc \in {"working", "asking", "error"},
           SetTask(t, [task[t] EXCEPT !.pc = pc]),
           task[t].pc \in {"waiting", "working", "asking"},
           pc = "error" => stage # "review"
    PROVE  task'[t] \in Task /\ task'[t].chunk = task[t].chunk /\ TaskSound(task'[t], stage')
<1> DEFINE nu == [task[t] EXCEPT !.pc = pc]
<1>1. task[t] \in Task /\ task'[t] = nu
  BY DEF PassTyped, SetTask
<1>2. /\ nu \in Task /\ nu.chunk = task[t].chunk /\ nu.queue = task[t].queue
      /\ nu.found = task[t].found /\ nu.pc = pc
  BY <1>1 DEF Task
<1>3. nu.queue # <<>> /\ Covered(Range(nu.chunk), nu.queue, nu.found, stage)
  BY <1>2 DEF TaskSound
<1> HIDE DEF nu
<1>4. Covered(Range(nu.chunk), nu.queue, nu.found, stage')
  BY <1>1, <1>3 DEF Covered, Accepted
<1>5. QED
  BY <1>1, <1>2, <1>3, <1>4 DEF TaskSound, Covered, Accepted

\* Every step of a task keeps its chunk, and finds or keeps every item of it.
LEMMA TaskStepHolds ==
    ASSUME PassTyped, stage \notin Ended, NEW t \in Callers, TaskSound(task[t], stage), TaskStep(t)
    PROVE  /\ Leaves(t) /\ DOMAIN task' = Callers
           /\ \A u \in Callers \ {t} : task'[u] = task[u]
           /\ task'[t] \in Task /\ task'[t].chunk = task[t].chunk /\ TaskSound(task'[t], stage')
<1> DEFINE Goal == task'[t] \in Task /\ task'[t].chunk = task[t].chunk /\ TaskSound(task'[t], stage')
<1>1. Leaves(t) /\ stage' = stage
  BY DEF TaskStep, Admit, Ask, AskStopped, Understood, Misshapen, Refusal, Replied, Leaves
<1>2. \E state : SetTask(t, state)
  BY DEF TaskStep, Admit, Ask, AskStopped, Understood, Misshapen, Refusal, GiveUp, GoOn
<1>3. DOMAIN task' = Callers /\ \A u \in Callers \ {t} : task'[u] = task[u]
  BY <1>2 DEF SetTask, PassTyped
<1> SUFFICES Goal
  BY <1>1, <1>3
<1>4. ASSUME GiveUp(t), task[t].pc \in {"working", "asking"}
      PROVE  Goal
  <2>1. CASE stage = "review"
    <3> DEFINE b == Head(task[t].queue)
    <3>1. GoOn(t, Tail(task[t].queue), Finding(t, b, Failing(b)))
      BY <1>4, <2>1 DEF GiveUp
    <3>2. QED
      BY <1>1, <1>4, <3>1, DoneWithChunk
  <2>2. CASE stage # "review"
    <3>1. SetTask(t, [task[t] EXCEPT !.pc = "error"])
      BY <1>4, <2>2 DEF GiveUp
    <3>2. QED
      BY <1>1, <1>4, <2>2, <3>1, MovesTask
  <2>3. QED
    BY <2>1, <2>2
<1>5. CASE Admit(t)
  BY <1>1, <1>5, MovesTask DEF Admit
<1>6. CASE Ask(t)
  BY <1>1, <1>6, MovesTask DEF Ask
<1>7. CASE AskStopped(t)
  BY <1>4, <1>7 DEF AskStopped
<1>8. CASE Understood(t)
  <2> DEFINE b == Head(task[t].queue)
  <2>1. task[t].pc = "asking"
    BY <1>8 DEF Understood, Replied
  <2>2. PICK outcome \in Outcomes(b) : GoOn(t, Tail(task[t].queue), Finding(t, b, outcome))
    BY <1>8 DEF Understood
  <2>3. QED
    BY <1>1, <2>1, <2>2, DoneWithChunk
<1>9. CASE Misshapen(t)
  <2> DEFINE b == Head(task[t].queue)
  <2>1. task[t].pc = "asking"
    BY <1>9 DEF Misshapen, Replied
  <2>2. CASE Len(b) > 1
    <3>1. GoOn(t, Halves(task[t].queue), task[t].found)
      BY <1>9, <2>2 DEF Misshapen, Halves
    <3>2. QED
      BY <1>1, <2>1, <3>1, SplitsChunk
  <2>3. CASE ~(Len(b) > 1)
    <3>1. GoOn(t, Tail(task[t].queue), Finding(t, b, Failing(b)))
      BY <1>9, <2>3 DEF Misshapen
    <3>2. QED
      BY <1>1, <2>1, <3>1, DoneWithChunk
  <2>4. QED
    BY <2>2, <2>3
<1>10. CASE Refusal(t)
  BY <1>4, <1>10 DEF Refusal, Replied
<1>11. QED
  BY <1>5, <1>6, <1>7, <1>8, <1>9, <1>10 DEF TaskStep

-----------------------------------------------------------------------------
(* The pass.                                                               *)

\* A task that is joined: of what it held, the items of P pass, those of S are
\* settled with a record, and the others are pending again, in the order W.
LEMMA JoinKeeps ==
    ASSUME PassTyped, OnePlace, NEW t \in Callers,
           NEW P \in SUBSET HeldBy(t), NEW S \in SUBSET HeldBy(t), P \cap S = {},
           NEW W \in Seq(Items), IsInjective(W), Range(W) = HeldBy(t) \ (P \cup S),
           Settle(S), passed' = passed \cup P, pending' = pending \o W, SetTask(t, NoTask)
    PROVE  /\ OnePlace'
           /\ task' \in [Callers -> Task] /\ pending' \in Seq(Items)
           /\ records' \in [Items -> Nat] /\ passed' \subseteq Items
<1>1. /\ task' = [task EXCEPT ![t] = NoTask] /\ task \in [Callers -> Task]
      /\ pending \in Seq(Items) /\ records \in [Items -> Nat] /\ passed \subseteq Items
  BY DEF SetTask, PassTyped
<1>2. NoTask \in Task /\ Range(NoTask.chunk) = {}
  BY EmptySeq, RangeOfSeq DEF NoTask, Task, Range
<1>3. /\ task' \in [Callers -> Task]
      /\ \A u \in Callers : HeldBy(u)' = IF u = t THEN {} ELSE HeldBy(u)
  BY <1>1, <1>2 DEF HeldBy
<1>4. HeldBy(t) \subseteq Items
  BY <1>1, RangeOfSeq DEF HeldBy, Task
<1>5. /\ records' \in [Items -> Nat] /\ passed' \subseteq Items
      /\ \A i \in Items : records'[i] = IF i \in S THEN records[i] + 1 ELSE records[i]
  BY <1>1, <1>4 DEF Settle
<1>6. \A u \in Callers \ {t} : HeldBy(u) \cap HeldBy(t) = {}
  BY DEF OnePlace
<1>7. Held = Held' \cup HeldBy(t) /\ Held' \cap HeldBy(t) = {}
  BY <1>3, <1>6 DEF Held
<1>8. IsInjective(pending) /\ Range(pending) \cap Held = {}
  BY DEF OnePlace
<1>9. /\ pending' \in Seq(Items) /\ IsInjective(pending')
      /\ Range(pending') = Range(pending) \cup Range(W)
  BY <1>1, <1>7, <1>8, ConcatHolds
<1>10. Range(pending') \cap Held' = {}
  BY <1>7, <1>8, <1>9
<1>11. \A u, v \in Callers : u # v => HeldBy(u)' \cap HeldBy(v)' = {}
  BY <1>3 DEF OnePlace
<1>12. Open' = Open \ (P \cup S)
  BY <1>7, <1>8, <1>9 DEF Open
<1>13. passed' \cap Open' = {}
  BY <1>12 DEF OnePlace
<1>14. \A i \in Items : records'[i] = IF i \in passed' \cup Open' THEN 0 ELSE 1
  <2>1. HeldBy(t) \subseteq Open
    BY <1>7 DEF Open
  <2>2. \A i \in Items : records[i] = IF i \in passed \cup Open THEN 0 ELSE 1
    BY DEF OnePlace
  <2>3. passed \cap Open = {}
    BY DEF OnePlace
  <2> HIDE DEF Open
  <2>4. QED
    BY <1>5, <1>12, <2>1, <2>2, <2>3
<1>15. QED
  BY <1>3, <1>5, <1>9, <1>10, <1>11, <1>13, <1>14 DEF OnePlace

\* A step that leaves a pass open, or joins none of its tasks, settles the ended
\* passes' items vacuously.
LEMMA OpenPassHolds ==
    ASSUME PassTyped', OnePlace', \A t \in Callers : TaskSound(task'[t], stage'), stage' \notin Ended
    PROVE  SettlingInv'
  BY DEF SettlingInv, EveryItemIsSettled, Ended

LEMMA FailHolds ==
    ASSUME PassTyped, Fail
    PROVE  SettlingInv'
<1>1. NoTask \in Task
  BY EmptySeq DEF NoTask, Task
<1>2. PassTyped'
  BY <1>1 DEF Fail, PassTyped, Ended
<1>3. AllJoined'
  BY DEF Fail, AllJoined, NoTask
<1>4. QED
  BY <1>2, <1>3 DEF SettlingInv, EveryItemIsSettled, Fail, Ended

\* The tasks that are left when one is joined are as sound as before.
LEMMA OthersStaySound ==
    ASSUME PassTyped, NEW t \in Callers, \A u \in Callers : TaskSound(task[u], stage),
           SetTask(t, NoTask), stage' = stage
    PROVE  \A u \in Callers : TaskSound(task'[u], stage')
<1>1. \A u \in Callers : task'[u] = IF u = t THEN NoTask ELSE task[u]
  BY DEF SetTask, PassTyped
<1>2. NoTask.pc = "absent" /\ NoTask.chunk = <<>> /\ Range(NoTask.chunk) = {}
  BY EmptySeq, RangeOfSeq DEF NoTask, Range
<1>3. TaskSound(NoTask, stage)
  BY <1>2 DEF TaskSound, Covered
<1>4. QED
  BY <1>1, <1>3

\* The items of a task that is over have been found something acceptable of.
LEMMA AllFound ==
    ASSUME PassTyped, NEW t \in Callers, TaskSound(task[t], stage), task[t].pc = "over"
    PROVE  /\ HeldBy(t) \subseteq Items
           /\ \A i \in HeldBy(t) : task[t].found[i] \in Accepted(stage)
<1>1. task[t] \in Task /\ HeldBy(t) \subseteq Items
  BY RangeOfSeq DEF PassTyped, Task, HeldBy
<1>2. Covered(HeldBy(t), task[t].queue, task[t].found, stage) /\ task[t].queue = <<>>
  BY DEF TaskSound, HeldBy
<1>3. DOMAIN task[t].queue = {}
  BY <1>2
<1>4. QED
  BY <1>1, <1>2, <1>3 DEF Covered

LEMMA JoinReviewHolds ==
    ASSUME SettlingInv, NEW t \in Callers, JoinReview(t)
    PROVE  SettlingInv'
<1>1. PassTyped /\ OnePlace /\ stage = "review" /\ stage' = stage /\ stage \notin Ended
      /\ \A u \in Callers : TaskSound(task[u], stage)
  BY DEF SettlingInv, JoinReview, Joinable
<1>2. task[t].pc = "over"
  BY <1>1 DEF JoinReview, Joinable, TaskSound
<1>3. ItemsWith(t, {"keep"}) = HeldBy(t)
  BY <1>1, <1>2, AllFound DEF Accepted, ItemsWith, HeldBy
<1>4. /\ SetTask(t, NoTask) /\ passed' = passed /\ pending' = pending
      /\ Settle(HeldBy(t)) /\ UNCHANGED <<kind, text>>
  BY <1>3 DEF JoinReview
<1>5. pending' = pending \o <<>> /\ <<>> \in Seq(Items) /\ IsInjective(<<>>) /\ Range(<<>>) = {}
  BY <1>1, <1>4, ConcatEmptySeq, EmptySeq DEF PassTyped, IsInjective, Range
<1>6. /\ OnePlace' /\ task' \in [Callers -> Task] /\ pending' \in Seq(Items)
      /\ records' \in [Items -> Nat] /\ passed' \subseteq Items
  <2>1. passed' = passed \cup {} /\ {} \cap HeldBy(t) = {}
        /\ Range(<<>>) = HeldBy(t) \ ({} \cup HeldBy(t))
    BY <1>4, <1>5
  <2>2. QED
    BY <1>1, <1>4, <1>5, <2>1, JoinKeeps
<1>7. PassTyped'
  BY <1>1, <1>4, <1>6 DEF PassTyped
<1>8. QED
  BY <1>1, <1>4, <1>6, <1>7, OthersStaySound, OpenPassHolds

LEMMA JoinAuditHolds ==
    ASSUME SettlingInv, NEW t \in Callers, JoinAudit(t)
    PROVE  SettlingInv'
<1>1. PassTyped /\ OnePlace /\ stage = "audit" /\ stage \notin Ended
      /\ \A u \in Callers : TaskSound(task[u], stage)
  BY DEF SettlingInv, JoinAudit, Joinable
<1>2. CASE signal = "stopped" \/ task[t].pc = "error"
  BY <1>1, <1>2, FailHolds DEF JoinAudit
<1>3. CASE ~(signal = "stopped" \/ task[t].pc = "error")
  <2> DEFINE P == ItemsWith(t, {"pass"})
             S == ItemsWith(t, {"keep"})
             C == ItemsWith(t, {"correct"})
  <2>1. /\ task[t].pc = "over" /\ SetTask(t, NoTask) /\ passed' = passed \cup P
        /\ pending' = pending \o InOrder(C) /\ Settle(S) /\ UNCHANGED <<kind, stage, text>>
    BY <1>3 DEF JoinAudit, Joinable
  <2>2. /\ HeldBy(t) \subseteq Items
        /\ \A i \in HeldBy(t) : task[t].found[i] \in {"pass", "keep", "correct"}
    BY <1>1, <2>1, AllFound DEF Accepted, Verdicts
  <2>3. /\ P \in SUBSET HeldBy(t) /\ S \in SUBSET HeldBy(t) /\ P \cap S = {}
        /\ C = HeldBy(t) \ (P \cup S) /\ C \in SUBSET Items
    BY <2>2 DEF ItemsWith, HeldBy
  <2> HIDE DEF P, S, C
  <2>4. InOrder(C) \in Seq(Items) /\ Range(InOrder(C)) = C /\ IsInjective(InOrder(C))
    BY <2>3, InOrderHolds
  <2>5. /\ OnePlace' /\ task' \in [Callers -> Task] /\ pending' \in Seq(Items)
        /\ records' \in [Items -> Nat] /\ passed' \subseteq Items
    BY <1>1, <2>1, <2>3, <2>4, JoinKeeps
  <2>6. PassTyped'
    BY <1>1, <2>1, <2>5 DEF PassTyped
  <2>7. QED
    BY <1>1, <2>1, <2>5, <2>6, OthersStaySound, OpenPassHolds
<1>4. QED
  BY <1>2, <1>3

LEMMA JoinCorrectionHolds ==
    ASSUME SettlingInv, NEW t \in Callers, JoinCorrection(t)
    PROVE  SettlingInv'
<1>1. PassTyped /\ OnePlace /\ stage = "correct" /\ stage \notin Ended
      /\ \A u \in Callers : TaskSound(task[u], stage)
  BY DEF SettlingInv, JoinCorrection, Joinable
<1>2. CASE task[t].pc = "error"
  BY <1>1, <1>2, FailHolds DEF JoinCorrection
<1>3. CASE task[t].pc # "error"
  <2> DEFINE valid   == {i \in ItemsWith(t, Texts) : Valid(i, task[t].found[i])}
             invalid == ItemsWith(t, Texts) \ valid
             none    == ItemsWith(t, {"none"})
             S       == IF round = Rounds THEN Range(task[t].chunk) ELSE valid
             W       == IF round = Rounds THEN <<>> ELSE InOrder(invalid) \o InOrder(none)
  <2>1. /\ task[t].pc = "over" /\ SetTask(t, NoTask) /\ passed' = passed
        /\ pending' = IF round = Rounds THEN pending
                      ELSE pending \o InOrder(invalid) \o InOrder(none)
        /\ Settle(S) /\ UNCHANGED <<kind, stage>>
        /\ text' = [i \in Items |-> IF i \in invalid THEN task[t].found[i] ELSE text[i]]
    BY <1>3 DEF JoinCorrection, Joinable
  <2>2. /\ HeldBy(t) \subseteq Items
        /\ \A i \in HeldBy(t) : task[t].found[i] \in Texts \cup {"none"}
    BY <1>1, <2>1, AllFound DEF Accepted
  <2>3. /\ valid \in SUBSET HeldBy(t) /\ invalid \in SUBSET HeldBy(t) /\ none \in SUBSET HeldBy(t)
        /\ invalid \cap none = {} /\ valid \cap invalid = {} /\ valid \cap none = {}
        /\ HeldBy(t) = valid \cup invalid \cup none
    BY <2>2 DEF ItemsWith, HeldBy, Texts
  <2>4. \A i \in invalid : task[t].found[i] \in Texts
    BY DEF ItemsWith
  <2> HIDE DEF valid, invalid, none
  <2>5. text' \in [Items -> Texts]
    BY <1>1, <2>1, <2>4 DEF PassTyped
  <2>6. /\ InOrder(invalid) \in Seq(Items) /\ InOrder(none) \in Seq(Items)
        /\ Range(InOrder(invalid)) = invalid /\ Range(InOrder(none)) = none
        /\ IsInjective(InOrder(invalid)) /\ IsInjective(InOrder(none))
    BY <2>2, <2>3, InOrderHolds
  <2>7. /\ W \in Seq(Items) /\ IsInjective(W) /\ S \in SUBSET HeldBy(t)
        /\ Range(W) = HeldBy(t) \ S /\ pending' = pending \o W
    <3>1. CASE round = Rounds
      <4>1. W = <<>> /\ S = HeldBy(t)
        BY <3>1 DEF HeldBy
      <4>2. <<>> \in Seq(Items) /\ IsInjective(<<>>) /\ Range(<<>>) = {}
        BY EmptySeq DEF IsInjective, Range
      <4>3. pending \o <<>> = pending
        BY <1>1, ConcatEmptySeq DEF PassTyped
      <4>4. QED
        BY <2>1, <3>1, <4>1, <4>2, <4>3
    <3>2. CASE round # Rounds
      <4>1. /\ W = InOrder(invalid) \o InOrder(none) /\ S = valid
            /\ pending' = pending \o InOrder(invalid) \o InOrder(none)
        BY <2>1, <3>2
      <4>2. W \in Seq(Items) /\ IsInjective(W) /\ Range(W) = invalid \cup none
        <5>1. Range(InOrder(invalid)) \cap Range(InOrder(none)) = {}
          BY <2>3, <2>6
        <5> HIDE DEF W
        <5>2. QED
          BY <2>6, <4>1, <5>1, ConcatHolds
      <4>3. pending' = pending \o W
        <5>1. pending \in Seq(Items)
          BY <1>1 DEF PassTyped
        <5>2. (pending \o InOrder(invalid)) \o InOrder(none) = pending \o (InOrder(invalid) \o InOrder(none))
          BY <2>6, <5>1, ConcatAssociative
        <5> HIDE DEF W
        <5>3. QED
          BY <4>1, <5>2
      <4>4. QED
        BY <2>3, <4>1, <4>2, <4>3
    <3>3. QED
      BY <3>1, <3>2
  <2> HIDE DEF S, W
  <2>8. passed' = passed \cup {} /\ {} \cap S = {} /\ Range(W) = HeldBy(t) \ ({} \cup S)
    BY <2>1, <2>7
  <2>9. /\ OnePlace' /\ task' \in [Callers -> Task] /\ pending' \in Seq(Items)
        /\ records' \in [Items -> Nat] /\ passed' \subseteq Items
    BY <1>1, <2>1, <2>7, <2>8, JoinKeeps
  <2>10. PassTyped'
    BY <1>1, <2>1, <2>5, <2>9 DEF PassTyped
  <2>11. QED
    BY <1>1, <2>1, <2>9, <2>10, OthersStaySound, OpenPassHolds
<1>4. QED
  BY <1>2, <1>3

\* Tasks that are all joined hold no item.
LEMMA NoneHeld ==
    ASSUME AllJoined, \A t \in Callers : TaskSound(task[t], stage)
    PROVE  Held = {}
<1>1. \A t \in Callers : task[t].chunk = <<>>
  BY DEF AllJoined, TaskSound
<1>2. Range(<<>>) = {}
  BY DEF Range
<1>3. \A t \in Callers : HeldBy(t) = {}
  BY <1>1, <1>2 DEF HeldBy
<1>4. QED
  BY <1>3 DEF Held

LEMMA BeginRoundHolds ==
    ASSUME SettlingInv, BeginRound
    PROVE  SettlingInv'
<1>1. PassTyped /\ OnePlace /\ AllJoined /\ \A u \in Callers : TaskSound(task[u], stage)
  BY DEF SettlingInv, BeginRound
<1>2. CASE signal = "stopped"
  BY <1>1, <1>2, FailHolds DEF BeginRound
<1>3. CASE signal # "stopped"
  <2> DEFINE K == TasksFor(pending)
  <2>1. /\ stage' = "correct" /\ task' = K /\ pending' = <<>>
        /\ UNCHANGED <<kind, text, records, passed>>
    BY <1>3 DEF BeginRound
  <2>2. Held = {}
    BY <1>1, NoneHeld
  <2>3. /\ K \in [Callers -> Task]
        /\ \A t \in Callers : \/ K[t].pc = "absent" /\ K[t].chunk = <<>>
                              \/ K[t].pc = "waiting" /\ K[t].queue = <<K[t].chunk>>
        /\ \A t, u \in Callers : t # u => Range(K[t].chunk) \cap Range(K[u].chunk) = {}
        /\ UNION {Range(K[t].chunk) : t \in Callers} = Range(pending)
    BY <1>1, TasksHold DEF PassTyped, OnePlace
  <2> HIDE DEF K
  <2>4. <<>> \in Seq(Items) /\ IsInjective(<<>>) /\ Range(<<>>) = {}
    BY EmptySeq DEF IsInjective, Range
  <2>5. PassTyped'
    BY <1>1, <2>1, <2>3, <2>4 DEF PassTyped
  <2>6. /\ \A t \in Callers : HeldBy(t)' = Range(K[t].chunk)
        /\ Held' = Range(pending) /\ Open' = Open
    BY <2>1, <2>2, <2>3, <2>4 DEF HeldBy, Held, Open
  <2>7. OnePlace'
    BY <1>1, <2>1, <2>3, <2>4, <2>6 DEF OnePlace
  <2>8. \A t \in Callers : TaskSound(task'[t], stage')
    <3> SUFFICES ASSUME NEW t \in Callers
                 PROVE  TaskSound(K[t], "correct")
      BY <2>1
    <3>1. CASE K[t].pc = "absent" /\ K[t].chunk = <<>>
      BY <3>1, <2>4 DEF TaskSound, Covered
    <3>2. CASE K[t].pc = "waiting" /\ K[t].queue = <<K[t].chunk>>
      <4>1. DOMAIN K[t].queue = {1} /\ K[t].queue[1] = K[t].chunk /\ K[t].queue # <<>>
        BY <3>2
      <4>2. QED
        BY <3>2, <4>1 DEF TaskSound, Covered
    <3>3. QED
      BY <2>3, <3>1, <3>2
  <2>9. QED
    BY <2>1, <2>5, <2>7, <2>8, OpenPassHolds DEF Ended
<1>4. QED
  BY <1>2, <1>3

LEMMA EndPassHolds ==
    ASSUME SettlingInv, EndPass
    PROVE  SettlingInv'
<1>1. PassTyped /\ OnePlace /\ AllJoined /\ \A u \in Callers : TaskSound(task[u], stage)
  BY DEF SettlingInv, EndPass
<1>2. CASE kind = "double_check" /\ signal = "stopped"
  BY <1>1, <1>2, FailHolds DEF EndPass
<1>3. CASE ~(kind = "double_check" /\ signal = "stopped")
  <2>1. stage' = "done" /\ Settle(Range(pending)) /\ UNCHANGED <<kind, task, pending, text, passed>>
    BY <1>3 DEF EndPass
  <2>2. Held = {}
    BY <1>1, NoneHeld
  <2>3. /\ records \in [Items -> Nat]
        /\ \A i \in Items :
              records'[i] = IF i \in Range(pending) THEN records[i] + 1 ELSE records[i]
    BY <1>1, <2>1 DEF PassTyped, Settle
  <2>4. records' \in [Items -> Nat]
    BY <1>1, <2>1 DEF PassTyped, Settle
  <2>5. PassTyped'
    BY <1>1, <2>1, <2>4 DEF PassTyped, Ended
  <2>6. /\ Open = Range(pending) /\ passed \cap Range(pending) = {}
        /\ \A i \in Items : records[i] = IF i \in passed \cup Range(pending) THEN 0 ELSE 1
    BY <1>1, <2>2 DEF OnePlace, Open
  <2>7. EveryItemIsSettled'
    BY <2>1, <2>3, <2>6 DEF EveryItemIsSettled
  <2>8. AllJoined' /\ stage' \in Ended
    BY <1>1, <2>1 DEF AllJoined, Ended
  <2>9. QED
    BY <2>5, <2>7, <2>8 DEF SettlingInv
<1>4. QED
  BY <1>2, <1>3

LEMMA TaskKeepsPass ==
    ASSUME SettlingInv, NEW t \in Callers, TaskStep(t)
    PROVE  SettlingInv'
<1>1. stage \notin Ended
  BY DEF SettlingInv, AllJoined, TaskStep, Admit, Ask, AskStopped, Understood, Misshapen, Refusal,
         Replied
<1>2. PassTyped /\ OnePlace /\ \A u \in Callers : TaskSound(task[u], stage)
  BY <1>1 DEF SettlingInv
<1>3. /\ Leaves(t) /\ DOMAIN task' = Callers
      /\ \A u \in Callers \ {t} : task'[u] = task[u]
      /\ task'[t] \in Task /\ task'[t].chunk = task[t].chunk /\ TaskSound(task'[t], stage')
  BY <1>1, <1>2, TaskStepHolds
<1>4. task' = [task EXCEPT ![t] = task'[t]]
  <2>1. \E state : SetTask(t, state)
    BY DEF TaskStep, Admit, Ask, AskStopped, Understood, Misshapen, Refusal, GiveUp, GoOn
  <2>2. QED
    BY <1>2, <2>1 DEF SetTask, PassTyped
<1>5. task' \in [Callers -> Task]
  BY <1>2, <1>3, <1>4 DEF PassTyped
<1>6. PassTyped'
  BY <1>2, <1>3, <1>5 DEF PassTyped, Leaves
<1>7. /\ \A u \in Callers : HeldBy(u)' = HeldBy(u)
      /\ Held' = Held /\ Open' = Open
  <2>1. \A u \in Callers : HeldBy(u)' = HeldBy(u)
    BY <1>3 DEF HeldBy
  <2>2. pending' = pending
    BY <1>3 DEF Leaves
  <2>3. QED
    BY <2>1, <2>2 DEF Held, Open
<1>8. OnePlace'
  BY <1>2, <1>3, <1>7 DEF OnePlace, Leaves
<1>9. \A u \in Callers : TaskSound(task'[u], stage')
  BY <1>2, <1>3 DEF Leaves
<1>10. stage' \notin Ended
  BY <1>1, <1>3 DEF Leaves
<1>11. QED
  BY <1>6, <1>8, <1>9, <1>10, OpenPassHolds

\* What a call, the control file and Ctrl-C change is no part of the pass.
LEMMA PassLeftAlone ==
    ASSUME SettlingInv, UNCHANGED passVars
    PROVE  SettlingInv'
<1>1. /\ kind' = kind /\ stage' = stage /\ task' = task /\ pending' = pending
      /\ text' = text /\ records' = records /\ passed' = passed
  BY DEF passVars
<1>2. /\ \A u \in Callers : HeldBy(u)' = HeldBy(u)
      /\ Held' = Held /\ Open' = Open
  BY <1>1 DEF HeldBy, Held, Open
<1>3. QED
  BY <1>1, <1>2 DEF SettlingInv, PassTyped, OnePlace, EveryItemIsSettled, AllJoined

LEMMA PassBegins ==
    ASSUME PassInit
    PROVE  SettlingInv
<1> DEFINE A == IF kind = "review" THEN Items ELSE Items \ Copied
           C == IF kind = "review" THEN {} ELSE Copied
           K == TasksFor(InOrder(A))
<1>1. /\ kind \in Kinds /\ stage = IF kind = "review" THEN "review" ELSE "audit"
      /\ task = K /\ pending = InOrder(C) /\ text = [i \in Items |-> "stored"]
      /\ passed = {} /\ records = [i \in Items |-> 0]
  BY DEF PassInit
<1>2. A \in SUBSET Items /\ C \in SUBSET Items /\ A \cap C = {} /\ A \cup C = Items
  BY PassAssumption
<1> HIDE DEF A, C
<1>3. /\ InOrder(A) \in Seq(Items) /\ Range(InOrder(A)) = A /\ IsInjective(InOrder(A))
      /\ InOrder(C) \in Seq(Items) /\ Range(InOrder(C)) = C /\ IsInjective(InOrder(C))
  BY <1>2, InOrderHolds
<1>4. /\ K \in [Callers -> Task]
      /\ \A t \in Callers :
            /\ K[t].found = [i \in Items |-> "none"]
            /\ \/ K[t].pc = "absent" /\ K[t].chunk = <<>>
               \/ K[t].pc = "waiting" /\ K[t].queue = <<K[t].chunk>>
      /\ \A t, u \in Callers : t # u => Range(K[t].chunk) \cap Range(K[u].chunk) = {}
      /\ UNION {Range(K[t].chunk) : t \in Callers} = A
  BY <1>3, TasksHold
<1> HIDE DEF K
<1>5. PassTyped
  BY <1>1, <1>3, <1>4 DEF PassTyped, Texts
<1>6. /\ \A t \in Callers : HeldBy(t) = Range(K[t].chunk)
      /\ Held = A /\ Open = Items
  BY <1>1, <1>2, <1>3, <1>4 DEF HeldBy, Held, Open
<1>7. OnePlace
  <2>1. IsInjective(pending) /\ Range(pending) \cap Held = {}
    BY <1>1, <1>2, <1>3, <1>6
  <2>2. \A t, u \in Callers : t # u => HeldBy(t) \cap HeldBy(u) = {}
    BY <1>4, <1>6
  <2>3. QED
    BY <1>1, <1>6, <2>1, <2>2 DEF OnePlace
<1>8. \A t \in Callers : TaskSound(task[t], stage)
  <2> SUFFICES ASSUME NEW t \in Callers
               PROVE  TaskSound(K[t], stage)
    BY <1>1
  <2>1. CASE K[t].pc = "absent" /\ K[t].chunk = <<>>
    <3>1. Range(K[t].chunk) = {}
      BY <2>1 DEF Range
    <3>2. QED
      BY <2>1, <3>1 DEF TaskSound, Covered
  <2>2. CASE K[t].pc = "waiting" /\ K[t].queue = <<K[t].chunk>>
    <3>1. DOMAIN K[t].queue = {1} /\ K[t].queue[1] = K[t].chunk /\ K[t].queue # <<>>
      BY <2>2
    <3>2. QED
      BY <2>2, <3>1 DEF TaskSound, Covered
  <2>3. QED
    BY <1>4, <2>1, <2>2
<1>9. QED
  BY <1>1, <1>5, <1>7, <1>8 DEF SettlingInv, EveryItemIsSettled, Ended

LEMMA SettlingInvKept ==
    ASSUME SettlingInv, [QualityNext]_qualityVars
    PROVE  SettlingInv'
<1>1. CASE \E t \in Callers : TaskStep(t)
  BY <1>1, TaskKeepsPass
<1>2. CASE UNCHANGED passVars
  BY <1>2, PassLeftAlone
<1>3. CASE \E t \in Callers : JoinReview(t)
  BY <1>3, JoinReviewHolds
<1>4. CASE \E t \in Callers : JoinAudit(t)
  BY <1>4, JoinAuditHolds
<1>5. CASE \E t \in Callers : JoinCorrection(t)
  BY <1>5, JoinCorrectionHolds
<1>6. CASE BeginRound
  BY <1>6, BeginRoundHolds
<1>7. CASE EndPass
  BY <1>7, EndPassHolds
<1>8. QED
  BY <1>1, <1>2, <1>3, <1>4, <1>5, <1>6, <1>7 DEF QualityNext, Work, PassStep, Control, qualityVars

-----------------------------------------------------------------------------
\* A review or a double check that ends well has settled every item once: one
\* the audit let pass has no record and every other item exactly one, however
\* long the book, the chunks and the rounds are, and whatever the provider
\* leaves out, answers in the wrong shape or refuses (run_audit_chunk_resilient,
\* resolve_correction_chunk, qa_batch).
THEOREM EveryItemSettles == QualitySpec => []EveryItemIsSettled
<1>1. PassInit => SettlingInv
  BY PassBegins
<1>2. SettlingInv /\ [QualityNext]_qualityVars => SettlingInv'
  BY SettlingInvKept
<1>3. SettlingInv => EveryItemIsSettled
  BY DEF SettlingInv
<1>4. QED
  BY <1>1, <1>2, <1>3, PTL DEF QualitySpec

-----------------------------------------------------------------------------
(* Tasks run out of work.                                                  *)

\* The chunks left in a queue are not empty and hold each item once, and the items
\* that may be asked for together.
Tidy(Q) ==
    /\ \A k \in DOMAIN Q : Q[k] # <<>>
    /\ \A k, l \in DOMAIN Q : \A m \in DOMAIN Q[k], n \in DOMAIN Q[l] :
          Q[k][m] = Q[l][n] => k = l /\ m = n

Pairs(Q) == {p \in Items \X Items : \E k \in DOMAIN Q : {p[1], p[2]} \subseteq Range(Q[k])}

\* P is made of parts of Q's chunks that do not overlap: its chunk l begins after
\* the first off[l] items of Q's chunk at[l].
PartsOf(P, Q, at, off) ==
    /\ at \in [DOMAIN P -> DOMAIN Q] /\ off \in [DOMAIN P -> Nat]
    /\ \A l \in DOMAIN P :
          /\ P[l] # <<>>
          /\ \A m \in DOMAIN P[l] : /\ m \in Int /\ off[l] + m \in DOMAIN Q[at[l]]
                                    /\ P[l][m] = Q[at[l]][off[l] + m]
    /\ \A l, k \in DOMAIN P : \A m \in DOMAIN P[l], n \in DOMAIN P[k] :
          at[l] = at[k] /\ off[l] + m = off[k] + n => l = k

\* Then it is as tidy.
LEMMA PartsTidy ==
    ASSUME NEW Q, NEW P, NEW at, NEW off, Tidy(Q), PartsOf(P, Q, at, off)
    PROVE  Tidy(P) /\ Pairs(P) \subseteq Pairs(Q)
<1>0. /\ at \in [DOMAIN P -> DOMAIN Q] /\ off \in [DOMAIN P -> Nat]
      /\ \A l \in DOMAIN P :
            /\ P[l] # <<>>
            /\ \A m \in DOMAIN P[l] : /\ m \in Int /\ off[l] + m \in DOMAIN Q[at[l]]
                                      /\ P[l][m] = Q[at[l]][off[l] + m]
      /\ \A l, k \in DOMAIN P : \A m \in DOMAIN P[l], n \in DOMAIN P[k] :
            at[l] = at[k] /\ off[l] + m = off[k] + n => l = k
  BY DEF PartsOf
<1>1. ASSUME NEW l \in DOMAIN P, NEW k \in DOMAIN P, NEW m \in DOMAIN P[l], NEW n \in DOMAIN P[k],
             P[l][m] = P[k][n]
      PROVE  l = k /\ m = n
  <2>1. /\ off[l] + m \in DOMAIN Q[at[l]] /\ off[k] + n \in DOMAIN Q[at[k]]
        /\ Q[at[l]][off[l] + m] = Q[at[k]][off[k] + n]
        /\ at[l] \in DOMAIN Q /\ at[k] \in DOMAIN Q
    BY <1>0, <1>1
  <2>2. at[l] = at[k] /\ off[l] + m = off[k] + n
    BY <2>1 DEF Tidy
  <2>3. l = k
    BY <1>0, <2>2
  <2>4. m \in Int /\ n \in Int /\ off[l] \in Nat
    BY <1>0
  <2>5. QED
    BY <2>2, <2>3, <2>4
<1>2. \A l \in DOMAIN P : Range(P[l]) \subseteq Range(Q[at[l]]) /\ at[l] \in DOMAIN Q
  BY <1>0 DEF Range
<1>3. Pairs(P) \subseteq Pairs(Q)
  BY <1>2 DEF Pairs
<1>4. QED
  BY <1>0, <1>1, <1>3 DEF Tidy

\* Without its first chunk a queue has fewer pairs.
LEMMA RestIsLess ==
    ASSUME NEW Q \in Seq(Seq(Items)), Q # <<>>, Tidy(Q)
    PROVE  /\ Tidy(Tail(Q)) /\ Pairs(Tail(Q)) \subseteq Pairs(Q) /\ Pairs(Tail(Q)) # Pairs(Q)
<1> DEFINE P   == Tail(Q)
           at  == [l \in DOMAIN P |-> l + 1]
           off == [l \in DOMAIN P |-> 0]
<1>1. /\ Len(Q) \in Nat \ {0} /\ DOMAIN Q = 1 .. Len(Q)
      /\ P \in Seq(Seq(Items)) /\ Len(P) = Len(Q) - 1 /\ \A l \in 1 .. Len(P) : P[l] = Q[l + 1]
  BY HeadTailProperties, LenProperties, EmptySeq
<1>2. DOMAIN P = 1 .. Len(Q) - 1
  BY <1>1, LenProperties
<1>3. \A k \in DOMAIN Q : Q[k] \in Seq(Items)
  BY <1>1, ElementOfSeq
<1>4. \A k \in DOMAIN Q : DOMAIN Q[k] = 1 .. Len(Q[k]) /\ Len(Q[k]) \in Nat
  BY <1>3, LenProperties
<1> HIDE DEF P
<1>5. \A l \in DOMAIN P : l + 1 \in DOMAIN Q /\ P[l] = Q[l + 1] /\ l \in Int
  BY <1>1, <1>2
<1>6. at \in [DOMAIN P -> DOMAIN Q] /\ off \in [DOMAIN P -> Nat]
  BY <1>5
<1>7. ASSUME NEW l \in DOMAIN P
      PROVE  /\ P[l] # <<>>
             /\ \A m \in DOMAIN P[l] : /\ m \in Int /\ off[l] + m \in DOMAIN Q[at[l]]
                                       /\ P[l][m] = Q[at[l]][off[l] + m]
  <2>1. P[l] = Q[at[l]] /\ at[l] \in DOMAIN Q /\ off[l] = 0
    BY <1>5
  <2>2. \A m \in DOMAIN P[l] : m \in Int /\ 0 + m = m
    BY <1>4, <2>1
  <2>3. QED
    BY <2>1, <2>2 DEF Tidy
<1>8. \A l, k \in DOMAIN P : \A m \in DOMAIN P[l], n \in DOMAIN P[k] :
         at[l] = at[k] /\ off[l] + m = off[k] + n => l = k
  <2>1. \A l, k \in DOMAIN P : at[l] = at[k] => l = k
    BY <1>5
  <2>2. QED
    BY <2>1
<1> HIDE DEF at, off
<1>9. Tidy(P) /\ Pairs(P) \subseteq Pairs(Q)
  <2>1. PartsOf(P, Q, at, off)
    BY <1>6, <1>7, <1>8 DEF PartsOf
  <2>2. QED
    BY <2>1, PartsTidy
<1>10. Pairs(P) # Pairs(Q)
  <2>0. 1 \in DOMAIN Q
    BY <1>1
  <2>1. 1 \in DOMAIN Q /\ Q[1] # <<>> /\ Q[1] \in Seq(Items)
    BY <1>3, <2>0 DEF Tidy
  <2>2. 1 \in DOMAIN Q[1] /\ Q[1][1] \in Items
    BY <2>1, EmptySeq, LenProperties, ElementOfSeq
  <2>3. <<Q[1][1], Q[1][1]>> \in Pairs(Q)
    BY <2>1, <2>2 DEF Pairs, Range
  <2>4. ASSUME NEW l \in DOMAIN P, Q[1][1] \in Range(P[l]) PROVE FALSE
    <3>1. PICK m \in DOMAIN Q[l + 1] : Q[l + 1][m] = Q[1][1]
      BY <1>5, <2>4 DEF Range
    <3>2. l + 1 = 1
      BY <1>5, <2>1, <2>2, <3>1 DEF Tidy
    <3>3. QED
      BY <1>1, <1>2, <3>2
  <2>5. <<Q[1][1], Q[1][1]>> \notin Pairs(P)
    BY <2>4 DEF Pairs
  <2>6. QED
    BY <2>3, <2>5
<1>11. QED
  BY <1>9, <1>10 DEF P

\* Where the items of a split queue were.
LEMMA HalvesPlaces ==
    ASSUME NEW Q \in Seq(Seq(Items)), Q # <<>>, Len(Q[1]) > 1
    PROVE  \E mid \in 1 .. Len(Q[1]) - 1 :
              /\ DOMAIN Halves(Q) = 1 .. Len(Q) + 1
              /\ DOMAIN Halves(Q)[1] = 1 .. mid /\ DOMAIN Halves(Q)[2] = 1 .. Len(Q[1]) - mid
              /\ \A m \in 1 .. mid : Halves(Q)[1][m] = Q[1][m]
              /\ \A m \in 1 .. Len(Q[1]) - mid : Halves(Q)[2][m] = Q[1][mid + m]
              /\ \A l \in 3 .. Len(Q) + 1 : Halves(Q)[l] = Q[l - 1]
<1> DEFINE b   == Q[1]
           n   == Len(b)
           mid == n \div 2
           one == SubSeq(b, 1, mid)
           two == SubSeq(b, mid + 1, n)
           H   == <<one, two>>
           T   == Tail(Q)
<1>1. /\ Len(Q) \in Nat \ {0} /\ DOMAIN Q = 1 .. Len(Q) /\ Head(Q) = b
      /\ T \in Seq(Seq(Items)) /\ Len(T) = Len(Q) - 1 /\ \A l \in 1 .. Len(T) : T[l] = Q[l + 1]
  BY HeadTailProperties, LenProperties, EmptySeq
<1>2. b \in Seq(Items) /\ n \in Nat /\ n > 1 /\ \A j \in 1 .. n : b[j] \in Items
  <2>1. b \in Seq(Items)
    BY <1>1, ElementOfSeq
  <2>2. QED
    BY <2>1, LenProperties, ElementOfSeq
<1>3. Halves(Q) = H \o T
  BY <1>1 DEF Halves
<1> HIDE DEF b, T, n
<1>4. mid \in 1 .. n - 1
  BY <1>2
<1> HIDE DEF mid
<1>5. one \in Seq(Items) /\ Len(one) = mid /\ \A j \in 1 .. mid : one[j] = b[j]
  <2>1. \A j \in 1 .. mid : b[j] \in Items /\ 1 + j - 1 = j
    BY <1>2, <1>4
  <2>2. /\ one \in Seq(Items) /\ Len(one) = IF 1 <= mid THEN mid - 1 + 1 ELSE 0
        /\ \A j \in 1 .. mid - 1 + 1 : one[j] = b[1 + j - 1]
    BY <1>4, <2>1, SubSeqProperties
  <2>3. QED
    BY <1>4, <2>1, <2>2
<1>6. two \in Seq(Items) /\ Len(two) = n - mid /\ \A j \in 1 .. n - mid : two[j] = b[mid + j]
  <2>1. \A j \in mid + 1 .. n : b[j] \in Items
    BY <1>2, <1>4
  <2>2. /\ two \in Seq(Items) /\ Len(two) = IF mid + 1 <= n THEN n - (mid + 1) + 1 ELSE 0
        /\ \A j \in 1 .. n - (mid + 1) + 1 : two[j] = b[(mid + 1) + j - 1]
    BY <1>2, <1>4, <2>1, SubSeqProperties
  <2>3. \A j \in 1 .. n - mid : (mid + 1) + j - 1 = mid + j /\ j \in 1 .. n - (mid + 1) + 1
    BY <1>2, <1>4
  <2>4. QED
    BY <1>2, <1>4, <2>2, <2>3
<1> HIDE DEF one, two
<1>7. DOMAIN one = 1 .. mid /\ DOMAIN two = 1 .. n - mid
  BY <1>5, <1>6, LenProperties
<1>8. H \in Seq(Seq(Items)) /\ Len(H) = 2 /\ H[1] = one /\ H[2] = two
  BY <1>5, <1>6
<1> HIDE DEF H
<1>9. /\ H \o T \in Seq(Seq(Items)) /\ Len(H \o T) = Len(H) + Len(T)
      /\ \A l \in 1 .. Len(H) + Len(T) : (H \o T)[l] = IF l <= Len(H) THEN H[l] ELSE T[l - Len(H)]
  BY <1>1, <1>8, ConcatProperties
<1>10. DOMAIN (H \o T) = 1 .. Len(Q) + 1
  BY <1>1, <1>8, <1>9, LenProperties
<1> DEFINE W == H \o T
<1>11. \A l \in 1 .. Len(Q) + 1 : W[l] = IF l <= 2 THEN H[l] ELSE T[l - 2]
  <2>1. Len(H) = 2 /\ Len(T) = Len(Q) - 1 /\ Len(Q) \in Nat /\ 2 + (Len(Q) - 1) = Len(Q) + 1
    BY <1>1, <1>8
  <2>2. \A l \in 1 .. 2 + (Len(Q) - 1) : W[l] = IF l <= 2 THEN H[l] ELSE T[l - 2]
    BY <1>9, <2>1
  <2> HIDE DEF W
  <2>3. QED
    BY <2>1, <2>2
<1>12. DOMAIN W = 1 .. Len(Q) + 1
  BY <1>10
<1>13. Halves(Q) = W
  BY <1>3
<1> HIDE DEF W
<1>14. W[1] = one /\ W[2] = two
  <2>1. 1 \in 1 .. Len(Q) + 1 /\ 2 \in 1 .. Len(Q) + 1
    BY <1>1
  <2>2. W[1] = H[1] /\ W[2] = H[2]
    BY <1>11, <2>1
  <2>3. QED
    BY <1>8, <2>2
<1>15. ASSUME NEW l \in 3 .. Len(Q) + 1 PROVE W[l] = Q[l - 1]
  <2>1. l - 2 \in 1 .. Len(T) /\ (l - 2) + 1 = l - 1 /\ ~(l <= 2) /\ l \in 1 .. Len(Q) + 1
    BY <1>1
  <2>2. W[l] = T[l - 2]
    BY <1>11, <2>1
  <2>3. QED
    BY <1>1, <2>1, <2>2
<1>16. /\ DOMAIN Halves(Q) = 1 .. Len(Q) + 1
       /\ DOMAIN Halves(Q)[1] = 1 .. mid /\ DOMAIN Halves(Q)[2] = 1 .. n - mid
       /\ \A m \in 1 .. mid : Halves(Q)[1][m] = b[m]
       /\ \A m \in 1 .. n - mid : Halves(Q)[2][m] = b[mid + m]
       /\ \A l \in 3 .. Len(Q) + 1 : Halves(Q)[l] = Q[l - 1]
  BY <1>5, <1>6, <1>7, <1>12, <1>13, <1>14, <1>15
<1>17. QED
  BY <1>4, <1>16 DEF b, n

\* With its first chunk in halves a queue has fewer pairs.
LEMMA HalvesAreLess ==
    ASSUME NEW Q \in Seq(Seq(Items)), Q # <<>>, Tidy(Q), Len(Q[1]) > 1
    PROVE  /\ Tidy(Halves(Q)) /\ Pairs(Halves(Q)) \subseteq Pairs(Q) /\ Pairs(Halves(Q)) # Pairs(Q)
<1> DEFINE P == Halves(Q)
           n == Len(Q[1])
<1>1. PICK mid \in 1 .. n - 1 :
         /\ DOMAIN P = 1 .. Len(Q) + 1
         /\ DOMAIN P[1] = 1 .. mid /\ DOMAIN P[2] = 1 .. n - mid
         /\ \A m \in 1 .. mid : P[1][m] = Q[1][m]
         /\ \A m \in 1 .. n - mid : P[2][m] = Q[1][mid + m]
         /\ \A l \in 3 .. Len(Q) + 1 : P[l] = Q[l - 1]
  BY HalvesPlaces
<1>2. /\ Len(Q) \in Nat \ {0} /\ DOMAIN Q = 1 .. Len(Q)
      /\ \A k \in DOMAIN Q : Q[k] \in Seq(Items) /\ DOMAIN Q[k] = 1 .. Len(Q[k]) /\ Len(Q[k]) \in Nat
  <2>1. Len(Q) \in Nat \ {0} /\ DOMAIN Q = 1 .. Len(Q)
    BY LenProperties, EmptySeq
  <2>2. \A k \in DOMAIN Q : Q[k] \in Seq(Items)
    BY <2>1, ElementOfSeq
  <2>3. QED
    BY <2>1, <2>2, LenProperties
<1>3. 1 \in DOMAIN Q /\ n \in Nat /\ n > 1 /\ DOMAIN Q[1] = 1 .. n /\ mid \in Nat
  <2>1. 1 \in DOMAIN Q
    BY <1>2
  <2>2. n \in Nat /\ DOMAIN Q[1] = 1 .. n
    BY <1>2, <2>1
  <2>3. QED
    BY <1>1, <2>1, <2>2
<1> HIDE DEF P, n
<1> DEFINE at  == [l \in DOMAIN P |-> IF l <= 2 THEN 1 ELSE l - 1]
           off == [l \in DOMAIN P |-> IF l = 2 THEN mid ELSE 0]
<1>4. ASSUME NEW l \in DOMAIN P
      PROVE  /\ l \in 1 .. Len(Q) + 1 /\ (l = 1 \/ l = 2 \/ l \in 3 .. Len(Q) + 1)
             /\ at[l] = IF l <= 2 THEN 1 ELSE l - 1
             /\ off[l] = IF l = 2 THEN mid ELSE 0
             /\ at[l] \in DOMAIN Q /\ off[l] \in Nat
  BY <1>1, <1>2, <1>3
<1>5. at \in [DOMAIN P -> DOMAIN Q] /\ off \in [DOMAIN P -> Nat]
  BY <1>4
<1> HIDE DEF at, off
<1>6. ASSUME NEW l \in DOMAIN P, NEW m \in DOMAIN P[l]
      PROVE  m \in Int /\ off[l] + m \in DOMAIN Q[at[l]] /\ P[l][m] = Q[at[l]][off[l] + m]
  <2>1. CASE l = 1
    <3>0. m \in DOMAIN P[1]
      BY <2>1
    <3>a. m \in 1 .. mid
      BY <1>1, <3>0
    <3>b. at[l] = 1 /\ off[l] = 0
      BY <1>4, <2>1
    <3>1. at[l] = 1 /\ off[l] = 0 /\ m \in 1 .. mid
      BY <3>a, <3>b
    <3>2. m \in Int /\ 0 + m = m /\ m \in 1 .. n
      BY <1>1, <1>3, <3>1
    <3>3. QED
      BY <1>1, <1>3, <2>1, <3>1, <3>2
  <2>2. CASE l = 2
    <3>0. m \in DOMAIN P[2] /\ ~(2 <= 1)
      BY <2>2
    <3>1. at[l] = 1 /\ off[l] = mid /\ m \in 1 .. n - mid
      BY <1>1, <1>4, <2>2, <3>0
    <3>2. m \in Int /\ mid + m \in 1 .. n
      BY <1>1, <1>3, <3>1
    <3>3. QED
      BY <1>1, <1>3, <2>2, <3>1, <3>2
  <2>3. CASE l \in 3 .. Len(Q) + 1
    <3>1. at[l] = l - 1 /\ off[l] = 0 /\ P[l] = Q[l - 1] /\ l - 1 \in DOMAIN Q
      BY <1>1, <1>2, <1>4, <2>3
    <3>2. m \in Int /\ 0 + m = m
      BY <1>2, <3>1
    <3>3. QED
      BY <3>1, <3>2
  <2>4. QED
    BY <1>4, <2>1, <2>2, <2>3
<1>7. ASSUME NEW l \in DOMAIN P PROVE P[l] # <<>>
  <2>1. CASE l = 1 \/ l = 2
    <3>1. 1 \in DOMAIN P[l]
      BY <1>1, <1>3, <2>1
    <3>2. QED
      BY <3>1
  <2>2. CASE l \in 3 .. Len(Q) + 1
    <3>1. P[l] = Q[l - 1] /\ l - 1 \in DOMAIN Q
      BY <1>1, <1>2, <2>2
    <3>2. QED
      BY <3>1 DEF Tidy
  <2>3. QED
    BY <1>4, <2>1, <2>2
<1>8. ASSUME NEW l \in DOMAIN P, NEW k \in DOMAIN P, NEW m \in DOMAIN P[l], NEW i \in DOMAIN P[k],
             at[l] = at[k], off[l] + m = off[k] + i
      PROVE  l = k
  <2>1. l \in Nat /\ k \in Nat /\ l >= 1 /\ k >= 1
    BY <1>2, <1>4
  <2>2. CASE l = 1 /\ k = 2
    <3>1. m \in DOMAIN P[1] /\ i \in DOMAIN P[2]
      BY <2>2
    <3>2. m \in 1 .. mid /\ i \in 1 .. n - mid
      BY <1>1, <3>1
    <3>3. off[l] = 0 /\ off[k] = mid
      BY <1>4, <2>2
    <3>4. QED
      BY <1>3, <1>8, <3>2, <3>3
  <2>3. CASE l = 2 /\ k = 1
    <3>1. m \in DOMAIN P[2] /\ i \in DOMAIN P[1]
      BY <2>3
    <3>2. m \in 1 .. n - mid /\ i \in 1 .. mid
      BY <1>1, <3>1
    <3>3. off[l] = mid /\ off[k] = 0
      BY <1>4, <2>3
    <3>4. QED
      BY <1>3, <1>8, <3>2, <3>3
  <2>4. CASE l > 2 \/ k > 2
    <3>1. at[l] = (IF l <= 2 THEN 1 ELSE l - 1) /\ at[k] = IF k <= 2 THEN 1 ELSE k - 1
      BY <1>4
    <3>2. (IF l <= 2 THEN 1 ELSE l - 1) = IF k <= 2 THEN 1 ELSE k - 1
      BY <1>8, <3>1
    <3>3. QED
      BY <2>1, <2>4, <3>2
  <2>5. QED
    BY <2>1, <2>2, <2>3, <2>4
<1>9. Tidy(P) /\ Pairs(P) \subseteq Pairs(Q)
  <2>1. PartsOf(P, Q, at, off)
    BY <1>5, <1>6, <1>7, <1>8 DEF PartsOf
  <2>2. QED
    BY <2>1, PartsTidy
<1>10. Pairs(P) # Pairs(Q)
  <2> DEFINE x == Q[1][1]
             y == Q[1][n]
  <2>1. 1 \in DOMAIN Q[1] /\ n \in DOMAIN Q[1] /\ x \in Items /\ y \in Items
    BY <1>2, <1>3, ElementOfSeq
  <2>2. x \in Range(Q[1]) /\ y \in Range(Q[1])
    BY <2>1 DEF Range
  <2>3. <<x, y>> \in Pairs(Q)
    BY <1>3, <2>1, <2>2 DEF Pairs
  <2>4. ASSUME NEW l \in DOMAIN P, x \in Range(P[l]), y \in Range(P[l]) PROVE FALSE
    <3>1. PICK m \in DOMAIN P[l] : P[l][m] = x
      BY <2>4 DEF Range
    <3>2. PICK i \in DOMAIN P[l] : P[l][i] = y
      BY <2>4 DEF Range
    <3>0. /\ off[l] + m \in DOMAIN Q[at[l]] /\ Q[at[l]][off[l] + m] = Q[1][1]
          /\ off[l] + i \in DOMAIN Q[at[l]] /\ Q[at[l]][off[l] + i] = Q[1][n] /\ at[l] \in DOMAIN Q
      BY <1>4, <1>6, <3>1, <3>2
    <3>3. at[l] = 1 /\ off[l] + m = 1 /\ off[l] + i = n
      BY <1>3, <2>1, <3>0 DEF Tidy
    <3>4. CASE l = 1
      <4>1. i \in DOMAIN P[1] /\ off[l] = 0
        BY <1>4, <3>4
      <4>2. i \in 1 .. mid
        BY <1>1, <4>1
      <4>3. QED
        BY <1>1, <1>3, <3>3, <4>1, <4>2
    <3>5. CASE l = 2
      <4>1. m \in DOMAIN P[2] /\ off[l] = mid
        BY <1>4, <3>5
      <4>2. m \in 1 .. n - mid
        BY <1>1, <4>1
      <4>3. QED
        BY <1>1, <1>3, <3>3, <4>1, <4>2
    <3>6. CASE l \in 3 .. Len(Q) + 1
      <4>1. at[l] = l - 1
        BY <1>2, <1>4, <3>6
      <4>2. QED
        BY <1>2, <3>3, <3>6, <4>1
    <3>7. QED
      BY <1>4, <3>4, <3>5, <3>6
  <2>5. <<x, y>> \notin Pairs(P)
    BY <2>4 DEF Pairs
  <2>6. QED
    BY <2>3, <2>5
<1>11. QED
  BY <1>9, <1>10 DEF P

\* A chunk of a sequence that repeats nothing is a tidy queue.
LEMMA OneChunkTidy ==
    ASSUME NEW c \in Seq(Items), c # <<>>, IsInjective(c)
    PROVE  Tidy(<<c>>)
<1>1. DOMAIN <<c>> = {1} /\ <<c>>[1] = c
  OBVIOUS
<1>2. QED
  BY <1>1 DEF Tidy, IsInjective

\* The chunks of such a sequence repeat nothing.
LEMMA ChunksInjective ==
    ASSUME NEW q \in Seq(Items), IsInjective(q), NEW k \in DOMAIN Chunks(q)
    PROVE  Chunks(q)[k] \in Seq(Items) /\ Chunks(q)[k] # <<>> /\ IsInjective(Chunks(q)[k])
<1> DEFINE n == Len(q)
           a == From(k)
           b == Upto(k, n)
<1>1. n \in Nat /\ DOMAIN q = 1 .. n /\ \A j \in 1 .. n : q[j] \in Items
  BY LenProperties, ElementOfSeq
<1>2. Chunks(q) = [l \in 1 .. Count(n) |-> SubSeq(q, From(l), Upto(l, n))]
  BY DEF Chunks, From, Upto, Count
<1>3. k \in 1 .. Count(n)
  BY <1>2
<1>4. Chunks(q)[k] = SubSeq(q, a, b)
  BY <1>2, <1>3
<1>5. a \in 1 .. n /\ b \in a .. n
  BY <1>1, <1>3, ChunkBounds
<1> HIDE DEF a, b, n
<1>6. a \in Nat /\ b \in Nat /\ 1 <= a /\ a <= b /\ b <= n
  BY <1>1, <1>5
<1>7. \A j \in a .. b : q[j] \in Items
  BY <1>1, <1>6
<1> DEFINE c == SubSeq(q, a, b)
<1>8. c \in Seq(Items) /\ Len(c) = b - a + 1 /\ \A j \in 1 .. b - a + 1 : c[j] = q[a + j - 1]
  BY <1>6, <1>7, SubSeqProperties
<1> HIDE DEF c
<1>9. DOMAIN c = 1 .. b - a + 1 /\ c # <<>>
  <2>1. DOMAIN c = 1 .. b - a + 1
    BY <1>8, LenProperties
  <2>2. b - a + 1 # 0
    BY <1>6
  <2>3. c # <<>>
    BY <1>8, <2>2
  <2>4. QED
    BY <2>1, <2>3
<1>10. ASSUME NEW i \in DOMAIN c, NEW j \in DOMAIN c, c[i] = c[j] PROVE i = j
  <2>1. a + i - 1 \in DOMAIN q /\ a + j - 1 \in DOMAIN q /\ i \in Int /\ j \in Int
    BY <1>1, <1>6, <1>9
  <2>2. q[a + i - 1] = q[a + j - 1]
    BY <1>8, <1>9, <1>10
  <2>3. a + i - 1 = a + j - 1
    BY <2>1, <2>2 DEF IsInjective
  <2>4. QED
    BY <1>6, <2>1, <2>3
<1>11. IsInjective(c)
  BY <1>10 DEF IsInjective
<1>12. QED
  BY <1>4, <1>8, <1>9, <1>11 DEF c

\* What tasks are given is tidy.
LEMMA TasksTidy ==
    ASSUME NEW q \in Seq(Items), IsInjective(q)
    PROVE  \A t \in Callers : Tidy(TasksFor(q)[t].queue)
<1> SUFFICES ASSUME NEW t \in Callers PROVE Tidy(TasksFor(q)[t].queue)
  OBVIOUS
<1>1. CASE t \in DOMAIN Chunks(q)
  <2> DEFINE c == Chunks(q)[t]
  <2>1. TasksFor(q)[t] = [NoTask EXCEPT !.pc = "waiting", !.chunk = c, !.queue = <<c>>]
    BY <1>1 DEF TasksFor
  <2>2. c \in Seq(Items) /\ c # <<>> /\ IsInjective(c)
    BY <1>1, ChunksInjective
  <2> HIDE DEF c
  <2>3. TasksFor(q)[t].queue = <<c>>
    BY <2>1 DEF NoTask
  <2>4. QED
    BY <2>2, <2>3, OneChunkTidy
<1>2. CASE t \notin DOMAIN Chunks(q)
  <2>1. TasksFor(q)[t].queue = <<>>
    BY <1>2 DEF TasksFor, NoTask
  <2>2. QED
    BY <2>1 DEF Tidy
<1>3. QED
  BY <1>1, <1>2

\* A part of a finite set has fewer elements.
LEMMA Fewer ==
    ASSUME NEW T, IsFiniteSet(T), NEW S \in SUBSET T
    PROVE  /\ Cardinality(S) \in Nat /\ Cardinality(T) \in Nat
           /\ S # T => Cardinality(S) < Cardinality(T)
<1>1. IsFiniteSet(S) /\ Cardinality(S) <= Cardinality(T) /\ (Cardinality(T) = Cardinality(S) => T = S)
  BY FS_Subset
<1>2. Cardinality(S) \in Nat /\ Cardinality(T) \in Nat
  BY <1>1, FS_CardinalityType
<1>3. QED
  BY <1>1, <1>2

\* There are finitely many pairs of items.
LEMMA PairsFinite == \A Q : IsFiniteSet(Pairs(Q)) /\ Cardinality(Pairs(Q)) \in Nat
<1>1. IsFiniteSet(Items)
  BY FS_Interval, PassAssumption DEF Items
<1>2. IsFiniteSet(Items \X Items)
  BY <1>1, FS_Product
<1>3. \A Q : Pairs(Q) \in SUBSET (Items \X Items)
  BY DEF Pairs
<1>4. \A Q : IsFiniteSet(Pairs(Q))
  BY <1>2, <1>3, FS_Subset
<1>5. QED
  BY <1>4, FS_CardinalityType

\* The order of what is left: the first component that differs decides.
LEMMA BelowDecides ==
    ASSUME NEW a \in Int, NEW b \in Int, NEW c \in Int, NEW d \in Int, NEW e \in Int,
           NEW p \in Int, NEW q \in Int, NEW r \in Int, NEW s \in Int, NEW u \in Int,
           \/ p < a
           \/ p = a /\ q < b
           \/ p = a /\ q = b /\ r < c
           \/ p = a /\ q = b /\ r = c /\ s < d
           \/ p = a /\ q = b /\ r = c /\ s = d /\ u < e
    PROVE  Below(<<p, q, r, s, u>>, <<a, b, c, d, e>>)
<1> DEFINE x == <<a, b, c, d, e>>
           y == <<p, q, r, s, u>>
<1>1. /\ x[1] = a /\ x[2] = b /\ x[3] = c /\ x[4] = d /\ x[5] = e
      /\ y[1] = p /\ y[2] = q /\ y[3] = r /\ y[4] = s /\ y[5] = u
  OBVIOUS
<1> HIDE DEF x, y
<1>2. ASSUME NEW n \in 1 .. 5, y[n] < x[n], \A m \in 1 .. 4 : m < n => y[m] = x[m]
      PROVE  Below(y, x)
  <2>1. \A m \in 1 .. n - 1 : m \in 1 .. 4 /\ m < n
    OBVIOUS
  <2>2. QED
    BY <1>2, <2>1 DEF Below
<1>3. ASSUME p < a PROVE Below(y, x)
  <2>1. 1 \in 1 .. 5 /\ \A m \in 1 .. 4 : ~(m < 1)
    OBVIOUS
  <2>2. QED
    BY <1>1, <1>2, <1>3, <2>1
<1>4. ASSUME p = a /\ q < b PROVE Below(y, x)
  <2>1. 2 \in 1 .. 5 /\ \A m \in 1 .. 4 : m < 2 => m = 1
    OBVIOUS
  <2>2. QED
    BY <1>1, <1>2, <1>4, <2>1
<1>5. ASSUME p = a /\ q = b /\ r < c PROVE Below(y, x)
  <2>1. 3 \in 1 .. 5 /\ \A m \in 1 .. 4 : m < 3 => m \in {1, 2}
    OBVIOUS
  <2>2. QED
    BY <1>1, <1>2, <1>5, <2>1
<1>6. ASSUME p = a /\ q = b /\ r = c /\ s < d PROVE Below(y, x)
  <2>1. 4 \in 1 .. 5 /\ \A m \in 1 .. 4 : m < 4 => m \in {1, 2, 3}
    OBVIOUS
  <2>2. QED
    BY <1>1, <1>2, <1>6, <2>1
<1>7. ASSUME p = a /\ q = b /\ r = c /\ s = d /\ u < e PROVE Below(y, x)
  <2>1. 5 \in 1 .. 5 /\ \A m \in 1 .. 4 : m < 5 => m \in {1, 2, 3, 4}
    OBVIOUS
  <2>2. QED
    BY <1>1, <1>2, <1>7, <2>1
<1>8. Below(y, x)
  BY <1>3, <1>4, <1>5, <1>6, <1>7
<1>9. QED
  BY <1>8 DEF x, y

\* What is left, of a task and its call.
CallStates == [pc : {"none", "built", "post", "delay"} \cup Results, attempt : 0 .. MaxAttempts,
               format : BOOLEAN, fallible : BOOLEAN, tried : BOOLEAN]

Way(k, c)     == IF k.pc = "waiting" THEN 3 ELSE IF k.pc = "working" THEN 2 ELSE IF c.pc \in Results THEN 0 ELSE 1
Untried(c)    == IF c.tried THEN 0 ELSE 1
Before(c)     == CASE c.pc = "built" -> 2 [] c.pc = "delay" -> 1 [] OTHER -> 0
LeftOf(k, c)  == <<Cardinality(Pairs(k.queue)), Way(k, c), MaxAttempts - c.attempt, Untried(c), Before(c)>>

\* A task that waits has the longest way, one that asks the shortest.
LEMMA WayIs ==
    \A k, c : /\ Way(k, c) \in Int
              /\ k.pc = "waiting" => Way(k, c) = 3
              /\ k.pc = "working" => Way(k, c) = 2
              /\ k.pc = "asking" => Way(k, c) = IF c.pc \in Results THEN 0 ELSE 1
<1> SUFFICES ASSUME NEW k, NEW c
             PROVE  /\ Way(k, c) \in Int
                    /\ k.pc = "waiting" => Way(k, c) = 3
                    /\ k.pc = "working" => Way(k, c) = 2
                    /\ k.pc = "asking" => Way(k, c) = IF c.pc \in Results THEN 0 ELSE 1
  OBVIOUS
<1>1. CASE k.pc = "waiting"
  <2>1. Way(k, c) = 3
    BY <1>1 DEF Way
  <2>2. QED
    BY <1>1, <2>1
<1>2. CASE k.pc = "working"
  <2>1. Way(k, c) = 2
    BY <1>2 DEF Way
  <2>2. QED
    BY <1>2, <2>1
<1>3. CASE k.pc # "waiting" /\ k.pc # "working"
  <2>1. Way(k, c) = IF c.pc \in Results THEN 0 ELSE 1
    BY <1>3 DEF Way
  <2>2. QED
    BY <1>3, <2>1
<1>4. QED
  BY <1>1, <1>2, <1>3

\* Left, as a function of the two.
LEMMA LeftIs ==
    \A t : Left(t) = LeftOf(task[t], call[t]) /\ Left(t)' = LeftOf(task'[t], call'[t])
<1>1. ASSUME NEW t PROVE Left(t) = LeftOf(task[t], call[t])
  BY Zenon DEF Left, LeftOf, Together, Pairs, Way, Untried, Before
<1>2. ASSUME NEW t PROVE Left(t)' = LeftOf(task'[t], call'[t])
  BY Zenon DEF Left, LeftOf, Together, Pairs, Way, Untried, Before
<1>3. QED
  BY <1>1, <1>2

\* A call has less before it when it has ended, counts one more attempt, has fallen back, or
\* is closer to its post.
CallLess(c, d) ==
    \/ d.attempt > c.attempt
    \/ d.attempt = c.attempt /\ ~c.tried /\ d.tried
    \/ d.attempt = c.attempt /\ d.tried = c.tried /\ Before(d) < Before(c)

\* The three ways in which there is less left.
LEMMA LessLeft ==
    ASSUME NEW k, NEW l, NEW c \in CallStates, NEW d \in CallStates,
           \/ Pairs(l.queue) \subseteq Pairs(k.queue) /\ Pairs(l.queue) # Pairs(k.queue)
           \/ l.queue = k.queue /\ Way(l, d) < Way(k, c)
           \/ l.queue = k.queue /\ Way(l, d) = Way(k, c) /\ CallLess(c, d)
    PROVE  Below(LeftOf(l, d), LeftOf(k, c))
<1> DEFINE a == Cardinality(Pairs(k.queue))
           p == Cardinality(Pairs(l.queue))
<1>1. a \in Int /\ p \in Int
  BY PairsFinite
<1>2. Pairs(l.queue) \subseteq Pairs(k.queue) /\ Pairs(l.queue) # Pairs(k.queue) => p < a
  BY PairsFinite, Fewer
<1>3. l.queue = k.queue => p = a
  OBVIOUS
<1> HIDE DEF a, p
<1>4. Way(k, c) \in Int /\ Way(l, d) \in Int
  BY DEF Way
<1>5. /\ MaxAttempts - c.attempt \in Int /\ MaxAttempts - d.attempt \in Int
      /\ c.attempt \in Int /\ d.attempt \in Int /\ MaxAttempts \in Int
      /\ c.tried \in BOOLEAN /\ d.tried \in BOOLEAN
  BY CallsAssumption DEF CallStates
<1>6. /\ Untried(c) \in Int /\ Untried(d) \in Int /\ Before(c) \in Int /\ Before(d) \in Int
      /\ d.tried = c.tried => Untried(d) = Untried(c)
      /\ ~c.tried /\ d.tried => Untried(d) < Untried(c)
  BY DEF Untried, Before
<1>7. CallLess(c, d) =>
         \/ MaxAttempts - d.attempt < MaxAttempts - c.attempt
         \/ MaxAttempts - d.attempt = MaxAttempts - c.attempt /\ Untried(d) < Untried(c)
         \/ /\ MaxAttempts - d.attempt = MaxAttempts - c.attempt /\ Untried(d) = Untried(c)
            /\ Before(d) < Before(c)
  BY <1>5, <1>6 DEF CallLess
<1>8. Below(<<p, Way(l, d), MaxAttempts - d.attempt, Untried(d), Before(d)>>,
            <<a, Way(k, c), MaxAttempts - c.attempt, Untried(c), Before(c)>>)
  <2>1. \/ p < a
        \/ p = a /\ Way(l, d) < Way(k, c)
        \/ p = a /\ Way(l, d) = Way(k, c) /\ CallLess(c, d)
    BY <1>2, <1>3
  <2> DEFINE q == Way(l, d)
             b == Way(k, c)
             r == MaxAttempts - d.attempt
             e == MaxAttempts - c.attempt
             s == Untried(d)
             f == Untried(c)
             u == Before(d)
             g == Before(c)
  <2>2. \/ p < a
        \/ p = a /\ q < b
        \/ p = a /\ q = b /\ r < e
        \/ p = a /\ q = b /\ r = e /\ s < f
        \/ p = a /\ q = b /\ r = e /\ s = f /\ u < g
    BY <1>7, <2>1
  <2>3. q \in Int /\ b \in Int /\ r \in Int /\ e \in Int /\ s \in Int /\ f \in Int /\ u \in Int /\ g \in Int
    BY <1>4, <1>5, <1>6
  <2> HIDE DEF q, b, r, e, s, f, u, g
  <2>4. Below(<<p, q, r, s, u>>, <<a, b, e, f, g>>)
    BY <1>1, <2>2, <2>3, BelowDecides
  <2>5. QED
    BY <2>4 DEF q, b, r, e, s, f, u, g
<1>9. QED
  BY <1>8 DEF LeftOf, a, p

\* A step of a call ends it or leaves less before it.
LEMMA CallStepLess ==
    ASSUME CallsTypeOK, NEW t \in Callers, CallStep(t)
    PROVE  /\ CallsTypeOK'
           /\ \A u \in Callers \ {t} : call'[u] = call[u]
           /\ call[t].pc \in {"built", "post", "delay"} /\ call'[t].pc # "none"
           /\ call'[t].pc \in Results \/ CallLess(call[t], call'[t])
<1> DEFINE c == call[t]
<1>0. /\ call \in [Callers -> CallStates] /\ supported \in BOOLEAN /\ cancelled \in BOOLEAN
      /\ supported' \in BOOLEAN /\ cancelled' \in BOOLEAN
  <2>1. call \in [Callers -> CallStates] /\ supported \in BOOLEAN /\ cancelled \in BOOLEAN
    BY DEF CallsTypeOK, CallStates
  <2>2. supported' \in {supported, FALSE} /\ cancelled' = cancelled
    BY DEF CallStep, ReadFlag, PostFails, BadRequest, Refused, Answered, DelayEnds, Interrupted
  <2>3. QED
    BY <2>1, <2>2
<1>1. c \in CallStates /\ c.attempt \in 0 .. MaxAttempts /\ MaxAttempts \in Nat
  BY <1>0, CallsAssumption DEF CallStates
<1>2. ASSUME NEW state, SetCall(t, state), state \in CallStates
      PROVE  /\ call' \in [Callers -> CallStates] /\ call'[t] = state
             /\ \A u \in Callers \ {t} : call'[u] = call[u]
  BY <1>0, <1>2 DEF SetCall
<1>3. ASSUME NEW result \in Results
      PROVE  [NoCall EXCEPT !.pc = result] \in CallStates /\ [NoCall EXCEPT !.pc = result].pc = result
  <2>1. 0 \in 0 .. MaxAttempts
    BY <1>1
  <2>2. NoCall \in CallStates
    BY <2>1 DEF NoCall, CallStates
  <2>3. QED
    BY <1>3, <2>2 DEF CallStates
<1>4. Results \cap {"none", "built", "post", "delay"} = {}
  BY DEF Results
<1> DEFINE Goal == /\ call' \in [Callers -> CallStates]
                   /\ \A u \in Callers \ {t} : call'[u] = call[u]
                   /\ call[t].pc \in {"built", "post", "delay"} /\ call'[t].pc # "none"
                   /\ call'[t].pc \in Results \/ CallLess(call[t], call'[t])
<1> SUFFICES Goal
  <2>1. Goal => CallsTypeOK'
    BY <1>0 DEF CallsTypeOK, CallStates
  <2>2. QED
    BY <2>1
<1>5. ASSUME NEW result \in Results, EndCall(t, result), c.pc \in {"built", "post", "delay"} PROVE Goal
  <2>1. SetCall(t, [NoCall EXCEPT !.pc = result])
    BY <1>5 DEF EndCall
  <2>2. QED
    BY <1>2, <1>3, <1>4, <1>5, <2>1
<1>6. ASSUME NEW limit \in 1 .. MaxAttempts, NEW result \in Results, Retry(t, limit, result), c.pc = "post"
      PROVE  Goal
  <2>1. CASE c.attempt + 1 < limit
    <3> DEFINE d == [c EXCEPT !.attempt = @ + 1, !.pc = "delay"]
    <3>1. SetCall(t, d)
      BY <1>6, <2>1 DEF Retry
    <3>0. c.attempt + 1 \in 0 .. MaxAttempts
      BY <1>1, <2>1
    <3>2. d.attempt = c.attempt + 1 /\ d.pc = "delay" /\ d \in CallStates
      BY <1>1, <3>0 DEF CallStates
    <3> HIDE DEF d
    <3>3. call'[t] = d /\ call' \in [Callers -> CallStates] /\ \A u \in Callers \ {t} : call'[u] = call[u]
      BY <1>2, <3>1, <3>2
    <3>4. CallLess(c, d)
      BY <1>1, <3>2 DEF CallLess
    <3>5. QED
      BY <1>6, <3>2, <3>3, <3>4
  <2>2. CASE ~(c.attempt + 1 < limit)
    BY <1>5, <1>6, <2>2 DEF Retry
  <2>3. QED
    BY <2>1, <2>2
<1>7. CASE ReadFlag(t)
  <2> DEFINE d == [c EXCEPT !.pc = "post", !.fallible = supported]
  <2>1. SetCall(t, d) /\ c.pc = "built"
    BY <1>7 DEF ReadFlag
  <2>2. d.attempt = c.attempt /\ d.tried = c.tried /\ d.pc = "post" /\ d \in CallStates
    BY <1>0, <1>1 DEF CallStates
  <2> HIDE DEF d
  <2>3. CallLess(c, d)
    BY <2>1, <2>2 DEF CallLess, Before
  <2>4. QED
    BY <1>2, <2>1, <2>2, <2>3
<1>8. CASE PostFails(t)
  <2>1. TimeoutLimit \in 1 .. MaxAttempts /\ MaxAttempts \in 1 .. MaxAttempts
    BY CallsAssumption DEF TimeoutLimit
  <2>2. c.pc = "post" /\ \/ Retry(t, TimeoutLimit, "fatal")
                         \/ Retry(t, MaxAttempts, "fatal")
                         \/ Retry(t, MaxAttempts, "invalid")
    BY <1>8 DEF PostFails
  <2>3. "fatal" \in Results /\ "invalid" \in Results
    BY DEF Results
  <2>4. QED
    BY <1>6, <2>1, <2>2, <2>3
<1>9. CASE BadRequest(t)
  <2>1. CASE c.fallible /\ ~c.tried
    <3> DEFINE d == [c EXCEPT !.format = FALSE, !.tried = TRUE]
    <3>1. SetCall(t, d) /\ c.pc = "post"
      BY <1>9, <2>1 DEF BadRequest
    <3>2. d.attempt = c.attempt /\ d.tried /\ d.pc = c.pc /\ d \in CallStates
      BY <1>1 DEF CallStates
    <3> HIDE DEF d
    <3>3. CallLess(c, d)
      BY <2>1, <3>2 DEF CallLess
    <3>4. QED
      BY <1>2, <3>1, <3>2, <3>3
  <2>2. CASE ~(c.fallible /\ ~c.tried)
    <3>1. EndCall(t, "fatal") /\ c.pc = "post" /\ "fatal" \in Results
      BY <1>9, <2>2 DEF BadRequest, Results
    <3>2. QED
      BY <1>5, <3>1
  <2>3. QED
    BY <2>1, <2>2
<1>10. CASE Refused(t) \/ Answered(t) \/ Interrupted(t)
  <2>1. /\ EndCall(t, "fatal") \/ EndCall(t, "invalid") \/ EndCall(t, "answer")
        /\ c.pc \in {"post", "delay"}
    BY <1>10 DEF Refused, Answered, Interrupted
  <2>2. {"fatal", "invalid", "answer"} \subseteq Results
    BY DEF Results
  <2>3. QED
    BY <1>5, <2>1, <2>2
<1>11. CASE DelayEnds(t)
  <2> DEFINE d == [c EXCEPT !.pc = "post"]
  <2>1. SetCall(t, d) /\ c.pc = "delay"
    BY <1>11 DEF DelayEnds
  <2>2. d.attempt = c.attempt /\ d.tried = c.tried /\ d.pc = "post" /\ d \in CallStates
    BY <1>1 DEF CallStates
  <2> HIDE DEF d
  <2>3. CallLess(c, d)
    BY <2>1, <2>2 DEF CallLess, Before
  <2>4. QED
    BY <1>2, <2>1, <2>2, <2>3
<1>12. QED
  BY <1>7, <1>8, <1>9, <1>10, <1>11 DEF CallStep

\* No chunk is asked for twice, a call belongs to a task that waits for it, and rounds
\* are numbers.
WorkInv ==
    /\ CallsTypeOK /\ round \in Nat
    /\ \A t \in Callers : Tidy(task[t].queue)
    /\ \A t \in Callers : call[t].pc # "none" => task[t].pc = "asking"

\* A task that is given an answer, or none, goes on with less.
LEMMA GoOnLess ==
    ASSUME PassTyped, NEW t \in Callers, NEW queue, NEW found, GoOn(t, queue, found),
           NEW c \in CallStates, NEW d \in CallStates,
           Pairs(queue) \subseteq Pairs(task[t].queue), Pairs(queue) # Pairs(task[t].queue), Tidy(queue)
    PROVE  /\ Tidy(task'[t].queue)
           /\ Below(LeftOf(task'[t], d), LeftOf(task[t], c))
<1>1. task[t] \in Task /\ task' = [task EXCEPT ![t] = task'[t]]
      /\ task'[t] = [task[t] EXCEPT !.pc = IF queue = <<>> THEN "over" ELSE "working",
                                    !.queue = queue, !.found = found]
  BY DEF PassTyped, GoOn, SetTask
<1>2. task'[t].queue = queue
  BY <1>1 DEF Task
<1>3. QED
  BY <1>2, LessLeft

\* A task's step leaves it less to do, and the others what they had.
LEMMA TaskStepLess ==
    ASSUME SettlingInv, WorkInv, stage \notin Ended, NEW t \in Callers, TaskStep(t)
    PROVE  /\ AtWork(t) /\ round' = round /\ CallsTypeOK'
           /\ \A u \in Callers \ {t} : task'[u] = task[u] /\ call'[u] = call[u]
           /\ Tidy(task'[t].queue)
           /\ call'[t].pc # "none" => task'[t].pc = "asking"
           /\ AtWork(t)' => Below(Left(t)', Left(t))
<1> DEFINE k == task[t]
           c == call[t]
           Q == k.queue
<1>0. /\ PassTyped /\ TaskSound(k, stage) /\ Tidy(Q) /\ k \in Task
      /\ call \in [Callers -> CallStates] /\ supported \in BOOLEAN /\ cancelled \in BOOLEAN
      /\ c.pc # "none" => k.pc = "asking"
  BY DEF SettlingInv, WorkInv, PassTyped, CallsTypeOK, CallStates
<1>1. /\ round' = round /\ \A u \in Callers \ {t} : task'[u] = task[u]
  <2>1. Leaves(t) /\ \A u \in Callers \ {t} : task'[u] = task[u]
    BY <1>0, TaskStepHolds
  <2>2. QED
    BY <2>1 DEF Leaves
<1>2. AtWork(t)
  BY DEF AtWork, TaskStep, Admit, Ask, AskStopped, Understood, Misshapen, Refusal, Replied
<1>3. Q \in Seq(Seq(Items)) /\ Q # <<>> /\ Head(Q) = Q[1]
  BY <1>0, <1>2 DEF Task, TaskSound, AtWork
<1>4. NoCall \in CallStates /\ [NoCall EXCEPT !.pc = "built", !.format = supported] \in CallStates
      /\ NoCall.pc = "none" /\ [NoCall EXCEPT !.pc = "built", !.format = supported].pc = "built"
  <2>1. 0 \in 0 .. MaxAttempts
    BY CallsAssumption
  <2>2. NoCall \in CallStates /\ NoCall.pc = "none"
    BY <2>1 DEF NoCall, CallStates
  <2>3. QED
    BY <1>0, <2>2 DEF CallStates
<1>5. ASSUME NEW d \in CallStates, call' = [call EXCEPT ![t] = d], UNCHANGED <<supported, cancelled>>
      PROVE  /\ CallsTypeOK' /\ \A u \in Callers \ {t} : call'[u] = call[u]
             /\ call'[t] = d
  BY <1>0, <1>5 DEF CallsTypeOK, CallStates
<1>6. ASSUME UNCHANGED callVars
      PROVE  CallsTypeOK' /\ call' = call
  BY <1>6 DEF WorkInv, CallsTypeOK, callVars
<1>7. Left(t) = LeftOf(k, c) /\ Left(t)' = LeftOf(task'[t], call'[t])
  BY LeftIs
<1> DEFINE Goal == /\ CallsTypeOK' /\ \A u \in Callers \ {t} : call'[u] = call[u]
                   /\ Tidy(task'[t].queue)
                   /\ call'[t].pc # "none" => task'[t].pc = "asking"
                   /\ AtWork(t)' => Below(LeftOf(task'[t], call'[t]), LeftOf(k, c))
<1> SUFFICES Goal
  BY <1>1, <1>2, <1>7
<1>8. ASSUME NEW pc \in {"working", "asking"}, SetTask(t, [k EXCEPT !.pc = pc])
      PROVE  task'[t].queue = Q /\ task'[t].pc = pc
  BY <1>0, <1>8 DEF SetTask, PassTyped, Task
<1>9. CASE Admit(t)
  <2>1. /\ UNCHANGED callVars /\ k.pc = "waiting"
        /\ task'[t].queue = Q /\ task'[t].pc = "working"
    BY <1>8, <1>9 DEF Admit
  <2>2. CallsTypeOK' /\ call' = call /\ c.pc = "none"
    BY <1>0, <1>6, <2>1
  <2>3. Way(task'[t], c) < Way(k, c)
    BY <2>1, WayIs
  <2>4. Below(LeftOf(task'[t], c), LeftOf(k, c))
    BY <1>0, <2>1, <2>3, LessLeft
  <2>5. QED
    BY <1>0, <2>1, <2>2, <2>4
<1>10. CASE Ask(t)
  <2> DEFINE d == [NoCall EXCEPT !.pc = "built", !.format = supported]
  <2>1. /\ call' = [call EXCEPT ![t] = d] /\ UNCHANGED <<supported, cancelled>> /\ k.pc = "working"
        /\ task'[t].queue = Q /\ task'[t].pc = "asking" /\ d \in CallStates /\ d.pc = "built"
    BY <1>4, <1>8, <1>10 DEF Ask, BuildBody, SetCall
  <2> HIDE DEF d
  <2>2. /\ CallsTypeOK' /\ \A u \in Callers \ {t} : call'[u] = call[u]
        /\ call'[t] = d
    BY <1>5, <2>1
  <2>3. Way(task'[t], d) < Way(k, c)
    BY <2>1, WayIs
  <2>4. Below(LeftOf(task'[t], d), LeftOf(k, c))
    BY <1>0, <2>1, <2>3, LessLeft
  <2>5. QED
    BY <1>0, <2>1, <2>2, <2>4
<1>11. ASSUME GiveUp(t), CallsTypeOK', \A u \in Callers \ {t} : call'[u] = call[u],
              call'[t].pc = "none", call'[t] \in CallStates
       PROVE  Goal
  <2>1. CASE stage = "review"
    <3> DEFINE b     == Head(Q)
               found == Finding(t, b, Failing(b))
    <3>1. GoOn(t, Tail(Q), found)
      BY <1>11, <2>1 DEF GiveUp
    <3>2. Tidy(Tail(Q)) /\ Pairs(Tail(Q)) \subseteq Pairs(Q) /\ Pairs(Tail(Q)) # Pairs(Q)
      BY <1>0, <1>3, RestIsLess
    <3> HIDE DEF found
    <3>3. Tidy(task'[t].queue) /\ Below(LeftOf(task'[t], call'[t]), LeftOf(k, c))
      BY <1>0, <1>11, <3>1, <3>2, GoOnLess
    <3>4. QED
      BY <1>11, <3>3
  <2>2. CASE stage # "review"
    <3>1. SetTask(t, [k EXCEPT !.pc = "error"])
      BY <1>11, <2>2 DEF GiveUp
    <3>2. task'[t].queue = Q /\ task'[t].pc = "error"
      BY <1>0, <3>1 DEF SetTask, PassTyped, Task
    <3>3. QED
      BY <1>0, <1>11, <3>2 DEF AtWork
  <2>3. QED
    BY <2>1, <2>2
<1>12. CASE AskStopped(t)
  <2>1. GiveUp(t) /\ UNCHANGED callVars /\ k.pc = "working"
    BY <1>12 DEF AskStopped
  <2>2. CallsTypeOK' /\ call' = call /\ c.pc = "none" /\ c \in CallStates
    BY <1>0, <1>6, <2>1
  <2>3. QED
    BY <1>11, <2>1, <2>2
<1>13. ASSUME NEW results, Replied(t, results)
       PROVE  /\ CallsTypeOK' /\ \A u \in Callers \ {t} : call'[u] = call[u]
              /\ call'[t].pc = "none" /\ call'[t] \in CallStates
  BY <1>4, <1>5, <1>13 DEF Replied, SetCall
<1>14. CASE Understood(t)
  <2> DEFINE b == Head(Q)
  <2>1. PICK outcome \in Outcomes(b) : GoOn(t, Tail(Q), Finding(t, b, outcome))
    BY <1>14 DEF Understood
  <2>2. Replied(t, {"answer"})
    BY <1>14 DEF Understood
  <2>3. Tidy(Tail(Q)) /\ Pairs(Tail(Q)) \subseteq Pairs(Q) /\ Pairs(Tail(Q)) # Pairs(Q)
    BY <1>0, <1>3, RestIsLess
  <2>4. Tidy(task'[t].queue) /\ Below(LeftOf(task'[t], call'[t]), LeftOf(k, c))
    BY <1>0, <1>13, <2>1, <2>2, <2>3, GoOnLess
  <2>5. QED
    BY <1>13, <2>2, <2>4
<1>15. CASE Misshapen(t)
  <2> DEFINE b == Head(Q)
  <2>1. Replied(t, {"answer", "invalid"})
    BY <1>15 DEF Misshapen
  <2>2. PICK P, found : /\ GoOn(t, P, found) /\ Tidy(P)
                        /\ Pairs(P) \subseteq Pairs(Q) /\ Pairs(P) # Pairs(Q)
    <3>1. CASE Len(b) > 1
      <4>1. GoOn(t, Halves(Q), k.found)
        BY <1>15, <3>1 DEF Misshapen, Halves
      <4>2. Tidy(Halves(Q)) /\ Pairs(Halves(Q)) \subseteq Pairs(Q) /\ Pairs(Halves(Q)) # Pairs(Q)
        BY <1>0, <1>3, <3>1, HalvesAreLess
      <4>3. QED
        BY <4>1, <4>2
    <3>2. CASE ~(Len(b) > 1)
      <4>1. GoOn(t, Tail(Q), Finding(t, b, Failing(b)))
        BY <1>15, <3>2 DEF Misshapen
      <4>2. Tidy(Tail(Q)) /\ Pairs(Tail(Q)) \subseteq Pairs(Q) /\ Pairs(Tail(Q)) # Pairs(Q)
        BY <1>0, <1>3, RestIsLess
      <4>3. QED
        BY <4>1, <4>2
    <3>3. QED
      BY <3>1, <3>2
  <2>3. Tidy(task'[t].queue) /\ Below(LeftOf(task'[t], call'[t]), LeftOf(k, c))
    BY <1>0, <1>13, <2>1, <2>2, GoOnLess
  <2>4. QED
    BY <1>13, <2>1, <2>3
<1>16. CASE Refusal(t)
  <2>1. Replied(t, {"fatal"}) /\ GiveUp(t)
    BY <1>16 DEF Refusal
  <2>2. QED
    BY <1>11, <1>13, <2>1
<1>17. QED
  BY <1>9, <1>10, <1>12, <1>14, <1>15, <1>16 DEF TaskStep

\* What TasksRunOut says of one step.
StepRunsOut ==
    /\ round' = round \/ (round < Rounds /\ round' = round + 1)
    /\ \A t \in Callers : AtWork(t)' =>
          IF AtWork(t)
          THEN /\ Left(t)' = Left(t) \/ Below(Left(t)', Left(t))
               /\ TaskStep(t) \/ (CallStep(t) /\ UNCHANGED passVars) => Below(Left(t)', Left(t))
          ELSE round' = round + 1

\* What a task has left depends on the task and its call.
LEMMA LeftStays ==
    ASSUME NEW t, task'[t] = task[t], call'[t] = call[t]
    PROVE  Left(t)' = Left(t) /\ (AtWork(t)' <=> AtWork(t))
<1>1. Left(t)' = Left(t)
  BY LeftIs
<1>2. QED
  BY <1>1 DEF AtWork

\* Of a step of one task the others keep what is left to them.
LEMMA TaskRunsOut ==
    ASSUME SettlingInv, WorkInv, NEW t \in Callers, TaskStep(t)
    PROVE  WorkInv' /\ \A u \in Callers : /\ AtWork(u)' => AtWork(u)
                                          /\ Left(u)' = Left(u) \/ (AtWork(u)' => Below(Left(u)', Left(u)))
<1>1. stage \notin Ended
  BY DEF SettlingInv, AllJoined, TaskStep, Admit, Ask, AskStopped, Understood, Misshapen, Refusal,
         Replied
<1>2. /\ AtWork(t) /\ round' = round /\ CallsTypeOK'
      /\ \A u \in Callers \ {t} : task'[u] = task[u] /\ call'[u] = call[u]
      /\ Tidy(task'[t].queue)
      /\ call'[t].pc # "none" => task'[t].pc = "asking"
      /\ AtWork(t)' => Below(Left(t)', Left(t))
  BY <1>1, TaskStepLess
<1>3. WorkInv'
  BY <1>2 DEF WorkInv
<1>4. \A u \in Callers \ {t} : Left(u)' = Left(u) /\ (AtWork(u)' <=> AtWork(u))
  BY <1>2, LeftStays
<1>5. QED
  BY <1>2, <1>3, <1>4

\* The same of a call.
LEMMA CallRunsOut ==
    ASSUME SettlingInv, WorkInv, NEW t \in Callers, CallStep(t), UNCHANGED passVars
    PROVE  /\ WorkInv' /\ round' = round /\ Below(Left(t)', Left(t))
           /\ \A u \in Callers : (AtWork(u)' <=> AtWork(u)) /\ (u # t => Left(u)' = Left(u))
<1> DEFINE k == task[t]
           c == call[t]
           d == call'[t]
<1>1. /\ CallsTypeOK' /\ \A u \in Callers \ {t} : call'[u] = call[u]
      /\ c.pc \in {"built", "post", "delay"} /\ d.pc # "none"
      /\ d.pc \in Results \/ CallLess(c, d)
  BY CallStepLess DEF WorkInv
<1>2. task' = task /\ round' = round
  BY DEF passVars
<1>3. c.pc \notin Results /\ k.pc = "asking" /\ c \in CallStates /\ d \in CallStates
  <2>1. c.pc # "none" /\ c.pc \notin Results
    BY <1>1 DEF Results
  <2>2. c \in CallStates
    BY DEF WorkInv, CallsTypeOK, CallStates
  <2>3. d \in CallStates
    BY <1>1 DEF CallsTypeOK, CallStates
  <2>4. QED
    BY <2>1, <2>2, <2>3 DEF WorkInv
<1>4. WorkInv'
  <2>1. \A u \in Callers : call'[u].pc # "none" => task'[u].pc = "asking"
    BY <1>1, <1>2, <1>3 DEF WorkInv
  <2>2. QED
    BY <1>1, <1>2, <2>1 DEF WorkInv
<1>5. Below(Left(t)', Left(t))
  <2>1. CASE d.pc \in Results
    <3>1. Way(k, d) < Way(k, c)
      BY <1>3, <2>1, WayIs
    <3>2. Below(LeftOf(k, d), LeftOf(k, c))
      BY <1>3, <3>1, LessLeft
    <3>3. QED
      BY <1>2, <3>2, LeftIs
  <2>2. CASE d.pc \notin Results
    <3>1. Way(k, d) = Way(k, c) /\ CallLess(c, d)
      BY <1>1, <1>3, <2>2, WayIs
    <3>2. Below(LeftOf(k, d), LeftOf(k, c))
      BY <1>3, <3>1, LessLeft
    <3>3. QED
      BY <1>2, <3>2, LeftIs
  <2>3. QED
    BY <2>1, <2>2
<1>6. \A u \in Callers : (AtWork(u)' <=> AtWork(u)) /\ (u # t => Left(u)' = Left(u))
  <2>1. \A u \in Callers : AtWork(u)' <=> AtWork(u)
    BY <1>2 DEF AtWork
  <2>2. \A u \in Callers \ {t} : Left(u)' = Left(u)
    BY <1>1, <1>2, LeftStays
  <2>3. QED
    BY <2>1, <2>2
<1>7. QED
  BY <1>2, <1>4, <1>5, <1>6

\* A pass that fails leaves no task.
LEMMA FailRunsOut ==
    ASSUME WorkInv, Fail
    PROVE  WorkInv' /\ round' = round /\ \A u \in Callers : ~AtWork(u)'
<1>1. /\ \A u \in Callers : task'[u] = NoTask /\ call'[u] = NoCall
      /\ call' = [u \in Callers |-> NoCall]
      /\ UNCHANGED <<supported, cancelled, round>>
  BY DEF Fail
<1>2. NoTask.pc = "absent" /\ NoTask.queue = <<>> /\ NoCall.pc = "none"
  BY DEF NoTask, NoCall
<1>3. Tidy(<<>>)
  BY DEF Tidy
<1>4. NoCall \in CallStates
  <2>1. 0 \in 0 .. MaxAttempts
    BY CallsAssumption
  <2>2. QED
    BY <2>1 DEF NoCall, CallStates
<1>5. CallsTypeOK'
  BY <1>1, <1>4 DEF WorkInv, CallsTypeOK, CallStates
<1>6. WorkInv'
  BY <1>1, <1>2, <1>3, <1>5 DEF WorkInv
<1>7. QED
  BY <1>1, <1>2, <1>6 DEF AtWork

\* A task that is joined has no work, and the others keep theirs.
LEMMA JoinRunsOut ==
    ASSUME SettlingInv, WorkInv, NEW t \in Callers, JoinReview(t) \/ JoinAudit(t) \/ JoinCorrection(t)
    PROVE  /\ WorkInv' /\ round' = round
           /\ \A u \in Callers : AtWork(u)' => AtWork(u) /\ Left(u)' = Left(u)
<1>1. Fail \/ (SetTask(t, NoTask) /\ UNCHANGED callVars /\ round' = round)
  BY DEF JoinReview, JoinAudit, JoinCorrection
<1>2. CASE Fail
  BY <1>2, FailRunsOut
<1>3. CASE SetTask(t, NoTask) /\ UNCHANGED callVars /\ round' = round
  <2>1. \A u \in Callers : task'[u] = IF u = t THEN NoTask ELSE task[u]
    BY <1>3 DEF SettlingInv, PassTyped, SetTask
  <2>2. call' = call /\ supported' = supported /\ cancelled' = cancelled
    BY <1>3 DEF callVars
  <2>3. NoTask.pc = "absent" /\ NoTask.queue = <<>>
    BY DEF NoTask
  <2>4. task[t].pc \in {"over", "error"}
    BY DEF JoinReview, JoinAudit, JoinCorrection, Joinable
  <2>5. call[t].pc = "none"
    BY <2>4 DEF WorkInv
  <2>6. \A u \in Callers : Tidy(task'[u].queue)
    <3>1. Tidy(<<>>)
      BY DEF Tidy
    <3>2. QED
      BY <2>1, <2>3, <3>1 DEF WorkInv
  <2>7. CallsTypeOK'
    BY <2>2 DEF WorkInv, CallsTypeOK
  <2>8. \A u \in Callers : call'[u].pc # "none" => task'[u].pc = "asking"
    BY <2>1, <2>2, <2>5 DEF WorkInv
  <2>9. WorkInv'
    BY <1>3, <2>6, <2>7, <2>8 DEF WorkInv
  <2>10. ~AtWork(t)'
    BY <2>1, <2>3 DEF AtWork
  <2>11. \A u \in Callers \ {t} : Left(u)' = Left(u) /\ (AtWork(u)' <=> AtWork(u))
    BY <2>1, <2>2, LeftStays
  <2>12. QED
    BY <1>3, <2>9, <2>10, <2>11
<1>4. QED
  BY <1>1, <1>2, <1>3

\* A round gives new work to tasks that had none.
LEMMA RoundRunsOut ==
    ASSUME SettlingInv, WorkInv, BeginRound
    PROVE  /\ WorkInv' /\ (\A u \in Callers : ~AtWork(u))
           /\ \/ round' = round /\ \A u \in Callers : ~AtWork(u)'
              \/ round < Rounds /\ round' = round + 1
<1>1. \A u \in Callers : ~AtWork(u) /\ call[u].pc = "none"
  BY DEF BeginRound, AllJoined, AtWork, WorkInv
<1>2. CASE signal = "stopped"
  <2>1. Fail
    BY <1>2 DEF BeginRound
  <2>2. QED
    BY <1>1, <2>1, FailRunsOut
<1>3. CASE signal # "stopped"
  <2>1. /\ round < Rounds /\ round' = round + 1 /\ task' = TasksFor(pending) /\ UNCHANGED callVars
    BY <1>3 DEF BeginRound
  <2>2. pending \in Seq(Items) /\ IsInjective(pending)
    BY DEF SettlingInv, PassTyped, OnePlace, BeginRound
  <2>3. \A u \in Callers : Tidy(task'[u].queue)
    BY <2>1, <2>2, TasksTidy
  <2>4. CallsTypeOK' /\ call' = call
    BY <2>1 DEF WorkInv, CallsTypeOK, callVars
  <2>5. round' \in Nat
    BY <2>1 DEF WorkInv
  <2>6. WorkInv'
    BY <1>1, <2>3, <2>4, <2>5 DEF WorkInv
  <2>7. QED
    BY <1>1, <2>1, <2>6
<1>4. QED
  BY <1>2, <1>3

\* A step that leaves the tasks, the calls and the round.
LEMMA IdleRunsOut ==
    ASSUME WorkInv, UNCHANGED <<task, call, round>>, supported' = supported, cancelled' \in BOOLEAN
    PROVE  WorkInv' /\ \A u \in Callers : Left(u)' = Left(u) /\ (AtWork(u)' <=> AtWork(u))
<1>1. WorkInv'
  BY DEF WorkInv, CallsTypeOK
<1>2. QED
  BY <1>1, LeftStays

\* WorkInv is inductive next to SettlingInv, and every step runs out.
LEMMA WorkStep ==
    ASSUME SettlingInv, WorkInv, [QualityNext]_qualityVars
    PROVE  WorkInv' /\ StepRunsOut
<1>0. Rounds \in Int /\ round \in Int /\ round + 1 # round
  BY PassAssumption DEF WorkInv
<1> DEFINE Calm == /\ round' = round
                   /\ \A u \in Callers : AtWork(u)' => AtWork(u) /\ (Left(u)' = Left(u) \/ Below(Left(u)', Left(u)))
<1>1. WorkInv' /\ \/ Calm
                  \/ /\ round < Rounds /\ round' = round + 1 /\ \A u \in Callers : ~AtWork(u)
  <2>1. ASSUME NEW t \in Callers, TaskStep(t) PROVE WorkInv' /\ Calm
    <3>1. round' = round
      BY <2>1 DEF TaskStep, Admit, Ask, AskStopped, Understood, Misshapen, Refusal, Replied, Leaves
    <3>2. QED
      BY <2>1, <3>1, TaskRunsOut
  <2>2. ASSUME NEW t \in Callers, CallStep(t), UNCHANGED passVars PROVE WorkInv' /\ Calm
    <3>1. /\ WorkInv' /\ round' = round /\ Below(Left(t)', Left(t))
          /\ \A u \in Callers : (AtWork(u)' <=> AtWork(u)) /\ (u # t => Left(u)' = Left(u))
      BY <2>2, CallRunsOut
    <3>2. QED
      BY <3>1
  <2>3. ASSUME NEW t \in Callers, JoinReview(t) \/ JoinAudit(t) \/ JoinCorrection(t) PROVE WorkInv' /\ Calm
    BY <2>3, JoinRunsOut
  <2>4. CASE BeginRound
    <3>1. /\ WorkInv' /\ (\A u \in Callers : ~AtWork(u))
          /\ \/ round' = round /\ \A u \in Callers : ~AtWork(u)'
             \/ round < Rounds /\ round' = round + 1
      BY <2>4, RoundRunsOut
    <3>2. QED
      BY <3>1
  <2>5. CASE EndPass
    <3>1. Fail \/ (UNCHANGED <<task, call, round>> /\ supported' = supported /\ cancelled' = cancelled)
      BY <2>5 DEF EndPass, callVars
    <3>2. CASE Fail
      BY <3>2, FailRunsOut
    <3>3. CASE UNCHANGED <<task, call, round>> /\ supported' = supported /\ cancelled' = cancelled
      BY <3>3, IdleRunsOut DEF WorkInv, CallsTypeOK
    <3>4. QED
      BY <3>1, <3>2, <3>3
  <2>6. CASE Control \/ (CtrlC /\ UNCHANGED <<passVars, signalVars>>) \/ UNCHANGED qualityVars
    <3>1. UNCHANGED <<task, call, round>> /\ supported' = supported /\ cancelled' \in {cancelled, TRUE}
      BY <2>6 DEF Control, CtrlC, qualityVars, callVars, passVars
    <3>2. QED
      BY <3>1, IdleRunsOut DEF WorkInv, CallsTypeOK
  <2>7. \/ \E t \in Callers : TaskStep(t)
        \/ \E t \in Callers : CallStep(t) /\ UNCHANGED passVars
        \/ \E t \in Callers : JoinReview(t) \/ JoinAudit(t) \/ JoinCorrection(t)
        \/ BeginRound \/ EndPass
        \/ Control \/ (CtrlC /\ UNCHANGED <<passVars, signalVars>>) \/ UNCHANGED qualityVars
    <3>1. UNCHANGED <<passVars, signalVars>> => UNCHANGED passVars
      OBVIOUS
    <3>2. Work \/ Control \/ (CtrlC /\ UNCHANGED <<passVars, signalVars>>) \/ UNCHANGED qualityVars
      BY DEF QualityNext
    <3>3. CASE Work
      <4>1. (\E t \in Callers : TaskStep(t) \/ (CallStep(t) /\ UNCHANGED <<passVars, signalVars>>)) \/ PassStep
        BY <3>3 DEF Work
      <4>2. PassStep => \/ \E t \in Callers : JoinReview(t) \/ JoinAudit(t) \/ JoinCorrection(t)
                        \/ BeginRound \/ EndPass
        BY DEF PassStep
      <4>3. QED
        BY <3>1, <4>1, <4>2
    <3>4. QED
      BY <3>2, <3>3
  <2> HIDE DEF Calm
  <2>8. QED
    BY <2>1, <2>2, <2>3, <2>4, <2>5, <2>6, <2>7
<1>2. \A t \in Callers : (TaskStep(t) /\ AtWork(t)') => Below(Left(t)', Left(t))
  <2> SUFFICES ASSUME NEW t \in Callers, TaskStep(t), AtWork(t)' PROVE Below(Left(t)', Left(t))
    OBVIOUS
  <2>1. stage \notin Ended
    BY DEF SettlingInv, AllJoined, TaskStep, Admit, Ask, AskStopped, Understood, Misshapen, Refusal,
           Replied
  <2>2. QED
    BY <2>1, TaskStepLess
<1>3. \A t \in Callers : CallStep(t) /\ UNCHANGED passVars => Below(Left(t)', Left(t))
  BY CallRunsOut
<1>4. QED
  BY <1>0, <1>1, <1>2, <1>3 DEF StepRunsOut

\* At the start nobody has called.
LEMMA WorkStart == ASSUME PassInit PROVE WorkInv
<1> DEFINE I == IF kind = "review" THEN Items ELSE Items \ Copied
<1>1. /\ round = 0 /\ task = TasksFor(InOrder(I)) /\ supported = AutoJson /\ cancelled = FALSE
      /\ call = [u \in Callers |-> NoCall]
  BY DEF PassInit, CallsInit
<1>2. InOrder(I) \in Seq(Items) /\ IsInjective(InOrder(I))
  <2>1. I \in SUBSET Items
    OBVIOUS
  <2> HIDE DEF I
  <2>2. QED
    BY <2>1, InOrderHolds
<1> HIDE DEF I
<1>3. \A u \in Callers : Tidy(task[u].queue)
  BY <1>1, <1>2, TasksTidy
<1>4. NoCall \in CallStates /\ NoCall.pc = "none"
  <2>1. 0 \in 0 .. MaxAttempts
    BY CallsAssumption
  <2>2. QED
    BY <2>1 DEF NoCall, CallStates
<1>5. CallsTypeOK
  BY <1>1, <1>4, CallsAssumption DEF CallsTypeOK, CallStates
<1>6. QED
  BY <1>1, <1>3, <1>4, <1>5 DEF WorkInv

\* The two together are an invariant.
LEMMA WorkInvariant == QualitySpec => [](SettlingInv /\ WorkInv)
<1>1. PassInit => SettlingInv /\ WorkInv
  BY PassBegins, WorkStart
<1>2. SettlingInv /\ WorkInv /\ [QualityNext]_qualityVars => (SettlingInv /\ WorkInv)'
  BY SettlingInvKept, WorkStep
<1>3. QED
  BY <1>1, <1>2, PTL DEF QualitySpec

\* The type invariant of the provider calls: no call is attempted more often than it may be.
THEOREM CallsAreTyped == QualitySpec => []CallsTypeOK
<1>1. WorkInv => CallsTypeOK
  BY DEF WorkInv
<1>2. QED
  BY <1>1, WorkInvariant, PTL

\* Every step of a task and of its call leaves it less to do, no step of anyone leaves it more,
\* and it gets new work in one of finitely many rounds only, however long the book, whatever
\* the provider answers and however often it fails.
THEOREM TasksDoRunOut == QualitySpec => TasksRunOut
<1>1. SettlingInv /\ WorkInv /\ [QualityNext]_qualityVars => [StepRunsOut]_qualityVars
  BY WorkStep
<1>2. StepRunsOut <=>
         (/\ round' = round \/ (round < Rounds /\ round' = round + 1)
          /\ \A t \in Callers : AtWork(t)' =>
                IF AtWork(t)
                THEN /\ Left(t)' = Left(t) \/ Below(Left(t)', Left(t))
                     /\ TaskStep(t) \/ (CallStep(t) /\ UNCHANGED passVars) => Below(Left(t)', Left(t))
                ELSE round' = round + 1)
  BY Zenon DEF StepRunsOut
<1>3. QED
  BY <1>1, <1>2, WorkInvariant, PTL DEF QualitySpec, TasksRunOut

\* What is left is made of numbers: there is an end to it.
THEOREM LeftAreNumbers == QualitySpec => [](\A t \in Callers : Left(t) \in Nat \X Nat \X Nat \X Nat \X Nat)
<1>1. ASSUME WorkInv, NEW t \in Callers PROVE Left(t) \in Nat \X Nat \X Nat \X Nat \X Nat
  <2> DEFINE k == task[t]
             c == call[t]
  <2>1. c.attempt \in 0 .. MaxAttempts /\ MaxAttempts \in Nat
    BY <1>1, CallsAssumption DEF WorkInv, CallsTypeOK
  <2>2. MaxAttempts - c.attempt \in Nat
    BY <2>1
  <2>3. Cardinality(Pairs(k.queue)) \in Nat
    BY PairsFinite
  <2>4. Way(k, c) \in Nat
    BY DEF Way
  <2>5. Untried(c) \in Nat /\ Before(c) \in Nat
    BY DEF Untried, Before
  <2> HIDE DEF k, c
  <2>6. LeftOf(k, c) \in Nat \X Nat \X Nat \X Nat \X Nat
    BY <2>2, <2>3, <2>4, <2>5 DEF LeftOf
  <2>7. QED
    BY <2>6, LeftIs DEF k, c
<1>2. SettlingInv /\ WorkInv => \A t \in Callers : Left(t) \in Nat \X Nat \X Nat \X Nat \X Nat
  BY <1>1
<1>3. QED
  BY <1>2, WorkInvariant, PTL

=============================================================================
