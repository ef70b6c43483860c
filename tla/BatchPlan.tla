----------------------------- MODULE BatchPlan -----------------------------
(***************************************************************************)
(* How the items (translatable blocks) of a book are packed into provider  *)
(* requests: the planner and the repacking helpers of                      *)
(* bookforge-llm/src/batch/planning.rs.  Pure operators, no state.         *)
(*                                                                         *)
(* An item is its position in the book, a batch the sequence of its items. *)
(* A batch is bounded by tokens, items and expected output together; the   *)
(* model counts items, so every bound is one number of items per mode.     *)
(***************************************************************************)
EXTENDS Integers, Sequences, FiniteSets

CONSTANTS
    ItemCount,    \* items of the book, numbered in reading order
    Segments,     \* segments, in reading order
    SegOf,        \* the segment of an item
    SectionOf,    \* the section (chapter) of a segment
    Modes,        \* request modes
    ModeOf        \* the mode an item needs

Items == 1 .. ItemCount

\* Segments are made of blocks: none is empty, and the items follow them.
ASSUME PlanAssumption ==
    /\ ItemCount \in Nat /\ Segments \subseteq Nat
    /\ SegOf \in [Items -> Segments]
    /\ \A s \in Segments : \E i \in Items : SegOf[i] = s
    /\ \A i, j \in Items : i <= j => SegOf[i] <= SegOf[j]
    /\ ModeOf \in [Items -> Modes]

ItemsOf(s)    == {i \in Items : SegOf[i] = s}
SegmentsOf(I) == {SegOf[i] : i \in I}
Covers(b)    == {b[k] : k \in DOMAIN b}      \* the items of a batch
ModeOfBatch(b) == ModeOf[b[1]]

-----------------------------------------------------------------------------
(* Sequences, without recursion: the proofs reason about these.            *)

\* The elements of I in the order of a relation.
Arranged(I, before) ==
    CHOOSE q \in [1 .. Cardinality(I) -> I] :
        \A j, k \in DOMAIN q : j < k => <<q[j], q[k]>> \in before

InOrder(I) == Arranged(I, {s \in I \X I : s[1] < s[2]})

Precedes(p, q) == p[1] < q[1] \/ (p[1] = q[1] /\ p[2] < q[2])

\* The elements of the sequences of Q in a row.
Flat(Q) ==
    LET places == UNION {{k} \X DOMAIN Q[k] : k \in DOMAIN Q}
        at     == Arranged(places, {s \in places \X places : Precedes(s[1], s[2])})
    IN  [n \in DOMAIN at |-> Q[at[n][1]][at[n][2]]]

\* A row cut into the parts that begin at these positions.
Cut(row, starts) ==
    LET at == InOrder(starts)
    IN  [k \in DOMAIN at |->
            SubSeq(row, at[k], IF k < Len(at) THEN at[k + 1] - 1 ELSE Len(row))]

-----------------------------------------------------------------------------
\* repack_batch_with_config: consecutive parts of at most limit items.
Chunk(b, limit) == Cut(b, {k \in DOMAIN b : (k - 1) % limit = 0})

\* split_batch_with_config: two halves.  The mutant starts the right half one
\* item too late.
Split_SkipMiddle(b) ==
    <<SubSeq(b, 1, Len(b) \div 2), SubSeq(b, Len(b) \div 2 + 2, Len(b))>>

Split(b) ==
    <<SubSeq(b, 1, Len(b) \div 2), SubSeq(b, Len(b) \div 2 + 1, Len(b))>>

\* Neighbours in the row that agree in section and mode share their batches,
\* up to the limit of their mode.
GroupKey(i) == <<SectionOf[SegOf[i]], ModeOf[i]>>

RunStart(row, k) ==
    CHOOSE j \in 1 .. k :
        /\ \A l \in j .. k : GroupKey(row[l]) = GroupKey(row[k])
        /\ j = 1 \/ GroupKey(row[j - 1]) # GroupKey(row[k])

Pack(row, limits) ==
    Cut(row, {k \in DOMAIN row : (k - RunStart(row, k)) % limits[ModeOf[row[k]]] = 0})

\* group_batches: the items of a section and mode stand together in reading
\* order, these groups in the order of their first items.
Leader(i) ==
    CHOOSE j \in Items : /\ GroupKey(j) = GroupKey(i)
                         /\ \A k \in Items : GroupKey(k) = GroupKey(i) => j <= k

Grouped == {s \in Items \X Items :
               Precedes(<<Leader(s[1]), s[1]>>, <<Leader(s[2]), s[2]>>)}

Plan(limit) == Pack(Arranged(Items, Grouped), [m \in Modes |-> limit])

\* repartition_pending_batches: the queued items are packed again as they
\* stand.  The mutant forgets what a merged group held before its last batch.
Repartition_KeepLast(queue, limits) ==
    LET lasts == {k \in DOMAIN queue :
                     k < Len(queue) => GroupKey(queue[k][1]) # GroupKey(queue[k + 1][1])}
    IN  Pack(Flat([n \in 1 .. Cardinality(lasts) |-> queue[InOrder(lasts)[n]]]), limits)

Repartition(queue, limits) == Pack(Flat(queue), limits)
=============================================================================
