------------------------ MODULE BatchDispatchProofs ------------------------
(***************************************************************************)
(* What is proved of batch dispatch, for every book, plan, setup and       *)
(* limit.                                                                  *)
(*                                                                         *)
(* First the delivery: what the checkpoint writer is told of a segment is  *)
(* true and is not taken back.  That needs nothing of the batching, only   *)
(* which blocks arrived, which segments were handed over early (finalized) *)
(* and what was sent.                                                      *)
(*                                                                         *)
(* Then the batching: the operators of the planner deal the items of a     *)
(* book, so that each item is in the queue, in a task or settled, once;    *)
(* and from there on what depends on it: nothing is handed over twice, a   *)
(* run nobody stopped reports every segment, the fence opens, and tasks    *)
(* that wait for context do not wait for each other.                       *)
(*                                                                         *)
(* Last, that requests run out: the variant that makes dispatch end.       *)
(***************************************************************************)
EXTENDS BatchDispatch, SequenceTheorems, FiniteSetTheorems, WellFoundedInduction, TLAPS

Statuses == {"succeeded", "needs_review"}

\* A segment is handed over early exactly when its last block arrives; a review
\* is reported at the end only, of a segment with a block missing.
DeliveryInv ==
    /\ sent \in [Segments -> Seq(Statuses)]
    /\ verdict \in [Segments -> Statuses \cup {"none"}]
    /\ \A s \in Segments : ItemsOf(s) \subseteq blocks <=> s \in finalized
    /\ \A s \in Segments : s \in finalized => sent[s] # <<>> /\ sent[s][1] = "succeeded"
    /\ \A s \in Segments : s \notin finalized /\ sent[s] # <<>> =>
           phase = "done" /\ sent[s][1] = "needs_review"

\* Reporting again leaves the first report.
LEMMA FirstReport ==
    ASSUME NEW r \in Seq(Statuses), NEW x \in Statuses
    PROVE  /\ Append(r, x) \in Seq(Statuses)
           /\ Append(r, x) # <<>>
           /\ Append(r, x)[1] = IF r = <<>> THEN x ELSE r[1]
<1>1. /\ Append(r, x) \in Seq(Statuses)
      /\ Len(Append(r, x)) = Len(r) + 1
      /\ \A i \in 1 .. Len(r) : Append(r, x)[i] = r[i]
      /\ Append(r, x)[Len(r) + 1] = x
  BY AppendProperties
<1>2. Len(r) \in Nat /\ (r = <<>> <=> Len(r) = 0)
  BY EmptySeq
<1>3. Append(r, x) # <<>>
  BY <1>1, <1>2
<1> QED
  BY <1>1, <1>2, <1>3

\* A step that hands nothing over and lets no block arrive.
Quiet == UNCHANGED <<blocks, finalized, sent, verdict>> /\ (phase = "done" => phase' = "done")

\* A step of a task changes the tasks only.
LEMMA WorkFrame == ASSUME Work PROVE OnlyTasks
<1>1. PICK t \in tasks : TaskStep(t)
  BY DEF Work
<1> QED
  BY <1>1 DEF TaskStep, Subscribe, CheckContext, Sleep, Wake, GateOpens, GateStops, Answer

\* A join leaves what the user holds and what the repairs hold, and goes back to filling.
LEMMA JoinFrame ==
    ASSUME NEW t \in tasks, Join(t)
    PROVE  phase = "join" /\ phase' = "fill" /\ UNCHANGED <<envVars, repairVars>>
<1> USE DEF Joined, Ended, Joinable
<1>1. CASE JoinStopped(t) \/ JoinOk(t)
  BY <1>1 DEF JoinStopped, JoinOk
<1>2. CASE JoinTransientRetry(t) \/ JoinTransientSplit(t) \/ JoinTransientFail(t)
  BY <1>2 DEF JoinTransientRetry, JoinTransientSplit, JoinTransientFail
<1>3. CASE JoinTooLargeSplit(t) \/ JoinFatal(t)
  BY <1>3 DEF JoinTooLargeSplit, JoinFatal
<1>4. CASE JoinCompactRetry(t) \/ JoinEscalate(t) \/ JoinTruncatedSingle(t)
  BY <1>4 DEF JoinCompactRetry, JoinEscalate, JoinTruncatedSingle
<1>5. CASE JoinInvalidRetry(t) \/ JoinInvalidSingle(t) \/ JoinInvalidSplit(t)
  BY <1>5 DEF JoinInvalidRetry, JoinInvalidSingle, JoinInvalidSplit
<1> QED
  BY <1>1, <1>2, <1>3, <1>4, <1>5 DEF Join

\* Tasks and users hand nothing over.
LEMMA BystandersQuiet ==
    ASSUME \/ User
           \/ Work
    PROVE  Quiet
<1>1. CASE User
  BY <1>1 DEF User, Pause, Resume, Stop, Signal, Reconfigure, Quiet, harvest, repairVars
<1>2. CASE Work
  BY <1>2, WorkFrame DEF OnlyTasks, Quiet, harvest, repairVars
<1> QED
  BY <1>1, <1>2

\* Of the joins only a good answer hands anything over.
LEMMA JoinsQuiet ==
    ASSUME NEW t \in tasks, Join(t), ~JoinOk(t)
    PROVE  Quiet
<1> USE DEF Quiet, harvest, repairVars, Joined, Ended, Joinable
<1>1. CASE JoinStopped(t)
  BY <1>1 DEF JoinStopped
<1>2. CASE JoinTransientRetry(t) \/ JoinTransientSplit(t) \/ JoinTransientFail(t)
  BY <1>2 DEF JoinTransientRetry, JoinTransientSplit, JoinTransientFail, PutBack, GiveUp
<1>3. CASE JoinTooLargeSplit(t) \/ JoinFatal(t)
  BY <1>3 DEF JoinTooLargeSplit, JoinFatal, PutBack, GiveUp
<1>4. CASE JoinCompactRetry(t) \/ JoinEscalate(t) \/ JoinTruncatedSingle(t)
  BY <1>4 DEF JoinCompactRetry, JoinEscalate, JoinTruncatedSingle, PutBack, GiveUp
<1>5. CASE JoinInvalidRetry(t) \/ JoinInvalidSingle(t) \/ JoinInvalidSplit(t)
  BY <1>5 DEF JoinInvalidRetry, JoinInvalidSingle, JoinInvalidSplit, PutBack, GiveUp
<1> QED
  BY <1>1, <1>2, <1>3, <1>4, <1>5 DEF Join

\* Every step is quiet, or one of the four that touch what is handed over.
LEMMA LoudSteps ==
    ASSUME [BatchNext]_batchVars
    PROVE  \/ Quiet
           \/ Aggregate
           \/ Finish
           \/ \E t \in tasks : JoinOk(t) \/ RepairOk(t)
<1>1. CASE UNCHANGED batchVars
  BY <1>1 DEF batchVars, Quiet
<1>2. CASE User \/ Work
  BY <1>2, BystandersQuiet
<1>3. CASE Driver
  <2>a. phase \in {"fill", "join", "repair"} /\ UNCHANGED <<harvest, verdict>> => Quiet
    BY DEF Quiet, harvest
  <2>b. UNCHANGED repairVars => verdict' = verdict
    BY DEF repairVars
  <2>1. CASE (Fill \/ JoinNone) /\ ~Quiet
    <3>0. UNCHANGED <<harvest, repairVars>> => phase \notin {"fill", "join"}
      BY <2>1, <2>a, <2>b
    <3>1. CASE FillPaused \/ FillStopped
      BY <3>0, <3>1 DEF FillPaused, FillStopped, Filling
    <3>2. CASE FillFull
      BY <3>0, <3>2 DEF FillFull, Filling
    <3>3. CASE FillEmpty
      BY <3>0, <3>3, Zenon DEF FillEmpty
    <3>4. CASE Dispatch
      BY <3>0, <3>4, Zenon DEF Dispatch, Filling
    <3>5. CASE JoinNone
      BY <3>0, <3>5 DEF JoinNone
    <3> QED
      BY <2>1, <3>1, <3>2, <3>3, <3>4, <3>5 DEF Fill
  <2>2. CASE Repair /\ ~Finish
    <3> USE DEF Quiet, harvest, repairVars, Repairing
    <3>1. CASE RepairStopped
      BY <3>1, Zenon DEF RepairStopped
    <3>4. CASE RepairPaused
      BY <3>4, Zenon DEF RepairPaused
    <3>2. CASE RepairDispatch
      BY <3>2 DEF RepairDispatch
    <3>3. CASE RepairEnds
      BY <3>3 DEF RepairEnds
    <3> QED
      BY <2>2, <3>1, <3>2, <3>3, <3>4 DEF Repair
  <2>3. ASSUME NEW t \in tasks, Join(t) PROVE Quiet \/ JoinOk(t)
    BY <2>3, JoinsQuiet
  <2>4. ASSUME NEW t \in tasks, RepairJoin(t) PROVE Quiet \/ RepairOk(t)
    <3> USE DEF Quiet, repairVars, RepairJoinable, RepairJoined
    <3>1. CASE RepairAgain(t)
      BY <3>1 DEF RepairAgain
    <3>2. CASE RepairFails(t)
      BY <3>2 DEF RepairFails
    <3> QED
      BY <2>4, <3>1, <3>2 DEF RepairJoin
  <2> QED
    BY <1>3, <2>1, <2>2, <2>3, <2>4 DEF Driver
<1> QED
  BY <1>1, <1>2, <1>3 DEF BatchNext

\* Handing over S as succeeded, where S are the segments the blocks of I make
\* whole: the segments it skips had been handed over before.
LEMMA HandOverKeeps ==
    ASSUME DeliveryInv, NEW I, NEW S,
           blocks' = blocks \cup I,
           HandOver(S, "succeeded"),
           \A s \in Segments : s \in S => ItemsOf(s) \subseteq blocks \cup I,
           \A s \in Segments : ItemsOf(s) \subseteq blocks \cup I =>
                                   ItemsOf(s) \subseteq blocks \/ s \in S,
           verdict' \in [Segments -> Statuses \cup {"none"}],
           phase # "done"
    PROVE  DeliveryInv'
<1>1. sent' \in [Segments -> Seq(Statuses)]
  BY DEF HandOver, DeliveryInv, Statuses
<1>2. \A s \in Segments : ItemsOf(s) \subseteq blocks' <=> s \in finalized'
  BY DEF HandOver, DeliveryInv
<1>3. ASSUME NEW s \in Segments
      PROVE  /\ s \in finalized' => sent'[s] # <<>> /\ sent'[s][1] = "succeeded"
             /\ s \notin finalized' => sent'[s] = <<>>
  <2>1. sent[s] \in Seq(Statuses)
    BY DEF DeliveryInv
  <2>2. CASE s \in S
    <3>1. sent'[s] = Append(sent[s], "succeeded") /\ s \in finalized'
      BY <2>2 DEF HandOver
    <3>2. sent[s] = <<>> \/ sent[s][1] = "succeeded"
      BY DEF DeliveryInv
    <3> QED
      BY <2>1, <3>1, <3>2, FirstReport DEF Statuses
  <2>3. CASE s \notin S
    BY <2>3 DEF HandOver, DeliveryInv
  <2> QED
    BY <2>2, <2>3
<1> QED
  BY <1>1, <1>2, <1>3 DEF DeliveryInv

\* An answer and a repair hand over what they make whole, the end the rest.
LEMMA JoinOkKeeps ==
    ASSUME DeliveryInv, NEW t \in tasks, JoinOk(t)
    PROVE  DeliveryInv'
<1> DEFINE good  == Covers(t.batch) \ t.answer.rejected
           whole == {s \in SegmentsOf(good) : ItemsOf(s) \subseteq blocks \cup good}
<1>1. blocks' = blocks \cup good /\ HandOver(whole, "succeeded") /\ verdict' = verdict
  BY DEF JoinOk, Joined, repairVars
<1>2. phase # "done"
  BY DEF JoinOk, Ended, Joinable
<1>3. \A s \in Segments : ItemsOf(s) \subseteq blocks \cup good =>
                              ItemsOf(s) \subseteq blocks \/ s \in whole
  BY DEF ItemsOf, SegmentsOf
<1>4. \A s \in Segments : s \in whole => ItemsOf(s) \subseteq blocks \cup good
  OBVIOUS
<1>5. verdict' \in [Segments -> Statuses \cup {"none"}]
  BY <1>1 DEF DeliveryInv
<1> HIDE DEF good, whole
<1> QED
  BY <1>1, <1>2, <1>3, <1>4, <1>5, HandOverKeeps

\* The same of a repair.
LEMMA RepairOkKeeps ==
    ASSUME DeliveryInv, NEW t \in tasks, RepairOk(t)
    PROVE  DeliveryInv'
<1> DEFINE good  == Covers(t.batch) \ t.answer.rejected
           whole == {s \in SegmentsOf(good) : ItemsOf(s) \subseteq blocks \cup good} \ finalized
<1>1. blocks' = blocks \cup good /\ HandOver(whole, "succeeded")
  BY DEF RepairOk
<1>2. verdict' \in [Segments -> Statuses \cup {"none"}] /\ phase # "done"
  BY DEF RepairOk, RepairJoinable, DeliveryInv, Statuses
<1>3. \A s \in Segments : ItemsOf(s) \subseteq blocks \cup good =>
                              ItemsOf(s) \subseteq blocks \/ s \in whole
  BY DEF ItemsOf, SegmentsOf, DeliveryInv
<1>4. \A s \in Segments : s \in whole => ItemsOf(s) \subseteq blocks \cup good
  OBVIOUS
<1> HIDE DEF good, whole
<1> QED
  BY <1>1, <1>2, <1>3, <1>4, HandOverKeeps

\* The end reports reviews only.
LEMMA FinishKeeps == ASSUME DeliveryInv, Finish PROVE DeliveryInv'
<1>1. \A s \in Segments : s \notin finalized /\ verdict[s] # "none" => Report(s) = "needs_review"
  BY DEF DeliveryInv, Report, Statuses
<1>2. phase # "done" /\ phase' = "done" /\ UNCHANGED <<blocks, finalized, verdict>>
  BY DEF Finish, repairVars
<1>3. ASSUME NEW s \in Segments
      PROVE  IF verdict[s] # "none" /\ s \notin finalized
             THEN sent[s] = <<>> /\ sent'[s] = Append(<<>>, "needs_review")
             ELSE sent'[s] = sent[s]
  <2>1. sent'[s] = IF verdict[s] # "none" /\ s \notin finalized
                   THEN Append(sent[s], Report(s)) ELSE sent[s]
    BY DEF Finish
  <2>2. s \notin finalized => sent[s] = <<>>
    BY <1>2 DEF DeliveryInv
  <2> QED
    BY <1>1, <2>1, <2>2
<1>4. sent' \in [Segments -> Seq(Statuses)]
  <2>1. sent' = [s \in Segments |-> sent'[s]]
    BY DEF Finish
  <2>2. ASSUME NEW s \in Segments PROVE sent'[s] \in Seq(Statuses)
    <3>1. sent[s] \in Seq(Statuses) /\ "needs_review" \in Statuses
      BY DEF DeliveryInv, Statuses
    <3> QED
      BY <3>1, <1>3, FirstReport
  <2> QED
    BY <2>1, <2>2
<1>5. \A s \in Segments : sent'[s] # <<>> /\ s \notin finalized => sent'[s][1] = "needs_review"
  BY <1>2, <1>3 DEF DeliveryInv
<1> QED
  BY <1>2, <1>3, <1>4, <1>5 DEF DeliveryInv

\* DeliveryInv is inductive.
LEMMA DeliveryStep == DeliveryInv /\ [BatchNext]_batchVars => DeliveryInv'
<1> SUFFICES ASSUME DeliveryInv, [BatchNext]_batchVars PROVE DeliveryInv'
  OBVIOUS
<1>1. CASE Quiet
  BY <1>1 DEF Quiet, DeliveryInv
<1>2. CASE Aggregate
  <2>1. verdict' \in [Segments -> Statuses \cup {"none"}] /\ phase # "done"
    BY <1>2 DEF Aggregate, Statuses
  <2> QED
    BY <1>2, <2>1 DEF Aggregate, harvest, DeliveryInv
<1> QED
  BY <1>1, <1>2, FinishKeeps, JoinOkKeeps, RepairOkKeeps, LoudSteps

\* It holds at the start: no segment is empty.
LEMMA DeliveryStart == BatchInit => DeliveryInv
<1> SUFFICES ASSUME BatchInit PROVE DeliveryInv
  OBVIOUS
<1>1. \A s \in Segments : ~(ItemsOf(s) \subseteq {})
  BY PlanAssumption DEF ItemsOf
<1> QED
  BY <1>1 DEF BatchInit, DeliveryInv, Statuses

\* The writer's reports stay true: a segment handed over early has all of its
\* blocks and was told succeeded, a review comes with the end.
THEOREM DeliveryInvariant == BatchSpec => []DeliveryInv
<1> QED
  BY DeliveryStart, DeliveryStep, PTL DEF BatchSpec

-----------------------------------------------------------------------------
(* The refinement. *)

\* The abstract specification means the same by a whole segment.
LEMMA WholeMeansWhole ==
    \A s, I : Delivery!Whole(s, I) <=> ItemsOf(s) \subseteq I
<1> QED
  BY DEF Delivery!Whole, Delivery!ItemsOf, ItemsOf, Delivery!Items, Items

\* A hand-over that follows new blocks is an arrival.
LEMMA HandOverArrives ==
    ASSUME DeliveryInv, DeliveryInv', NEW I, NEW S,
           blocks' = blocks \cup I, HandOver(S, "succeeded"), phase # "done"
    PROVE  Delivery!DeliveryNext
<1> DEFINE fresh == {s \in Segments : sent[s] = <<>> /\ s \in S}
<1>1. \A s \in fresh : ItemsOf(s) \subseteq blocks'
  BY DEF DeliveryInv, HandOver
<1>2. \A s \in Segments : Reports[s] # "needs_review"
  BY DEF DeliveryInv, Reports
<1>3. \A s \in Segments : Reports'[s] = IF s \in fresh THEN "succeeded" ELSE Reports[s]
  <2> TAKE s \in Segments
  <2>1. sent[s] \in Seq(Statuses) /\ "succeeded" \in Statuses
    BY DEF DeliveryInv, Statuses
  <2>2. sent'[s] = IF s \in S THEN Append(sent[s], "succeeded") ELSE sent[s]
    BY DEF HandOver
  <2> QED
    BY <2>1, <2>2, FirstReport, ZenonT(30) DEF Reports
<1>4. \A s \in fresh : Reports[s] = "none"
  BY DEF Reports
<1> HIDE DEF fresh
<1>5. fresh \subseteq Segments
  BY DEF fresh
<1>6. Delivery!Arrive
  <2>1. fresh \in SUBSET {s \in Segments : Reports[s] = "none"}
    BY <1>4, <1>5
  <2>2. Reports' = Delivery!Reported(fresh, blocks')
    BY <1>1, <1>3, WholeMeansWhole DEF Reports, Delivery!Reported
  <2> QED
    BY <1>1, <1>2, <1>5, <2>1, <2>2, WholeMeansWhole DEF Delivery!Arrive
<1> QED
  BY <1>6 DEF Delivery!DeliveryNext

\* The end closes the delivery.
LEMMA FinishCloses ==
    ASSUME DeliveryInv, DeliveryInv', Finish
    PROVE  Delivery!DeliveryNext
<1> DEFINE rest == {s \in Segments : sent[s] = <<>> /\ sent'[s] # <<>>}
<1>1. phase' = "done" /\ phase # "done" /\ blocks' = blocks /\ finalized' = finalized
  BY DEF Finish
<1>2. \A s \in Segments : sent[s] # <<>> => s \in finalized /\ sent'[s] = sent[s]
  BY <1>1 DEF DeliveryInv, Finish
<1>3. \A s \in rest : s \notin finalized /\ ~(ItemsOf(s) \subseteq blocks)
                       /\ sent'[s][1] = "needs_review"
  BY <1>1 DEF DeliveryInv
<1>4. \A s \in Segments : Reports'[s] = IF s \in rest THEN "needs_review" ELSE Reports[s]
  BY <1>2, <1>3 DEF Reports
<1>5. \A s \in rest : Reports[s] = "none" /\ ~(ItemsOf(s) \subseteq blocks)
  BY <1>3 DEF Reports
<1> HIDE DEF rest
<1>6. rest \subseteq Segments
  BY DEF rest
<1>7. Delivery!Close
  <2>1. rest \in SUBSET {s \in Segments : Reports[s] = "none"}
    BY <1>5, <1>6
  <2>2. Reports' = Delivery!Reported(rest, blocks)
    BY <1>4, <1>5, WholeMeansWhole DEF Reports, Delivery!Reported
  <2> QED
    BY <1>1, <2>1, <2>2 DEF Delivery!Close
<1> QED
  BY <1>7 DEF Delivery!DeliveryNext

\* Every step maps to a step or a stutter.
LEMMA DeliversStep ==
    ASSUME DeliveryInv, DeliveryInv', [BatchNext]_batchVars
    PROVE  [Delivery!DeliveryNext]_(Delivery!deliveryVars)
<1>1. CASE UNCHANGED <<blocks, sent>>
  BY <1>1 DEF Delivery!deliveryVars, Reports
<1>2. CASE Finish
  BY <1>2, FinishCloses
<1>3. ASSUME NEW t \in tasks, JoinOk(t) PROVE Delivery!DeliveryNext
  <2> DEFINE good  == Covers(t.batch) \ t.answer.rejected
             whole == {s \in SegmentsOf(good) : ItemsOf(s) \subseteq blocks \cup good}
  <2>1. blocks' = blocks \cup good /\ HandOver(whole, "succeeded") /\ phase # "done"
    BY <1>3 DEF JoinOk, Ended, Joinable
  <2> HIDE DEF good, whole
  <2> QED
    BY <2>1, HandOverArrives
<1>4. ASSUME NEW t \in tasks, RepairOk(t) PROVE Delivery!DeliveryNext
  <2> DEFINE good  == Covers(t.batch) \ t.answer.rejected
             whole == {s \in SegmentsOf(good) : ItemsOf(s) \subseteq blocks \cup good} \ finalized
  <2>1. blocks' = blocks \cup good /\ HandOver(whole, "succeeded") /\ phase # "done"
    BY <1>4 DEF RepairOk, RepairJoinable
  <2> HIDE DEF good, whole
  <2> QED
    BY <2>1, HandOverArrives
<1> QED
  BY <1>1, <1>2, <1>3, <1>4, LoudSteps DEF Quiet, Aggregate, harvest

\* Batch dispatch implements BatchDelivery: however requests end and users
\* interfere, a segment is reported whole exactly when its blocks are there, a
\* review is final, and no report is taken back.
THEOREM BatchDelivers == BatchSpec => DeliversSegments
<1>1. BatchInit => Delivery!DeliveryInit
  BY DEF BatchInit, Delivery!DeliveryInit, Reports
<1> QED
  BY <1>1, DeliveryInvariant, DeliversStep, PTL DEF BatchSpec, DeliversSegments, Delivery!DeliverySpec

-----------------------------------------------------------------------------
(* Rows.  What the planner's operators make of the items they are given.   *)

\* before puts every two elements of I in one order.
Orders(before, I) ==
    /\ \A i \in I : <<i, i>> \notin before
    /\ \A i, j \in I : i # j => <<i, j>> \in before \/ <<j, i>> \in before
    /\ \A i, j, k \in I : <<i, j>> \in before /\ <<j, k>> \in before => <<i, k>> \in before

\* A row lists I: its elements are those of I, once each.
Lists(row, I) ==
    /\ row \in Seq(I)
    /\ \A j, k \in DOMAIN row : row[j] = row[k] => j = k
    /\ \A i \in I : \E k \in DOMAIN row : row[k] = i

\* A sequence of sequences deals I: the elements of its sequences, none empty,
\* are those of I, once each.
Deals(Q, I) ==
    /\ Q \in Seq(Seq(I) \ {<<>>})
    /\ \A k, l \in DOMAIN Q : \A m \in DOMAIN Q[k], n \in DOMAIN Q[l] :
           Q[k][m] = Q[l][n] => k = l /\ m = n
    /\ \A i \in I : \E k \in DOMAIN Q : \E m \in DOMAIN Q[k] : Q[k][m] = i

\* The elements of a finite set are arranged once each, in order.
LEMMA ArrangedHolds ==
    ASSUME NEW I, IsFiniteSet(I), NEW before, Orders(before, I)
    PROVE  /\ Lists(Arranged(I, before), I)
           /\ \A j, k \in DOMAIN Arranged(I, before) :
                  j < k => <<Arranged(I, before)[j], Arranged(I, before)[k]>> \in before
<1> DEFINE N       == Cardinality(I)
           upTo(i) == {j \in I : j = i \/ <<j, i>> \in before}
           Sorts(q) == q \in [1 .. N -> I] /\ \A j, k \in DOMAIN q : j < k => <<q[j], q[k]>> \in before
<1>0. N \in Nat /\ IsFiniteSet(1 .. N) /\ Cardinality(1 .. N) = N
  BY FS_CardinalityType, FS_Interval
<1>1. \A i \in I : Cardinality(upTo(i)) \in 1 .. N
  <2> SUFFICES ASSUME NEW i \in I
               PROVE  Cardinality(upTo(i)) \in 1 .. N
    OBVIOUS
  <2>1. upTo(i) \in SUBSET I /\ i \in upTo(i)
    OBVIOUS
  <2>2. /\ IsFiniteSet(upTo(i)) /\ Cardinality(upTo(i)) <= N
        /\ Cardinality(upTo(i)) \in Nat /\ Cardinality(upTo(i)) # 0
    BY <1>0, <2>1, FS_Subset, FS_CardinalityType, FS_EmptySet
  <2>3. QED
    BY <1>0, <2>2
<1>2. \A i, j \in I : <<i, j>> \in before => Cardinality(upTo(i)) < Cardinality(upTo(j))
  <2> SUFFICES ASSUME NEW i \in I, NEW j \in I, <<i, j>> \in before
               PROVE  Cardinality(upTo(i)) < Cardinality(upTo(j))
    OBVIOUS
  <2>1. upTo(i) \in SUBSET upTo(j) /\ j \in upTo(j) /\ j \notin upTo(i) /\ upTo(j) \in SUBSET I
    BY DEF Orders
  <2>2. IsFiniteSet(upTo(j)) /\ Cardinality(upTo(i)) <= Cardinality(upTo(j))
        /\ (Cardinality(upTo(j)) = Cardinality(upTo(i)) => upTo(j) = upTo(i))
    BY <1>0, <2>1, FS_Subset
  <2>3. Cardinality(upTo(i)) \in Int /\ Cardinality(upTo(j)) \in Int
    BY <1>0, <1>1
  <2>4. Cardinality(upTo(j)) # Cardinality(upTo(i))
    BY <2>1, <2>2
  <2> HIDE DEF upTo
  <2>5. QED
    BY <2>2, <2>3, <2>4
<1> DEFINE rank == [i \in I |-> Cardinality(upTo(i))]
<1>3. rank \in Injection(I, 1 .. N)
  <2> HIDE DEF N, upTo
  <2>1. rank \in [I -> 1 .. N]
    BY <1>1
  <2>2. ASSUME NEW i \in I, NEW j \in I, rank[i] = rank[j] PROVE i = j
    <3>1. Cardinality(upTo(i)) \in Int /\ Cardinality(upTo(i)) = Cardinality(upTo(j))
      BY <1>0, <1>1, <2>2
    <3>2. <<i, j>> \notin before /\ <<j, i>> \notin before
      BY <1>2, <3>1
    <3>3. QED
      BY <3>2 DEF Orders
  <2>3. QED
    BY <2>1, <2>2 DEF Injection, IsInjective
<1>4. rank \in Surjection(I, 1 .. N)
  <2> HIDE DEF rank
  <2>1. QED
    BY <1>0, <1>3, FS_Injection
<1>5. \E q : Sorts(q)
  <2> DEFINE at == [k \in 1 .. N |-> CHOOSE i \in I : rank[i] = k]
  <2>1. \A k \in 1 .. N : at[k] \in I /\ rank[at[k]] = k
    <3> HIDE DEF rank, N
    <3>1. QED
      BY <1>4 DEF Surjection
  <2>2. ASSUME NEW i \in I, NEW j \in I, rank[i] < rank[j] PROVE <<i, j>> \in before
    <3> HIDE DEF N, upTo
    <3>1. Cardinality(upTo(i)) \in Int /\ Cardinality(upTo(j)) \in Int
          /\ Cardinality(upTo(i)) < Cardinality(upTo(j))
      BY <1>0, <1>1, <2>2
    <3>2. ~(<<j, i>> \in before) /\ i # j
      BY <1>2, <3>1
    <3>3. QED
      BY <3>2 DEF Orders
  <2>3. at \in [1 .. N -> I] /\ \A j, k \in 1 .. N : j < k => <<at[j], at[k]>> \in before
    <3> HIDE DEF rank, N
    <3>1. \A k \in 1 .. N : at[k] \in I
      BY <2>1
    <3>2. QED
      BY <2>1, <2>2, <3>1
  <2> HIDE DEF at, N
  <2>4. Sorts(at)
    BY <2>3
  <2>5. QED
    BY <2>4
<1> HIDE DEF rank, upTo
<1>6. Sorts(Arranged(I, before))
  BY <1>5 DEF Arranged
<1> DEFINE q == Arranged(I, before)
<1>7. q \in [1 .. N -> I] /\ DOMAIN q = 1 .. N
  BY <1>6
<1>8. \A j, k \in 1 .. N : q[j] = q[k] => j = k
  <2> SUFFICES ASSUME NEW j \in 1 .. N, NEW k \in 1 .. N, q[j] = q[k]
               PROVE  j = k
    OBVIOUS
  <2>1. ~(j < k) /\ ~(k < j)
    BY <1>6, <1>7 DEF Orders
  <2>2. QED
    BY <1>0, <2>1
<1> HIDE DEF q, N, Sorts
<1>9. q \in Surjection(1 .. N, I)
  <2>1. q \in Injection(1 .. N, I)
    BY <1>7, <1>8 DEF Injection, IsInjective
  <2>2. QED
    BY <1>0, <2>1, FS_Injection DEF N
<1>10. Lists(q, I)
  <2>1. q \in Seq(I)
    BY <1>0, <1>7, SeqDef
  <2>2. QED
    BY <1>7, <1>8, <1>9, <2>1 DEF Lists, Surjection
<1>11. QED
  BY <1>6, <1>7, <1>10 DEF q, Sorts

\* So are integers.
LEMMA InOrderHolds ==
    ASSUME NEW I \in SUBSET Int, IsFiniteSet(I)
    PROVE  /\ Lists(InOrder(I), I)
           /\ \A j, k \in DOMAIN InOrder(I) : j < k => InOrder(I)[j] < InOrder(I)[k]
<1> DEFINE before == {s \in I \X I : s[1] < s[2]}
<1>1. Orders(before, I)
  BY DEF Orders
<1>2. /\ Lists(Arranged(I, before), I)
      /\ \A j, k \in DOMAIN Arranged(I, before) :
             j < k => <<Arranged(I, before)[j], Arranged(I, before)[k]>> \in before
  <2> HIDE DEF before
  <2>1. QED
    BY <1>1, ArrangedHolds
<1>3. QED
  BY <1>2 DEF InOrder, Lists

\* Sequences that deal I hold, in a row, the elements of I once each.
LEMMA FlatHolds ==
    ASSUME NEW I, NEW Q, Deals(Q, I)
    PROVE  Lists(Flat(Q), I)
<1> DEFINE places == UNION {{k} \X DOMAIN Q[k] : k \in DOMAIN Q}
           before == {s \in places \X places : Precedes(s[1], s[2])}
           at     == Arranged(places, before)
<1>1. /\ DOMAIN Q = 1 .. Len(Q) /\ Len(Q) \in Nat
      /\ \A k \in DOMAIN Q : Q[k] \in Seq(I) /\ DOMAIN Q[k] = 1 .. Len(Q[k]) /\ Len(Q[k]) \in Nat
  BY DEF Deals
<1>2. \A p \in places : p = <<p[1], p[2]>> /\ p[1] \in DOMAIN Q /\ p[2] \in DOMAIN Q[p[1]]
                        /\ p[1] \in Int /\ p[2] \in Int
  BY <1>1
<1>3. IsFiniteSet(places)
  <2> DEFINE parts == {{k} \X DOMAIN Q[k] : k \in DOMAIN Q}
             part  == [k \in DOMAIN Q |-> {k} \X DOMAIN Q[k]]
  <2>1. \A k \in DOMAIN Q : IsFiniteSet({k} \X DOMAIN Q[k])
    <3> TAKE k \in DOMAIN Q
    <3>1. IsFiniteSet({k}) /\ IsFiniteSet(DOMAIN Q[k])
      <4>1. DOMAIN Q[k] = 1 .. Len(Q[k]) /\ 1 \in Int /\ Len(Q[k]) \in Int
        BY <1>1
      <4>2. IsFiniteSet(1 .. Len(Q[k]))
        BY <4>1, FS_Interval
      <4>3. IsFiniteSet({k})
        BY FS_Singleton, Zenon
      <4>4. QED
        BY <4>1, <4>2, <4>3
    <3>2. QED
      BY <3>1, FS_Product
  <2>2. IsFiniteSet(parts)
    <3>1. part \in Surjection(DOMAIN Q, parts)
      BY DEF Surjection
    <3>2. IsFiniteSet(DOMAIN Q)
      BY <1>1, FS_Interval
    <3>3. QED
      BY <3>1, <3>2, FS_Surjection
  <2>3. QED
    BY <2>1, <2>2, FS_UNION
<1>4. Orders(before, places)
  <2> HIDE DEF places
  <2>1. \A p, r \in places : p # r => p[1] # r[1] \/ p[2] # r[2]
    BY <1>2
  <2>2. QED
    BY <1>2, <2>1 DEF Orders, Precedes
<1>5. Lists(at, places)
  <2> HIDE DEF places, before
  <2>1. QED
    BY <1>3, <1>4, ArrangedHolds
<1>6. Flat(Q) = [n \in DOMAIN at |-> Q[at[n][1]][at[n][2]]]
  BY DEF Flat
<1> HIDE DEF at, before
<1>7. at \in Seq(places) /\ DOMAIN at = 1 .. Len(at) /\ Len(at) \in Nat
  BY <1>5 DEF Lists
<1>8. \A n \in DOMAIN at : at[n] \in places
  BY <1>7
<1>9. Flat(Q) \in Seq(I)
  <2>1. \A n \in DOMAIN at : Q[at[n][1]][at[n][2]] \in I
    <3> HIDE DEF places
    <3>1. QED
      BY <1>1, <1>2, <1>8
  <2>2. QED
    BY <1>6, <1>7, <2>1, SeqDef
<1>10. ASSUME NEW j \in DOMAIN at, NEW k \in DOMAIN at, Flat(Q)[j] = Flat(Q)[k]
       PROVE  j = k
  <2> HIDE DEF places
  <2>1. at[j] = at[k]
    <3> DEFINE p == at[j]
               r == at[k]
    <3>1. p \in places /\ r \in places
      BY <1>8
    <3>2. Q[p[1]][p[2]] = Q[r[1]][r[2]]
      BY <1>6, <1>10
    <3>3. /\ p = <<p[1], p[2]>> /\ p[1] \in DOMAIN Q /\ p[2] \in DOMAIN Q[p[1]]
          /\ r = <<r[1], r[2]>> /\ r[1] \in DOMAIN Q /\ r[2] \in DOMAIN Q[r[1]]
      BY <1>2, <3>1
    <3> HIDE DEF p, r
    <3>4. p[1] = r[1] /\ p[2] = r[2]
      BY <3>2, <3>3 DEF Deals
    <3>5. p = r
      BY <3>3, <3>4
    <3>6. QED
      BY <3>5 DEF p, r
  <2>2. QED
    BY <1>5, <2>1 DEF Lists
<1>11. ASSUME NEW i \in I PROVE \E n \in DOMAIN at : Flat(Q)[n] = i
  <2>1. PICK k \in DOMAIN Q : \E m \in DOMAIN Q[k] : Q[k][m] = i
    BY DEF Deals
  <2>2. PICK m \in DOMAIN Q[k] : Q[k][m] = i
    BY <2>1
  <2>3. <<k, m>> \in places
    OBVIOUS
  <2>4. PICK n \in DOMAIN at : at[n] = <<k, m>>
    BY <1>5, <2>3 DEF Lists
  <2>5. QED
    BY <1>6, <2>2, <2>4
<1>12. QED
  BY <1>6, <1>9, <1>10, <1>11 DEF Lists

\* The least number of a set that is not empty.
LEMMA LeastOf ==
    ASSUME NEW S \in SUBSET Nat, S # {}
    PROVE  \E n \in S : \A m \in S : n <= m
<1>1. PICK n \in S : \A m \in S : ~(<<m, n>> \in OpToRel(<, Nat))
  BY NatLessThanWellFounded, WFMin
<1>2. ASSUME NEW m \in S PROVE n <= m
  <2>1. m \in Nat /\ n \in Nat
    OBVIOUS
  <2>2. ~(m < n)
    BY <1>1, <2>1 DEF OpToRel
  <2>3. QED
    BY <2>1, <2>2
<1>3. QED
  BY <1>2

\* The last of the starts before a place in the row.
LEMMA LastStart ==
    ASSUME NEW at \in Seq(Nat), at # <<>>, NEW p \in Nat, at[1] <= p,
           \A j, k \in DOMAIN at : j < k => at[j] < at[k]
    PROVE  \E k \in DOMAIN at : at[k] <= p /\ (k < Len(at) => p < at[k + 1])
<1> DEFINE over == {k \in DOMAIN at : p < at[k]}
<1>1. DOMAIN at = 1 .. Len(at) /\ Len(at) \in Nat /\ Len(at) # 0
  BY EmptySeq
<1>2. CASE over = {}
  <2>1. Len(at) \in DOMAIN at /\ ~(p < at[Len(at)]) /\ at[Len(at)] \in Nat
    BY <1>1, <1>2
  <2>2. QED
    BY <2>1
<1>3. CASE over # {}
  <2>0. over \in SUBSET Nat
    BY <1>1
  <2> HIDE DEF over
  <2>1. PICK k \in over : \A l \in over : k <= l
    BY <1>3, <2>0, LeastOf
  <2> USE DEF over
  <2>2. k \in 1 .. Len(at) /\ p < at[k] /\ k # 1
    BY <1>1, <2>1
  <2>3. k - 1 \in DOMAIN at /\ at[k - 1] <= p
    <3>1. k - 1 \in DOMAIN at /\ ~(k <= k - 1)
      BY <1>1, <2>2
    <3>2. k - 1 \notin over /\ at[k - 1] \in Nat
      BY <2>1, <3>1
    <3>3. QED
      BY <3>1, <3>2
  <2>4. QED
    BY <2>2, <2>3
<1>4. QED
  BY <1>2, <1>3

\* The parts of a row, cut from its first place on, deal what the row lists.
LEMMA CutHolds ==
    ASSUME NEW I, NEW row, Lists(row, I), NEW starts \in SUBSET DOMAIN row,
           row # <<>> => 1 \in starts
    PROVE  Deals(Cut(row, starts), I)
<1> DEFINE at     == InOrder(starts)
           end(k) == IF k < Len(at) THEN at[k + 1] - 1 ELSE Len(row)
           Q      == Cut(row, starts)
<1>1. row \in Seq(I) /\ DOMAIN row = 1 .. Len(row) /\ Len(row) \in Nat
  BY DEF Lists
<1>2. Lists(at, starts) /\ \A j, k \in DOMAIN at : j < k => at[j] < at[k]
  <2>0. IsFiniteSet(DOMAIN row)
    <3>1. 1 \in Int /\ Len(row) \in Int /\ DOMAIN row = 1 .. Len(row)
      BY <1>1
    <3>2. QED
      BY <3>1, FS_Interval
  <2>1. starts \in SUBSET Int /\ IsFiniteSet(starts)
    BY <1>1, <2>0, FS_Subset
  <2>2. QED
    BY <2>1, InOrderHolds
<1>3. Q = [k \in DOMAIN at |-> SubSeq(row, at[k], end(k))]
  BY DEF Cut
<1> HIDE DEF at, Q
<1>4. /\ at \in Seq(starts) /\ DOMAIN at = 1 .. Len(at) /\ Len(at) \in Nat
      /\ \A k \in DOMAIN at : at[k] \in 1 .. Len(row)
  BY <1>1, <1>2 DEF Lists
<1>5. \A k \in DOMAIN at : end(k) \in Int /\ at[k] <= end(k) /\ end(k) <= Len(row)
  <2> TAKE k \in DOMAIN at
  <2>1. k < Len(at) => k + 1 \in DOMAIN at /\ at[k] < at[k + 1] /\ at[k + 1] \in 1 .. Len(row)
    BY <1>2, <1>4
  <2>2. at[k] \in 1 .. Len(row)
    BY <1>4
  <2>3. QED
    BY <1>1, <2>1, <2>2
<1> HIDE DEF end
<1>6. \A k \in DOMAIN at : /\ Q[k] \in Seq(I) /\ Len(Q[k]) = end(k) - at[k] + 1
                           /\ DOMAIN Q[k] = 1 .. Len(Q[k])
                           /\ \A m \in 1 .. Len(Q[k]) : Q[k][m] = row[at[k] + m - 1]
  <2> TAKE k \in DOMAIN at
  <2>1. at[k] \in 1 .. Len(row) /\ end(k) \in at[k] .. Len(row)
    BY <1>4, <1>5
  <2>2. Q[k] = SubSeq(row, at[k], end(k))
    BY <1>3
  <2>3. QED
    BY <1>1, <2>1, <2>2, SubSeqProperties
<1>7. Q \in Seq(Seq(I) \ {<<>>})
  <2>1. \A k \in DOMAIN at : Q[k] \in Seq(I) \ {<<>>}
    <3> TAKE k \in DOMAIN at
    <3>1. Q[k] \in Seq(I) /\ Len(Q[k]) = end(k) - at[k] + 1 /\ end(k) - at[k] + 1 # 0
      BY <1>1, <1>4, <1>5, <1>6
    <3>2. QED
      BY <3>1
  <2>2. QED
    BY <1>3, <1>4, <2>1, SeqDef
<1>8. ASSUME NEW k \in DOMAIN at, NEW l \in DOMAIN at, NEW m \in DOMAIN Q[k], NEW n \in DOMAIN Q[l],
             Q[k][m] = Q[l][n]
      PROVE  k = l /\ m = n
  <2>1. /\ at[k] \in 1 .. Len(row) /\ at[l] \in 1 .. Len(row)
        /\ end(k) \in Int /\ end(l) \in Int /\ end(k) <= Len(row) /\ end(l) <= Len(row)
        /\ m \in 1 .. (end(k) - at[k] + 1) /\ n \in 1 .. (end(l) - at[l] + 1)
    BY <1>4, <1>5, <1>6
  <2>2. at[k] + m - 1 \in DOMAIN row /\ at[l] + n - 1 \in DOMAIN row
    <3>1. \A a, e, j \in Int : a >= 1 /\ e <= Len(row) /\ j >= 1 /\ j <= e - a + 1
                                => a + j - 1 \in DOMAIN row
      BY <1>1
    <3>2. /\ at[k] \in Int /\ at[k] >= 1 /\ m \in Int /\ m >= 1 /\ m <= end(k) - at[k] + 1
          /\ at[l] \in Int /\ at[l] >= 1 /\ n \in Int /\ n >= 1 /\ n <= end(l) - at[l] + 1
      BY <2>1
    <3>3. at[k] + m - 1 \in DOMAIN row
      BY <2>1, <3>1, <3>2
    <3>4. at[l] + n - 1 \in DOMAIN row
      BY <2>1, <3>1, <3>2
    <3>5. QED
      BY <3>3, <3>4
  <2>3. row[at[k] + m - 1] = row[at[l] + n - 1]
    BY <1>6, <1>8, <2>1
  <2>4. at[k] + m = at[l] + n
    <3>1. at[k] + m - 1 = at[l] + n - 1
      BY <2>2, <2>3 DEF Lists
    <3>2. at[k] \in Int /\ at[l] \in Int /\ m \in Int /\ n \in Int
      BY <2>1
    <3>3. QED
      BY <3>1, <3>2
  <2>5. ASSUME NEW i \in DOMAIN at, NEW j \in DOMAIN at, i < j PROVE end(i) < at[j]
    <3>1. i + 1 \in DOMAIN at /\ i < Len(at) /\ i + 1 <= j /\ at[i + 1] \in Int /\ at[j] \in Int
      BY <1>1, <1>4, <2>5
    <3>2. at[i + 1] <= at[j]
      <4>1. i + 1 = j \/ i + 1 < j
        BY <1>4, <3>1
      <4>2. i + 1 < j => at[i + 1] < at[j]
        BY <1>2, <3>1
      <4>3. QED
        BY <3>1, <4>1, <4>2
    <3>3. QED
      BY <3>1, <3>2 DEF end
  <2>6. ~(k < l) /\ ~(l < k)
    BY <2>1, <2>4, <2>5
  <2>7. k = l
    BY <1>4, <2>6
  <2>8. QED
    BY <2>1, <2>4, <2>7
<1>9. ASSUME NEW i \in I PROVE \E k \in DOMAIN at : \E m \in DOMAIN Q[k] : Q[k][m] = i
  <2>1. PICK p \in DOMAIN row : row[p] = i
    BY DEF Lists
  <2>2. p \in 1 .. Len(row) /\ 1 \in starts
    BY <1>1, <2>1
  <2>3. at # <<>> /\ at[1] = 1
    <3>1. PICK k \in DOMAIN at : at[k] = 1
      BY <1>2, <2>2 DEF Lists
    <3>2. 1 \in DOMAIN at /\ at[1] \in 1 .. Len(row)
      BY <1>4, <3>1
    <3>3. ~(1 < k)
      BY <1>2, <3>1, <3>2
    <3>4. QED
      BY <1>4, <3>1, <3>3
  <2>4. PICK k \in DOMAIN at : at[k] <= p /\ (k < Len(at) => p < at[k + 1])
    <3>1. at \in Seq(Nat)
      BY <1>1, <1>4
    <3>2. QED
      BY <1>2, <2>2, <2>3, <3>1, LastStart
  <2>5. p <= end(k)
    <3>1. k < Len(at) => at[k + 1] \in Int
      BY <1>4
    <3>2. QED
      BY <2>2, <2>4, <3>1 DEF end
  <2>6. p - at[k] + 1 \in DOMAIN Q[k] /\ at[k] + (p - at[k] + 1) - 1 = p
    <3>1. at[k] \in Int /\ end(k) \in Int /\ p \in Int
      BY <1>4, <1>5, <2>2
    <3>2. p - at[k] + 1 \in 1 .. (end(k) - at[k] + 1) /\ at[k] + (p - at[k] + 1) - 1 = p
      BY <2>4, <2>5, <3>1
    <3>3. QED
      BY <1>6, <3>2
  <2>7. Q[k][p - at[k] + 1] = i
    BY <1>6, <2>1, <2>6
  <2>8. QED
    BY <2>6, <2>7
<1>10. QED
  BY <1>3, <1>7, <1>8, <1>9 DEF Deals, Q

\* What is listed is what the row covers.
LEMMA ListsCovers == ASSUME NEW I, NEW row, Lists(row, I) PROVE Covers(row) = I
<1>1. \A k \in DOMAIN row : row[k] \in I
  BY DEF Lists
<1>2. QED
  BY <1>1 DEF Lists, Covers

\* A number divides nought.
LEMMA NoRest == \A n \in Nat \ {0} : 0 % n = 0
OBVIOUS

\* Packing a row again deals its items.
LEMMA ChunkHolds ==
    ASSUME NEW I, NEW row, Lists(row, I), NEW limit \in Nat \ {0}
    PROVE  Deals(Chunk(row, limit), I)
<1> DEFINE starts == {k \in DOMAIN row : (k - 1) % limit = 0}
<1>1. starts \in SUBSET DOMAIN row
  OBVIOUS
<1>2. row # <<>> => 1 \in starts
  <2>1. row # <<>> => 1 \in DOMAIN row
    BY EmptySeq DEF Lists
  <2>2. (1 - 1) % limit = 0
    BY NoRest
  <2>3. QED
    BY <2>1, <2>2
<1> HIDE DEF starts
<1>3. Deals(Cut(row, starts), I)
  BY <1>1, <1>2, CutHolds
<1>4. QED
  BY <1>3 DEF Chunk, starts

\* So does packing it by section and mode.
LEMMA PackHolds ==
    ASSUME NEW I \in SUBSET Items, NEW row, Lists(row, I), NEW limits \in [Modes -> Nat \ {0}]
    PROVE  Deals(Pack(row, limits), I)
<1> DEFINE starts == {k \in DOMAIN row : (k - RunStart(row, k)) % limits[ModeOf[row[k]]] = 0}
<1>1. starts \in SUBSET DOMAIN row
  OBVIOUS
<1>2. row # <<>> => 1 \in starts
  <2> SUFFICES ASSUME row # <<>> PROVE 1 \in starts
    OBVIOUS
  <2>1. 1 \in DOMAIN row /\ row[1] \in Items
    BY EmptySeq DEF Lists
  <2>2. RunStart(row, 1) = 1
    <3> DEFINE P(j) == /\ \A l \in j .. 1 : GroupKey(row[l]) = GroupKey(row[1])
                       /\ j = 1 \/ GroupKey(row[j - 1]) # GroupKey(row[1])
    <3>1. \A l \in 1 .. 1 : l = 1
      OBVIOUS
    <3>2. P(1)
      BY <3>1
    <3> HIDE DEF P
    <3>3. 1 \in 1 .. 1
      OBVIOUS
    <3>4. (CHOOSE j \in 1 .. 1 : P(j)) \in 1 .. 1
      BY <3>2, <3>3
    <3>5. QED
      BY <3>1, <3>4 DEF P, RunStart
  <2>3. limits[ModeOf[row[1]]] \in Nat \ {0}
    BY <2>1, PlanAssumption
  <2>4. (1 - RunStart(row, 1)) % limits[ModeOf[row[1]]] = 0
    BY <2>2, <2>3, NoRest
  <2>5. QED
    BY <2>1, <2>4
<1> HIDE DEF starts
<1>3. Deals(Cut(row, starts), I)
  BY <1>1, <1>2, CutHolds
<1>4. QED
  BY <1>3 DEF Pack, starts

\* The items are finitely many numbers.
LEMMA ItemsFinite == IsFiniteSet(Items) /\ Items \in SUBSET Nat
<1>1. IsFiniteSet(1 .. ItemCount)
  BY PlanAssumption, FS_Interval
<1>2. QED
  BY <1>1, PlanAssumption DEF Items

\* A group has a first item.
LEMMA LeaderLeads ==
    ASSUME NEW i \in Items
    PROVE  Leader(i) \in Items
<1> DEFINE mine == {j \in Items : GroupKey(j) = GroupKey(i)}
<1>1. mine \in SUBSET Nat /\ mine # {}
  BY ItemsFinite
<1> HIDE DEF mine
<1>2. PICK j \in mine : \A k \in mine : j <= k
  BY <1>1, LeastOf
<1>3. j \in Items /\ GroupKey(j) = GroupKey(i) /\ \A k \in Items : GroupKey(k) = GroupKey(i) => j <= k
  BY <1>2 DEF mine
<1>4. QED
  BY <1>3 DEF Leader

\* The plan deals the book.
LEMMA PlanHolds ==
    ASSUME NEW limit \in Nat \ {0}
    PROVE  Deals(Plan(limit), Items)
<1>1. Orders(Grouped, Items)
  <2>1. \A i \in Items : Leader(i) \in Int /\ i \in Int
    <3> TAKE i \in Items
    <3>1. \A j \in Items : j \in Int
      BY ItemsFinite
    <3>2. Leader(i) \in Items
      BY LeaderLeads
    <3>3. QED
      BY <3>1, <3>2
  <2>2. \A i, j \in Items :
            <<i, j>> \in Grouped <=> Leader(i) < Leader(j) \/ (Leader(i) = Leader(j) /\ i < j)
    BY DEF Grouped, Precedes
  <2>3. QED
    BY <2>1, <2>2 DEF Orders
<1>2. Lists(Arranged(Items, Grouped), Items)
  BY <1>1, ArrangedHolds, ItemsFinite
<1>3. [m \in Modes |-> limit] \in [Modes -> Nat \ {0}]
  OBVIOUS
<1>4. QED
  BY <1>2, <1>3, PackHolds DEF Plan

\* A repartition deals what was queued.
LEMMA RepartitionHolds ==
    ASSUME NEW I \in SUBSET Items, NEW Q, Deals(Q, I), NEW limits \in [Modes -> Nat \ {0}]
    PROVE  Deals(Repartition(Q, limits), I)
BY FlatHolds, PackHolds DEF Repartition

\* Two halves of a batch deal it.
LEMMA SplitHolds ==
    ASSUME NEW I, NEW b, Lists(b, I), Len(b) > 1
    PROVE  Deals(Split(b), I)
<1> DEFINE h == Len(b) \div 2
           L == SubSeq(b, 1, h)
           R == SubSeq(b, h + 1, Len(b))
<1>1. b \in Seq(I) /\ DOMAIN b = 1 .. Len(b) /\ Len(b) \in Nat
  BY DEF Lists
<1>2. h \in Nat /\ 1 <= h /\ h < Len(b)
  BY <1>1
<1> HIDE DEF h
<1>3. /\ L \in Seq(I) /\ Len(L) = h /\ DOMAIN L = 1 .. h /\ \A m \in 1 .. h : L[m] = b[m]
      /\ R \in Seq(I) /\ Len(R) = Len(b) - h /\ DOMAIN R = 1 .. (Len(b) - h)
      /\ \A m \in 1 .. (Len(b) - h) : R[m] = b[h + m]
  <2>1. /\ L \in Seq(I) /\ Len(L) = h - 1 + 1 /\ \A m \in 1 .. (h - 1 + 1) : L[m] = b[1 + m - 1]
    BY <1>1, <1>2, SubSeqProperties
  <2>2. /\ R \in Seq(I) /\ Len(R) = Len(b) - (h + 1) + 1
        /\ \A m \in 1 .. (Len(b) - (h + 1) + 1) : R[m] = b[h + 1 + m - 1]
    <3>1. h + 1 \in 1 .. (Len(b) + 1) /\ h + 1 <= Len(b) /\ Len(b) \in (h + 1 - 1) .. Len(b)
      BY <1>1, <1>2
    <3>2. QED
      BY <1>1, <3>1, SubSeqProperties
  <2> HIDE DEF L, R
  <2>3. h - 1 + 1 = h /\ Len(b) - (h + 1) + 1 = Len(b) - h
    BY <1>1, <1>2
  <2>4. DOMAIN L = 1 .. Len(L) /\ DOMAIN R = 1 .. Len(R)
    BY <2>1, <2>2
  <2>5. /\ \A m \in 1 .. h : L[m] = b[m]
        /\ \A m \in 1 .. (Len(b) - h) : R[m] = b[h + m]
    <3>1. \A m \in Int : 1 + m - 1 = m /\ h + 1 + m - 1 = h + m
      BY <1>2
    <3>2. (\A m \in 1 .. h : m \in Int) /\ (\A m \in 1 .. (Len(b) - h) : m \in Int)
      OBVIOUS
    <3>3. QED
      BY <2>1, <2>2, <2>3, <3>1, <3>2
  <2>6. QED
    BY <2>1, <2>2, <2>3, <2>4, <2>5
<1>4. Split(b) = <<L, R>>
  BY DEF Split, h
<1> HIDE DEF L, R
<1>5. Split(b) \in Seq(Seq(I) \ {<<>>}) /\ DOMAIN Split(b) = {1, 2} /\ Split(b)[1] = L /\ Split(b)[2] = R
  BY <1>1, <1>2, <1>3, <1>4
<1>6. ASSUME NEW k \in {1, 2}, NEW l \in {1, 2}, NEW m \in DOMAIN Split(b)[k], NEW n \in DOMAIN Split(b)[l],
             Split(b)[k][m] = Split(b)[l][n]
      PROVE  k = l /\ m = n
  <2>1. \A j \in DOMAIN L : L[j] = b[j] /\ j \in DOMAIN b /\ j <= h /\ j \in Int
    BY <1>1, <1>2, <1>3
  <2>2. \A j \in DOMAIN R : R[j] = b[h + j] /\ h + j \in DOMAIN b /\ ~(h + j <= h) /\ j \in Int
    BY <1>1, <1>2, <1>3
  <2>3. \A i, j \in DOMAIN b : b[i] = b[j] => i = j
    BY DEF Lists
  <2>4. CASE k = 1 /\ l = 1
    BY <1>5, <1>6, <2>1, <2>3, <2>4
  <2>5. CASE k = 2 /\ l = 2
    <3>1. h + m = h + n /\ m \in Int /\ n \in Int
      BY <1>5, <1>6, <2>2, <2>3, <2>5
    <3>2. QED
      BY <1>2, <2>5, <3>1
  <2>6. k = l
    <3>1. ASSUME NEW i \in DOMAIN L, NEW j \in DOMAIN R PROVE L[i] # R[j]
      BY <2>1, <2>2, <2>3
    <3>2. QED
      BY <1>5, <1>6, <3>1
  <2>7. QED
    BY <2>4, <2>5, <2>6
<1>7. ASSUME NEW i \in I PROVE \E k \in {1, 2} : \E m \in DOMAIN Split(b)[k] : Split(b)[k][m] = i
  <2>1. PICK p \in DOMAIN b : b[p] = i
    BY DEF Lists
  <2>2. CASE p <= h
    <3>1. p \in DOMAIN L /\ L[p] = i
      BY <1>1, <1>2, <1>3, <2>1, <2>2
    <3>2. QED
      BY <1>5, <3>1
  <2>3. CASE ~(p <= h)
    <3>1. p - h \in DOMAIN R /\ h + (p - h) = p
      BY <1>1, <1>2, <1>3, <2>1, <2>3
    <3>2. R[p - h] = i
      BY <1>3, <2>1, <3>1
    <3>3. QED
      BY <1>5, <3>1, <3>2
  <2>4. QED
    BY <2>2, <2>3
<1>8. QED
  BY <1>5, <1>6, <1>7 DEF Deals

\* A batch by itself deals what it lists, no batch deals nothing.
LEMMA OneHolds ==
    ASSUME NEW I, NEW b, Lists(b, I), b # <<>>
    PROVE  Deals(<<b>>, I)
<1>1. <<b>> \in Seq(Seq(I) \ {<<>>}) /\ DOMAIN <<b>> = {1} /\ <<b>>[1] = b
  BY DEF Lists
<1>2. QED
  BY <1>1 DEF Deals, Lists

\* No batch deals no item.
LEMMA NoneHolds == Deals(<<>>, {})
BY DEF Deals

\* Two that deal different items deal both, one after the other.
LEMMA ConcatHolds ==
    ASSUME NEW I, NEW J, I \cap J = {}, NEW P, NEW Q, Deals(P, I), Deals(Q, J)
    PROVE  Deals(P \o Q, I \cup J)
<1> DEFINE S == Seq(I \cup J) \ {<<>>}
<1>1. /\ DOMAIN P = 1 .. Len(P) /\ Len(P) \in Nat /\ DOMAIN Q = 1 .. Len(Q) /\ Len(Q) \in Nat
      /\ \A k \in DOMAIN P : P[k] \in Seq(I) \ {<<>>}
      /\ \A k \in DOMAIN Q : Q[k] \in Seq(J) \ {<<>>}
  BY DEF Deals
<1>2. P \in Seq(S) /\ Q \in Seq(S)
  <2>1. \A k \in DOMAIN P : P[k] \in S
    BY <1>1
  <2>2. \A k \in DOMAIN Q : Q[k] \in S
    BY <1>1
  <2>3. P = [k \in 1 .. Len(P) |-> P[k]] /\ Q = [k \in 1 .. Len(Q) |-> Q[k]]
    BY <1>1 DEF Deals
  <2>4. QED
    BY <1>1, <2>1, <2>2, <2>3, SeqDef
<1> HIDE DEF S
<1>3. /\ P \o Q \in Seq(S) /\ DOMAIN (P \o Q) = 1 .. (Len(P) + Len(Q))
      /\ \A k \in 1 .. Len(P) : (P \o Q)[k] = P[k]
      /\ \A k \in 1 .. Len(Q) : (P \o Q)[Len(P) + k] = Q[k]
  <2>1. /\ P \o Q \in Seq(S) /\ Len(P \o Q) = Len(P) + Len(Q)
        /\ \A k \in 1 .. (Len(P) + Len(Q)) :
              (P \o Q)[k] = IF k <= Len(P) THEN P[k] ELSE Q[k - Len(P)]
    BY <1>2, ConcatProperties
  <2>2. QED
    BY <1>1, <2>1
<1> DEFINE C == P \o Q
<1>4. \A k \in DOMAIN C : \/ k \in DOMAIN P /\ C[k] = P[k]
                          \/ \E l \in DOMAIN Q : k = Len(P) + l /\ C[k] = Q[l]
  <2> TAKE k \in DOMAIN C
  <2>1. k \in DOMAIN P \/ (k - Len(P) \in DOMAIN Q /\ k = Len(P) + (k - Len(P)))
    BY <1>1, <1>3
  <2>2. QED
    BY <1>1, <1>3, <2>1
<1>5. /\ \A k \in DOMAIN P : \A m \in DOMAIN P[k] : P[k][m] \in I
      /\ \A k \in DOMAIN Q : \A m \in DOMAIN Q[k] : Q[k][m] \in J
  BY <1>1
<1> HIDE DEF C
<1>6. ASSUME NEW k \in DOMAIN C, NEW l \in DOMAIN C, NEW m \in DOMAIN C[k], NEW n \in DOMAIN C[l],
             C[k][m] = C[l][n]
      PROVE  k = l /\ m = n
  <2>1. CASE k \in DOMAIN P /\ C[k] = P[k] /\ l \in DOMAIN P /\ C[l] = P[l]
    BY <1>6, <2>1 DEF Deals
  <2>2. ASSUME NEW i \in DOMAIN Q, k = Len(P) + i, C[k] = Q[i],
               NEW j \in DOMAIN Q, l = Len(P) + j, C[l] = Q[j]
        PROVE  k = l /\ m = n
    BY <1>6, <2>2 DEF Deals
  <2>3. \A i \in DOMAIN Q : ~(k \in DOMAIN P /\ C[k] = P[k] /\ C[l] = Q[i])
    BY <1>5, <1>6
  <2>4. \A i \in DOMAIN Q : ~(l \in DOMAIN P /\ C[l] = P[l] /\ C[k] = Q[i])
    BY <1>5, <1>6
  <2>5. QED
    BY <1>4, <2>1, <2>2, <2>3, <2>4
<1>7. ASSUME NEW i \in I \cup J PROVE \E k \in DOMAIN C : \E m \in DOMAIN C[k] : C[k][m] = i
  <2>1. CASE i \in I
    <3>1. PICK k \in DOMAIN P : \E m \in DOMAIN P[k] : P[k][m] = i
      BY <2>1 DEF Deals
    <3>2. k \in DOMAIN C /\ C[k] = P[k]
      BY <1>1, <1>3 DEF C
    <3>3. QED
      BY <3>1, <3>2
  <2>2. CASE i \in J
    <3>1. PICK k \in DOMAIN Q : \E m \in DOMAIN Q[k] : Q[k][m] = i
      BY <2>2 DEF Deals
    <3>2. Len(P) + k \in DOMAIN C /\ C[Len(P) + k] = Q[k]
      BY <1>1, <1>3 DEF C
    <3>3. QED
      BY <3>1, <3>2
  <2>3. QED
    BY <2>1, <2>2
<1>8. QED
  BY <1>3, <1>6, <1>7 DEF Deals, C, S

\* The first of a sequence that deals lists its items; the others deal the rest.
LEMMA HeadHolds ==
    ASSUME NEW I, NEW Q, Deals(Q, I), Q # <<>>
    PROVE  /\ Head(Q) # <<>> /\ Covers(Head(Q)) \subseteq I
           /\ Lists(Head(Q), Covers(Head(Q)))
           /\ Deals(Tail(Q), I \ Covers(Head(Q)))
<1> DEFINE h == Head(Q)
           T == Tail(Q)
           R == I \ Covers(h)
<1>0. \A k, l \in DOMAIN Q : \A m \in DOMAIN Q[k], n \in DOMAIN Q[l] :
          Q[k][m] = Q[l][n] => k = l /\ m = n
  BY DEF Deals
<1>1. /\ DOMAIN Q = 1 .. Len(Q) /\ Len(Q) \in Nat \ {0} /\ 1 \in DOMAIN Q
      /\ \A k \in DOMAIN Q : Q[k] \in Seq(I) \ {<<>>}
  BY EmptySeq DEF Deals
<1>2. /\ h = Q[1] /\ Len(T) = Len(Q) - 1 /\ DOMAIN T = 1 .. (Len(Q) - 1)
      /\ T \in Seq(Seq(I) \ {<<>>})
      /\ \A k \in DOMAIN T : T[k] = Q[k + 1] /\ k + 1 \in DOMAIN Q /\ k \in Int
  <2>1. /\ h = Q[1] /\ T \in Seq(Seq(I) \ {<<>>}) /\ Len(T) = Len(Q) - 1
        /\ \A k \in 1 .. Len(T) : T[k] = Q[k + 1]
    BY HeadTailProperties DEF Deals
  <2> HIDE DEF T
  <2>2. QED
    BY <1>1, <2>1
<1>3. h \in Seq(I) \ {<<>>}
  BY <1>1, <1>2
<1>4. Covers(h) \subseteq I
  BY <1>3 DEF Covers
<1>5. Lists(h, Covers(h))
  <2>1. h \in Seq(Covers(h))
    <3>1. h = [k \in 1 .. Len(h) |-> h[k]] /\ Len(h) \in Nat /\ DOMAIN h = 1 .. Len(h)
      BY <1>3
    <3>2. QED
      BY <3>1, SeqDef DEF Covers
  <2>2. \A j, k \in DOMAIN h : h[j] = h[k] => j = k
    <3>1. \A j, k \in DOMAIN Q[1] : Q[1][j] = Q[1][k] => j = k
      BY <1>1, <1>0
    <3>2. QED
      BY <1>2, <3>1
  <2>3. QED
    BY <2>1, <2>2 DEF Lists, Covers
<1>6. ASSUME NEW k \in DOMAIN T PROVE T[k] \in Seq(R) \ {<<>>}
  <2>1. T[k] \in Seq(I) \ {<<>>} /\ k + 1 # 1
    BY <1>1, <1>2
  <2>2. \A m \in DOMAIN T[k] : T[k][m] \in R
    <3> SUFFICES ASSUME NEW m \in DOMAIN T[k], NEW n \in DOMAIN h, T[k][m] = h[n] PROVE FALSE
      BY <2>1 DEF Covers
    <3>1. Q[k + 1][m] = Q[1][n] /\ k + 1 \in DOMAIN Q /\ m \in DOMAIN Q[k + 1] /\ n \in DOMAIN Q[1]
      BY <1>2
    <3>2. k + 1 = 1
      BY <1>0, <1>1, <3>1
    <3>3. QED
      BY <2>1, <3>2
  <2>3. T[k] = [m \in 1 .. Len(T[k]) |-> T[k][m]] /\ Len(T[k]) \in Nat /\ DOMAIN T[k] = 1 .. Len(T[k])
    BY <2>1
  <2>4. QED
    BY <2>1, <2>2, <2>3, SeqDef
<1> HIDE DEF T, R, h
<1>7. T \in Seq(Seq(R) \ {<<>>})
  <2>1. T = [k \in 1 .. Len(T) |-> T[k]] /\ Len(T) \in Nat /\ DOMAIN T = 1 .. Len(T)
    BY <1>2
  <2>2. QED
    BY <1>6, <2>1, SeqDef
<1>8. ASSUME NEW k \in DOMAIN T, NEW l \in DOMAIN T, NEW m \in DOMAIN T[k], NEW n \in DOMAIN T[l],
             T[k][m] = T[l][n]
      PROVE  k = l /\ m = n
  <2>0. /\ k + 1 \in DOMAIN Q /\ m \in DOMAIN Q[k + 1] /\ T[k] = Q[k + 1]
        /\ l + 1 \in DOMAIN Q /\ n \in DOMAIN Q[l + 1] /\ T[l] = Q[l + 1]
    BY <1>2
  <2>a. Q[k + 1][m] = Q[l + 1][n]
    BY <1>8, <2>0
  <2>1. k + 1 = l + 1 /\ m = n
    BY <1>0, <2>0, <2>a
  <2>2. k \in Int /\ l \in Int
    BY <1>2
  <2>3. QED
    BY <2>1, <2>2
<1>9. ASSUME NEW i \in R PROVE \E k \in DOMAIN T : \E m \in DOMAIN T[k] : T[k][m] = i
  <2>1. i \in I /\ i \notin Covers(h)
    BY DEF R
  <2>2. PICK k \in DOMAIN Q : \E m \in DOMAIN Q[k] : Q[k][m] = i
    BY <2>1 DEF Deals
  <2>3. k # 1
    BY <1>2, <2>1, <2>2 DEF Covers
  <2>4. k - 1 \in DOMAIN T /\ (k - 1) + 1 = k
    BY <1>1, <1>2, <2>3
  <2>5. T[k - 1] = Q[k]
    BY <1>2, <2>4
  <2>6. QED
    BY <2>2, <2>4, <2>5
<1>10. Deals(T, R)
  BY <1>7, <1>8, <1>9 DEF Deals
<1>11. QED
  BY <1>3, <1>4, <1>5, <1>10 DEF h, T, R

-----------------------------------------------------------------------------
(* Where the items are. *)

Settled == blocks \cup {f[1] : f \in failures}
Queued  == UNION {Covers(queue[k]) : k \in DOMAIN queue}
InTasks == UNION {Covers(t.batch) : t \in tasks}
Working == phase \in {"fill", "join"}

\* While requests are made, an item is in one place once.
Placed ==
    Working =>
        /\ Deals(queue, Queued)
        /\ \A t \in tasks : /\ Lists(t.batch, Covers(t.batch))
                            /\ Covers(t.batch) \cap (Queued \cup Settled) = {}
        /\ \A t, u \in tasks : t # u => Covers(t.batch) \cap Covers(u.batch) = {}
        /\ Queued \cap Settled = {}
        /\ ~stopping => Items \subseteq Queued \cup InTasks \cup Settled

\* What a sequence deals is what its batches cover.
LEMMA DealsCovers ==
    ASSUME NEW I, NEW Q, Deals(Q, I)
    PROVE  /\ UNION {Covers(Q[k]) : k \in DOMAIN Q} = I
           /\ Q = <<>> <=> I = {}
<1>1. \A k \in DOMAIN Q : Q[k] \in Seq(I) \ {<<>>}
  BY DEF Deals
<1>2. UNION {Covers(Q[k]) : k \in DOMAIN Q} = I
  <2>1. \A k \in DOMAIN Q : Covers(Q[k]) \subseteq I
    BY <1>1 DEF Covers
  <2>2. \A i \in I : \E k \in DOMAIN Q : i \in Covers(Q[k])
    BY DEF Deals, Covers
  <2>3. QED
    BY <2>1, <2>2
<1>3. Q = <<>> => I = {}
  BY DEF Deals
<1>4. ASSUME Q # <<>> PROVE I # {}
  <2>1. 1 \in DOMAIN Q
    BY <1>4, EmptySeq DEF Deals
  <2>2. Q[1] \in Seq(I) /\ Q[1] # <<>>
    BY <1>1, <2>1
  <2>3. 1 \in DOMAIN Q[1]
    BY <2>2, EmptySeq
  <2>4. QED
    BY <2>2, <2>3
<1>5. QED
  BY <1>2, <1>3, <1>4

\* A finite set of numbers has a greatest.
LEMMA GreatestOf ==
    ASSUME NEW S \in SUBSET Nat, IsFiniteSet(S), S # {}
    PROVE  \E n \in S : \A m \in S : m <= n
<1> DEFINE at == InOrder(S)
<1>1. Lists(at, S) /\ \A j, k \in DOMAIN at : j < k => at[j] < at[k]
  BY InOrderHolds
<1> HIDE DEF at
<1>2. at \in Seq(S) /\ DOMAIN at = 1 .. Len(at) /\ Len(at) \in Nat /\ \A k \in DOMAIN at : at[k] \in S
  <2>1. at \in Seq(S)
    BY <1>1 DEF Lists
  <2>2. QED
    BY <2>1
<1>3. Len(at) \in DOMAIN at
  <2>1. PICK k \in DOMAIN at : TRUE
    BY <1>1 DEF Lists
  <2>2. QED
    BY <1>2, <2>1
<1>4. \A m \in S : m <= at[Len(at)]
  <2> TAKE m \in S
  <2>1. PICK k \in DOMAIN at : at[k] = m
    BY <1>1 DEF Lists
  <2>2. k = Len(at) \/ k < Len(at)
    BY <1>2
  <2>3. at[k] \in Nat /\ at[Len(at)] \in Nat
    BY <1>2, <1>3
  <2>4. QED
    BY <1>1, <1>3, <2>1, <2>2, <2>3
<1>5. QED
  BY <1>2, <1>3, <1>4

\* The greatest number a batch's items have is one of theirs, and none is greater.
LEMMA MaxOverHolds ==
    ASSUME NEW f \in [Items -> Nat], NEW b \in Seq(Items) \ {<<>>}
    PROVE  /\ \E i \in Covers(b) : MaxOver(f, b) = f[i]
           /\ MaxOver(f, b) \in Nat /\ \A i \in Covers(b) : f[i] <= MaxOver(f, b)
<1> DEFINE S == {f[i] : i \in Covers(b)}
           g == [k \in DOMAIN b |-> f[b[k]]]
<1>1. DOMAIN b = 1 .. Len(b) /\ Len(b) \in Int /\ 1 \in DOMAIN b /\ \A k \in DOMAIN b : b[k] \in Items
  BY EmptySeq
<1>2. IsFiniteSet(S)
  <2>1. g \in Surjection(DOMAIN b, S)
    BY <1>1 DEF Surjection, Covers
  <2>2. IsFiniteSet(DOMAIN b)
    <3>1. 1 \in Int
      OBVIOUS
    <3>2. QED
      BY <1>1, <3>1, FS_Interval
  <2>3. QED
    BY <2>1, <2>2, FS_Surjection
<1>3. S \in SUBSET Nat /\ S # {}
  BY <1>1 DEF Covers
<1>4. PICK n \in S : \A m \in S : m <= n
  <2> HIDE DEF S
  <2>1. QED
    BY <1>2, <1>3, GreatestOf
<1>5. \A i \in Covers(b) : f[i] <= n
  BY <1>4
<1>6. MaxOver(f, b) \in S /\ \A i \in Covers(b) : f[i] <= MaxOver(f, b)
  BY <1>4, <1>5 DEF MaxOver
<1>7. QED
  BY <1>3, <1>6

-----------------------------------------------------------------------------
(* The driver's moves. *)

\* What a run is given.
LEMMA SetupTyped ==
    ASSUME BatchTypeOK
    PROVE  /\ setup.slots \subseteq Nat \ {0} /\ setup.limits \subseteq Nat \ {0}
           /\ setup.strict \in BOOLEAN /\ setup.outcomes \subseteq Errors \cup {"reject", "echo"}
           /\ settings.limit \in Nat \ {0} /\ settings.slots \in Nat \ {0}
           /\ settings.slots \in setup.slots /\ settings.revision \in 0 .. MaxRevision
BY DispatchAssumption DEF BatchTypeOK

\* The settings in effect give a sizer and a queue with the same items.
LEMMA CurrentHolds ==
    ASSUME BatchTypeOK, Deals(queue, Queued), Queued \subseteq Items
    PROVE  /\ CurrentSizer.revision \in 0 .. MaxRevision
           /\ CurrentSizer.limit \in [Modes -> Nat \ {0}]
           /\ Deals(CurrentQueue, Queued)
<1>1. CurrentSizer.revision \in 0 .. MaxRevision /\ CurrentSizer.limit \in [Modes -> Nat \ {0}]
  BY SetupTyped DEF CurrentSizer, BatchTypeOK
<1>2. Deals(CurrentQueue, Queued)
  BY <1>1, RepartitionHolds DEF CurrentQueue
<1>3. QED
  BY <1>1, <1>2

\* The queue holds items.
LEMMA QueuedTyped ==
    ASSUME BatchTypeOK
    PROVE  Queued \subseteq Items
<1>1. \A k \in DOMAIN queue : queue[k] \in Seq(Items)
  BY DEF BatchTypeOK
<1>2. QED
  BY <1>1 DEF Queued, Covers

\* A dispatch takes a batch from the queue, or halves it there.
LEMMA DispatchMoves ==
    ASSUME BatchTypeOK, Placed, Dispatch
    PROVE  /\ allowance' \in [Items -> 0 .. Ceiling]
           /\ sizer'.revision \in 0 .. MaxRevision /\ sizer'.limit \in [Modes -> Nat \ {0}]
           /\ \/ tasks' = tasks /\ Deals(queue', Queued)
              \/ \E first, level :
                    /\ tasks' = tasks \cup {NewTask(first, level)} /\ level \in 0 .. Ceiling
                    /\ Lists(first, Covers(first)) /\ first # <<>> /\ Covers(first) \subseteq Queued
                    /\ Deals(queue', Queued \ Covers(first))
<1>0. Deals(queue, Queued) /\ Queued \subseteq Items /\ queue # <<>>
  BY QueuedTyped DEF Placed, Working, Dispatch, Filling
<1> DEFINE pending == CurrentQueue
           head  == Head(pending)
           level == MaxOver(allowance, head)
           parts == Chunk(head, CurrentSizer.limit[ModeOfBatch(head)])
           first == Head(parts)
           slow  == level = 0 /\ Len(first) > 1 /\ Len(first) > LatencyCap
<1>1. /\ queue' = (IF slow THEN Split(first) ELSE <<>>) \o Tail(parts) \o Tail(pending)
      /\ tasks' = IF slow THEN tasks ELSE tasks \cup {NewTask(first, level)}
      /\ allowance' = SetOver(SetOver(allowance, head, level), first, 0)
      /\ sizer' = CurrentSizer
  BY ZenonT(40) DEF Dispatch
<1>2. /\ CurrentSizer.revision \in 0 .. MaxRevision
      /\ CurrentSizer.limit \in [Modes -> Nat \ {0}]
      /\ Deals(pending, Queued)
  BY <1>0, CurrentHolds
<1>3. /\ head # <<>> /\ Covers(head) \subseteq Queued /\ Lists(head, Covers(head))
      /\ Deals(Tail(pending), Queued \ Covers(head))
  <2>1. pending # <<>>
    BY <1>0, <1>2, DealsCovers
  <2> HIDE DEF pending
  <2>2. QED
    BY <1>2, <2>1, HeadHolds
<1> HIDE DEF pending, head
<1>4. head \in Seq(Items) \ {<<>>} /\ head[1] \in Items
  <2>1. head \in Seq(Covers(head)) /\ Covers(head) \subseteq Items
    BY <1>0, <1>3 DEF Lists
  <2>2. head \in Seq(Items)
    BY <2>1, SeqMonotonic
  <2>3. QED
    BY <1>3, <2>2, EmptySeq
<1>5. Deals(parts, Covers(head))
  <2>1. CurrentSizer.limit[ModeOfBatch(head)] \in Nat \ {0}
    BY <1>2, <1>4, PlanAssumption DEF ModeOfBatch
  <2>2. QED
    BY <1>3, <2>1, ChunkHolds
<1>6. /\ first # <<>> /\ Covers(first) \subseteq Covers(head) /\ Lists(first, Covers(first))
      /\ Deals(Tail(parts), Covers(head) \ Covers(first))
  <2>1. Covers(head) # {}
    BY <1>4, EmptySeq DEF Covers
  <2>2. parts # <<>>
    BY <1>5, <2>1, DealsCovers
  <2> HIDE DEF parts
  <2>3. QED
    BY <1>5, <2>2, HeadHolds
<1>7. level \in 0 .. Ceiling
  <2>1. allowance \in [Items -> 0 .. Ceiling] /\ allowance \in [Items -> Nat]
    BY DEF BatchTypeOK
  <2>2. PICK i \in Covers(head) : MaxOver(allowance, head) = allowance[i]
    BY <1>4, <2>1, MaxOverHolds
  <2>3. i \in Items
    BY <1>0, <1>3
  <2>4. QED
    BY <2>1, <2>2, <2>3
<1> HIDE DEF level, parts, first, slow
<1>8. allowance' \in [Items -> 0 .. Ceiling]
  <2>1. 0 \in 0 .. Ceiling /\ allowance \in [Items -> 0 .. Ceiling]
    BY DispatchAssumption DEF BatchTypeOK
  <2>2. QED
    BY <1>1, <1>7, <2>1 DEF SetOver
<1>9. ASSUME NEW J, NEW H, Deals(H, J), J \subseteq Covers(first)
      PROVE  Deals(H \o Tail(parts) \o Tail(pending), J \cup (Queued \ Covers(first)))
  <2>1. Deals(H \o Tail(parts), J \cup (Covers(head) \ Covers(first)))
    <3>1. J \cap (Covers(head) \ Covers(first)) = {}
      BY <1>9
    <3>2. QED
      BY <1>6, <1>9, <3>1, ConcatHolds
  <2>2. (J \cup (Covers(head) \ Covers(first))) \cap (Queued \ Covers(head)) = {}
    BY <1>6, <1>9
  <2>3. Deals((H \o Tail(parts)) \o Tail(pending),
              (J \cup (Covers(head) \ Covers(first))) \cup (Queued \ Covers(head)))
    BY <1>3, <2>1, <2>2, ConcatHolds
  <2>4. (J \cup (Covers(head) \ Covers(first))) \cup (Queued \ Covers(head))
            = J \cup (Queued \ Covers(first))
    BY <1>3, <1>6, <1>9
  <2>5. QED
    BY <2>3, <2>4
<1>10. CASE slow
  <2>1. Deals(Split(first), Covers(first))
    BY <1>6, <1>10, SplitHolds DEF slow
  <2>2. Deals(queue', Covers(first) \cup (Queued \ Covers(first)))
    BY <1>1, <1>9, <1>10, <2>1
  <2>3. Covers(first) \cup (Queued \ Covers(first)) = Queued
    BY <1>3, <1>6
  <2>4. QED
    BY <1>1, <1>2, <1>8, <1>10, <2>2, <2>3
<1>11. CASE ~slow
  <2>1. Deals(queue', {} \cup (Queued \ Covers(first)))
    BY <1>1, <1>9, <1>11, NoneHolds
  <2>2. Deals(queue', Queued \ Covers(first))
    BY <2>1
  <2>3. Covers(first) \subseteq Queued
    BY <1>3, <1>6
  <2>4. QED
    BY <1>1, <1>2, <1>6, <1>7, <1>8, <1>11, <2>2, <2>3
<1>12. slow \/ ~slow
  OBVIOUS
<1>13. QED
  BY <1>10, <1>11, <1>12, ZenonT(40)

\* The types of the ledgers and the sizer.
LedgerOK ==
    /\ allowance \in [Items -> 0 .. Ceiling]
    /\ tries \in [Ways -> [Items -> Nat]]
    /\ sizer.revision \in 0 .. MaxRevision /\ sizer.limit \in [Modes -> Nat \ {0}]

\* A ledger changed for the items of a batch keeps its type.
LEMMA SetOverTyped ==
    ASSUME NEW T, NEW f \in [Items -> T], NEW n \in T, NEW b
    PROVE  SetOver(f, b, n) \in [Items -> T]
BY DEF SetOver

\* A task of a typed state.
LEMMA TaskTyped ==
    ASSUME BatchTypeOK, NEW t \in tasks
    PROVE  /\ t.batch \in Seq(Items) \ {<<>>} /\ t.batch[1] \in Items
           /\ t.level \in 1 .. Ceiling /\ t \in Tasks
           /\ Len(t.batch) \in Nat \ {0} /\ Covers(t.batch) \subseteq Items /\ Covers(t.batch) # {}
<1>1. t \in Tasks /\ t.batch # <<>>
  BY DEF BatchTypeOK
<1>2. t.batch \in Seq(Items) /\ t.level \in 1 .. Ceiling
  BY <1>1 DEF Tasks
<1>3. DOMAIN t.batch = 1 .. Len(t.batch) /\ Len(t.batch) \in Nat \ {0}
  BY <1>1, <1>2, EmptySeq
<1>4. \A k \in DOMAIN t.batch : t.batch[k] \in Items
  BY <1>2
<1>5. 1 \in DOMAIN t.batch
  BY <1>3
<1>6. QED
  BY <1>1, <1>2, <1>3, <1>4, <1>5 DEF Covers

\* Attempts are counted in numbers.
LEMMA TriedTyped ==
    ASSUME BatchTypeOK, NEW t \in tasks, NEW w \in Ways
    PROVE  Tried(t, w) \in Nat
<1>1. tries[w] \in [Items -> Nat] /\ t.batch \in Seq(Items) \ {<<>>} /\ Covers(t.batch) \subseteq Items
  BY TaskTyped DEF BatchTypeOK
<1>2. PICK i \in Covers(t.batch) : MaxOver(tries[w], t.batch) = tries[w][i]
  BY <1>1, MaxOverHolds
<1>3. MaxOver(tries[w], t.batch) \in Nat
  BY <1>1, <1>2
<1>4. QED
  BY <1>3 DEF Tried

\* A count of attempts keeps the type of the ledger.
LEMMA CountTyped ==
    ASSUME BatchTypeOK, NEW t \in tasks, NEW w \in Ways, NEW n \in Nat, Count(t, w, n)
    PROVE  tries' \in [Ways -> [Items -> Nat]]
<1>1. tries[w] \in [Items -> Nat] /\ tries \in [Ways -> [Items -> Nat]]
  BY DEF BatchTypeOK
<1>2. SetOver(tries[w], t.batch, n) \in [Items -> Nat]
  BY <1>1, SetOverTyped
<1>3. QED
  BY <1>1, <1>2 DEF Count

\* A sizer keeps a limit above nought.
LEMMA SizerTyped ==
    ASSUME BatchTypeOK, NEW t \in tasks, NEW percent \in {75, 85}, NEW step \in {0, 1},
           SizerAfter(t.batch, percent, step)
    PROVE  sizer'.revision \in 0 .. MaxRevision /\ sizer'.limit \in [Modes -> Nat \ {0}]
<1>1. sizer.revision \in 0 .. MaxRevision /\ sizer.limit \in [Modes -> Nat \ {0}]
  BY DEF BatchTypeOK
<1> DEFINE m    == ModeOfBatch(t.batch)
           n    == sizer.limit[m]
           cut  == (n * percent) \div 100
           next == {n, IF cut < 1 THEN 1 ELSE cut} \cup ({n + step} \cap Items)
<1>2. m \in Modes
  BY TaskTyped, PlanAssumption DEF ModeOfBatch
<1>3. next \subseteq Nat \ {0}
  <2>1. n \in Nat \ {0}
    BY <1>1, <1>2
  <2>2. cut \in Int
    BY <2>1
  <2>3. Items \subseteq Nat \ {0}
    BY PlanAssumption DEF Items
  <2> HIDE DEF cut, n
  <2>4. QED
    BY <2>1, <2>2, <2>3
<1>4. SizerAfter(t.batch, percent, step) <=>
        IF Adaptive THEN \E k \in next : sizer' = [sizer EXCEPT !.limit[m] = k] ELSE UNCHANGED sizer
  BY DEF SizerAfter
<1> HIDE DEF m, next
<1>5. CASE Adaptive
  <2>1. PICK k \in next : sizer' = [sizer EXCEPT !.limit[m] = k]
    BY <1>4, <1>5
  <2>2. k \in Nat \ {0}
    BY <1>3
  <2>3. sizer'.revision = sizer.revision /\ sizer'.limit \in {sizer.limit, [sizer.limit EXCEPT ![m] = k]}
    BY <2>1
  <2>4. QED
    BY <1>1, <1>2, <2>2, <2>3
<1>6. CASE ~Adaptive
  BY <1>1, <1>4, <1>6
<1>7. QED
  BY <1>5, <1>6

\* Of a batch joined, one of four things becomes.
JoinMove(t) ==
    \/ /\ Joined(t, FALSE) /\ UNCHANGED harvest
       /\ \E P : Deals(P, Covers(t.batch)) /\ queue' = queue \o P
    \/ Joined(t, TRUE) /\ \E c \in Causes : GiveUp(t.batch, c)
    \/ JoinStopped(t)
    \/ JoinOk(t)

\* Whatever arm of the driver's match takes a joined task, it makes one of the four moves.
LEMMA JoinMoves ==
    ASSUME BatchTypeOK, Placed, NEW t \in tasks, Join(t)
    PROVE  Joinable(t) /\ JoinMove(t)
<1>0. t.batch # <<>> /\ Len(t.batch) \in Nat
  BY TaskTyped
<1>j. Joinable(t)
  BY DEF Join, Ended, JoinStopped, JoinOk, JoinTransientRetry, JoinTransientSplit, JoinTransientFail,
         JoinTooLargeSplit, JoinFatal, JoinCompactRetry, JoinEscalate, JoinTruncatedSingle,
         JoinInvalidRetry, JoinInvalidSingle, JoinInvalidSplit
<1>l. Lists(t.batch, Covers(t.batch))
  BY <1>j DEF Placed, Working, Joinable
<1>1. ASSUME Joined(t, FALSE), PutBack(<<t.batch>>) PROVE JoinMove(t)
  BY <1>0, <1>1, <1>l, OneHolds DEF JoinMove, PutBack
<1>2. ASSUME Multi(t), Joined(t, FALSE), PutBack(Split(t.batch)) PROVE JoinMove(t)
  BY <1>2, <1>l, SplitHolds DEF JoinMove, PutBack, Multi
<1>3. ASSUME NEW c \in Causes, Joined(t, TRUE), GiveUp(t.batch, c) PROVE JoinMove(t)
  BY <1>3 DEF JoinMove
<1>c. "soft" \in Causes /\ "hard" \in Causes /\ "interrupted" \in Causes
  BY DEF Causes
<1>4. CASE JoinStopped(t)
  BY <1>j, <1>4 DEF JoinStopped, JoinMove
<1>5. CASE JoinOk(t)
  BY <1>j, <1>5 DEF JoinMove
<1>6. CASE JoinTransientRetry(t) \/ JoinCompactRetry(t) \/ JoinEscalate(t) \/ JoinInvalidRetry(t)
  BY <1>j, <1>1, <1>6 DEF JoinTransientRetry, JoinCompactRetry, JoinEscalate, JoinInvalidRetry
<1>7. CASE JoinTransientSplit(t) \/ JoinTooLargeSplit(t) \/ JoinInvalidSplit(t)
  BY <1>j, <1>2, <1>7 DEF JoinTransientSplit, JoinTooLargeSplit, JoinInvalidSplit
<1>8. CASE JoinTransientFail(t) \/ JoinTruncatedSingle(t) \/ JoinInvalidSingle(t)
  BY <1>j, <1>3, <1>8, <1>c DEF JoinTransientFail, JoinTruncatedSingle, JoinInvalidSingle
<1>9. CASE JoinFatal(t)
  <2>1. Joined(t, TRUE) /\ \E c \in Causes : GiveUp(t.batch, c)
    BY <1>9, <1>c DEF JoinFatal
  <2>2. QED
    BY <1>j, <1>3, <2>1
<1>10. QED
  BY <1>4, <1>5, <1>6, <1>7, <1>8, <1>9 DEF Join

\* The ledgers of a join keep their types.
LEMMA JoinLedger ==
    ASSUME BatchTypeOK, NEW t \in tasks, Join(t)
    PROVE  LedgerOK'
<1>l. LedgerOK
  BY DEF BatchTypeOK, LedgerOK
<1>w. "transient" \in Ways /\ "invalid" \in Ways /\ "compact" \in Ways
  BY DEF Ways
<1>0. /\ LedgerOK /\ "transient" \in Ways /\ "invalid" \in Ways /\ "compact" \in Ways
      /\ t.level \in 0 .. Ceiling /\ 0 \in Nat
  BY <1>l, <1>w, TaskTyped
<1>s. UNCHANGED sizer => sizer'.revision \in 0 .. MaxRevision /\ sizer'.limit \in [Modes -> Nat \ {0}]
  BY <1>0 DEF LedgerOK
<1>1. UNCHANGED <<sizer, ledger>> => LedgerOK'
  BY <1>0 DEF LedgerOK, ledger
<1>2. CASE JoinStopped(t) \/ JoinTooLargeSplit(t) \/ JoinFatal(t)
  BY <1>1, <1>2 DEF JoinStopped, JoinTooLargeSplit, JoinFatal
<1>3. CASE JoinOk(t)
  <2>1. SizerAfter(t.batch, 85, 1) /\ allowance' = allowance
        /\ tries' = [tries EXCEPT !["compact"] = SetOver(@, t.batch, 0)]
    BY <1>3 DEF JoinOk
  <2>2. tries' \in [Ways -> [Items -> Nat]]
    BY <1>0, <2>1, CountTyped DEF Count
  <2>3. QED
    BY <1>0, <2>1, <2>2, SizerTyped DEF LedgerOK
<1>4. CASE JoinTransientRetry(t) \/ JoinTransientFail(t)
  <2>1. UNCHANGED <<sizer, allowance>> /\ Count(t, "transient", Tried(t, "transient"))
    BY <1>4 DEF JoinTransientRetry, JoinTransientFail
  <2>2. tries' \in [Ways -> [Items -> Nat]]
    BY <1>0, <2>1, CountTyped, TriedTyped
  <2>3. QED
    BY <1>0, <2>1, <2>2 DEF LedgerOK
<1>5. CASE JoinTransientSplit(t)
  <2>1. SizerAfter(t.batch, 85, 0) /\ allowance' = allowance /\ Count(t, "transient", 0)
    BY <1>5 DEF JoinTransientSplit
  <2>2. tries' \in [Ways -> [Items -> Nat]]
    BY <1>0, <2>1, CountTyped
  <2>3. QED
    BY <1>0, <2>1, <2>2, SizerTyped DEF LedgerOK
<1>6. CASE JoinCompactRetry(t)
  <2>1. /\ UNCHANGED sizer /\ Count(t, "compact", Tried(t, "compact"))
        /\ allowance' = SetOver(allowance, t.batch, t.level)
    BY <1>6 DEF JoinCompactRetry
  <2>2. tries' \in [Ways -> [Items -> Nat]]
    BY <1>0, <2>1, CountTyped, TriedTyped
  <2>3. allowance' \in [Items -> 0 .. Ceiling]
    BY <1>0, <2>1, SetOverTyped DEF LedgerOK
  <2>4. QED
    BY <1>0, <2>1, <2>2, <2>3 DEF LedgerOK
<1>7. CASE JoinEscalate(t)
  <2>1. UNCHANGED <<sizer, tries>> /\ allowance' = SetOver(allowance, t.batch, NextLevel(t))
    BY <1>7 DEF JoinEscalate
  <2>2. NextLevel(t) \in 0 .. Ceiling
    BY <1>0, DispatchAssumption, TaskTyped DEF NextLevel
  <2>3. allowance' \in [Items -> 0 .. Ceiling]
    BY <1>0, <2>1, <2>2, SetOverTyped DEF LedgerOK
  <2>4. QED
    BY <1>0, <2>1, <2>3 DEF LedgerOK
<1>8. CASE JoinTruncatedSingle(t)
  <2>1. SizerAfter(t.batch, 75, 0) /\ UNCHANGED <<allowance, tries>>
    BY <1>8 DEF JoinTruncatedSingle, ledger
  <2>2. QED
    BY <1>0, <2>1, SizerTyped DEF LedgerOK
<1>9. CASE JoinInvalidRetry(t)
  <2> DEFINE n == Tried(t, "invalid")
             c == IF n < 3 THEN n ELSE 3
  <2>1. /\ UNCHANGED sizer /\ allowance' = SetOver(allowance, t.batch, t.level)
        /\ tries' = [tries EXCEPT !["invalid"] = SetOver(@, t.batch, n),
                                  !["compact"] = SetOver(@, t.batch, c)]
    BY <1>9 DEF JoinInvalidRetry
  <2>2. n \in Nat /\ c \in Nat
    BY <1>0, TriedTyped
  <2>3. /\ tries["invalid"] \in [Items -> Nat] /\ tries["compact"] \in [Items -> Nat]
        /\ tries \in [Ways -> [Items -> Nat]]
    BY <1>0 DEF LedgerOK
  <2> HIDE DEF n, c
  <2>4. /\ SetOver(tries["invalid"], t.batch, n) \in [Items -> Nat]
        /\ SetOver(tries["compact"], t.batch, c) \in [Items -> Nat]
    BY <2>2, <2>3, SetOverTyped
  <2>5. tries' \in [Ways -> [Items -> Nat]]
    BY <1>0, <2>1, <2>3, <2>4
  <2>6. allowance' \in [Items -> 0 .. Ceiling]
    BY <1>0, <2>1, SetOverTyped DEF LedgerOK
  <2>7. QED
    BY <1>0, <2>1, <2>5, <2>6 DEF LedgerOK
<1>10. CASE JoinInvalidSingle(t)
  <2>1. UNCHANGED <<sizer, allowance>> /\ Count(t, "invalid", Tried(t, "invalid"))
    BY <1>10 DEF JoinInvalidSingle
  <2>2. tries' \in [Ways -> [Items -> Nat]]
    BY <1>0, <2>1, CountTyped, TriedTyped
  <2>3. QED
    BY <1>0, <2>1, <2>2 DEF LedgerOK
<1>11. CASE JoinInvalidSplit(t)
  <2> DEFINE percent == IF t.answer.kind = "invalid" THEN 85 ELSE 75
  <2>1. SizerAfter(t.batch, percent, 0) /\ UNCHANGED <<allowance, tries>> /\ percent \in {75, 85}
    BY <1>11 DEF JoinInvalidSplit, ledger
  <2> HIDE DEF percent
  <2>2. sizer'.revision \in 0 .. MaxRevision /\ sizer'.limit \in [Modes -> Nat \ {0}]
    BY <2>1, SizerTyped
  <2>3. QED
    BY <1>0, <2>1, <2>2 DEF LedgerOK
<1>12. QED
  BY <1>2, <1>3, <1>4, <1>5, <1>6, <1>7, <1>8, <1>9, <1>10, <1>11 DEF Join

\* What a task knows is true: its answer speaks of its batch, a stop was one,
\* and a sleeper nobody woke still waits for its context.
Sane(t) ==
    /\ t.answer.rejected \cup t.answer.echoed \subseteq Covers(t.batch)
    /\ t.answer.kind = "stopped" => signal = "stopped"
    /\ t.pc \in {"looked", "asleep"} /\ ~t.woken => ~ContextReady(t.batch)

TasksSane == \A t \in tasks : Sane(t)

\* What deals items of the book is a sequence of batches.
LEMMA DealsTyped ==
    ASSUME NEW I \in SUBSET Items, NEW Q, Deals(Q, I)
    PROVE  Q \in Seq(Seq(Items) \ {<<>>})
<1>1. Q \in Seq(Seq(I) \ {<<>>}) /\ Seq(I) \subseteq Seq(Items)
  BY SeqMonotonic DEF Deals
<1>2. Q = [k \in 1 .. Len(Q) |-> Q[k]] /\ Len(Q) \in Nat /\ \A k \in 1 .. Len(Q) : Q[k] \in Seq(Items) \ {<<>>}
  BY <1>1
<1>3. QED
  BY <1>2, SeqDef

\* A task's step replaces it by one with the same batch.
LEMMA WorkMoves ==
    ASSUME BatchTypeOK, TasksSane, NEW t \in tasks, TaskStep(t)
    PROVE  /\ OnlyTasks
           /\ \E u \in Tasks : /\ tasks' = (tasks \ {t}) \cup {u}
                               /\ u.batch = t.batch /\ Sane(u)
<1>0. t \in Tasks /\ Sane(t) /\ t.answer \in Answers
  BY TaskTyped DEF TasksSane, Tasks
<1>o. OnlyTasks
  BY DEF TaskStep, Subscribe, CheckContext, Sleep, Wake, GateOpens, GateStops, Answer
<1>1. ASSUME NEW pc \in {"subscribe", "check", "gate", "permit", "request"}, Step(t, pc)
      PROVE  \E u \in Tasks : tasks' = (tasks \ {t}) \cup {u} /\ u.batch = t.batch /\ Sane(u)
  <2> DEFINE u == [t EXCEPT !.pc = pc]
  <2>1. u \in Tasks /\ u.batch = t.batch /\ u.answer = t.answer /\ u.pc = pc
    BY <1>0 DEF Tasks
  <2>2. tasks' = (tasks \ {t}) \cup {u}
    BY <1>1 DEF Step
  <2> HIDE DEF u
  <2>3. Sane(u)
    BY <1>0, <2>1 DEF Sane
  <2>4. QED
    BY <2>1, <2>2, <2>3
<1>2. CASE Subscribe(t)
  <2> DEFINE u == [t EXCEPT !.pc = "check", !.woken = FALSE]
  <2>1. u \in Tasks /\ u.batch = t.batch /\ u.answer = t.answer /\ u.pc = "check"
    BY <1>0 DEF Tasks
  <2>2. tasks' = (tasks \ {t}) \cup {u}
    BY <1>2 DEF Subscribe
  <2> HIDE DEF u
  <2>3. Sane(u)
    BY <1>0, <2>1 DEF Sane
  <2>4. QED
    BY <1>o, <2>1, <2>2, <2>3
<1>3. CASE CheckContext(t)
  <2>1. CASE ContextReady(t.batch)
    BY <1>o, <1>1, <1>3, <2>1 DEF CheckContext
  <2>2. CASE ~ContextReady(t.batch)
    <3> DEFINE u == [t EXCEPT !.pc = "looked"]
    <3>1. u \in Tasks /\ u.batch = t.batch /\ u.answer = t.answer /\ u.woken = t.woken
      BY <1>0 DEF Tasks
    <3>2. tasks' = (tasks \ {t}) \cup {u}
      BY <1>3, <2>2 DEF CheckContext, Step
    <3> HIDE DEF u
    <3>3. Sane(u)
      BY <1>0, <2>2, <3>1 DEF Sane
    <3>4. QED
      BY <1>o, <3>1, <3>2, <3>3
  <2>3. QED
    BY <2>1, <2>2
<1>4. CASE Sleep(t)
  <2> DEFINE u == [t EXCEPT !.pc = "asleep"]
  <2>1. u \in Tasks /\ u.batch = t.batch /\ u.answer = t.answer /\ u.woken = t.woken /\ t.pc = "looked"
    BY <1>0, <1>4 DEF Tasks, Sleep
  <2>2. tasks' = (tasks \ {t}) \cup {u}
    BY <1>4 DEF Sleep, Step
  <2> HIDE DEF u
  <2>3. Sane(u)
    BY <1>0, <2>1 DEF Sane
  <2>4. QED
    BY <1>o, <2>1, <2>2, <2>3
<1>5. CASE Wake(t) \/ GateOpens(t)
  BY <1>o, <1>1, <1>5 DEF Wake, GateOpens
<1>6. ASSUME NEW a \in Answers, Answered(t, a), a.rejected \cup a.echoed \subseteq Covers(t.batch),
             a.kind = "stopped" => signal = "stopped"
      PROVE  \E u \in Tasks : tasks' = (tasks \ {t}) \cup {u} /\ u.batch = t.batch /\ Sane(u)
  <2> DEFINE u == [t EXCEPT !.pc = "answered", !.answer = a]
  <2>1. u \in Tasks /\ u.batch = t.batch /\ u.answer = a /\ u.pc = "answered"
    BY <1>0, <1>6 DEF Tasks
  <2>2. tasks' = (tasks \ {t}) \cup {u}
    BY <1>6 DEF Answered
  <2> HIDE DEF u
  <2>3. Sane(u)
    BY <1>6, <2>1 DEF Sane
  <2>4. QED
    BY <2>1, <2>2, <2>3
<1>7. CASE GateStops(t)
  <2>1. [NoAnswer EXCEPT !.kind = "stopped"] = [kind |-> "stopped", rejected |-> {}, echoed |-> {}]
    BY DEF NoAnswer
  <2>2. [kind |-> "stopped", rejected |-> {}, echoed |-> {}] \in Answers
    BY DEF Answers, Kinds
  <2>3. QED
    BY <1>o, <1>6, <1>7, <2>1, <2>2 DEF GateStops
<1>8. CASE Answer(t)
  <2>1. PICK a \in Endings(t) : Answered(t, a)
    BY <1>8 DEF Answer
  <2>2. /\ a \in Answers /\ a.rejected \cup a.echoed \subseteq Covers(t.batch)
        /\ a.kind # "stopped"
    <3> DEFINE RS == IF "reject" \in setup.outcomes THEN SUBSET Covers(t.batch) ELSE {{}}
               ES == {{}} \cup (IF "echo" \in setup.outcomes THEN {{i} : i \in Covers(t.batch)} ELSE {})
               KS == (setup.outcomes \cap Errors) \cup (IF signal = "stopped" THEN {"interrupted"} ELSE {})
    <3>1. RS \subseteq SUBSET Covers(t.batch) /\ ES \subseteq SUBSET Covers(t.batch)
      OBVIOUS
    <3>2. KS \subseteq Kinds /\ "stopped" \notin KS
      BY DEF Kinds, Errors, Transients
    <3>3. \/ \E R \in RS, E \in ES : a = [kind |-> "ok", rejected |-> R, echoed |-> E]
          \/ \E k \in KS : a = [kind |-> k, rejected |-> {}, echoed |-> {}]
      <4>1. \A k : [NoAnswer EXCEPT !.kind = k] = [kind |-> k, rejected |-> {}, echoed |-> {}]
        BY DEF NoAnswer
      <4>2. Endings(t) = {[kind |-> "ok", rejected |-> R, echoed |-> E] : R \in RS, E \in ES}
                         \cup {[NoAnswer EXCEPT !.kind = k] : k \in KS}
        BY DEF Endings
      <4> HIDE DEF RS, ES, KS
      <4>3. a \in {[kind |-> "ok", rejected |-> R, echoed |-> E] : R \in RS, E \in ES}
            \/ a \in {[NoAnswer EXCEPT !.kind = k] : k \in KS}
        BY <4>2
      <4>4. ASSUME a \in {[kind |-> "ok", rejected |-> R, echoed |-> E] : R \in RS, E \in ES}
            PROVE  \E R \in RS, E \in ES : a = [kind |-> "ok", rejected |-> R, echoed |-> E]
        BY <4>4
      <4>5. ASSUME a \in {[NoAnswer EXCEPT !.kind = k] : k \in KS}
            PROVE  \E k \in KS : a = [kind |-> k, rejected |-> {}, echoed |-> {}]
        BY <4>1, <4>5
      <4>6. QED
        BY <4>3, <4>4, <4>5
    <3>4. Covers(t.batch) \subseteq Items /\ "ok" \in Kinds
      BY TaskTyped DEF Kinds
    <3> HIDE DEF RS, ES, KS
    <3>5. CASE \E R \in RS, E \in ES : a = [kind |-> "ok", rejected |-> R, echoed |-> E]
      <4>1. PICK R \in RS, E \in ES : a = [kind |-> "ok", rejected |-> R, echoed |-> E]
        BY <3>5
      <4>2. R \subseteq Covers(t.batch) /\ E \subseteq Covers(t.batch)
        BY <3>1
      <4>3. QED
        BY <3>4, <4>1, <4>2 DEF Answers
    <3>6. CASE \E k \in KS : a = [kind |-> k, rejected |-> {}, echoed |-> {}]
      <4>1. PICK k \in KS : a = [kind |-> k, rejected |-> {}, echoed |-> {}]
        BY <3>6
      <4>2. k \in Kinds /\ k # "stopped"
        BY <3>2
      <4>3. QED
        BY <4>1, <4>2 DEF Answers
    <3>7. QED
      BY <3>3, <3>5, <3>6
  <2>3. QED
    BY <1>o, <1>6, <2>1, <2>2
<1>9. QED
  BY <1>2, <1>3, <1>4, <1>5, <1>7, <1>8 DEF TaskStep

\* The others that are left at a join keep their batches.
Woken(u, p) == [u EXCEPT !.woken = u.woken \/ (p /\ u.pc \in {"check", "looked", "asleep"})]

\* Waking a task leaves its batch, its place and its answer.
LEMMA OthersKeep ==
    ASSUME BatchTypeOK, NEW t \in tasks, NEW p \in BOOLEAN
    PROVE  /\ Others(t, p) = {Woken(u, p) : u \in tasks \ {t}}
           /\ \A u \in tasks : /\ Woken(u, p) \in Tasks /\ Woken(u, p).batch = u.batch
                               /\ Woken(u, p).pc = u.pc /\ Woken(u, p).answer = u.answer
                               /\ Woken(u, p).woken = (u.woken \/ (p /\ u.pc \in {"check", "looked", "asleep"}))
<1>1. Others(t, p) = {Woken(u, p) : u \in tasks \ {t}}
  BY DEF Others, Woken
<1>2. ASSUME NEW u \in tasks
      PROVE  /\ Woken(u, p) \in Tasks /\ Woken(u, p).batch = u.batch
             /\ Woken(u, p).pc = u.pc /\ Woken(u, p).answer = u.answer
             /\ Woken(u, p).woken = (u.woken \/ (p /\ u.pc \in {"check", "looked", "asleep"}))
  <2> DEFINE w == u.woken \/ (p /\ u.pc \in {"check", "looked", "asleep"})
  <2>1. u \in Tasks
    BY TaskTyped
  <2>2. w \in BOOLEAN
    BY <2>1 DEF Tasks
  <2>3. Woken(u, p) = [u EXCEPT !.woken = w]
    BY DEF Woken
  <2> HIDE DEF w
  <2>4. /\ Woken(u, p) \in Tasks /\ Woken(u, p).batch = u.batch
        /\ Woken(u, p).pc = u.pc /\ Woken(u, p).answer = u.answer /\ Woken(u, p).woken = w
    BY <2>1, <2>2, <2>3 DEF Tasks
  <2>5. QED
    BY <2>4 DEF w
<1>3. QED
  BY <1>1, <1>2

\* A task starts typed.
LEMMA NewTaskTyped ==
    ASSUME BatchTypeOK, NEW b \in Seq(Items) \ {<<>>}, NEW level \in 0 .. Ceiling
    PROVE  /\ NewTask(b, level) \in Tasks /\ NewTask(b, level).batch = b
           /\ NewTask(b, level).pc \in {"subscribe", "gate"}
           /\ NewTask(b, level).answer = NoAnswer
           /\ RepairTask(b) \in Tasks /\ RepairTask(b).batch = b
           /\ RepairTask(b).pc = "repair_gate" /\ RepairTask(b).answer = NoAnswer
<1>1. NoAnswer \in Answers
  BY DEF NoAnswer, Answers, Kinds
<1>2. ASSUME NEW l \in 0 .. Ceiling
      PROVE  /\ NewTask(b, l) \in Tasks /\ NewTask(b, l).batch = b
             /\ NewTask(b, l).pc \in {"subscribe", "gate"} /\ NewTask(b, l).answer = NoAnswer
  <2> DEFINE pc == IF setup.strict THEN "subscribe" ELSE "gate"
             m  == IF l = 0 THEN 1 ELSE l
             e  == l # 0
  <2>1. pc \in {"subscribe", "gate"} /\ m \in 1 .. Ceiling /\ e \in BOOLEAN
    BY DispatchAssumption
  <2>2. NewTask(b, l) = [batch |-> b, pc |-> pc, level |-> m, escalated |-> e,
                         woken |-> FALSE, answer |-> NoAnswer]
    BY DEF NewTask
  <2> HIDE DEF pc, m, e
  <2>3. QED
    BY <1>1, <2>1, <2>2 DEF Tasks
<1>3. 0 \in 0 .. Ceiling
  BY DispatchAssumption
<1>4. NewTask(b, 0) \in Tasks /\ NewTask(b, 0).batch = b /\ NewTask(b, 0).answer = NoAnswer
  BY <1>2, <1>3
<1>5. /\ RepairTask(b) \in Tasks /\ RepairTask(b).batch = b
      /\ RepairTask(b).pc = "repair_gate" /\ RepairTask(b).answer = NoAnswer
  BY <1>4 DEF RepairTask, Tasks
<1>6. QED
  BY <1>2, <1>5

\* A function's values over a finite set are finitely many.
LEMMA ImageFinite ==
    ASSUME NEW S, IsFiniteSet(S), NEW f
    PROVE  IsFiniteSet({f[x] : x \in S})
<1> DEFINE T == {f[x] : x \in S}
           g == [x \in S |-> f[x]]
<1>1. g \in Surjection(S, T)
  BY DEF Surjection
<1>2. QED
  BY <1>1, FS_Surjection

\* What a state's type says but of the tasks, the queue and the run's ledgers.
ShelfOK ==
    /\ RegistryTypeOK
    /\ blocks \subseteq Items /\ failures \subseteq Items \X Causes
    /\ verdict \in [Segments -> {"none", "succeeded", "needs_review"}]
    /\ repairs \in Seq(Seq(Items) \ {<<>>}) /\ retried \subseteq Seq(Items)
    /\ finalized \subseteq Segments
    /\ sent \in [Segments -> Seq({"succeeded", "needs_review"})]

EnvOK ==
    /\ signal \in {"running", "paused", "stopped"}
    /\ setup \in Setups
    /\ settings \in [revision : 0 .. MaxRevision, slots : setup.slots, limit : setup.limits]
    /\ calm \in BOOLEAN
    /\ phase \in {"fill", "join", "repair", "repair_join", "finish", "done"}
    /\ stopping \in BOOLEAN

TasksOK == IsFiniteSet(tasks) /\ \A t \in tasks : t \in Tasks /\ t.batch # <<>>
QueueOK == queue \in Seq(Seq(Items) \ {<<>>})

\* The parts of the type invariant, before a step and after it.
LEMMA TypeParts == BatchTypeOK <=> ShelfOK /\ EnvOK /\ TasksOK /\ QueueOK /\ LedgerOK
BY DEF BatchTypeOK, ShelfOK, EnvOK, TasksOK, QueueOK, LedgerOK

\* Items belong to segments of the book.
LEMMA SegmentsTyped == ASSUME NEW I \in SUBSET Items PROVE SegmentsOf(I) \subseteq Segments
BY PlanAssumption DEF SegmentsOf

\* A hand-over keeps the types of what was sent.
LEMMA HandOverTyped ==
    ASSUME ShelfOK, NEW S \in SUBSET Segments, NEW status \in {"succeeded", "needs_review"},
           HandOver(S, status)
    PROVE  /\ finalized' \subseteq Segments
           /\ sent' \in [Segments -> Seq({"succeeded", "needs_review"})]
BY DEF HandOver, ShelfOK

\* What a join leaves.
LEMMA JoinShelf ==
    ASSUME BatchTypeOK, TasksSane, NEW t \in tasks, JoinMove(t)
    PROVE  ShelfOK'
<1> USE DEF RegistryTypeOK
<1>0. ShelfOK /\ Covers(t.batch) \subseteq Items
  BY TypeParts, TaskTyped
<1>r. repairs' = repairs /\ retried' = retried /\ verdict' = verdict
  BY DEF JoinMove, Joined, JoinStopped, JoinOk, repairVars
<1>1. CASE UNCHANGED harvest
  BY <1>0, <1>r, <1>1 DEF ShelfOK, harvest
<1>2. ASSUME NEW c \in Causes, GiveUp(t.batch, c) PROVE ShelfOK'
  BY <1>0, <1>r, <1>2 DEF ShelfOK, GiveUp, Publish
<1>3. CASE JoinStopped(t)
  BY <1>0, <1>r, <1>3 DEF ShelfOK, JoinStopped, Publish
<1>4. CASE JoinOk(t)
  <2> DEFINE good  == Covers(t.batch) \ t.answer.rejected
             whole == {s \in SegmentsOf(good) : ItemsOf(s) \subseteq blocks \cup good}
  <2>1. /\ blocks' = blocks \cup good
        /\ failures' = failures \cup ((t.answer.rejected \cup t.answer.echoed) \X {"soft"})
        /\ completed' = [s \in Segments |-> IF s \in whole THEN "succeeded"
                                            ELSE IF s \in SegmentsOf(t.answer.rejected) THEN "failed"
                                            ELSE completed[s]]
        /\ HandOver(whole, "succeeded")
    BY <1>4 DEF JoinOk
  <2>2. good \subseteq Items /\ t.answer.rejected \cup t.answer.echoed \subseteq Items
    BY <1>0 DEF TasksSane, Sane
  <2>3. whole \subseteq Segments
    BY <2>2, SegmentsTyped
  <2> HIDE DEF good, whole
  <2>4. /\ finalized' \subseteq Segments
        /\ sent' \in [Segments -> Seq({"succeeded", "needs_review"})]
    BY <1>0, <2>1, <2>3, HandOverTyped
  <2>5. blocks' \subseteq Items /\ failures' \subseteq Items \X Causes
    BY <1>0, <2>1, <2>2 DEF ShelfOK, Causes
  <2>6. RegistryTypeOK'
    BY <1>0, <2>1 DEF ShelfOK
  <2>7. QED
    BY <1>0, <1>r, <2>4, <2>5, <2>6 DEF ShelfOK
<1>5. QED
  BY <1>1, <1>2, <1>3, <1>4 DEF JoinMove

\* The queue after a join, whole batches.
LEMMA JoinQueue ==
    ASSUME BatchTypeOK, NEW t \in tasks, JoinMove(t)
    PROVE  QueueOK'
<1>0. QueueOK /\ Covers(t.batch) \in SUBSET Items
  BY TypeParts, TaskTyped
<1>1. queue' = queue \/ \E P : Deals(P, Covers(t.batch)) /\ queue' = queue \o P
  BY DEF JoinMove, GiveUp, JoinStopped, JoinOk
<1>2. ASSUME NEW P, Deals(P, Covers(t.batch)), queue' = queue \o P PROVE QueueOK'
  <2>1. P \in Seq(Seq(Items) \ {<<>>})
    BY <1>0, <1>2, DealsTyped
  <2>2. QED
    BY <1>0, <1>2, <2>1, ConcatProperties DEF QueueOK
<1>3. QED
  BY <1>0, <1>1, <1>2 DEF QueueOK

\* The driver and the tasks around a join.
LEMMA JoinRest ==
    ASSUME BatchTypeOK, NEW t \in tasks, JoinMove(t)
    PROVE  /\ TasksOK' /\ EnvOK' /\ phase' = "fill" /\ UNCHANGED <<envVars, repairVars>>
           /\ stopping' = (stopping \/ signal = "stopped" \/ t.answer.kind = "stopped")
           /\ \E p \in BOOLEAN : tasks' = Others(t, p)
<1>1. \E p \in BOOLEAN : Joined(t, p)
  <2>1. JoinOk(t) => \E p \in BOOLEAN : Joined(t, p)
    <3> DEFINE p == {s \in SegmentsOf(Covers(t.batch) \ t.answer.rejected) :
                       ItemsOf(s) \subseteq blocks \cup (Covers(t.batch) \ t.answer.rejected)} # {}
                    \/ t.answer.rejected # {}
    <3>1. JoinOk(t) => Joined(t, p)
      BY DEF JoinOk
    <3>2. p \in BOOLEAN
      OBVIOUS
    <3> HIDE DEF p
    <3>3. QED
      BY <3>1, <3>2
  <2>2. QED
    BY <2>1 DEF JoinMove, JoinStopped
<1>2. PICK p \in BOOLEAN : Joined(t, p)
  BY <1>1
<1>3. /\ tasks' = Others(t, p) /\ phase' = "fill" /\ UNCHANGED <<envVars, repairVars>>
      /\ stopping' = (stopping \/ signal = "stopped" \/ t.answer.kind = "stopped")
  BY <1>2 DEF Joined
<1>4. TasksOK'
  <2>1. Others(t, p) = {Woken(u, p) : u \in tasks \ {t}}
    BY OthersKeep
  <2>2. \A u \in tasks : Woken(u, p) \in Tasks /\ Woken(u, p).batch = u.batch /\ u.batch # <<>>
    BY OthersKeep, TaskTyped
  <2>3. IsFiniteSet(tasks \ {t})
    BY TypeParts, FS_RemoveElement DEF TasksOK
  <2>4. IsFiniteSet(Others(t, p))
    <3> DEFINE f == [u \in tasks |-> Woken(u, p)]
    <3>1. Others(t, p) = {f[u] : u \in tasks \ {t}}
      BY <2>1
    <3> HIDE DEF f
    <3>2. QED
      BY <2>3, <3>1, ImageFinite
  <2>5. QED
    BY <1>3, <2>1, <2>2, <2>4 DEF TasksOK
<1>5. EnvOK'
  <2>1. EnvOK
    BY TypeParts
  <2>2. stopping' \in BOOLEAN
    BY <1>3
  <2>3. QED
    BY <1>3, <2>1, <2>2 DEF EnvOK, envVars
<1>6. QED
  BY <1>3, <1>4, <1>5

\* The parts after a step.
LEMMA TypePartsNext == ShelfOK' /\ EnvOK' /\ TasksOK' /\ QueueOK' /\ LedgerOK' => BatchTypeOK'
BY DEF BatchTypeOK, ShelfOK, EnvOK, TasksOK, QueueOK, LedgerOK

\* Filling keeps the types.
LEMMA FillTyped ==
    ASSUME BatchTypeOK, Placed, Fill \/ JoinNone
    PROVE  BatchTypeOK'
<1> USE DEF envVars, ledger, harvest, repairVars
<1>0. ShelfOK /\ EnvOK /\ TasksOK /\ QueueOK /\ LedgerOK
  BY TypeParts
<1>s. UNCHANGED <<harvest, repairVars>> => ShelfOK'
  BY <1>0 DEF ShelfOK, RegistryTypeOK
<1>e. UNCHANGED envVars /\ phase' \in {"fill", "join"} /\ stopping' \in BOOLEAN => EnvOK'
  BY <1>0 DEF EnvOK
<1>b. stopping \in BOOLEAN /\ TRUE \in BOOLEAN /\ (stopping \/ signal = "stopped") \in BOOLEAN
  BY <1>0 DEF EnvOK
<1>1. CASE FillPaused \/ FillStopped \/ FillEmpty \/ JoinNone
  <2>1. /\ UNCHANGED <<queue, tasks, sizer, ledger>>
        /\ UNCHANGED <<harvest, repairVars>> /\ UNCHANGED envVars
    BY <1>1 DEF FillPaused, FillStopped, FillEmpty, JoinNone
  <2>2. phase' \in {"fill", "join"} /\ stopping' \in BOOLEAN
    BY <1>1, <1>b DEF FillPaused, FillStopped, FillEmpty, JoinNone
  <2>3. ShelfOK' /\ EnvOK'
    BY <1>s, <1>e, <2>1, <2>2
  <2>4. TasksOK' /\ QueueOK' /\ LedgerOK'
    BY <1>0, <2>1 DEF TasksOK, QueueOK, LedgerOK
  <2>5. QED
    BY <2>3, <2>4, TypePartsNext
<1>2. CASE FillFull
  <2>1. /\ UNCHANGED <<tasks, ledger>> /\ UNCHANGED <<harvest, repairVars>> /\ UNCHANGED envVars
        /\ phase' = "join" /\ stopping' = stopping
        /\ sizer' = CurrentSizer /\ queue' = CurrentQueue
    BY <1>2 DEF FillFull
  <2>2. ShelfOK' /\ EnvOK'
    BY <1>s, <1>e, <1>b, <2>1
  <2>3. Deals(queue, Queued) /\ Queued \in SUBSET Items
    BY <1>2, QueuedTyped DEF Placed, Working, FillFull, Filling
  <2>4. /\ CurrentSizer.revision \in 0 .. MaxRevision
        /\ CurrentSizer.limit \in [Modes -> Nat \ {0}]
        /\ Deals(CurrentQueue, Queued)
    BY <2>3, CurrentHolds
  <2>5. CurrentQueue \in Seq(Seq(Items) \ {<<>>})
    BY <2>3, <2>4, DealsTyped
  <2>6. TasksOK' /\ QueueOK' /\ LedgerOK'
    BY <1>0, <2>1, <2>4, <2>5 DEF TasksOK, QueueOK, LedgerOK
  <2>7. QED
    BY <2>2, <2>6, TypePartsNext
<1>3. CASE Dispatch
  <2>1. /\ UNCHANGED tries /\ UNCHANGED <<harvest, repairVars>> /\ UNCHANGED envVars
        /\ phase' = phase /\ phase = "fill" /\ stopping' = stopping
    BY <1>3 DEF Dispatch, Filling
  <2>2. ShelfOK' /\ EnvOK'
    BY <1>s, <1>e, <1>b, <2>1
  <2>3. /\ allowance' \in [Items -> 0 .. Ceiling]
        /\ sizer'.revision \in 0 .. MaxRevision /\ sizer'.limit \in [Modes -> Nat \ {0}]
        /\ \/ tasks' = tasks /\ Deals(queue', Queued)
           \/ \E first, level :
                 /\ tasks' = tasks \cup {NewTask(first, level)} /\ level \in 0 .. Ceiling
                 /\ Lists(first, Covers(first)) /\ first # <<>> /\ Covers(first) \subseteq Queued
                 /\ Deals(queue', Queued \ Covers(first))
    BY <1>3, DispatchMoves
  <2>4. LedgerOK'
    BY <1>0, <2>1, <2>3 DEF LedgerOK
  <2>5. Queued \in SUBSET Items
    BY QueuedTyped
  <2>6. CASE tasks' = tasks /\ Deals(queue', Queued)
    <3>1. QueueOK' /\ TasksOK'
      BY <1>0, <2>5, <2>6, DealsTyped DEF QueueOK, TasksOK
    <3>2. QED
      BY <2>2, <2>4, <3>1, TypePartsNext
  <2>7. ASSUME NEW first, NEW level,
               tasks' = tasks \cup {NewTask(first, level)}, level \in 0 .. Ceiling,
               Lists(first, Covers(first)), first # <<>>, Covers(first) \subseteq Queued,
               Deals(queue', Queued \ Covers(first))
        PROVE  BatchTypeOK'
    <3>1. QueueOK'
      <4>1. Queued \ Covers(first) \in SUBSET Items
        BY <2>5
      <4>2. QED
        BY <2>7, <4>1, DealsTyped DEF QueueOK
    <3>2. first \in Seq(Items) \ {<<>>}
      <4>1. first \in Seq(Covers(first)) /\ Covers(first) \subseteq Items
        BY <2>5, <2>7 DEF Lists
      <4>2. QED
        BY <2>7, <4>1, SeqMonotonic
    <3>3. NewTask(first, level) \in Tasks /\ NewTask(first, level).batch = first
      BY <2>7, <3>2, NewTaskTyped
    <3>4. TasksOK'
      BY <1>0, <2>7, <3>3, FS_AddElement DEF TasksOK
    <3>5. QED
      BY <2>2, <2>4, <3>1, <3>4, TypePartsNext
  <2>8. QED
    BY <2>3, <2>6, <2>7
<1>4. QED
  BY <1>1, <1>2, <1>3 DEF Fill

\* So do users and tasks.
LEMMA BystandersTyped ==
    ASSUME BatchTypeOK, TasksSane, User \/ Work
    PROVE  BatchTypeOK'
<1>0. ShelfOK /\ EnvOK /\ TasksOK /\ QueueOK /\ LedgerOK
  BY TypeParts
<1>s. UNCHANGED <<harvest, repairVars>> => ShelfOK'
  BY <1>0 DEF ShelfOK, RegistryTypeOK, harvest, repairVars
<1>l. UNCHANGED <<queue, sizer, ledger>> => QueueOK' /\ LedgerOK'
  BY <1>0 DEF QueueOK, LedgerOK, ledger
<1>1. CASE Work
  <2>1. PICK t \in tasks : TaskStep(t)
    BY <1>1 DEF Work
  <2>2. PICK u \in Tasks : tasks' = (tasks \ {t}) \cup {u} /\ u.batch = t.batch
    BY <2>1, WorkMoves
  <2>3. OnlyTasks
    BY <2>1, WorkMoves
  <2>4. TasksOK'
    <3>1. IsFiniteSet((tasks \ {t}) \cup {u})
      BY <1>0, FS_RemoveElement, FS_AddElement DEF TasksOK
    <3>2. QED
      BY <1>0, <2>2, <3>1, TaskTyped DEF TasksOK
  <2>5. ShelfOK' /\ QueueOK' /\ LedgerOK'
    BY <1>s, <1>l, <2>3 DEF OnlyTasks
  <2>6. EnvOK'
    BY <1>0, <2>3 DEF EnvOK, OnlyTasks, envVars
  <2>7. QED
    BY <2>4, <2>5, <2>6, TypePartsNext
<1>2. CASE Pause \/ Resume \/ Stop
  <2>1. /\ UNCHANGED <<setup, settings, phase, stopping, queue, tasks, sizer, ledger>>
        /\ UNCHANGED <<harvest, repairVars>>
        /\ signal' \in {"running", "paused", "stopped"} /\ calm' \in BOOLEAN
    <3>1. \A to : (calm /\ to = "running") \in BOOLEAN
      OBVIOUS
    <3>2. QED
      BY <1>2, <3>1 DEF Pause, Resume, Stop, Signal
  <2>2. ShelfOK' /\ QueueOK' /\ LedgerOK'
    BY <1>s, <1>l, <2>1
  <2>3. EnvOK' /\ TasksOK'
    BY <1>0, <2>1 DEF EnvOK, TasksOK
  <2>4. QED
    BY <2>2, <2>3, TypePartsNext
<1>3. CASE Reconfigure
  <2>1. /\ UNCHANGED <<signal, setup, calm, phase, stopping, queue, tasks, sizer, ledger>>
        /\ UNCHANGED <<harvest, repairVars>>
    BY <1>3 DEF Reconfigure
  <2>2. ShelfOK' /\ QueueOK' /\ LedgerOK'
    BY <1>s, <1>l, <2>1
  <2>3. settings' \in [revision : 0 .. MaxRevision, slots : setup.slots, limit : setup.limits]
    <3>1. PICK k \in setup.slots, n \in setup.limits :
              settings' = [revision |-> settings.revision + 1, slots |-> k, limit |-> n]
      BY <1>3 DEF Reconfigure
    <3>2. settings.revision \in 0 .. MaxRevision /\ settings.revision < MaxRevision /\ MaxRevision \in Nat
      BY <1>0, <1>3, DispatchAssumption DEF EnvOK, Reconfigure
    <3>3. settings.revision + 1 \in 0 .. MaxRevision
      BY <3>2
    <3>4. QED
      BY <3>1, <3>3
  <2>4. EnvOK' /\ TasksOK'
    BY <1>0, <2>1, <2>3 DEF EnvOK, TasksOK
  <2>5. QED
    BY <2>2, <2>4, TypePartsNext
<1>4. QED
  BY <1>1, <1>2, <1>3 DEF User

\* Aggregating, repairing and reporting keep them.
LEMMA AggregateTyped ==
    ASSUME BatchTypeOK, Aggregate
    PROVE  BatchTypeOK'
<1>0. ShelfOK /\ EnvOK /\ TasksOK /\ QueueOK /\ LedgerOK
  BY TypeParts
<1> DEFINE again == {i \in Items : <<i, "soft">> \in failures}
<1>1. /\ repairs' = Chunk(InOrder(again), RepairLimit)
      /\ phase' \in {"finish", "repair"}
      /\ verdict' = [s \in Segments |-> IF Failed(s) THEN "needs_review"
                                        ELSE IF ItemsOf(s) \cap blocks # {} THEN "succeeded"
                                        ELSE "none"]
      /\ UNCHANGED <<envVars, stopping, queue, tasks, sizer, ledger, harvest, retried>>
  BY DEF Aggregate
<1>2. again \in SUBSET Items /\ again \in SUBSET Int /\ IsFiniteSet(again)
  <2>1. again \in SUBSET Items
    OBVIOUS
  <2> HIDE DEF again
  <2>2. IsFiniteSet(again)
    BY <2>1, ItemsFinite, FS_Subset
  <2>3. Items \subseteq Int
    BY ItemsFinite
  <2>4. QED
    BY <2>1, <2>2, <2>3
<1> HIDE DEF again
<1>3. Deals(Chunk(InOrder(again), RepairLimit), again)
  BY <1>2, InOrderHolds, ChunkHolds, DispatchAssumption
<1>4. repairs' \in Seq(Seq(Items) \ {<<>>})
  BY <1>1, <1>2, <1>3, DealsTyped
<1>5. verdict' \in [Segments -> {"none", "succeeded", "needs_review"}]
  BY <1>1
<1>6. ShelfOK'
  BY <1>0, <1>1, <1>4, <1>5 DEF ShelfOK, RegistryTypeOK, harvest
<1>7. EnvOK' /\ TasksOK' /\ QueueOK' /\ LedgerOK'
  BY <1>0, <1>1 DEF EnvOK, TasksOK, QueueOK, LedgerOK, envVars, ledger
<1>8. QED
  BY <1>6, <1>7, TypePartsNext

\* So do the repairs, to their dispatch and their end, and the report.
LEMMA RepairTyped ==
    ASSUME BatchTypeOK, Repair
    PROVE  BatchTypeOK'
<1>0. ShelfOK /\ EnvOK /\ TasksOK /\ QueueOK /\ LedgerOK
  BY TypeParts
<1>1. UNCHANGED <<envVars, stopping, queue, sizer, ledger>> /\ phase' \in {"repair_join", "finish", "done"}
  BY DEF Repair, RepairStopped, RepairPaused, RepairDispatch, RepairEnds, Finish
<1>2. EnvOK' /\ QueueOK' /\ LedgerOK'
  BY <1>0, <1>1 DEF EnvOK, QueueOK, LedgerOK, envVars, ledger
<1>3. CASE RepairStopped \/ RepairPaused \/ RepairEnds
  <2>1. UNCHANGED <<harvest, repairVars>> /\ tasks' \subseteq tasks
    BY <1>3 DEF RepairStopped, RepairPaused, RepairEnds
  <2>2. ShelfOK' /\ TasksOK'
    BY <1>0, <2>1, FS_Subset DEF ShelfOK, RegistryTypeOK, TasksOK, harvest, repairVars
  <2>3. QED
    BY <1>2, <2>2, TypePartsNext
<1>4. CASE Finish
  <2>1. UNCHANGED <<tasks, blocks, failures, completed, finalized, verdict, repairs, retried>>
    BY <1>4 DEF Finish, repairVars
  <2>2. \A s \in Segments : /\ sent[s] \in Seq({"succeeded", "needs_review"})
                            /\ verdict[s] # "none" => Report(s) \in {"succeeded", "needs_review"}
    BY <1>0 DEF ShelfOK, Report
  <2>3. sent' = [s \in Segments |-> IF verdict[s] # "none" /\ s \notin finalized
                                    THEN Append(sent[s], Report(s)) ELSE sent[s]]
    BY <1>4 DEF Finish
  <2>4. sent' \in [Segments -> Seq({"succeeded", "needs_review"})]
    BY <2>2, <2>3
  <2>5. ShelfOK' /\ TasksOK'
    BY <1>0, <2>1, <2>4 DEF ShelfOK, RegistryTypeOK, TasksOK
  <2>6. QED
    BY <1>2, <2>5, TypePartsNext
<1>5. CASE RepairDispatch
  <2> DEFINE room == settings.slots - Cardinality(tasks)
             n    == IF room < 0 THEN 0 ELSE IF room < Len(repairs) THEN room ELSE Len(repairs)
  <2>1. /\ tasks' = tasks \cup {RepairTask(repairs[k]) : k \in 1 .. n}
        /\ repairs' = SubSeq(repairs, n + 1, Len(repairs))
        /\ UNCHANGED <<harvest, verdict, retried>>
    BY <1>5 DEF RepairDispatch
  <2>2. repairs \in Seq(Seq(Items) \ {<<>>}) /\ Len(repairs) \in Nat
    BY <1>0 DEF ShelfOK
  <2>3. room \in Int
    BY <1>0, SetupTyped, FS_CardinalityType DEF TasksOK
  <2> HIDE DEF room
  <2>4. n \in Nat /\ n <= Len(repairs)
    BY <2>2, <2>3
  <2> HIDE DEF n
  <2>5. TasksOK'
    <3>1. \A k \in 1 .. n : repairs[k] \in Seq(Items) \ {<<>>}
      BY <2>2, <2>4
    <3>2. 0 \in 0 .. Ceiling
      BY DispatchAssumption
    <3>3. \A b \in Seq(Items) \ {<<>>} : RepairTask(b) \in Tasks /\ RepairTask(b).batch = b
      BY <3>2, NewTaskTyped
    <3>4. IsFiniteSet({RepairTask(repairs[k]) : k \in 1 .. n})
      <4> DEFINE f == [k \in 1 .. n |-> RepairTask(repairs[k])]
      <4>1. {RepairTask(repairs[k]) : k \in 1 .. n} = {f[k] : k \in 1 .. n}
        OBVIOUS
      <4>2. IsFiniteSet(1 .. n)
        BY <2>4, FS_Interval
      <4> HIDE DEF f
      <4>3. QED
        BY <4>1, <4>2, ImageFinite
    <3>5. IsFiniteSet(tasks')
      BY <1>0, <2>1, <3>4, FS_Union DEF TasksOK
    <3>6. QED
      BY <1>0, <2>1, <3>1, <3>3, <3>5 DEF TasksOK
  <2>6. ShelfOK'
    <3>1. repairs' \in Seq(Seq(Items) \ {<<>>})
      <4>1. n + 1 \in Nat /\ Len(repairs) \in Nat /\ \A k \in n + 1 .. Len(repairs) : repairs[k] \in Seq(Items) \ {<<>>}
        BY <2>2, <2>4
      <4>2. QED
        BY <2>1, <2>2, <2>4, <4>1, SubSeqProperties
    <3>2. QED
      BY <1>0, <2>1, <3>1 DEF ShelfOK, RegistryTypeOK, harvest
  <2>7. QED
    BY <1>2, <2>5, <2>6, TypePartsNext
<1>6. QED
  BY <1>3, <1>4, <1>5 DEF Repair

\* A repair joined keeps the types.
LEMMA RepairJoinTyped ==
    ASSUME BatchTypeOK, TasksSane, NEW t \in tasks, RepairJoin(t)
    PROVE  BatchTypeOK'
<1>0. ShelfOK /\ EnvOK /\ TasksOK /\ QueueOK /\ LedgerOK
  BY TypeParts
<1>1. RepairJoined(t)
  BY DEF RepairJoin, RepairOk, RepairAgain, RepairFails
<1>2. EnvOK' /\ QueueOK' /\ LedgerOK'
  BY <1>0, <1>1 DEF EnvOK, QueueOK, LedgerOK, RepairJoined, envVars, ledger
<1>3. TasksOK'
  BY <1>0, <1>1, FS_RemoveElement DEF TasksOK, RepairJoined
<1>4. RegistryTypeOK' /\ failures' = failures
  BY <1>0, <1>1 DEF RepairJoined, ShelfOK, RegistryTypeOK
<1>5. CASE RepairOk(t)
  <2> DEFINE good  == Covers(t.batch) \ t.answer.rejected
             whole == {s \in SegmentsOf(good) : ItemsOf(s) \subseteq blocks \cup good} \ finalized
  <2>1. /\ blocks' = blocks \cup good /\ HandOver(whole, "succeeded")
        /\ verdict' = [s \in Segments |-> IF s \in SegmentsOf(good) THEN "succeeded" ELSE verdict[s]]
        /\ UNCHANGED <<repairs, retried>>
    BY <1>5 DEF RepairOk
  <2>2. good \in SUBSET Items
    BY TaskTyped
  <2>3. whole \in SUBSET Segments
    BY <2>2, SegmentsTyped
  <2> HIDE DEF good, whole
  <2>4. /\ finalized' \subseteq Segments
        /\ sent' \in [Segments -> Seq({"succeeded", "needs_review"})]
    BY <1>0, <2>1, <2>3, HandOverTyped
  <2>5. verdict' \in [Segments -> {"none", "succeeded", "needs_review"}]
    BY <1>0, <2>1 DEF ShelfOK
  <2>6. blocks' \subseteq Items
    BY <1>0, <2>1, <2>2 DEF ShelfOK
  <2>7. ShelfOK'
    BY <1>0, <1>4, <2>1, <2>4, <2>5, <2>6 DEF ShelfOK
  <2>8. QED
    BY <1>2, <1>3, <2>7, TypePartsNext
<1>6. CASE RepairAgain(t)
  <2>1. /\ repairs' = Append(repairs, t.batch) /\ retried' = retried \cup {t.batch}
        /\ UNCHANGED <<verdict, blocks, finalized, sent>>
    BY <1>6 DEF RepairAgain
  <2>2. t.batch \in Seq(Items) \ {<<>>}
    BY TaskTyped
  <2>3. repairs' \in Seq(Seq(Items) \ {<<>>}) /\ retried' \subseteq Seq(Items)
    BY <1>0, <2>1, <2>2 DEF ShelfOK
  <2>4. ShelfOK'
    BY <1>0, <1>4, <2>1, <2>3 DEF ShelfOK
  <2>5. QED
    BY <1>2, <1>3, <2>4, TypePartsNext
<1>7. CASE RepairFails(t)
  <2>1. ShelfOK'
    BY <1>0, <1>4, <1>7 DEF ShelfOK, RepairFails, repairVars
  <2>2. QED
    BY <1>2, <1>3, <2>1, TypePartsNext
<1>8. QED
  BY <1>5, <1>6, <1>7 DEF RepairJoin

\* Every step keeps the types.
LEMMA TypeStep ==
    ASSUME BatchTypeOK, Placed, TasksSane, [BatchNext]_batchVars
    PROVE  BatchTypeOK'
<1>1. CASE UNCHANGED batchVars
  BY <1>1 DEF batchVars, BatchTypeOK, RegistryTypeOK
<1>2. CASE User \/ Work
  BY <1>2, BystandersTyped
<1>3. ASSUME NEW t \in tasks, Join(t) PROVE BatchTypeOK'
  <2>1. JoinMove(t)
    BY <1>3, JoinMoves
  <2>2. LedgerOK'
    BY <1>3, JoinLedger
  <2>3. ShelfOK'
    BY <2>1, JoinShelf
  <2>4. QueueOK'
    BY <2>1, JoinQueue
  <2>5. TasksOK' /\ EnvOK'
    BY <2>1, JoinRest
  <2>6. QED
    BY <2>2, <2>3, <2>4, <2>5, TypePartsNext
<1>4. CASE Driver
  BY <1>3, <1>4, FillTyped, AggregateTyped, RepairTyped, RepairJoinTyped DEF Driver
<1>5. QED
  BY <1>1, <1>2, <1>4 DEF BatchNext

\* A run starts typed, with every item queued.
LEMMA InitTyped ==
    ASSUME BatchInit
    PROVE  BatchTypeOK /\ Deals(queue, Items)
<1>1. PICK k \in setup.slots, n \in setup.limits :
          /\ settings = [revision |-> 0, slots |-> k, limit |-> n]
          /\ sizer = [revision |-> 0, limit |-> [m \in Modes |-> n]]
          /\ queue = Plan(n)
  BY DEF BatchInit
<1>2. setup \in Setups /\ setup.slots \subseteq Nat \ {0} /\ setup.limits \subseteq Nat \ {0}
      /\ 0 \in 0 .. MaxRevision /\ 0 \in 0 .. Ceiling /\ n \in Nat \ {0}
  BY DispatchAssumption DEF BatchInit
<1>3. Deals(queue, Items)
  BY <1>1, <1>2, PlanHolds
<1>4. QueueOK
  BY <1>3, DealsTyped DEF QueueOK
<1>5. EnvOK
  BY <1>1, <1>2 DEF EnvOK, BatchInit
<1>6. LedgerOK
  BY <1>1, <1>2 DEF LedgerOK, BatchInit
<1>7. TasksOK
  BY FS_EmptySet DEF TasksOK, BatchInit
<1>8. ShelfOK
  BY DEF ShelfOK, BatchInit, RegistryInit, RegistryTypeOK
<1>9. QED
  BY <1>3, <1>4, <1>5, <1>6, <1>7, <1>8, TypeParts

\* What is queued and in tasks are items of the book.
LEMMA InTasksTyped == ASSUME BatchTypeOK PROVE InTasks \subseteq Items
BY TaskTyped DEF InTasks

\* The others at a join: what the joined task held is nobody else's.
LEMMA OthersPlaced ==
    ASSUME BatchTypeOK, Placed, Working, NEW t \in tasks, NEW p \in BOOLEAN, tasks' = Others(t, p)
    PROVE  /\ InTasks = InTasks' \cup Covers(t.batch)
           /\ \A u \in tasks' : /\ Lists(u.batch, Covers(u.batch))
                                /\ Covers(u.batch) \cap (Queued \cup Settled \cup Covers(t.batch)) = {}
           /\ \A u, v \in tasks' : u # v => Covers(u.batch) \cap Covers(v.batch) = {}
<1>0. /\ tasks' = {Woken(u, p) : u \in tasks \ {t}}
      /\ \A u \in tasks : Woken(u, p).batch = u.batch
  BY OthersKeep
<1>1. /\ \A u \in tasks : Lists(u.batch, Covers(u.batch)) /\ Covers(u.batch) \cap (Queued \cup Settled) = {}
      /\ \A u, v \in tasks : u # v => Covers(u.batch) \cap Covers(v.batch) = {}
  BY DEF Placed
<1>2. \A u \in tasks' : \E v \in tasks \ {t} : u = Woken(v, p) /\ u.batch = v.batch
  BY <1>0
<1>3. InTasks = InTasks' \cup Covers(t.batch)
  <2>1. \A i : i \in InTasks' => i \in InTasks
    BY <1>2 DEF InTasks
  <2>2. ASSUME NEW i \in InTasks, i \notin Covers(t.batch) PROVE i \in InTasks'
    <3>1. PICK v \in tasks : i \in Covers(v.batch)
      BY <2>2 DEF InTasks
    <3>2. v # t
      BY <2>2, <3>1
    <3>3. Woken(v, p) \in tasks' /\ i \in Covers(Woken(v, p).batch)
      BY <1>0, <3>1, <3>2
    <3>4. QED
      BY <3>3 DEF InTasks
  <2>3. QED
    BY <2>1, <2>2 DEF InTasks
<1>4. \A u \in tasks' : /\ Lists(u.batch, Covers(u.batch))
                        /\ Covers(u.batch) \cap (Queued \cup Settled \cup Covers(t.batch)) = {}
  BY <1>1, <1>2
<1>5. \A u, v \in tasks' : u # v => Covers(u.batch) \cap Covers(v.batch) = {}
  BY <1>1, <1>2
<1>6. QED
  BY <1>3, <1>4, <1>5

\* A join places what the task held: in the queue, or settled, unless it was stopped.
LEMMA JoinPlacedBy ==
    ASSUME BatchTypeOK, Placed, Working, NEW t \in tasks, NEW p \in BOOLEAN, tasks' = Others(t, p),
           NEW A, NEW B, Deals(queue', Queued \cup A), Settled' = Settled \cup B,
           A \cap B = {}, A \cup B \subseteq Covers(t.batch),
           stopping' \/ (~stopping /\ A \cup B = Covers(t.batch))
    PROVE  Placed'
<1>1. Queued' = Queued \cup A
  BY DealsCovers DEF Queued
<1>2. /\ InTasks = InTasks' \cup Covers(t.batch)
      /\ \A u \in tasks' : /\ Lists(u.batch, Covers(u.batch))
                           /\ Covers(u.batch) \cap (Queued \cup Settled \cup Covers(t.batch)) = {}
      /\ \A u, v \in tasks' : u # v => Covers(u.batch) \cap Covers(v.batch) = {}
  BY OthersPlaced
<1>3. Covers(t.batch) \cap (Queued \cup Settled) = {} /\ Queued \cap Settled = {}
      /\ (~stopping => Items \subseteq Queued \cup InTasks \cup Settled)
  BY DEF Placed
<1>4. \A u \in tasks' : Covers(u.batch) \cap (Queued' \cup Settled') = {}
  BY <1>1, <1>2
<1>5. Queued' \cap Settled' = {}
  BY <1>1, <1>3
<1>6. ~stopping' => Items \subseteq Queued' \cup InTasks' \cup Settled'
  BY <1>1, <1>2, <1>3
<1>7. QED
  BY <1>1, <1>2, <1>4, <1>5, <1>6 DEF Placed

\* So every join keeps each item in one place.
LEMMA JoinPlaced ==
    ASSUME BatchTypeOK, Placed, TasksSane, NEW t \in tasks, Join(t)
    PROVE  Placed'
<1>0. JoinMove(t) /\ Joinable(t)
  BY JoinMoves
<1>w. Working
  BY <1>0 DEF Joinable, Working
<1>1. PICK p \in BOOLEAN : tasks' = Others(t, p)
  BY <1>0, JoinRest
<1>2. stopping' = (stopping \/ signal = "stopped" \/ t.answer.kind = "stopped") /\ stopping \in BOOLEAN
  BY <1>0, JoinRest DEF BatchTypeOK
<1>3. Deals(queue, Queued) /\ Covers(t.batch) \cap (Queued \cup Settled) = {}
  BY <1>w DEF Placed
<1>4. ASSUME NEW P, Deals(P, Covers(t.batch)), queue' = queue \o P, UNCHANGED harvest
      PROVE  Placed'
  <2>1. Deals(queue', Queued \cup Covers(t.batch))
    BY <1>3, <1>4, ConcatHolds
  <2>2. Settled' = Settled \cup {}
    BY <1>4 DEF Settled, harvest
  <2>3. /\ Covers(t.batch) \cap {} = {} /\ Covers(t.batch) \cup {} = Covers(t.batch)
        /\ stopping' \/ ~stopping
    BY <1>2
  <2>4. QED
    BY <1>1, <1>w, <2>1, <2>2, <2>3, JoinPlacedBy
<1>5. ASSUME queue' = queue, Settled' = Settled \cup Covers(t.batch) PROVE Placed'
  <2>1. Deals(queue', Queued \cup {})
    BY <1>3, <1>5
  <2>2. /\ {} \cap Covers(t.batch) = {} /\ {} \cup Covers(t.batch) = Covers(t.batch)
        /\ stopping' \/ ~stopping
    BY <1>2
  <2>3. QED
    BY <1>1, <1>5, <1>w, <2>1, <2>2, JoinPlacedBy
<1>6. ASSUME NEW c \in Causes, GiveUp(t.batch, c) PROVE Placed'
  <2>1. {f[1] : f \in failures'} = {f[1] : f \in failures} \cup Covers(t.batch)
    <3>1. failures' = failures \cup (Covers(t.batch) \X {c})
      BY <1>6 DEF GiveUp
    <3>2. \A i \in Covers(t.batch) : <<i, c>> \in failures' /\ <<i, c>>[1] = i
      BY <3>1
    <3>3. \A f \in failures' : f \in failures \/ f[1] \in Covers(t.batch)
      BY <3>1
    <3>4. failures \subseteq failures'
      BY <3>1
    <3>5. QED
      BY <3>2, <3>3, <3>4
  <2>2. queue' = queue /\ blocks' = blocks
    BY <1>6 DEF GiveUp
  <2>3. QED
    BY <1>5, <2>1, <2>2 DEF Settled
<1>7. CASE JoinStopped(t)
  <2>1. queue' = queue /\ blocks' = blocks /\ failures' = failures /\ t.answer.kind = "stopped"
    BY <1>7 DEF JoinStopped, Ended
  <2>2. Deals(queue', Queued \cup {}) /\ Settled' = Settled \cup {}
    BY <1>3, <2>1 DEF Settled
  <2>3. {} \cap {} = {} /\ {} \cup {} \subseteq Covers(t.batch) /\ stopping'
    BY <1>2, <2>1
  <2>4. QED
    BY <1>1, <1>w, <2>2, <2>3, JoinPlacedBy
<1>8. CASE JoinOk(t)
  <2> DEFINE R == t.answer.rejected
             E == t.answer.echoed
  <2>1. /\ queue' = queue /\ blocks' = blocks \cup (Covers(t.batch) \ R)
        /\ failures' = failures \cup ((R \cup E) \X {"soft"})
    BY <1>8 DEF JoinOk
  <2>2. R \cup E \subseteq Covers(t.batch)
    BY DEF TasksSane, Sane
  <2> HIDE DEF R, E
  <2>3. {f[1] : f \in failures'} = {f[1] : f \in failures} \cup R \cup E
    <3>1. \A i \in R \cup E : <<i, "soft">> \in failures' /\ <<i, "soft">>[1] = i
      BY <2>1
    <3>2. \A f \in failures' : f \in failures \/ f[1] \in R \cup E
      BY <2>1
    <3>3. failures \subseteq failures'
      BY <2>1
    <3>4. QED
      BY <3>1, <3>2, <3>3
  <2>4. Settled' = Settled \cup Covers(t.batch)
    BY <2>1, <2>2, <2>3 DEF Settled
  <2>5. QED
    BY <1>5, <2>1, <2>4
<1>9. QED
  BY <1>0, <1>4, <1>6, <1>7, <1>8 DEF JoinMove

\* Filling moves items from the queue to a task at most.
LEMMA FillPlaced ==
    ASSUME BatchTypeOK, Placed, Fill \/ JoinNone
    PROVE  Placed'
<1>f. Working /\ UNCHANGED <<blocks, failures>>
  <2>1. CASE Fill
    BY <2>1 DEF Fill, FillPaused, FillStopped, FillFull, FillEmpty, Dispatch, Filling, Working, harvest
  <2>2. CASE JoinNone
    BY <2>2 DEF JoinNone, Working, harvest
  <2>3. QED
    BY <2>1, <2>2
<1>0. Working /\ UNCHANGED <<blocks, failures>> /\ Settled' = Settled
  BY <1>f DEF Settled
<1>1. ~stopping' => ~stopping
  BY DEF Fill, FillPaused, FillStopped, FillFull, FillEmpty, Dispatch, JoinNone
<1>2. ASSUME tasks' = tasks, Deals(queue', Queued) PROVE Placed'
  <2>1. Queued' = Queued
    BY <1>2, DealsCovers DEF Queued
  <2>2. InTasks' = InTasks
    BY <1>2 DEF InTasks
  <2>3. QED
    BY <1>0, <1>1, <1>2, <2>1, <2>2 DEF Placed
<1>3. CASE FillPaused \/ FillStopped \/ FillEmpty \/ JoinNone
  <2>1. queue' = queue /\ tasks' = tasks
    BY <1>3 DEF FillPaused, FillStopped, FillEmpty, JoinNone
  <2>2. QED
    BY <1>0, <1>2, <2>1 DEF Placed
<1>4. CASE FillFull
  <2>1. queue' = CurrentQueue /\ tasks' = tasks
    BY <1>4 DEF FillFull
  <2>2. Deals(CurrentQueue, Queued)
    BY <1>0, QueuedTyped, CurrentHolds DEF Placed
  <2>3. QED
    BY <1>2, <2>1, <2>2
<1>5. CASE Dispatch
  <2>1. \/ tasks' = tasks /\ Deals(queue', Queued)
        \/ \E first, level :
              /\ tasks' = tasks \cup {NewTask(first, level)} /\ level \in 0 .. Ceiling
              /\ Lists(first, Covers(first)) /\ first # <<>> /\ Covers(first) \subseteq Queued
              /\ Deals(queue', Queued \ Covers(first))
    BY <1>5, DispatchMoves
  <2>2. ASSUME NEW first, NEW level,
               tasks' = tasks \cup {NewTask(first, level)}, 
               Lists(first, Covers(first)), Covers(first) \subseteq Queued,
               Deals(queue', Queued \ Covers(first))
        PROVE  Placed'
    <3>1. Queued' = Queued \ Covers(first)
      <4> DEFINE R == Queued \ Covers(first)
      <4>1. Deals(queue', R)
        BY <2>2
      <4> HIDE DEF R
      <4>2. Queued' = R
        BY <4>1, DealsCovers DEF Queued
      <4>3. QED
        BY <4>2 DEF R
    <3>2. NewTask(first, level).batch = first
      BY DEF NewTask
    <3>3. InTasks' = InTasks \cup Covers(first)
      BY <2>2, <3>2 DEF InTasks
    <3>4. /\ Queued \cap Settled = {}
          /\ \A t \in tasks : /\ Lists(t.batch, Covers(t.batch))
                              /\ Covers(t.batch) \cap (Queued \cup Settled) = {}
          /\ \A t, u \in tasks : t # u => Covers(t.batch) \cap Covers(u.batch) = {}
          /\ ~stopping => Items \subseteq Queued \cup InTasks \cup Settled
      BY <1>0 DEF Placed
    <3>5. stopping' = stopping
      BY <1>5, Zenon DEF Dispatch
    <3> DEFINE new == NewTask(first, level)
    <3>6. tasks' = tasks \cup {new} /\ new.batch = first
      BY <2>2, <3>2
    <3> HIDE DEF new
    <3>7. \A t \in tasks' : /\ Lists(t.batch, Covers(t.batch))
                            /\ Covers(t.batch) \cap (Queued' \cup Settled') = {}
      BY <1>0, <2>2, <3>1, <3>4, <3>6
    <3>8. \A t, u \in tasks' : t # u => Covers(t.batch) \cap Covers(u.batch) = {}
      BY <2>2, <3>4, <3>6
    <3>9. ~stopping' => Items \subseteq Queued' \cup InTasks' \cup Settled'
      BY <1>0, <3>1, <3>3, <3>4, <3>5
    <3>10. QED
      BY <1>0, <2>2, <3>1, <3>4, <3>7, <3>8, <3>9 DEF Placed
  <2>3. QED
    BY <1>2, <2>1, <2>2
<1>6. QED
  BY <1>3, <1>4, <1>5 DEF Fill

\* Every step keeps each item in one place.
LEMMA PlacedStep ==
    ASSUME BatchTypeOK, Placed, TasksSane, [BatchNext]_batchVars
    PROVE  Placed'
<1>0. ASSUME UNCHANGED <<phase, stopping, queue, tasks, blocks, failures>> PROVE Placed'
  BY <1>0 DEF Placed, Working, Queued, InTasks, Settled
<1>1. CASE UNCHANGED batchVars
  BY <1>0, <1>1 DEF batchVars
<1>2. CASE User
  BY <1>0, <1>2 DEF User, Pause, Resume, Stop, Signal, Reconfigure, harvest
<1>3. CASE Work
  <2>1. PICK t \in tasks : TaskStep(t)
    BY <1>3 DEF Work
  <2>2. PICK u \in Tasks : tasks' = (tasks \ {t}) \cup {u} /\ u.batch = t.batch
    BY <2>1, WorkMoves
  <2>3. UNCHANGED <<phase, stopping, queue, blocks, failures>>
    BY <2>1, WorkMoves DEF OnlyTasks, harvest
  <2>4. Queued' = Queued /\ Settled' = Settled /\ InTasks' = InTasks
    BY <2>2, <2>3 DEF Queued, Settled, InTasks
  <2>5. \A v \in tasks' : \E w \in tasks : v.batch = w.batch /\ (v = u => w = t) /\ (v # u => w = v)
    BY <2>2
  <2>6. \A v, w \in tasks' : v # w /\ v # u /\ w # u => v \in tasks /\ w \in tasks
    BY <2>2
  <2>7. \A v \in tasks' : v # u => v \in tasks /\ v # t
    BY <2>2
  <2>8. Working => /\ Deals(queue, Queued)
                   /\ \A v \in tasks : /\ Lists(v.batch, Covers(v.batch))
                                       /\ Covers(v.batch) \cap (Queued \cup Settled) = {}
                   /\ \A v, w \in tasks : v # w => Covers(v.batch) \cap Covers(w.batch) = {}
                   /\ Queued \cap Settled = {}
                   /\ ~stopping => Items \subseteq Queued \cup InTasks \cup Settled
    BY DEF Placed
  <2>9. Working => \A v \in tasks' : /\ Lists(v.batch, Covers(v.batch))
                                     /\ Covers(v.batch) \cap (Queued \cup Settled) = {}
    BY <2>5, <2>8
  <2>10. Working => \A v, w \in tasks' : v # w => Covers(v.batch) \cap Covers(w.batch) = {}
    BY <2>2, <2>7, <2>8
  <2>11. QED
    BY <2>3, <2>4, <2>8, <2>9, <2>10 DEF Placed, Working
<1>4. CASE Fill \/ JoinNone
  BY <1>4, FillPlaced
<1>5. ASSUME NEW t \in tasks, Join(t) PROVE Placed'
  BY <1>5, JoinPlaced
<1>6. ASSUME phase' \notin {"fill", "join"} PROVE Placed'
  BY <1>6 DEF Placed, Working
<1>7. CASE Aggregate \/ Repair \/ \E t \in tasks : RepairJoin(t)
  BY <1>6, <1>7 DEF Aggregate, Repair, RepairStopped, RepairPaused, RepairDispatch, RepairEnds, Finish,
                    RepairJoin, RepairJoined, RepairOk, RepairAgain, RepairFails
<1>8. QED
  BY <1>1, <1>2, <1>3, <1>4, <1>5, <1>7 DEF BatchNext, Driver

\* The driver stops dispatching for a stop only, and a run left alone runs.
Stops ==
    /\ stopping => signal = "stopped"
    /\ calm => signal = "running"

\* A publication never forgets one.
Published == \A s \in Segments : completed[s] # "none" => completed'[s] # "none"

\* To publish segments forgets none published before.
LEMMA PublishKeeps ==
    ASSUME RegistryTypeOK, NEW S, NEW how \in {"succeeded", "failed"}, Publish(S, how)
    PROVE  Published /\ \A s \in S \cap Segments : completed'[s] # "none"
BY DEF Publish, Published, RegistryTypeOK

\* What a join publishes, and that it wakes whoever may wait for it.
LEMMA JoinPublishes ==
    ASSUME BatchTypeOK, TasksSane, NEW t \in tasks, JoinMove(t)
    PROVE  /\ Published
           /\ UNCHANGED completed \/ tasks' = Others(t, TRUE)
           /\ \/ UNCHANGED <<completed, blocks>> /\ \E P : Deals(P, Covers(t.batch)) /\ queue' = queue \o P
              \/ blocks' = blocks /\ \A i \in Covers(t.batch) : completed'[SegOf[i]] # "none"
              \/ /\ JoinOk(t)
                 /\ blocks' = blocks \cup (Covers(t.batch) \ t.answer.rejected)
                 /\ \A i \in t.answer.rejected : completed'[SegOf[i]] # "none"
                 /\ \A i \in Covers(t.batch) \ t.answer.rejected :
                        ItemsOf(SegOf[i]) \subseteq blocks' => completed'[SegOf[i]] # "none"
<1>0. RegistryTypeOK /\ Covers(t.batch) \subseteq Items
  BY TaskTyped DEF BatchTypeOK
<1>s. \A i \in Covers(t.batch) : SegOf[i] \in SegmentsOf(Covers(t.batch)) \cap Segments
  BY <1>0, PlanAssumption DEF SegmentsOf
<1>1. ASSUME Publish(SegmentsOf(Covers(t.batch)), "failed")
      PROVE  Published /\ \A i \in Covers(t.batch) : completed'[SegOf[i]] # "none"
  BY <1>0, <1>1, <1>s, PublishKeeps
<1>2. CASE Joined(t, FALSE) /\ UNCHANGED harvest
           /\ \E P : Deals(P, Covers(t.batch)) /\ queue' = queue \o P
  BY <1>2 DEF harvest, Published
<1>3. ASSUME Joined(t, TRUE), NEW c \in Causes, GiveUp(t.batch, c)
      PROVE  /\ Published /\ tasks' = Others(t, TRUE) /\ blocks' = blocks
             /\ \A i \in Covers(t.batch) : completed'[SegOf[i]] # "none"
  BY <1>1, <1>3 DEF Joined, GiveUp
<1>4. ASSUME JoinStopped(t)
      PROVE  /\ Published /\ tasks' = Others(t, TRUE) /\ blocks' = blocks
             /\ \A i \in Covers(t.batch) : completed'[SegOf[i]] # "none"
  BY <1>1, <1>4 DEF Joined, JoinStopped
<1>5. CASE JoinOk(t)
  <2> DEFINE good  == Covers(t.batch) \ t.answer.rejected
             whole == {s \in SegmentsOf(good) : ItemsOf(s) \subseteq blocks \cup good}
             R     == t.answer.rejected
  <2>1. /\ blocks' = blocks \cup good
        /\ completed' = [s \in Segments |-> IF s \in whole THEN "succeeded"
                                            ELSE IF s \in SegmentsOf(R) THEN "failed"
                                            ELSE completed[s]]
        /\ Joined(t, whole # {} \/ R # {})
    BY <1>5 DEF JoinOk
  <2>2. R \subseteq Covers(t.batch)
    BY DEF TasksSane, Sane
  <2>3. \A i \in R : SegOf[i] \in SegmentsOf(R) \cap Segments
    BY <1>s, <2>2 DEF SegmentsOf
  <2>4. \A i \in good : SegOf[i] \in SegmentsOf(good) \cap Segments
    BY <1>s DEF SegmentsOf
  <2>5. \A i \in good : ItemsOf(SegOf[i]) \subseteq blocks \cup good => SegOf[i] \in whole
    BY <2>4
  <2>6. whole = {} /\ R = {} => completed' = completed
    <3>1. SegmentsOf({}) = {}
      BY DEF SegmentsOf
    <3>2. completed = [s \in Segments |-> completed[s]]
      BY <1>0 DEF RegistryTypeOK
    <3> HIDE DEF whole, R
    <3>3. QED
      BY <2>1, <3>1, <3>2
  <2>7. ~(whole = {} /\ R = {}) => tasks' = Others(t, TRUE)
    <3>1. ~(whole = {} /\ R = {}) => (whole # {} \/ R # {}) = TRUE
      OBVIOUS
    <3> HIDE DEF whole, R
    <3>2. QED
      BY <2>1, <3>1 DEF Joined
  <2> HIDE DEF good, whole, R
  <2>8. Published
    BY <2>1 DEF Published
  <2>9. \A i \in R : completed'[SegOf[i]] # "none"
    BY <2>1, <2>3
  <2>10. \A i \in good : ItemsOf(SegOf[i]) \subseteq blocks' => completed'[SegOf[i]] # "none"
    BY <2>1, <2>4, <2>5
  <2>11. QED
    BY <1>5, <2>1, <2>6, <2>7, <2>8, <2>9, <2>10 DEF good, R
<1>6. QED
  BY <1>2, <1>3, <1>4, <1>5 DEF JoinMove

\* The steps that are no join publish nothing.
LEMMA OthersPublishNothing ==
    ASSUME [BatchNext]_batchVars
    PROVE  UNCHANGED completed \/ \E t \in tasks : Join(t)
<1>1. CASE Work
  BY <1>1, WorkFrame DEF OnlyTasks, harvest
<1>2. CASE User \/ UNCHANGED batchVars
  BY <1>2 DEF User, Pause, Resume, Stop, Signal, Reconfigure, batchVars, harvest
<1>3. CASE Fill \/ JoinNone \/ Aggregate
  BY <1>3 DEF Fill, FillPaused, FillStopped, FillFull, FillEmpty, Dispatch, JoinNone, Aggregate, harvest
<1>4. CASE Repair \/ \E t \in tasks : RepairJoin(t)
  BY <1>4 DEF Repair, RepairStopped, RepairPaused, RepairDispatch, RepairEnds, Finish,
              RepairJoin, RepairJoined, RepairOk, RepairAgain, RepairFails, harvest
<1>5. QED
  BY <1>1, <1>2, <1>3, <1>4 DEF BatchNext, Driver

\* A stop is final, and the tasks that a step leaves alone stay sane.
LEMMA SaneStays ==
    ASSUME NEW t, Sane(t), NEW u,
           u.batch = t.batch, u.answer = t.answer, u.pc = t.pc,
           signal = "stopped" => signal' = "stopped",
           \/ UNCHANGED completed /\ (t.woken => u.woken)
           \/ u.pc \in {"looked", "asleep"} => u.woken
    PROVE  Sane(u)'
<1>1. UNCHANGED completed => (ContextReady(t.batch)' <=> ContextReady(t.batch))
  BY DEF ContextReady
<1>2. QED
  BY <1>1 DEF Sane

\* A stop closes the signal for good.
LEMMA StopIsFinal == ASSUME [BatchNext]_batchVars, signal = "stopped" PROVE signal' = "stopped"
<1>1. User => signal' = "stopped"
  BY DEF User, Pause, Resume, Stop, Signal, Reconfigure
<1>2. User \/ UNCHANGED signal
  <2>1. CASE Work
    BY <2>1, WorkFrame DEF OnlyTasks, envVars
  <2>2. ASSUME NEW t \in tasks, Join(t) PROVE UNCHANGED signal
    BY <2>2, JoinFrame DEF envVars
  <2>3. CASE Fill \/ JoinNone \/ Aggregate \/ UNCHANGED batchVars
    BY <2>3 DEF Fill, FillPaused, FillStopped, FillFull, FillEmpty, Dispatch, JoinNone, Aggregate, envVars,
                batchVars
  <2>4. CASE Repair \/ \E t \in tasks : RepairJoin(t)
    BY <2>4 DEF Repair, RepairStopped, RepairPaused, RepairDispatch, RepairEnds, Finish,
                RepairJoin, RepairJoined, RepairOk, RepairAgain, RepairFails, envVars
  <2>5. QED
    BY <2>1, <2>2, <2>3, <2>4 DEF BatchNext, Driver
<1>3. QED
  BY <1>1, <1>2

\* A task that has no answer and waits for no context is sane.
LEMMA FreshSane ==
    ASSUME NEW t, t.answer = NoAnswer, t.pc \in {"subscribe", "gate", "repair_gate"}
    PROVE  Sane(t)'
BY DEF Sane, NoAnswer

\* Every step keeps the tasks sane.
LEMMA SaneStep ==
    ASSUME BatchTypeOK, Placed, TasksSane, [BatchNext]_batchVars
    PROVE  TasksSane'
<1>f. signal = "stopped" => signal' = "stopped"
  BY StopIsFinal
<1>1. ASSUME UNCHANGED completed, NEW T, \A u \in T : Sane(u),
             \A u \in tasks' : u \in T \/ (u.answer = NoAnswer /\ u.pc \in {"subscribe", "gate", "repair_gate"})
      PROVE  TasksSane'
  <2>1. \A u \in T : Sane(u)'
    BY <1>f, <1>1, SaneStays
  <2>2. QED
    BY <1>1, <2>1, FreshSane DEF TasksSane
<1>2. \A u \in tasks : Sane(u)
  BY DEF TasksSane
<1>3. ASSUME UNCHANGED completed, tasks' \subseteq tasks PROVE TasksSane'
  BY <1>1, <1>2, <1>3
<1>4. CASE UNCHANGED batchVars
  BY <1>3, <1>4 DEF batchVars
<1>5. CASE User
  BY <1>3, <1>5 DEF User, Pause, Resume, Stop, Signal, Reconfigure, harvest
<1>6. CASE Work
  <2>1. PICK t \in tasks : TaskStep(t)
    BY <1>6 DEF Work
  <2>2. PICK u \in Tasks : tasks' = (tasks \ {t}) \cup {u} /\ Sane(u)
    BY <2>1, WorkMoves
  <2>3. UNCHANGED completed
    BY <2>1, WorkMoves DEF OnlyTasks, harvest
  <2>4. \A v \in tasks \cup {u} : Sane(v)
    BY <1>2, <2>2
  <2>5. QED
    BY <1>1, <2>2, <2>3, <2>4
<1>7. CASE Fill \/ JoinNone
  <2>1. UNCHANGED completed
    BY <1>7 DEF Fill, FillPaused, FillStopped, FillFull, FillEmpty, Dispatch, JoinNone, harvest
  <2>2. ~Dispatch => tasks' = tasks
    BY <1>7 DEF Fill, FillPaused, FillStopped, FillFull, FillEmpty, JoinNone
  <2>3. CASE Dispatch
    <3>1. tasks' = tasks \/ \E first, level : tasks' = tasks \cup {NewTask(first, level)}
      BY <2>3, DispatchMoves
    <3>2. \A first, level : NewTask(first, level).answer = NoAnswer
                            /\ NewTask(first, level).pc \in {"subscribe", "gate"}
      BY DEF NewTask
    <3>3. QED
      BY <1>1, <1>2, <2>1, <3>1, <3>2
  <2>4. QED
    BY <1>3, <2>1, <2>2, <2>3
<1>8. ASSUME NEW t \in tasks, Join(t) PROVE TasksSane'
  <2>1. JoinMove(t)
    BY <1>8, JoinMoves
  <2>2. PICK p \in BOOLEAN : tasks' = Others(t, p) /\ (UNCHANGED completed \/ p = TRUE)
    BY <2>1, JoinRest, JoinPublishes
  <2>3. /\ tasks' = {Woken(u, p) : u \in tasks \ {t}}
        /\ \A u \in tasks : /\ Woken(u, p).batch = u.batch /\ Woken(u, p).pc = u.pc
                            /\ Woken(u, p).answer = u.answer
                            /\ Woken(u, p).woken = (u.woken \/ (p /\ u.pc \in {"check", "looked", "asleep"}))
    BY <2>2, OthersKeep
  <2>4. \A u \in tasks : Sane(Woken(u, p))'
    <3> TAKE u \in tasks
    <3>1. Sane(u)
      BY <1>2
    <3>2. /\ Woken(u, p).batch = u.batch /\ Woken(u, p).pc = u.pc /\ Woken(u, p).answer = u.answer
          /\ Woken(u, p).woken = (u.woken \/ (p /\ u.pc \in {"check", "looked", "asleep"}))
      BY <2>3
    <3>3. \/ UNCHANGED completed /\ (u.woken => Woken(u, p).woken)
          \/ Woken(u, p).pc \in {"looked", "asleep"} => Woken(u, p).woken
      BY <2>2, <3>2
    <3>4. QED
      BY <1>f, <3>1, <3>2, <3>3, SaneStays
  <2>5. QED
    BY <2>3, <2>4 DEF TasksSane
<1>9. CASE Aggregate \/ \E t \in tasks : RepairJoin(t)
  BY <1>3, <1>9 DEF Aggregate, RepairJoin, RepairJoined, RepairOk, RepairAgain, RepairFails, harvest
<1>10. CASE Repair
  <2>1. UNCHANGED completed
    BY <1>10 DEF Repair, RepairStopped, RepairPaused, RepairDispatch, RepairEnds, Finish, harvest
  <2>2. CASE RepairDispatch
    <3>1. \E n : tasks' = tasks \cup {RepairTask(repairs[k]) : k \in 1 .. n}
      BY <2>2 DEF RepairDispatch
    <3>2. \A b : RepairTask(b).answer = NoAnswer /\ RepairTask(b).pc = "repair_gate"
      BY DEF RepairTask, NewTask
    <3>3. QED
      BY <1>1, <1>2, <2>1, <3>1, <3>2
  <2>3. ~RepairDispatch => tasks' \subseteq tasks
    BY <1>10 DEF Repair, RepairStopped, RepairPaused, RepairEnds, Finish
  <2>4. QED
    BY <1>3, <2>1, <2>2, <2>3
<1>11. QED
  BY <1>4, <1>5, <1>6, <1>7, <1>8, <1>9, <1>10 DEF BatchNext, Driver

\* Every step keeps a stop and a quiet run what they are.
LEMMA StopsStep ==
    ASSUME BatchTypeOK, Placed, TasksSane, Stops, [BatchNext]_batchVars
    PROVE  Stops'
<1>1. CASE User
  <2>1. stopping' = stopping
    BY <1>1 DEF User, Pause, Resume, Stop, Signal, Reconfigure
  <2>2. calm' => signal' = "running"
    BY <1>1 DEF User, Pause, Resume, Stop, Signal, Reconfigure, Stops
  <2>3. QED
    BY <2>1, <2>2, StopIsFinal DEF Stops
<1>2. ASSUME UNCHANGED <<signal, calm>>, stopping' => stopping \/ signal = "stopped" PROVE Stops'
  BY <1>2 DEF Stops
<1>3. ASSUME NEW t \in tasks, Join(t) PROVE Stops'
  <2>1. /\ UNCHANGED envVars
        /\ stopping' = (stopping \/ signal = "stopped" \/ t.answer.kind = "stopped")
    BY <1>3, JoinMoves, JoinRest
  <2>2. t.answer.kind = "stopped" => signal = "stopped"
    BY DEF TasksSane, Sane
  <2>3. QED
    BY <1>2, <2>1, <2>2 DEF envVars
<1>4. CASE Work
  BY <1>2, <1>4, WorkFrame DEF OnlyTasks, envVars
<1>5. CASE UNCHANGED batchVars
  BY <1>2, <1>5 DEF batchVars
<1>6. CASE Fill \/ JoinNone
  BY <1>2, <1>6 DEF Fill, FillPaused, FillStopped, FillFull, FillEmpty, Dispatch, JoinNone, envVars
<1>7. CASE Aggregate \/ Repair \/ \E t \in tasks : RepairJoin(t)
  BY <1>2, <1>7 DEF Aggregate, Repair, RepairStopped, RepairPaused, RepairDispatch, RepairEnds, Finish,
                    RepairJoin, RepairJoined, RepairOk, RepairAgain, RepairFails, envVars
<1>8. QED
  BY <1>1, <1>3, <1>4, <1>5, <1>6, <1>7 DEF BatchNext, Driver

\* Outside the joins a working step takes no item out of the queue and the tasks
\* together, and gains no block.
LEMMA HeldStays ==
    ASSUME BatchTypeOK, Placed, TasksSane, [BatchNext]_batchVars, Working'
    PROVE  /\ Working
           /\ \/ Queued \cup InTasks \subseteq Queued' \cup InTasks' /\ blocks' = blocks
              \/ \E t \in tasks : Join(t)
<1>0. ASSUME UNCHANGED <<queue, tasks>> PROVE Queued' = Queued /\ InTasks' = InTasks
  BY <1>0 DEF Queued, InTasks
<1>1. CASE UNCHANGED batchVars
  BY <1>0, <1>1 DEF batchVars, Working
<1>2. CASE User
  BY <1>0, <1>2 DEF User, Pause, Resume, Stop, Signal, Reconfigure, harvest, Working
<1>3. CASE Work
  <2>1. PICK t \in tasks : TaskStep(t)
    BY <1>3 DEF Work
  <2>2. PICK u \in Tasks : tasks' = (tasks \ {t}) \cup {u} /\ u.batch = t.batch
    BY <2>1, WorkMoves
  <2>3. UNCHANGED <<phase, queue, blocks>>
    BY <2>1, WorkMoves DEF OnlyTasks, harvest
  <2>4. Queued' = Queued /\ InTasks' = InTasks
    BY <2>2, <2>3 DEF Queued, InTasks
  <2>5. QED
    BY <2>3, <2>4 DEF Working
<1>4. CASE Fill \/ JoinNone
  <2>1. Working /\ blocks' = blocks
    BY <1>4 DEF Fill, FillPaused, FillStopped, FillFull, FillEmpty, Dispatch, JoinNone, Filling, harvest, Working
  <2>2. CASE FillPaused \/ FillStopped \/ FillEmpty \/ JoinNone
    BY <1>0, <2>1, <2>2 DEF FillPaused, FillStopped, FillEmpty, JoinNone
  <2>3. CASE FillFull
    <3>1. queue' = CurrentQueue /\ tasks' = tasks
      BY <2>3 DEF FillFull
    <3>2. Deals(CurrentQueue, Queued)
      BY <2>1, QueuedTyped, CurrentHolds DEF Placed
    <3>3. Queued' = Queued /\ InTasks' = InTasks
      BY <3>1, <3>2, DealsCovers DEF Queued, InTasks
    <3>4. QED
      BY <2>1, <3>3
  <2>4. CASE Dispatch
    <3>1. \/ tasks' = tasks /\ Deals(queue', Queued)
          \/ \E first, level :
                /\ tasks' = tasks \cup {NewTask(first, level)}
                /\ Deals(queue', Queued \ Covers(first))
      BY <2>4, DispatchMoves
    <3>2. \A J : Deals(queue', J) => Queued' = J
      BY DealsCovers DEF Queued
    <3>3. CASE tasks' = tasks /\ Deals(queue', Queued)
      BY <2>1, <3>2, <3>3 DEF InTasks
    <3>4. ASSUME NEW first, NEW level, tasks' = tasks \cup {NewTask(first, level)},
                 Deals(queue', Queued \ Covers(first))
          PROVE  Queued \cup InTasks \subseteq Queued' \cup InTasks'
      <4>1. Queued' = Queued \ Covers(first)
        BY <3>2, <3>4
      <4>2. NewTask(first, level).batch = first
        BY DEF NewTask
      <4>3. InTasks' = InTasks \cup Covers(first)
        BY <3>4, <4>2 DEF InTasks
      <4>4. QED
        BY <4>1, <4>3
    <3>5. QED
      BY <2>1, <3>1, <3>3, <3>4
  <2>5. QED
    BY <1>4, <2>2, <2>3, <2>4 DEF Fill
<1>5. ASSUME NEW t \in tasks, Join(t) PROVE Working
  BY <1>5, JoinFrame DEF Working
<1>6. CASE Aggregate \/ Repair \/ \E t \in tasks : RepairJoin(t)
  BY <1>6 DEF Aggregate, Repair, RepairStopped, RepairPaused, RepairDispatch, RepairEnds, Finish,
              RepairJoin, RepairJoined, RepairOk, RepairAgain, RepairFails, Working
<1>7. QED
  BY <1>1, <1>2, <1>3, <1>4, <1>5, <1>6 DEF BatchNext, Driver

\* What is neither queued, in a task nor translated has been published, and so has
\* a segment whose blocks are all there.
Fenced ==
    Working =>
        /\ \A i \in Items : i \in Queued \cup InTasks \cup blocks \/ completed[SegOf[i]] # "none"
        /\ \A s \in Segments : ItemsOf(s) \subseteq blocks => completed[s] # "none"

\* A join publishes the segments of what it does not put back, or gains their blocks.
LEMMA JoinFenced ==
    ASSUME BatchTypeOK, Placed, TasksSane, Fenced, NEW t \in tasks, Join(t)
    PROVE  Fenced'
<1>0. JoinMove(t) /\ Working
  BY JoinMoves DEF Joinable, Working
<1>1. PICK p \in BOOLEAN : tasks' = Others(t, p)
  BY <1>0, JoinRest
<1>2. InTasks = InTasks' \cup Covers(t.batch) /\ Deals(queue, Queued)
      /\ Covers(t.batch) \cap (Queued \cup Settled) = {} /\ Covers(t.batch) \subseteq Items
  BY <1>0, <1>1, OthersPlaced, TaskTyped DEF Placed
<1>3. /\ Published
      /\ \/ UNCHANGED <<completed, blocks>> /\ \E P : Deals(P, Covers(t.batch)) /\ queue' = queue \o P
         \/ blocks' = blocks /\ \A i \in Covers(t.batch) : completed'[SegOf[i]] # "none"
         \/ /\ JoinOk(t)
            /\ blocks' = blocks \cup (Covers(t.batch) \ t.answer.rejected)
            /\ \A i \in t.answer.rejected : completed'[SegOf[i]] # "none"
            /\ \A i \in Covers(t.batch) \ t.answer.rejected :
                   ItemsOf(SegOf[i]) \subseteq blocks' => completed'[SegOf[i]] # "none"
  BY <1>0, JoinPublishes
<1>4. /\ \A i \in Items : i \in Queued \cup InTasks \cup blocks \/ completed[SegOf[i]] # "none"
      /\ \A s \in Segments : ItemsOf(s) \subseteq blocks => completed[s] # "none"
  BY <1>0 DEF Fenced
<1>5. \A i \in Items : completed[SegOf[i]] # "none" => completed'[SegOf[i]] # "none"
  BY <1>3, PlanAssumption DEF Published
<1>q. queue' = queue \/ \E P : Deals(P, Covers(t.batch)) /\ queue' = queue \o P
  BY <1>0 DEF JoinMove, GiveUp, JoinStopped, JoinOk
<1>6. Queued \subseteq Queued'
  <2>1. \A J : Deals(queue', J) => Queued' = J
    BY DealsCovers DEF Queued
  <2>2. ASSUME NEW P, Deals(P, Covers(t.batch)), queue' = queue \o P
        PROVE  Queued' = Queued \cup Covers(t.batch)
    <3>1. Deals(queue', Queued \cup Covers(t.batch))
      BY <1>2, <2>2, ConcatHolds
    <3>2. QED
      BY <2>1, <3>1
  <2>3. queue' = queue => Queued' = Queued
    BY DEF Queued
  <2>4. QED
    BY <1>q, <2>2, <2>3
<1>7. ASSUME UNCHANGED <<completed, blocks>>, NEW P, Deals(P, Covers(t.batch)), queue' = queue \o P
      PROVE  Fenced'
  <2>1. Deals(queue', Queued \cup Covers(t.batch))
    BY <1>2, <1>7, ConcatHolds
  <2>2. Queued' = Queued \cup Covers(t.batch)
    BY <2>1, DealsCovers DEF Queued
  <2>3. QED
    BY <1>2, <1>4, <1>7, <2>2 DEF Fenced
<1>8. ASSUME blocks' = blocks, \A i \in Covers(t.batch) : completed'[SegOf[i]] # "none"
      PROVE  Fenced'
  <2>1. \A i \in Items : i \in Queued' \cup InTasks' \cup blocks' \/ completed'[SegOf[i]] # "none"
    BY <1>2, <1>4, <1>5, <1>6, <1>8
  <2>2. \A s \in Segments : ItemsOf(s) \subseteq blocks' => completed'[s] # "none"
    BY <1>3, <1>4, <1>8 DEF Published
  <2>3. QED
    BY <2>1, <2>2 DEF Fenced
<1>9. ASSUME blocks' = blocks \cup (Covers(t.batch) \ t.answer.rejected),
             \A i \in t.answer.rejected : completed'[SegOf[i]] # "none",
             \A i \in Covers(t.batch) \ t.answer.rejected :
                 ItemsOf(SegOf[i]) \subseteq blocks' => completed'[SegOf[i]] # "none"
      PROVE  Fenced'
  <2>1. \A i \in Items : i \in Queued' \cup InTasks' \cup blocks' \/ completed'[SegOf[i]] # "none"
    BY <1>2, <1>4, <1>5, <1>6, <1>9
  <2>2. ASSUME NEW s \in Segments, ItemsOf(s) \subseteq blocks' PROVE completed'[s] # "none"
    <3>1. CASE ItemsOf(s) \subseteq blocks
      BY <1>3, <1>4, <3>1 DEF Published
    <3>2. CASE ~(ItemsOf(s) \subseteq blocks)
      <4>1. PICK i \in ItemsOf(s) : i \in Covers(t.batch) \ t.answer.rejected
        BY <1>9, <2>2, <3>2
      <4>2. SegOf[i] = s
        BY DEF ItemsOf
      <4>3. QED
        BY <1>9, <2>2, <4>1, <4>2
    <3>3. QED
      BY <3>1, <3>2
  <2>3. QED
    BY <2>1, <2>2 DEF Fenced
<1>10. QED
  BY <1>3, <1>7, <1>8, <1>9

\* Every step keeps the fence.
LEMMA FencedStep ==
    ASSUME BatchTypeOK, Placed, TasksSane, Fenced, [BatchNext]_batchVars
    PROVE  Fenced'
<1>1. ASSUME NEW t \in tasks, Join(t) PROVE Fenced'
  BY <1>1, JoinFenced
<1>2. ASSUME ~(\E t \in tasks : Join(t)), Working' PROVE Fenced'
  <2>1. Working /\ Queued \cup InTasks \subseteq Queued' \cup InTasks' /\ blocks' = blocks
    BY <1>2, HeldStays
  <2>2. completed' = completed
    BY <1>2, OthersPublishNothing
  <2>3. QED
    BY <2>1, <2>2 DEF Fenced
<1>3. ~Working' => Fenced'
  BY DEF Fenced
<1>4. QED
  BY <1>1, <1>2, <1>3

-----------------------------------------------------------------------------
\* With a slot for every item the driver of a run left alone joins only when
\* nothing is queued.
JoinFull == phase = "join" /\ calm /\ SlotForAll => queue = <<>>

\* An item in the queue leaves the tasks too few to need its slot.
LEMMA SlotLeft ==
    ASSUME BatchTypeOK, Placed, Working, queue # <<>>
    PROVE  Cardinality(tasks) < ItemCount
<1>1. PICK q \in Queued : q \in Items
  BY QueuedTyped, DealsCovers DEF Placed
<1>2. /\ \A t \in tasks : Covers(t.batch) # {} /\ Covers(t.batch) \subseteq Items /\ q \notin Covers(t.batch)
      /\ \A t, u \in tasks : t # u => Covers(t.batch) \cap Covers(u.batch) = {}
  BY <1>1, TaskTyped DEF Placed
<1> DEFINE f == [t \in tasks |-> CHOOSE i \in Covers(t.batch) : TRUE]
           T == Items \ {q}
<1>3. \A t \in tasks : f[t] \in Covers(t.batch)
  BY <1>2
<1>4. f \in Injection(tasks, T)
  <2>1. f \in [tasks -> T]
    BY <1>2, <1>3
  <2>2. \A t, u \in tasks : f[t] = f[u] => t = u
    BY <1>2, <1>3
  <2>3. QED
    BY <2>1, <2>2 DEF Injection, IsInjective
<1>5. IsFiniteSet(T) /\ Cardinality(T) = ItemCount - 1
  <2>1. IsFiniteSet(Items) /\ Cardinality(Items) = ItemCount
    <3>1. ItemCount \in Int /\ 1 \in Int /\ ItemCount >= 0
      BY PlanAssumption
    <3>2. IsFiniteSet(1 .. ItemCount) /\ Cardinality(1 .. ItemCount) = IF 1 > ItemCount THEN 0 ELSE ItemCount - 1 + 1
      BY <3>1, FS_Interval
    <3>3. QED
      BY <3>1, <3>2 DEF Items
  <2>2. QED
    BY <1>1, <2>1, FS_RemoveElement
<1>6. Cardinality(tasks) <= Cardinality(T) /\ IsFiniteSet(tasks)
  <2> HIDE DEF f, T
  <2>1. QED
    BY <1>4, <1>5, FS_Injection
<1>7. Cardinality(tasks) \in Int /\ ItemCount \in Int
  BY <1>6, FS_CardinalityType, PlanAssumption
<1>8. QED
  BY <1>5, <1>6, <1>7

\* Every step keeps this.
LEMMA JoinFullStep ==
    ASSUME BatchTypeOK, Placed, TasksSane, Stops, JoinFull, [BatchNext]_batchVars
    PROVE  JoinFull'
<1> SUFFICES ASSUME phase' = "join", calm', SlotForAll' PROVE queue' = <<>>
  BY DEF JoinFull
<1>0. ASSUME UNCHANGED <<phase, queue, setup>>, calm PROVE queue' = <<>>
  BY <1>0 DEF JoinFull, SlotForAll
<1>1. CASE UNCHANGED batchVars
  BY <1>0, <1>1 DEF batchVars
<1>2. CASE User
  BY <1>0, <1>2 DEF User, Pause, Resume, Stop, Signal, Reconfigure
<1>3. CASE Work
  BY <1>0, <1>3, WorkFrame DEF OnlyTasks, envVars
<1>4. CASE FillPaused \/ FillStopped
  BY <1>4 DEF FillPaused, FillStopped, Stops, envVars
<1>5. CASE FillFull
  <2>1. /\ queue # <<>> /\ Working /\ Cardinality(tasks) >= settings.slots /\ setup' = setup
    BY <1>5 DEF FillFull, Filling, Working, envVars
  <2>2. settings.slots >= ItemCount /\ settings.slots \in Int /\ ItemCount \in Int
    BY <2>1, SetupTyped, PlanAssumption DEF SlotForAll
  <2>3. Cardinality(tasks) < ItemCount
    BY <2>1, SlotLeft
  <2>t. Cardinality(tasks) \in Int
    BY FS_CardinalityType DEF BatchTypeOK
  <2>4. QED
    BY <2>1, <2>2, <2>3, <2>t
<1>6. CASE FillEmpty
  BY <1>6 DEF FillEmpty, Stops, envVars
<1>7. CASE Dispatch \/ JoinNone
  BY <1>7 DEF Dispatch, Filling, JoinNone
<1>8. ASSUME NEW t \in tasks, Join(t) PROVE FALSE
  BY <1>8, JoinFrame
<1>9. CASE Aggregate \/ Repair \/ \E t \in tasks : RepairJoin(t)
  BY <1>9 DEF Aggregate, Repair, RepairStopped, RepairPaused, RepairDispatch, RepairEnds, Finish,
              RepairJoin, RepairJoined, RepairOk, RepairAgain, RepairFails
<1>10. QED
  BY <1>1, <1>2, <1>3, <1>4, <1>5, <1>6, <1>7, <1>8, <1>9 DEF BatchNext, Driver, Fill

\* Once the requests are over every segment of a run nobody stopped has a verdict,
\* and in the end a report.
Verdicts == ~Working /\ ~stopping => \A s \in Segments : verdict[s] # "none"
Told     == phase = "done" /\ ~stopping => \A s \in Segments : sent[s] # <<>>

\* The steps after the requests.
LEMMA LateSteps ==
    ASSUME [BatchNext]_batchVars, ~Working'
    PROVE  \/ Aggregate
           \/ ~Working /\ stopping' = stopping /\ UNCHANGED verdict
           \/ ~Working /\ stopping' = stopping /\ \E t \in tasks : RepairOk(t)
<1>1. CASE User \/ UNCHANGED batchVars
  BY <1>1 DEF User, Pause, Resume, Stop, Signal, Reconfigure, Working, batchVars, repairVars
<1>2. CASE Work
  BY <1>2, WorkFrame DEF OnlyTasks, Working, repairVars
<1>3. CASE Fill \/ JoinNone
  BY <1>3 DEF Fill, FillPaused, FillStopped, FillFull, FillEmpty, Dispatch, JoinNone, Filling, Working
<1>4. ASSUME NEW t \in tasks, Join(t) PROVE FALSE
  BY <1>4, JoinFrame DEF Working
<1>5. CASE Repair
  BY <1>5 DEF Repair, RepairStopped, RepairPaused, RepairDispatch, RepairEnds, Finish, Repairing, Working, repairVars
<1>6. ASSUME NEW t \in tasks, RepairJoin(t)
      PROVE  ~Working /\ stopping' = stopping /\ (UNCHANGED verdict \/ RepairOk(t))
  BY <1>6 DEF RepairJoin, RepairJoined, RepairJoinable, RepairOk, RepairAgain, RepairFails, Working, repairVars
<1>7. QED
  BY <1>1, <1>2, <1>3, <1>4, <1>5, <1>6 DEF BatchNext, Driver

\* When no item is queued or in a task, every segment has a block or a failure.
LEMMA AggregateVerdicts ==
    ASSUME BatchTypeOK, Placed, Aggregate
    PROVE  Verdicts'
<1> SUFFICES ASSUME ~stopping', NEW s \in Segments PROVE verdict'[s] # "none"
  BY DEF Verdicts
<1>1. /\ Working /\ ~stopping /\ queue = <<>> /\ tasks = {}
      /\ verdict'[s] = IF Failed(s) THEN "needs_review"
                       ELSE IF ItemsOf(s) \cap blocks # {} THEN "succeeded" ELSE "none"
  BY DEF Aggregate, Working
<1>2. Items \subseteq Settled
  <2>1. Queued = {} /\ InTasks = {}
    BY <1>1, DealsCovers DEF Queued, InTasks, Placed
  <2>2. QED
    BY <1>1, <2>1 DEF Placed
<1>3. PICK i \in Items : SegOf[i] = s
  BY PlanAssumption
<1>4. i \in blocks \/ \E f \in failures : f[1] = i
  BY <1>2 DEF Settled
<1>5. QED
  BY <1>1, <1>3, <1>4 DEF Failed, ItemsOf

\* Every step keeps the verdicts.
LEMMA VerdictsStep ==
    ASSUME BatchTypeOK, Placed, Verdicts, [BatchNext]_batchVars
    PROVE  Verdicts'
<1>1. CASE Aggregate
  BY <1>1, AggregateVerdicts
<1>2. CASE ~Working /\ stopping' = stopping /\ UNCHANGED verdict
  BY <1>2 DEF Verdicts
<1>3. CASE ~Working /\ stopping' = stopping /\ \E t \in tasks : RepairOk(t)
  BY <1>3 DEF Verdicts, RepairOk
<1>4. CASE Working'
  BY <1>4 DEF Verdicts
<1>5. QED
  BY <1>1, <1>2, <1>3, <1>4, LateSteps

\* Once "done" nothing but the end itself hands anything over.
LEMMA DoneSteps ==
    ASSUME [BatchNext]_batchVars, phase' = "done"
    PROVE  Finish \/ (phase = "done" /\ stopping' = stopping /\ sent' = sent)
<1>1. CASE User \/ UNCHANGED batchVars
  BY <1>1 DEF User, Pause, Resume, Stop, Signal, Reconfigure, batchVars, harvest
<1>2. CASE Work
  BY <1>2, WorkFrame DEF OnlyTasks, harvest
<1>3. CASE Fill \/ JoinNone \/ Aggregate \/ \E t \in tasks : RepairJoin(t)
  BY <1>3 DEF Fill, FillPaused, FillStopped, FillFull, FillEmpty, Dispatch, JoinNone, Filling, Aggregate,
              RepairJoin, RepairJoined, RepairOk, RepairAgain, RepairFails
<1>4. ASSUME NEW t \in tasks, Join(t) PROVE FALSE
  BY <1>4, JoinFrame
<1>5. CASE Repair
  BY <1>5 DEF Repair, RepairStopped, RepairPaused, RepairDispatch, RepairEnds
<1>6. QED
  BY <1>1, <1>2, <1>3, <1>4, <1>5 DEF BatchNext, Driver

\* The end reports whatever was not handed over before.
LEMMA ToldStep ==
    ASSUME BatchTypeOK, DeliveryInv, Verdicts, Told, [BatchNext]_batchVars
    PROVE  Told'
<1>1. CASE phase = "done" /\ stopping' = stopping /\ sent' = sent
  BY <1>1 DEF Told
<1>2. CASE Finish
  <2> SUFFICES ASSUME ~stopping', NEW s \in Segments PROVE sent'[s] # <<>>
    BY DEF Told
  <2>1. /\ phase = "finish" /\ stopping' = stopping
        /\ sent'[s] = IF verdict[s] # "none" /\ s \notin finalized THEN Append(sent[s], Report(s)) ELSE sent[s]
    BY <1>2 DEF Finish
  <2>2. verdict[s] # "none"
    BY <2>1 DEF Verdicts, Working
  <2>3. CASE s \in finalized
    BY <2>1, <2>3 DEF DeliveryInv
  <2>4. CASE s \notin finalized
    <3>1. sent[s] \in Seq(Statuses) /\ Report(s) \in Statuses
      BY <2>2 DEF DeliveryInv, Report, Statuses
    <3>2. Append(sent[s], Report(s)) # <<>>
      BY <3>1, FirstReport
    <3>3. QED
      BY <2>1, <2>2, <2>4, <3>2
  <2>5. QED
    BY <2>3, <2>4
<1>3. CASE phase' # "done"
  BY <1>3 DEF Told
<1>4. QED
  BY <1>1, <1>2, <1>3, DoneSteps

-----------------------------------------------------------------------------
\* A report is the only one: whoever is handed over had not been.
LEMMA HandOverOnce ==
    ASSUME DeliveryInv, SentOnce, phase # "done", NEW S, S \cap finalized = {},
           NEW status \in [Segments -> Statuses],
           sent' = [s \in Segments |-> IF s \in S THEN Append(sent[s], status[s]) ELSE sent[s]]
    PROVE  SentOnce'
<1> SUFFICES ASSUME NEW s \in Segments PROVE Len(sent'[s]) <= 1
  BY DEF SentOnce
<1>1. CASE s \notin S
  BY <1>1 DEF SentOnce
<1>2. CASE s \in S
  <2>1. sent[s] = <<>>
    BY <1>2 DEF DeliveryInv
  <2>2. sent'[s] = Append(sent[s], status[s]) /\ status[s] \in Statuses /\ sent[s] \in Seq(Statuses)
    BY <1>2 DEF DeliveryInv
  <2>3. Len(sent'[s]) = Len(sent[s]) + 1 /\ Len(sent[s]) = 0
    BY <2>1, <2>2, AppendProperties, EmptySeq
  <2>4. QED
    BY <2>3
<1>3. QED
  BY <1>1, <1>2

\* Every step hands over only what had not been: a joined batch holds an item that its
\* segment still lacked, a repair and the end skip the finalized ones.
LEMMA OnceStep ==
    ASSUME BatchTypeOK, Placed, DeliveryInv, SentOnce, [BatchNext]_batchVars
    PROVE  SentOnce'
<1> DEFINE all == [s \in Segments |-> "succeeded"]
<1>0. all \in [Segments -> Statuses]
  BY DEF Statuses
<1>1. ASSUME NEW S, HandOver(S, "succeeded"), S \cap finalized = {}, phase # "done" PROVE SentOnce'
  <2>1. sent' = [s \in Segments |-> IF s \in S THEN Append(sent[s], all[s]) ELSE sent[s]]
    BY <1>1 DEF HandOver
  <2> HIDE DEF all
  <2>2. QED
    BY <1>0, <1>1, <2>1, HandOverOnce
<1>2. ASSUME NEW t \in tasks, JoinOk(t) PROVE SentOnce'
  <2> DEFINE good  == Covers(t.batch) \ t.answer.rejected
             whole == {s \in SegmentsOf(good) : ItemsOf(s) \subseteq blocks \cup good}
  <2>1. HandOver(whole, "succeeded") /\ Working /\ phase # "done"
    BY <1>2 DEF JoinOk, Ended, Joinable, Working
  <2>2. Covers(t.batch) \cap blocks = {} /\ Covers(t.batch) \subseteq Items
    BY <2>1, TaskTyped DEF Placed, Settled
  <2>3. \A s \in whole : s \in Segments /\ ~(ItemsOf(s) \subseteq blocks)
    BY <2>2, PlanAssumption DEF SegmentsOf, ItemsOf
  <2>4. whole \cap finalized = {}
    BY <2>3 DEF DeliveryInv
  <2> HIDE DEF whole, good
  <2>5. QED
    BY <1>1, <2>1, <2>4
<1>3. ASSUME NEW t \in tasks, RepairOk(t) PROVE SentOnce'
  <2> DEFINE good  == Covers(t.batch) \ t.answer.rejected
             whole == {s \in SegmentsOf(good) : ItemsOf(s) \subseteq blocks \cup good} \ finalized
  <2>1. HandOver(whole, "succeeded") /\ phase # "done"
    BY <1>3 DEF RepairOk, RepairJoinable
  <2>2. whole \cap finalized = {}
    OBVIOUS
  <2> HIDE DEF whole, good
  <2>3. QED
    BY <1>1, <2>1, <2>2
<1>4. CASE Finish
  <2> DEFINE S == {s \in Segments : verdict[s] # "none" /\ s \notin finalized}
             status == [s \in Segments |-> IF s \in S THEN Report(s) ELSE "needs_review"]
  <2>1. phase # "done"
        /\ sent' = [s \in Segments |-> IF verdict[s] # "none" /\ s \notin finalized
                                       THEN Append(sent[s], Report(s)) ELSE sent[s]]
    BY <1>4 DEF Finish
  <2>2. sent' = [s \in Segments |-> IF s \in S THEN Append(sent[s], status[s]) ELSE sent[s]]
    BY <2>1
  <2>3. status \in [Segments -> Statuses]
    BY DEF DeliveryInv, Report, Statuses
  <2>4. S \cap finalized = {}
    OBVIOUS
  <2> HIDE DEF S, status
  <2>5. QED
    BY <2>1, <2>2, <2>3, <2>4, HandOverOnce
<1>5. CASE Quiet \/ Aggregate
  BY <1>5 DEF Quiet, Aggregate, harvest, SentOnce
<1>6. QED
  BY <1>2, <1>3, <1>4, <1>5, LoudSteps

\* A set without two different elements has one or none.
LEMMA OneOrNone ==
    ASSUME NEW S, \A x, y \in S : x = y
    PROVE  Cardinality(S) = IF S = {} THEN 0 ELSE 1
<1>1. CASE S = {}
  BY <1>1, FS_EmptySet
<1>2. CASE S # {}
  <2>1. PICK x \in S : TRUE
    BY <1>2
  <2>2. S = {x}
    BY <2>1
  <2>3. QED
    BY <1>2, <2>2, FS_Singleton
<1>3. QED
  BY <1>1, <1>2

\* Placed counts.
LEMMA PlacedCounts == ASSUME Placed PROVE ItemsConserved
<1> SUFFICES ASSUME phase \in {"fill", "join"}, NEW i \in Items
             PROVE  LET n == Cardinality({k \in DOMAIN queue : i \in Covers(queue[k])})
                             + Cardinality({t \in tasks : i \in Covers(t.batch)})
                             + (IF i \in Settled THEN 1 ELSE 0)
                    IN  n <= 1 /\ (~stopping => n = 1)
  BY DEF ItemsConserved, Settled
<1> DEFINE A == {k \in DOMAIN queue : i \in Covers(queue[k])}
           B == {t \in tasks : i \in Covers(t.batch)}
<1>0. /\ Deals(queue, Queued)
      /\ \A t \in tasks : Covers(t.batch) \cap (Queued \cup Settled) = {}
      /\ \A t, u \in tasks : t # u => Covers(t.batch) \cap Covers(u.batch) = {}
      /\ Queued \cap Settled = {}
      /\ ~stopping => Items \subseteq Queued \cup InTasks \cup Settled
  BY DEF Placed, Working
<1>1. \A k, l \in A : k = l
  <2> SUFFICES ASSUME NEW k \in A, NEW l \in A PROVE k = l
    OBVIOUS
  <2>1. PICK m \in DOMAIN queue[k] : queue[k][m] = i
    BY DEF Covers
  <2>2. PICK n \in DOMAIN queue[l] : queue[l][n] = i
    BY DEF Covers
  <2>3. QED
    BY <1>0, <2>1, <2>2 DEF Deals
<1>2. \A t, u \in B : t = u
  BY <1>0
<1>3. A # {} <=> i \in Queued
  BY DEF Queued
<1>4. B # {} <=> i \in InTasks
  BY DEF InTasks
<1>5. /\ Cardinality(A) = IF i \in Queued THEN 1 ELSE 0
      /\ Cardinality(B) = IF i \in InTasks THEN 1 ELSE 0
  <2> HIDE DEF A, B
  <2>1. QED
    BY <1>1, <1>2, <1>3, <1>4, OneOrNone
<1>6. InTasks \cap (Queued \cup Settled) = {}
  BY <1>0 DEF InTasks
<1> HIDE DEF A, B
<1>7. QED
  BY <1>0, <1>5, <1>6 DEF A, B

\* The driver never waits for tasks that wait for each other: the one that holds the
\* first item in flight has its context.
LEMMA FirstWaiterReady ==
    ASSUME BatchTypeOK, Placed, TasksSane, Stops, Fenced, JoinFull
    PROVE  NotStranded
<1> SUFFICES ASSUME SlotForAll, calm, phase = "join", tasks # {}, \A t \in tasks : t.pc = "asleep" /\ ~t.woken
             PROVE  FALSE
  BY DEF NotStranded, Stranded
<1>1. Working /\ ~stopping /\ queue = <<>>
  BY DEF Working, Stops, JoinFull
<1>2. Items \subseteq InTasks \cup Settled /\ Queued = {}
  BY <1>1 DEF Placed, Queued
<1>3. InTasks \in SUBSET Nat /\ InTasks # {} /\ InTasks \subseteq Items
  <2>1. InTasks \subseteq Items
    BY InTasksTyped
  <2>2. InTasks # {}
    <3>1. PICK t \in tasks : TRUE
      OBVIOUS
    <3>2. Covers(t.batch) # {}
      BY TaskTyped
    <3>3. QED
      BY <3>2 DEF InTasks
  <2>3. QED
    BY <2>1, <2>2, ItemsFinite
<1>4. PICK m \in InTasks : \A j \in InTasks : m <= j
  BY <1>3, LeastOf
<1>5. PICK t \in tasks : m \in Covers(t.batch)
  BY DEF InTasks
<1>6. \A j \in Covers(t.batch) : j \in InTasks
  BY DEF InTasks
<1>7. Earliest(t.batch) = SegOf[m]
  <2> DEFINE i == CHOOSE i \in Covers(t.batch) : \A j \in Covers(t.batch) : i <= j
  <2>1. i \in Covers(t.batch) /\ \A j \in Covers(t.batch) : i <= j
    BY <1>4, <1>5, <1>6
  <2>2. i <= m /\ m <= i /\ i \in Nat /\ m \in Nat
    BY <1>3, <1>4, <1>5, <1>6, <2>1
  <2> HIDE DEF i
  <2>3. i = m
    BY <2>2
  <2>4. QED
    BY <2>3 DEF i, Earliest
<1>8. PICK p \in Prior(SegOf[m]) : completed[p] = "none"
  BY <1>7 DEF TasksSane, Sane, ContextReady
<1>9. p \in Segments /\ p < SegOf[m]
  BY <1>8 DEF Prior
<1>10. ItemsOf(p) \subseteq blocks
  <2> SUFFICES ASSUME NEW i \in ItemsOf(p) PROVE i \in blocks
    OBVIOUS
  <2>1. i \in Items /\ SegOf[i] = p /\ m \in Items
    BY <1>3 DEF ItemsOf
  <2>2. ~(m <= i)
    <3>1. m <= i => SegOf[m] <= SegOf[i]
      BY <2>1, PlanAssumption
    <3>2. p \in Nat /\ SegOf[m] \in Nat
      BY <1>9, <2>1, PlanAssumption
    <3>3. QED
      BY <1>9, <2>1, <3>1, <3>2
  <2>3. i \notin InTasks
    BY <1>4, <2>2
  <2>4. i \in Queued \cup InTasks \cup blocks \/ completed[SegOf[i]] # "none"
    BY <1>1, <2>1 DEF Fenced
  <2>5. QED
    BY <1>2, <1>8, <2>1, <2>3, <2>4
<1>11. QED
  BY <1>1, <1>8, <1>9, <1>10 DEF Fenced

-----------------------------------------------------------------------------
\* What is inductive.
BatchIInv ==
    /\ BatchTypeOK /\ DeliveryInv /\ SentOnce
    /\ Placed /\ TasksSane /\ Stops /\ Fenced /\ JoinFull /\ Verdicts /\ Told

\* It holds at the start,
LEMMA BatchStart == BatchInit => BatchIInv
<1> SUFFICES ASSUME BatchInit PROVE BatchIInv
  OBVIOUS
<1>0. /\ phase = "fill" /\ stopping = FALSE /\ tasks = {} /\ blocks = {} /\ failures = {} /\ calm = TRUE
      /\ signal = "running" /\ sent = [s \in Segments |-> <<>>]
  BY DEF BatchInit
<1>1. BatchTypeOK /\ Deals(queue, Items)
  BY InitTyped
<1>2. Queued = Items /\ InTasks = {} /\ Settled = {}
  BY <1>0, <1>1, DealsCovers DEF Queued, InTasks, Settled
<1>3. Placed
  BY <1>0, <1>1, <1>2 DEF Placed
<1>4. Fenced
  <2>1. \A s \in Segments : ~(ItemsOf(s) \subseteq {})
    BY PlanAssumption DEF ItemsOf
  <2>2. QED
    BY <1>0, <1>2, <2>1 DEF Fenced
<1>5. TasksSane /\ Stops /\ JoinFull /\ Verdicts /\ Told
  BY <1>0 DEF TasksSane, Stops, JoinFull, Verdicts, Told, Working
<1>6. SentOnce
  BY <1>0, EmptySeq DEF SentOnce
<1>7. DeliveryInv
  BY DeliveryStart
<1>8. QED
  BY <1>1, <1>3, <1>4, <1>5, <1>6, <1>7 DEF BatchIInv

\* and every step keeps it.
LEMMA BatchStep == BatchIInv /\ [BatchNext]_batchVars => BatchIInv'
<1> SUFFICES ASSUME BatchIInv, [BatchNext]_batchVars PROVE BatchIInv'
  OBVIOUS
<1>0. /\ BatchTypeOK /\ DeliveryInv /\ SentOnce
      /\ Placed /\ TasksSane /\ Stops /\ Fenced /\ JoinFull /\ Verdicts /\ Told
  BY DEF BatchIInv
<1>1. BatchTypeOK'
  BY <1>0, TypeStep
<1>2. DeliveryInv'
  BY <1>0, DeliveryStep
<1>3. SentOnce'
  BY <1>0, OnceStep
<1>4. Placed'
  BY <1>0, PlacedStep
<1>5. TasksSane'
  BY <1>0, SaneStep
<1>6. Stops'
  BY <1>0, StopsStep
<1>7. Fenced'
  BY <1>0, FencedStep
<1>8. JoinFull'
  BY <1>0, JoinFullStep
<1>9. Verdicts' /\ Told'
  BY <1>0, VerdictsStep, ToldStep
<1>10. QED
  BY <1>1, <1>2, <1>3, <1>4, <1>5, <1>6, <1>7, <1>8, <1>9 DEF BatchIInv

\* The driver, its tasks and the user keep every item in one place, every published
\* segment published and every report the only one, in every reachable state.
THEOREM BatchInvariantHolds == BatchSpec => []BatchIInv
<1> QED
  BY BatchStart, BatchStep, PTL DEF BatchSpec

\* Every variable of a batch run keeps its type: the queue holds no empty batch, limits
\* stay above nought, allowances below the ceiling.
THEOREM BatchTypes == BatchSpec => []BatchTypeOK
<1>1. BatchIInv => BatchTypeOK
  BY DEF BatchIInv
<1>2. QED
  BY <1>1, BatchInvariantHolds, PTL

\* Planning, splitting, repacking, repartitioning and putting back lose no item and double
\* none, whatever the book, the limits and the endings of requests.
THEOREM ItemsAreConserved == BatchSpec => []ItemsConserved
<1>1. BatchIInv => ItemsConserved
  BY PlacedCounts DEF BatchIInv
<1>2. QED
  BY <1>1, BatchInvariantHolds, PTL

\* Incremental finalization, the repairs and the end never hand a segment over twice.
THEOREM SegmentsAreSentOnce == BatchSpec => []SentOnce
<1>1. BatchIInv => SentOnce
  BY DEF BatchIInv
<1>2. QED
  BY <1>1, BatchInvariantHolds, PTL

\* A run that nobody stopped reports every segment of the book to the writer.
THEOREM TheEndReportsAll == BatchSpec => []EndReportsAll
<1>1. BatchIInv => EndReportsAll
  BY DEF BatchIInv, Told, Stops, EndReportsAll
<1>2. QED
  BY <1>1, BatchInvariantHolds, PTL

\* A segment with no item queued or in flight has been published, so nobody waits for it
\* in vain.
THEOREM TheFenceFollows == BatchSpec => []FenceFollows
<1>1. ASSUME BatchIInv PROVE FenceFollows
  <2> SUFFICES ASSUME phase \in {"fill", "join"}, NEW s \in Segments, completed[s] = "none"
               PROVE  \/ \E k \in DOMAIN queue : s \in SegmentsOf(Covers(queue[k]))
                      \/ \E t \in tasks : s \in SegmentsOf(Covers(t.batch))
    BY DEF FenceFollows
  <2>1. /\ \A i \in Items : i \in Queued \cup InTasks \cup blocks \/ completed[SegOf[i]] # "none"
        /\ \A q \in Segments : ItemsOf(q) \subseteq blocks => completed[q] # "none"
    BY <1>1 DEF BatchIInv, Fenced, Working
  <2>2. PICK i \in ItemsOf(s) : i \notin blocks
    BY <2>1
  <2>3. SegOf[i] = s /\ i \in Queued \cup InTasks
    BY <2>1, <2>2 DEF ItemsOf
  <2>4. QED
    BY <2>3 DEF Queued, InTasks, SegmentsOf
<1>2. BatchIInv => FenceFollows
  BY <1>1
<1>3. QED
  BY <1>2, BatchInvariantHolds, PTL

\* With a slot for every item, the tasks of a run left alone never all sleep with nobody
\* to wake them: the one with the first item in flight has its context.
THEOREM NobodyIsStranded == BatchSpec => []NotStranded
<1>1. BatchIInv => NotStranded
  BY FirstWaiterReady DEF BatchIInv
<1>2. QED
  BY <1>1, BatchInvariantHolds, PTL

-----------------------------------------------------------------------------
(* Requests run out: what may still be asked of an item falls with every   *)
(* request that ends without settling it, and cannot fall for ever.        *)

\* A part of a finite set has fewer elements.
LEMMA Fewer ==
    ASSUME NEW T, IsFiniteSet(T), NEW S \in SUBSET T
    PROVE  /\ Cardinality(S) \in Nat /\ Cardinality(T) \in Nat /\ Cardinality(S) <= Cardinality(T)
           /\ S # T => Cardinality(S) < Cardinality(T)
<1>1. IsFiniteSet(S) /\ Cardinality(S) <= Cardinality(T) /\ (Cardinality(T) = Cardinality(S) => T = S)
  BY FS_Subset
<1>2. Cardinality(S) \in Nat /\ Cardinality(T) \in Nat
  BY <1>1, FS_CardinalityType
<1>3. QED
  BY <1>1, <1>2

\* The order of ranks: the first component that differs decides.
LEMMA BelowDecides ==
    ASSUME NEW a \in Int, NEW b \in Int, NEW c \in Int, NEW d \in Int, NEW e \in Int,
           NEW p \in Int, NEW q \in Int, NEW r \in Int, NEW s \in Int, NEW u \in Int,
           \/ p < a
           \/ p = a /\ q < b
           \/ p = a /\ q = b /\ r < c
           \/ p = a /\ q = b /\ r = c /\ s < d
           \/ p = a /\ q = b /\ r = c /\ s = d /\ u < e
    PROVE  Below(<<p, q, r, s, u>>, <<a, b, c, d, e>>)
<1> DEFINE x == <<a, b, c, d, e>>
           y == <<p, q, r, s, u>>
<1>1. /\ x[1] = a /\ x[2] = b /\ x[3] = c /\ x[4] = d /\ x[5] = e
      /\ y[1] = p /\ y[2] = q /\ y[3] = r /\ y[4] = s /\ y[5] = u
  OBVIOUS
<1> HIDE DEF x, y
<1>2. ASSUME NEW n \in 1 .. 5, y[n] < x[n], \A m \in 1 .. 4 : m < n => y[m] = x[m]
      PROVE  Below(y, x)
  <2>1. \A m \in 1 .. n - 1 : m \in 1 .. 4 /\ m < n
    OBVIOUS
  <2>2. QED
    BY <1>2, <2>1 DEF Below
<1>3. ASSUME p < a PROVE Below(y, x)
  <2>1. 1 \in 1 .. 5 /\ \A m \in 1 .. 4 : ~(m < 1)
    OBVIOUS
  <2>2. QED
    BY <1>1, <1>2, <1>3, <2>1
<1>4. ASSUME p = a /\ q < b PROVE Below(y, x)
  <2>1. 2 \in 1 .. 5 /\ \A m \in 1 .. 4 : m < 2 => m = 1
    OBVIOUS
  <2>2. QED
    BY <1>1, <1>2, <1>4, <2>1
<1>5. ASSUME p = a /\ q = b /\ r < c PROVE Below(y, x)
  <2>1. 3 \in 1 .. 5 /\ \A m \in 1 .. 4 : m < 3 => m \in {1, 2}
    OBVIOUS
  <2>2. QED
    BY <1>1, <1>2, <1>5, <2>1
<1>6. ASSUME p = a /\ q = b /\ r = c /\ s < d PROVE Below(y, x)
  <2>1. 4 \in 1 .. 5 /\ \A m \in 1 .. 4 : m < 4 => m \in {1, 2, 3}
    OBVIOUS
  <2>2. QED
    BY <1>1, <1>2, <1>6, <2>1
<1>7. ASSUME p = a /\ q = b /\ r = c /\ s = d /\ u < e PROVE Below(y, x)
  <2>1. 5 \in 1 .. 5 /\ \A m \in 1 .. 4 : m < 5 => m \in {1, 2, 3, 4}
    OBVIOUS
  <2>2. QED
    BY <1>1, <1>2, <1>7, <2>1
<1>8. Below(y, x)
  BY <1>3, <1>4, <1>5, <1>6, <1>7
<1>9. QED
  BY <1>8 DEF x, y

Ranks == Nat \X Nat \X Nat \X Nat \X Nat

\* Some member of a set has the least of a count.
LEMMA LeastAt ==
    ASSUME NEW n \in 1 .. 5, NEW S \in SUBSET Ranks, S # {}
    PROVE  \E r \in S : \A q \in S : r[n] <= q[n]
<1> DEFINE N == {r[n] : r \in S}
<1>1. N \in SUBSET Nat /\ N # {}
  <2>1. \A r \in S : r[1] \in Nat /\ r[2] \in Nat /\ r[3] \in Nat /\ r[4] \in Nat /\ r[5] \in Nat
    BY DEF Ranks
  <2>2. n \in {1, 2, 3, 4, 5}
    OBVIOUS
  <2>3. \A r \in S : r[n] \in Nat
    BY <2>1, <2>2
  <2>4. QED
    BY <2>3
<1> HIDE DEF N
<1>2. PICK k \in N : \A m \in N : k <= m
  BY <1>1, LeastOf
<1>3. QED
  BY <1>2 DEF N

\* A set of ranks has a least one.
LEMMA RanksHaveLeast ==
    ASSUME NEW S \in SUBSET Ranks, S # {}
    PROVE  \E r \in S : \A q \in S : ~Below(q, r)
<1> DEFINE Least(T, n) == {r \in T : \A q \in T : r[n] <= q[n]}
           S1 == Least(S, 1)
           S2 == Least(S1, 2)
           S3 == Least(S2, 3)
           S4 == Least(S3, 4)
           S5 == Least(S4, 5)
<1>0. ASSUME NEW T \in SUBSET S, T # {}, NEW n \in 1 .. 5
      PROVE  /\ Least(T, n) \in SUBSET S /\ Least(T, n) # {} /\ Least(T, n) \subseteq T
             /\ \A r \in Least(T, n), q \in T : ~(q[n] < r[n]) /\ (q[n] = r[n] => q \in Least(T, n))
  <2>1. T \in SUBSET Ranks
    BY <1>0
  <2>2. \A r \in Ranks : r[n] \in Nat
    <3>1. \A r \in Ranks : r[1] \in Nat /\ r[2] \in Nat /\ r[3] \in Nat /\ r[4] \in Nat /\ r[5] \in Nat
      BY DEF Ranks
    <3>2. n \in {1, 2, 3, 4, 5}
      OBVIOUS
    <3>3. QED
      BY <3>1, <3>2
  <2>3. Least(T, n) # {}
    BY <1>0, <2>1, LeastAt
  <2>4. \A r \in Least(T, n), q \in T : ~(q[n] < r[n])
    BY <2>1, <2>2
  <2>5. \A r \in Least(T, n), q \in T : q[n] = r[n] => q \in Least(T, n)
    OBVIOUS
  <2>6. QED
    BY <1>0, <2>3, <2>4, <2>5
<1>n. 1 \in 1 .. 5 /\ 2 \in 1 .. 5 /\ 3 \in 1 .. 5 /\ 4 \in 1 .. 5 /\ 5 \in 1 .. 5
  OBVIOUS
<1> HIDE DEF Least
<1>1. /\ S1 \in SUBSET S /\ S1 # {} /\ S1 \subseteq S
      /\ \A r \in S1, q \in S : ~(q[1] < r[1]) /\ (q[1] = r[1] => q \in S1)
  BY <1>0, <1>n
<1> HIDE DEF S1
<1>2. /\ S2 \in SUBSET S /\ S2 # {} /\ S2 \subseteq S1
      /\ \A r \in S2, q \in S1 : ~(q[2] < r[2]) /\ (q[2] = r[2] => q \in S2)
  BY <1>0, <1>1, <1>n
<1> HIDE DEF S2
<1>3. /\ S3 \in SUBSET S /\ S3 # {} /\ S3 \subseteq S2
      /\ \A r \in S3, q \in S2 : ~(q[3] < r[3]) /\ (q[3] = r[3] => q \in S3)
  BY <1>0, <1>2, <1>n
<1> HIDE DEF S3
<1>4. /\ S4 \in SUBSET S /\ S4 # {} /\ S4 \subseteq S3
      /\ \A r \in S4, q \in S3 : ~(q[4] < r[4]) /\ (q[4] = r[4] => q \in S4)
  BY <1>0, <1>3, <1>n
<1> HIDE DEF S4
<1>5. /\ S5 \in SUBSET S /\ S5 # {} /\ S5 \subseteq S4
      /\ \A r \in S5, q \in S4 : ~(q[5] < r[5]) /\ (q[5] = r[5] => q \in S5)
  BY <1>0, <1>4, <1>n
<1> HIDE DEF S5
<1>6. PICK r \in S5 : TRUE
  BY <1>5
<1>7. r \in S4 /\ r \in S3 /\ r \in S2 /\ r \in S1 /\ r \in S
  BY <1>1, <1>2, <1>3, <1>4, <1>5
<1>8. ASSUME NEW q \in S, Below(q, r) PROVE FALSE
  <2>1. PICK n \in 1 .. 5 : q[n] < r[n] /\ \A m \in 1 .. n - 1 : q[m] = r[m]
    BY <1>8 DEF Below
  <2>2. n \in {1, 2, 3, 4, 5}
    OBVIOUS
  <2>3. \A m \in {1, 2, 3, 4} : m < n => q[m] = r[m]
    BY <2>1
  <2>4. n # 1
    BY <1>1, <1>7, <2>1
  <2>5. n > 1 => q \in S1
    BY <1>1, <1>7, <2>3
  <2>6. n # 2
    BY <1>2, <1>7, <2>1, <2>5
  <2>7. n > 2 => q \in S2
    BY <1>2, <1>7, <2>3, <2>5
  <2>8. n # 3
    BY <1>3, <1>7, <2>1, <2>7
  <2>9. n > 3 => q \in S3
    BY <1>3, <1>7, <2>3, <2>7
  <2>10. n # 4
    BY <1>4, <1>7, <2>1, <2>9
  <2>11. n > 4 => q \in S4
    BY <1>4, <1>7, <2>3, <2>9
  <2>12. n # 5
    BY <1>5, <1>6, <2>1, <2>11
  <2>13. QED
    BY <2>2, <2>4, <2>6, <2>8, <2>10, <2>12
<1>9. QED
  BY <1>7, <1>8

\* No rank falls for ever: a fact on the order alone, whatever the code does, which
\* gives the falls of RequestsDoRunOut a floor.
LEMMA NoRankFallsForever ==
    \A f \in [Nat -> Ranks] : \E n \in Nat : ~Below(f[n + 1], f[n])
<1> SUFFICES ASSUME NEW f \in [Nat -> Ranks] PROVE \E n \in Nat : ~Below(f[n + 1], f[n])
  OBVIOUS
<1> DEFINE S == {f[n] : n \in Nat}
<1>1. S \in SUBSET Ranks /\ S # {}
  <2>1. f[0] \in S
    OBVIOUS
  <2>2. QED
    BY <2>1
<1> HIDE DEF S
<1>2. PICK r \in S : \A q \in S : ~Below(q, r)
  BY <1>1, RanksHaveLeast
<1>3. PICK n \in Nat : r = f[n]
  BY DEF S
<1>4. f[n + 1] \in S
  BY DEF S
<1>5. QED
  BY <1>2, <1>3, <1>4

\* What the tasks carry.
Loads == {<<t.batch, t.level, t.escalated>> : t \in tasks}

\* What ranks depend on but the sizer and the counts: which batches there are, and
\* what the tasks carry.
LEMMA LoadsTell ==
    /\ Batches = {queue[k] : k \in DOMAIN queue} \cup {l[1] : l \in Loads}
    /\ \A i : Raises(i) = {n \in 1 .. Ceiling :
                              /\ allowance[i] < n
                              /\ \A l \in Loads : i \in Covers(l[1]) /\ l[3] => l[2] < n}
<1>1. ASSUME NEW t \in tasks
      PROVE  \E l \in Loads : l[1] = t.batch /\ l[2] = t.level /\ l[3] = t.escalated
  <2>1. <<t.batch, t.level, t.escalated>> \in Loads
    BY DEF Loads
  <2>2. QED
    BY <2>1
<1>2. ASSUME NEW l \in Loads
      PROVE  \E t \in tasks : l[1] = t.batch /\ l[2] = t.level /\ l[3] = t.escalated
  BY DEF Loads
<1>3. {t.batch : t \in tasks} = {l[1] : l \in Loads}
  <2>1. \A x \in {t.batch : t \in tasks} : x \in {l[1] : l \in Loads}
    BY <1>1
  <2>2. \A x \in {l[1] : l \in Loads} : x \in {t.batch : t \in tasks}
    BY <1>2
  <2>3. QED
    BY <2>1, <2>2
<1>4. ASSUME NEW i, NEW n \in 1 .. Ceiling
      PROVE  (\A t \in tasks : i \in Covers(t.batch) /\ t.escalated => t.level < n)
                <=> (\A l \in Loads : i \in Covers(l[1]) /\ l[3] => l[2] < n)
  <2>1. ASSUME \A t \in tasks : i \in Covers(t.batch) /\ t.escalated => t.level < n,
               NEW l \in Loads, i \in Covers(l[1]), l[3]
        PROVE  l[2] < n
    <3>1. PICK t \in tasks : l[1] = t.batch /\ l[2] = t.level /\ l[3] = t.escalated
      BY <1>2
    <3>2. i \in Covers(t.batch) /\ t.escalated
      BY <2>1, <3>1
    <3>3. QED
      BY <2>1, <3>1, <3>2
  <2>2. ASSUME \A l \in Loads : i \in Covers(l[1]) /\ l[3] => l[2] < n,
               NEW t \in tasks, i \in Covers(t.batch), t.escalated
        PROVE  t.level < n
    <3>1. PICK l \in Loads : l[1] = t.batch /\ l[2] = t.level /\ l[3] = t.escalated
      BY <1>1
    <3>2. i \in Covers(l[1]) /\ l[3]
      BY <2>2, <3>1
    <3>3. QED
      BY <2>2, <3>1, <3>2
  <2>3. QED
    BY <2>1, <2>2
<1>5. QED
  BY <1>3, <1>4 DEF Batches, Raises

\* A task's step leaves what it carries.
LEMMA WorkLoads ==
    ASSUME BatchTypeOK, Work
    PROVE  Loads' = Loads
<1>1. PICK t \in tasks : TaskStep(t)
  BY DEF Work
<1>2. t \in Tasks
  BY TaskTyped
<1>3. ASSUME NEW u, tasks' = (tasks \ {t}) \cup {u},
             u.batch = t.batch, u.level = t.level, u.escalated = t.escalated
      PROVE  Loads' = Loads
  <2>1. \A v \in tasks' : \E w \in tasks : v.batch = w.batch /\ v.level = w.level /\ v.escalated = w.escalated
    BY <1>3
  <2>2. \A w \in tasks : \E v \in tasks' : v.batch = w.batch /\ v.level = w.level /\ v.escalated = w.escalated
    BY <1>3
  <2>3. \A l \in Loads' : l \in Loads
    BY <2>1 DEF Loads
  <2>4. \A l \in Loads : l \in Loads'
    BY <2>2 DEF Loads
  <2>5. QED
    BY <2>3, <2>4
<1>4. ASSUME NEW pc, Step(t, pc) PROVE Loads' = Loads
  <2> DEFINE u == [t EXCEPT !.pc = pc]
  <2>1. u.batch = t.batch /\ u.level = t.level /\ u.escalated = t.escalated
    BY <1>2 DEF Tasks
  <2>2. tasks' = (tasks \ {t}) \cup {u}
    BY <1>4 DEF Step
  <2> HIDE DEF u
  <2>3. QED
    BY <1>3, <2>1, <2>2
<1>5. CASE Subscribe(t)
  <2> DEFINE u == [t EXCEPT !.pc = "check", !.woken = FALSE]
  <2>1. u.batch = t.batch /\ u.level = t.level /\ u.escalated = t.escalated
    BY <1>2 DEF Tasks
  <2>2. tasks' = (tasks \ {t}) \cup {u}
    BY <1>5 DEF Subscribe
  <2> HIDE DEF u
  <2>3. QED
    BY <1>3, <2>1, <2>2
<1>6. ASSUME NEW a, Answered(t, a) PROVE Loads' = Loads
  <2> DEFINE u == [t EXCEPT !.pc = "answered", !.answer = a]
  <2>1. u.batch = t.batch /\ u.level = t.level /\ u.escalated = t.escalated
    BY <1>2 DEF Tasks
  <2>2. tasks' = (tasks \ {t}) \cup {u}
    BY <1>6 DEF Answered
  <2> HIDE DEF u
  <2>3. QED
    BY <1>3, <2>1, <2>2
<1>7. CASE CheckContext(t)
  BY <1>4, <1>7 DEF CheckContext
<1>8. CASE Sleep(t) \/ Wake(t) \/ GateOpens(t)
  BY <1>4, <1>8 DEF Sleep, Wake, GateOpens
<1>9. CASE GateStops(t) \/ Answer(t)
  BY <1>6, <1>9 DEF GateStops, Answer
<1>10. QED
  BY <1>1, <1>5, <1>7, <1>8, <1>9 DEF TaskStep

\* A join leaves what the others carry.
LEMMA OthersLoads ==
    ASSUME BatchTypeOK, NEW t \in tasks, NEW p \in BOOLEAN, tasks' = Others(t, p)
    PROVE  Loads' = {<<u.batch, u.level, u.escalated>> : u \in tasks \ {t}}
<1>1. tasks' = {Woken(u, p) : u \in tasks \ {t}}
  BY OthersKeep
<1>2. ASSUME NEW u \in tasks
      PROVE  /\ Woken(u, p).batch = u.batch /\ Woken(u, p).level = u.level
             /\ Woken(u, p).escalated = u.escalated
  <2>1. u \in Tasks
    BY TaskTyped
  <2>2. QED
    BY <2>1 DEF Woken, Tasks
<1> DEFINE R == {<<u.batch, u.level, u.escalated>> : u \in tasks \ {t}}
<1>3. \A l \in Loads' : l \in R
  <2> SUFFICES ASSUME NEW v \in tasks' PROVE <<v.batch, v.level, v.escalated>> \in R
    BY DEF Loads
  <2>1. PICK u \in tasks \ {t} : v = Woken(u, p)
    BY <1>1
  <2>2. v.batch = u.batch /\ v.level = u.level /\ v.escalated = u.escalated
    BY <1>2, <2>1
  <2>3. QED
    BY <2>2
<1>4. \A l \in R : l \in Loads'
  <2> SUFFICES ASSUME NEW u \in tasks \ {t} PROVE <<u.batch, u.level, u.escalated>> \in Loads'
    OBVIOUS
  <2>1. Woken(u, p) \in tasks'
    BY <1>1
  <2>2. /\ Woken(u, p).batch = u.batch /\ Woken(u, p).level = u.level
        /\ Woken(u, p).escalated = u.escalated
    BY <1>2
  <2>3. QED
    BY <2>1, <2>2 DEF Loads
<1>5. QED
  BY <1>3, <1>4

\* An item is in one batch.
LEMMA OneBatch ==
    ASSUME Placed, Working, NEW b \in Batches, NEW c \in Batches, NEW i,
           i \in Covers(b), i \in Covers(c)
    PROVE  b = c
<1>1. /\ Deals(queue, Queued)
      /\ \A t \in tasks : Covers(t.batch) \cap Queued = {}
      /\ \A t, u \in tasks : t # u => Covers(t.batch) \cap Covers(u.batch) = {}
  BY DEF Placed
<1>2. \A k \in DOMAIN queue : Covers(queue[k]) \subseteq Queued
  BY DEF Queued
<1>3. ASSUME NEW k \in DOMAIN queue, b = queue[k], NEW l \in DOMAIN queue, c = queue[l] PROVE b = c
  <2>1. PICK m \in DOMAIN queue[k] : queue[k][m] = i
    BY <1>3 DEF Covers
  <2>2. PICK n \in DOMAIN queue[l] : queue[l][n] = i
    BY <1>3 DEF Covers
  <2>3. k = l
    BY <1>1, <2>1, <2>2 DEF Deals
  <2>4. QED
    BY <1>3, <2>3
<1>4. ASSUME NEW t \in tasks, b = t.batch, NEW u \in tasks, c = u.batch PROVE b = c
  BY <1>1, <1>4
<1>5. ASSUME NEW k \in DOMAIN queue, NEW t \in tasks,
             \/ b = queue[k] /\ c = t.batch
             \/ c = queue[k] /\ b = t.batch
      PROVE  FALSE
  BY <1>1, <1>2, <1>5
<1>6. QED
  BY <1>3, <1>4, <1>5 DEF Batches

\* The items of a batch are each other's peers.
LEMMA PeersAre ==
    ASSUME BatchTypeOK, Placed, Working, NEW b \in Batches, NEW i \in Covers(b)
    PROVE  Peers(i) = Covers(b)
<1>1. Covers(b) \subseteq Items
  <2>1. \A k \in DOMAIN queue : Covers(queue[k]) \subseteq Items
    BY DEF BatchTypeOK, Covers
  <2>2. \A t \in tasks : Covers(t.batch) \subseteq Items
    BY TaskTyped
  <2>3. QED
    BY <2>1, <2>2 DEF Batches
<1>2. \A j \in Covers(b) : j \in Peers(i)
  BY <1>1 DEF Peers
<1>3. \A j \in Peers(i) : j \in Covers(b)
  <2> SUFFICES ASSUME NEW j \in Items, NEW c \in Batches, {i, j} \subseteq Covers(c) PROVE j \in Covers(b)
    BY DEF Peers
  <2>1. c = b
    BY OneBatch
  <2>2. QED
    BY <2>1
<1>4. QED
  BY <1>2, <1>3

\* What a batch may be asked is counted from limits above nought.
LEMMA LimitsTyped ==
    /\ TransientLimit \in Nat /\ TransientLimit >= 2 /\ SingleLimit \in Nat /\ SingleLimit >= 2
    /\ CompactLimit \in Nat /\ CompactLimit >= 3 /\ CompactLimit >= CompactRetries
    /\ \A kind : AttemptLimit(kind) \in Nat /\ AttemptLimit(kind) <= TransientLimit
<1>1. MaxAttempts \in Nat /\ ConnectAttempts \in Nat /\ CompactRetries \in Nat
  BY DispatchAssumption
<1>2. TransientLimit \in Nat /\ TransientLimit >= 2 /\ TransientLimit >= MaxAttempts
      /\ TransientLimit >= ConnectAttempts
  BY <1>1 DEF TransientLimit, Larger
<1>3. SingleLimit \in Nat /\ SingleLimit >= 2
  BY <1>1 DEF SingleLimit
<1>4. CompactLimit \in Nat /\ CompactLimit >= 3 /\ CompactLimit >= CompactRetries
  BY <1>1 DEF CompactLimit, Larger
<1>5. \A kind : AttemptLimit(kind) \in Nat /\ AttemptLimit(kind) <= TransientLimit
  <2> TAKE kind
  <2> DEFINE least == IF kind = "connect" THEN ConnectAttempts ELSE IF kind \in Bisected THEN 2 ELSE 1
  <2>1. least \in Nat /\ least <= TransientLimit
    BY <1>1, <1>2
  <2>2. AttemptLimit(kind) = IF MaxAttempts < least THEN least ELSE MaxAttempts
    BY DEF AttemptLimit
  <2> HIDE DEF least
  <2>3. QED
    BY <1>1, <1>2, <2>1, <2>2
<1>6. QED
  BY <1>2, <1>3, <1>4, <1>5

\* How often i was tried, three numbers.
Counts(i) == tries["transient"][i] \in Nat /\ tries["invalid"][i] \in Nat /\ tries["compact"][i] \in Nat

\* The counts of an item are numbers.
LEMMA CountsTyped == BatchTypeOK => \A i \in Items : Counts(i)
<1> SUFFICES ASSUME BatchTypeOK, NEW i \in Items PROVE Counts(i)
  OBVIOUS
<1>1. tries \in [Ways -> [Items -> Nat]]
  BY DEF BatchTypeOK
<1>2. "transient" \in Ways /\ "invalid" \in Ways /\ "compact" \in Ways
  BY DEF Ways
<1>3. tries["transient"] \in [Items -> Nat] /\ tries["invalid"] \in [Items -> Nat] /\ tries["compact"] \in [Items -> Nat]
  BY <1>1, <1>2
<1>4. QED
  BY <1>3 DEF Counts

\* A rank's components, of which the counts might be below nought.
RankOK(i) ==
    /\ MaxRevision - sizer.revision \in Nat
    /\ IsFiniteSet(Peers(i)) /\ IsFiniteSet(Raises(i))
    /\ Cardinality(Peers(i)) \in Nat /\ Cardinality(Raises(i)) \in Nat
    /\ (TransientLimit - tries["transient"][i]) + (SingleLimit - tries["invalid"][i]) \in Int
    /\ CompactLimit - tries["compact"][i] \in Int

\* So they are, whenever the state is typed.
LEMMA RankTyped == BatchTypeOK => \A i \in Items : RankOK(i)
<1> SUFFICES ASSUME BatchTypeOK, NEW i \in Items PROVE RankOK(i)
  OBVIOUS
<1>1. MaxRevision - sizer.revision \in Nat
  BY DispatchAssumption DEF BatchTypeOK
<1>2. IsFiniteSet(Items) /\ IsFiniteSet(1 .. Ceiling)
  BY ItemsFinite, DispatchAssumption, FS_Interval
<1>3. Peers(i) \subseteq Items /\ Raises(i) \subseteq 1 .. Ceiling
  BY DEF Peers, Raises
<1>4. IsFiniteSet(Peers(i)) /\ IsFiniteSet(Raises(i))
  BY <1>2, <1>3, FS_Subset
<1>5. Cardinality(Peers(i)) \in Nat /\ Cardinality(Raises(i)) \in Nat
  BY <1>4, FS_CardinalityType
<1>6. /\ tries["transient"][i] \in Nat /\ tries["invalid"][i] \in Nat /\ tries["compact"][i] \in Nat
      /\ TransientLimit \in Nat /\ SingleLimit \in Nat /\ CompactLimit \in Nat
  BY CountsTyped, LimitsTyped DEF Counts
<1>7. QED
  BY <1>1, <1>4, <1>5, <1>6 DEF RankOK

\* The same of the next state.
LEMMA RanksTypedNext == BatchTypeOK' => \A i \in Items : Counts(i)' /\ RankOK(i)'
<1>1. (BatchTypeOK => \A i \in Items : Counts(i))'
  BY CountsTyped, PTL
<1>2. (BatchTypeOK => \A i \in Items : RankOK(i))'
  BY RankTyped, PTL
<1>3. QED
  BY <1>1, <1>2

\* Less may be asked of i, in one of the five ways.
AskedLess(i) ==
    \/ sizer.revision < sizer'.revision
    \/ /\ sizer.revision = sizer'.revision
       /\ \/ Peers(i)' \subseteq Peers(i) /\ Peers(i)' # Peers(i)
          \/ /\ Peers(i)' = Peers(i)
             /\ \/ tries["transient"][i] + tries["invalid"][i] < tries'["transient"][i] + tries'["invalid"][i]
                \/ /\ tries["transient"][i] = tries'["transient"][i] /\ tries["invalid"][i] = tries'["invalid"][i]
                   /\ \/ tries["compact"][i] < tries'["compact"][i]
                      \/ /\ tries["compact"][i] = tries'["compact"][i]
                         /\ Raises(i)' \subseteq Raises(i) /\ Raises(i)' # Raises(i)

\* Then its rank falls.
LEMMA RankFalls ==
    ASSUME BatchTypeOK, BatchTypeOK', NEW i \in Items, AskedLess(i)
    PROVE  Below(Rank(i)', Rank(i))
<1> DEFINE a == MaxRevision - sizer.revision
           b == Cardinality(Peers(i))
           c == (TransientLimit - tries["transient"][i]) + (SingleLimit - tries["invalid"][i])
           d == CompactLimit - tries["compact"][i]
           e == Cardinality(Raises(i))
<1>1. /\ a \in Nat /\ b \in Nat /\ c \in Int /\ d \in Int /\ e \in Nat
      /\ IsFiniteSet(Peers(i)) /\ IsFiniteSet(Raises(i))
  BY RankTyped DEF RankOK
<1>2. /\ a' \in Nat /\ b' \in Nat /\ c' \in Int /\ d' \in Int /\ e' \in Nat
  <2>2. RankOK(i)'
    BY RanksTypedNext
  <2>3. QED
    BY <2>2 DEF RankOK
<1>3. sizer.revision \in Int /\ sizer'.revision \in Int /\ MaxRevision \in Int
  BY DispatchAssumption DEF BatchTypeOK
<1>4. /\ TransientLimit \in Int /\ SingleLimit \in Int /\ CompactLimit \in Int
      /\ tries["transient"][i] \in Int /\ tries["invalid"][i] \in Int /\ tries["compact"][i] \in Int
      /\ tries'["transient"][i] \in Int /\ tries'["invalid"][i] \in Int /\ tries'["compact"][i] \in Int
  <2>1. Counts(i)
    BY CountsTyped
  <2>2. Counts(i)'
    BY RanksTypedNext
  <2>3. QED
    BY <2>1, <2>2, LimitsTyped DEF Counts
<1>5. \/ a' < a
      \/ a' = a /\ b' < b
      \/ a' = a /\ b' = b /\ c' < c
      \/ a' = a /\ b' = b /\ c' = c /\ d' < d
      \/ a' = a /\ b' = b /\ c' = c /\ d' = d /\ e' < e
  <2>1. CASE sizer.revision < sizer'.revision
    BY <1>3, <2>1
  <2>2. CASE sizer.revision = sizer'.revision /\ Peers(i)' \subseteq Peers(i) /\ Peers(i)' # Peers(i)
    <3>1. b' < b
      BY <1>1, <2>2, Fewer
    <3>2. QED
      BY <2>2, <3>1
  <2>3. CASE /\ sizer.revision = sizer'.revision /\ Peers(i)' = Peers(i)
             /\ tries["transient"][i] + tries["invalid"][i] < tries'["transient"][i] + tries'["invalid"][i]
    BY <1>4, <2>3
  <2>4. CASE /\ sizer.revision = sizer'.revision /\ Peers(i)' = Peers(i)
             /\ tries["transient"][i] = tries'["transient"][i] /\ tries["invalid"][i] = tries'["invalid"][i]
             /\ tries["compact"][i] < tries'["compact"][i]
    BY <1>4, <2>4
  <2>5. CASE /\ sizer.revision = sizer'.revision /\ Peers(i)' = Peers(i)
             /\ tries["transient"][i] = tries'["transient"][i] /\ tries["invalid"][i] = tries'["invalid"][i]
             /\ tries["compact"][i] = tries'["compact"][i]
             /\ Raises(i)' \subseteq Raises(i) /\ Raises(i)' # Raises(i)
    <3>1. e' < e
      BY <1>1, <2>5, Fewer
    <3>2. QED
      BY <2>5, <3>1
  <2>6. QED
    BY <2>1, <2>2, <2>3, <2>4, <2>5 DEF AskedLess
<1>6. Rank(i) = <<a, b, c, d, e>> /\ Rank(i)' = <<a', b', c', d', e'>>
  BY DEF Rank
<1> HIDE DEF a, b, c, d, e
<1>7. a \in Int /\ b \in Int /\ e \in Int /\ a' \in Int /\ b' \in Int /\ e' \in Int
  BY <1>1, <1>2
<1>8. Below(<<a', b', c', d', e'>>, <<a, b, c, d, e>>)
  BY <1>1, <1>2, <1>5, <1>7, BelowDecides
<1>9. QED
  BY <1>6, <1>8

\* No more may be asked of i than before.
NoMoreAsked(i) ==
    /\ sizer.revision = sizer'.revision
    /\ Peers(i)' \subseteq Peers(i) /\ Raises(i)' \subseteq Raises(i)
    /\ \A w \in Ways : tries'[w][i] = tries[w][i]

\* Then its rank stays, or falls.
LEMMA RankStays ==
    ASSUME BatchTypeOK, BatchTypeOK', NEW i \in Items, NoMoreAsked(i)
    PROVE  Rank(i)' = Rank(i) \/ Below(Rank(i)', Rank(i))
<1>0. "transient" \in Ways /\ "invalid" \in Ways /\ "compact" \in Ways
  BY DEF Ways
<1>1. CASE Peers(i)' = Peers(i) /\ Raises(i)' = Raises(i)
  BY <1>0, <1>1 DEF NoMoreAsked, Rank
<1>2. CASE Peers(i)' # Peers(i) \/ Raises(i)' # Raises(i)
  <2>1. AskedLess(i)
    BY <1>0, <1>2 DEF NoMoreAsked, AskedLess
  <2>2. QED
    BY <2>1, RankFalls
<1>3. QED
  BY <1>1, <1>2

\* What deals is a sequence, of sequences that cover parts.
LEMMA DealsParts ==
    ASSUME NEW I, NEW Q, Deals(Q, I)
    PROVE  /\ DOMAIN Q = 1 .. Len(Q) /\ Len(Q) \in Nat /\ Q = [k \in 1 .. Len(Q) |-> Q[k]]
           /\ \A k \in DOMAIN Q : Q[k] \in Seq(I) /\ Q[k] # <<>> /\ Covers(Q[k]) \subseteq I
<1>1. Q \in Seq(Seq(I) \ {<<>>})
  BY DEF Deals
<1>2. \A k \in DOMAIN Q : Q[k] \in Seq(I) /\ Q[k] # <<>>
  BY <1>1
<1>3. \A k \in DOMAIN Q : Covers(Q[k]) \subseteq I
  BY <1>2 DEF Covers
<1>4. QED
  BY <1>1, <1>2, <1>3

\* A batch of the queue or of a task, after a dispatch without new settings, was part of
\* one before; and an item has at least the allowance that was lent to it.
LEMMA DispatchAsks ==
    ASSUME BatchTypeOK, Placed, Dispatch, ~Stale
    PROVE  /\ UNCHANGED <<sizer, tries>>
           /\ \A b \in Batches' : \E c \in Batches : Covers(b) \subseteq Covers(c)
           /\ \A i \in Items : Raises(i)' \subseteq Raises(i)
<1>0. /\ Deals(queue, Queued) /\ Queued \subseteq Items /\ queue # <<>>
      /\ CurrentQueue = queue /\ CurrentSizer = sizer
      /\ allowance \in [Items -> 0 .. Ceiling] /\ allowance \in [Items -> Nat]
  <2>1. Deals(queue, Queued) /\ Queued \subseteq Items /\ queue # <<>>
    BY QueuedTyped DEF Placed, Working, Dispatch, Filling
  <2>2. CurrentQueue = queue /\ CurrentSizer = sizer
    BY DEF CurrentQueue, CurrentSizer
  <2>3. allowance \in [Items -> 0 .. Ceiling] /\ allowance \in [Items -> Nat]
    BY DEF BatchTypeOK
  <2>4. QED
    BY <2>1, <2>2, <2>3
<1> DEFINE head  == Head(CurrentQueue)
           level == MaxOver(allowance, head)
           parts == Chunk(head, CurrentSizer.limit[ModeOfBatch(head)])
           first == Head(parts)
           slow  == level = 0 /\ Len(first) > 1 /\ Len(first) > LatencyCap
<1>1. /\ queue' = (IF slow THEN Split(first) ELSE <<>>) \o Tail(parts) \o Tail(CurrentQueue)
      /\ tasks' = IF slow THEN tasks ELSE tasks \cup {NewTask(first, level)}
      /\ allowance' = SetOver(SetOver(allowance, head, level), first, 0)
      /\ sizer' = CurrentSizer /\ tries' = tries
  BY ZenonT(40) DEF Dispatch
<1>2. /\ head # <<>> /\ Covers(head) \subseteq Queued /\ Lists(head, Covers(head))
      /\ Deals(Tail(queue), Queued \ Covers(head))
  BY <1>0, HeadHolds
<1>3. head = queue[1] /\ 1 \in DOMAIN queue
  BY <1>0, EmptySeq DEF Deals
<1>q. /\ CurrentSizer.limit \in [Modes -> Nat \ {0}]
      /\ \A k \in DOMAIN Tail(queue) : k + 1 \in DOMAIN queue /\ Tail(queue)[k] = queue[k + 1]
  <2>1. CurrentSizer.limit \in [Modes -> Nat \ {0}]
    BY <1>0 DEF BatchTypeOK
  <2>2. /\ DOMAIN queue = 1 .. Len(queue) /\ Len(queue) \in Nat \ {0}
        /\ queue \in Seq(Seq(Items) \ {<<>>})
    BY <1>0, EmptySeq DEF BatchTypeOK
  <2> DEFINE T == Tail(queue)
  <2>3. /\ T \in Seq(Seq(Items) \ {<<>>}) /\ Len(T) = Len(queue) - 1
        /\ \A k \in 1 .. Len(T) : T[k] = queue[k + 1]
    BY <1>0, <2>2, HeadTailProperties
  <2> HIDE DEF T
  <2>4. DOMAIN T = 1 .. (Len(queue) - 1)
    BY <2>2, <2>3
  <2>5. \A k \in DOMAIN T : k + 1 \in DOMAIN queue /\ T[k] = queue[k + 1]
    BY <2>2, <2>3, <2>4
  <2>6. QED
    BY <2>1, <2>5 DEF T
<1> HIDE DEF head
<1>4. head \in Seq(Items) \ {<<>>} /\ head[1] \in Items
  <2>1. head \in Seq(Covers(head)) /\ Covers(head) \subseteq Items
    BY <1>0, <1>2 DEF Lists
  <2>2. head \in Seq(Items)
    BY <2>1, SeqMonotonic
  <2>3. QED
    BY <1>2, <2>2, EmptySeq
<1>5. Deals(parts, Covers(head))
  <2>1. CurrentSizer.limit[ModeOfBatch(head)] \in Nat \ {0}
    BY <1>q, <1>4, PlanAssumption DEF ModeOfBatch
  <2>2. QED
    BY <1>2, <2>1, ChunkHolds
<1>6. /\ first # <<>> /\ Covers(first) \subseteq Covers(head) /\ Lists(first, Covers(first))
      /\ Deals(Tail(parts), Covers(head) \ Covers(first))
  <2>1. Covers(head) # {}
    BY <1>4, EmptySeq DEF Covers
  <2>2. parts # <<>>
    BY <1>5, <2>1, DealsCovers
  <2> HIDE DEF parts
  <2>3. QED
    BY <1>5, <2>2, HeadHolds
<1>7. level \in Nat /\ \A i \in Covers(head) : allowance[i] <= level
  BY <1>0, <1>4, MaxOverHolds
<1> DEFINE H == IF slow THEN Split(first) ELSE <<>>
<1>8. DOMAIN H = 1 .. Len(H) /\ Len(H) \in Nat /\ \A k \in DOMAIN H : Covers(H[k]) \subseteq Covers(head)
  <2> HIDE DEF parts, first, level
  <2>1. CASE slow
    <3>1. Deals(H, Covers(first))
      BY <1>6, <2>1, SplitHolds
    <3>2. \A k \in DOMAIN H : Covers(H[k]) \subseteq Covers(first)
      BY <3>1, DealsParts
    <3>3. DOMAIN H = 1 .. Len(H) /\ Len(H) \in Nat
      BY <3>1, DealsParts
    <3>4. QED
      BY <1>6, <3>2, <3>3
  <2>2. CASE ~slow
    BY <2>2
  <2>3. QED
    BY <2>1, <2>2
<1> HIDE DEF level, parts, first, slow, H
<1>9. \A k \in DOMAIN Tail(parts) : Covers(Tail(parts)[k]) \subseteq Covers(head)
  <2> DEFINE T == Tail(parts)
             R == Covers(head) \ Covers(first)
  <2>1. Deals(T, R) /\ R \subseteq Covers(head)
    BY <1>6
  <2> HIDE DEF T, R
  <2>2. \A k \in DOMAIN T : Covers(T[k]) \subseteq R
    BY <2>1, DealsParts
  <2>3. QED
    BY <2>1, <2>2 DEF T
<1>10. \A k \in DOMAIN queue' : \/ Covers(queue'[k]) \subseteq Covers(head)
                                \/ \E l \in DOMAIN queue : queue'[k] = queue[l]
  <2> DEFINE P == Tail(parts)
             T == Tail(queue)
  <2>1. queue' = (H \o P) \o T
    BY <1>0, <1>1 DEF H
  <2>2. /\ DOMAIN H = 1 .. Len(H) /\ Len(H) \in Nat
        /\ DOMAIN P = 1 .. Len(P) /\ Len(P) \in Nat
        /\ DOMAIN T = 1 .. Len(T) /\ Len(T) \in Nat
    BY <1>2, <1>6, <1>8, DealsParts
  <2> HIDE DEF P, T
  <2>3. /\ DOMAIN queue' = 1 .. (Len(H) + Len(P) + Len(T))
        /\ \A k \in DOMAIN queue' : \/ k \in DOMAIN H /\ queue'[k] = H[k]
                                    \/ k - Len(H) \in DOMAIN P /\ queue'[k] = P[k - Len(H)]
                                    \/ k - Len(H) - Len(P) \in DOMAIN T /\ queue'[k] = T[k - Len(H) - Len(P)]
    BY <2>1, <2>2
  <2>4. \A k \in DOMAIN queue' : \/ \E l \in DOMAIN H : queue'[k] = H[l]
                                 \/ \E l \in DOMAIN P : queue'[k] = P[l]
                                 \/ \E l \in DOMAIN T : queue'[k] = T[l]
    BY <2>3
  <2>5. \A l \in DOMAIN T : \E m \in DOMAIN queue : T[l] = queue[m]
    BY <1>q DEF T
  <2>6. QED
    BY <1>8, <1>9, <2>4, <2>5 DEF P
<1>11. tasks' \subseteq tasks \cup {NewTask(first, level)} /\ NewTask(first, level).batch = first
  BY <1>1 DEF NewTask
<1>12. \A b \in Batches' : \E c \in Batches : Covers(b) \subseteq Covers(c)
  <2> SUFFICES ASSUME NEW b \in Batches' PROVE \E c \in Batches : Covers(b) \subseteq Covers(c)
    OBVIOUS
  <2>1. head \in Batches
    BY <1>3 DEF Batches
  <2>2. ASSUME NEW k \in DOMAIN queue', b = queue'[k] PROVE \E c \in Batches : Covers(b) \subseteq Covers(c)
    BY <1>10, <2>1, <2>2 DEF Batches
  <2>3. ASSUME NEW t \in tasks', b = t.batch PROVE \E c \in Batches : Covers(b) \subseteq Covers(c)
    BY <1>6, <1>11, <2>1, <2>3 DEF Batches
  <2>4. QED
    BY <2>2, <2>3 DEF Batches
<1>13. ASSUME NEW i \in Items, NEW n \in Raises(i)' PROVE n \in Raises(i)
  <2>1. /\ n \in 1 .. Ceiling /\ allowance'[i] < n
        /\ \A t \in tasks' : i \in Covers(t.batch) /\ t.escalated => t.level < n
    BY DEF Raises
  <2>2. tasks \subseteq tasks'
    BY <1>1
  <2>3. allowance'[i] = IF i \in Covers(first) THEN 0 ELSE IF i \in Covers(head) THEN level ELSE allowance[i]
    BY <1>1 DEF SetOver
  <2>4. allowance[i] < n
    <3>0. allowance[i] \in Nat /\ n \in Nat /\ n >= 1
      BY <1>0, <2>1
    <3>1. CASE i \notin Covers(head)
      BY <1>6, <2>1, <2>3, <3>1
    <3>2. CASE i \in Covers(head) /\ i \notin Covers(first)
      BY <1>7, <2>1, <2>3, <3>0, <3>2
    <3>3. CASE i \in Covers(first) /\ level = 0
      BY <1>6, <1>7, <3>0, <3>3
    <3>4. CASE i \in Covers(first) /\ level # 0
      <4> DEFINE t == NewTask(first, level)
      <4>1. t.batch = first /\ t.escalated /\ t.level = level
        BY <3>4 DEF NewTask
      <4>2. t \in tasks'
        BY <1>1, <3>4 DEF slow
      <4> HIDE DEF t
      <4>3. level < n
        BY <2>1, <3>4, <4>1, <4>2
      <4>4. QED
        BY <1>6, <1>7, <3>0, <3>4, <4>3
    <3>5. QED
      BY <1>6, <3>1, <3>2, <3>3, <3>4
  <2>5. QED
    BY <2>1, <2>2, <2>4 DEF Raises
<1>14. QED
  BY <1>0, <1>1, <1>12, <1>13

\* Parts of batches share with fewer.
LEMMA PeersFew ==
    ASSUME \A b \in Batches' : \E c \in Batches : Covers(b) \subseteq Covers(c), NEW i
    PROVE  Peers(i)' \subseteq Peers(i)
BY DEF Peers

\* An item that waits or is in flight was tried less often than its limits allow.
Tolerated(i) ==
    /\ tries["transient"][i] < TransientLimit /\ tries["invalid"][i] < SingleLimit
    /\ tries["compact"][i] <= CompactLimit

\* No sizer is ahead of the settings, no item in flight keeps an allowance, and none is
\* beyond its limits.
AskInv ==
    /\ sizer.revision <= settings.revision
    /\ Working => \A t \in tasks : \A i \in Covers(t.batch) : allowance[i] = 0
    /\ \A i \in Open : Tolerated(i)

\* A join changes the ledgers for the items of its batch only, and not the revision.
LEMMA JoinLocal ==
    ASSUME BatchTypeOK, NEW t \in tasks, Join(t)
    PROVE  /\ sizer'.revision = sizer.revision
           /\ \A i \in Items \ Covers(t.batch) :
                  allowance'[i] = allowance[i] /\ \A w \in Ways : tries'[w][i] = tries[w][i]
<1>0. /\ tries \in [Ways -> [Items -> Nat]] /\ allowance \in [Items -> 0 .. Ceiling]
      /\ "transient" \in Ways /\ "invalid" \in Ways /\ "compact" \in Ways
  BY DEF BatchTypeOK, Ways
<1>1. ASSUME NEW percent, NEW step, SizerAfter(t.batch, percent, step) PROVE sizer'.revision = sizer.revision
  <2> DEFINE m    == ModeOfBatch(t.batch)
             n    == sizer.limit[m]
             cut  == (n * percent) \div 100
             next == {n, IF cut < 1 THEN 1 ELSE cut} \cup ({n + step} \cap Items)
  <2>1. IF Adaptive THEN \E k \in next : sizer' = [sizer EXCEPT !.limit[m] = k] ELSE UNCHANGED sizer
    BY <1>1 DEF SizerAfter
  <2> HIDE DEF next, m
  <2>2. CASE Adaptive
    <3>1. PICK k \in next : sizer' = [sizer EXCEPT !.limit[m] = k]
      BY <2>1, <2>2
    <3>2. QED
      BY <3>1
  <2>3. CASE ~Adaptive
    BY <2>1, <2>3
  <2>4. QED
    BY <2>2, <2>3
<1>2. \A f, n : \A i \in Items \ Covers(t.batch) : SetOver(f, t.batch, n)[i] = f[i]
  BY DEF SetOver
<1>3. ASSUME NEW v \in Ways, NEW n, Count(t, v, n)
      PROVE  \A i \in Items \ Covers(t.batch) : \A w \in Ways : tries'[w][i] = tries[w][i]
  <2>1. tries' = [tries EXCEPT ![v] = SetOver(tries[v], t.batch, n)]
    BY <1>3 DEF Count
  <2>2. \A w \in Ways : tries'[w] = IF w = v THEN SetOver(tries[v], t.batch, n) ELSE tries[w]
    BY <1>0, <2>1
  <2>3. QED
    BY <1>2, <2>2
<1>4. ASSUME NEW n, allowance' = SetOver(allowance, t.batch, n)
      PROVE  \A i \in Items \ Covers(t.batch) : allowance'[i] = allowance[i]
  BY <1>2, <1>4
<1>5. CASE JoinStopped(t) \/ JoinTooLargeSplit(t) \/ JoinFatal(t)
  BY <1>5 DEF JoinStopped, JoinTooLargeSplit, JoinFatal, ledger
<1>6. CASE JoinOk(t)
  <2>1. SizerAfter(t.batch, 85, 1) /\ allowance' = allowance /\ Count(t, "compact", 0)
    BY <1>6 DEF JoinOk, Count
  <2>2. QED
    BY <1>0, <1>1, <1>3, <2>1
<1>7. CASE JoinTransientRetry(t) \/ JoinTransientFail(t)
  <2>1. UNCHANGED <<sizer, allowance>> /\ Count(t, "transient", Tried(t, "transient"))
    BY <1>7 DEF JoinTransientRetry, JoinTransientFail
  <2>2. QED
    BY <1>0, <1>3, <2>1
<1>8. CASE JoinTransientSplit(t)
  <2>1. SizerAfter(t.batch, 85, 0) /\ allowance' = allowance /\ Count(t, "transient", 0)
    BY <1>8 DEF JoinTransientSplit
  <2>2. QED
    BY <1>0, <1>1, <1>3, <2>1
<1>9. CASE JoinCompactRetry(t)
  <2>1. /\ UNCHANGED sizer /\ Count(t, "compact", Tried(t, "compact"))
        /\ allowance' = SetOver(allowance, t.batch, t.level)
    BY <1>9 DEF JoinCompactRetry
  <2>2. QED
    BY <1>0, <1>3, <1>4, <2>1
<1>10. CASE JoinEscalate(t)
  <2>1. UNCHANGED <<sizer, tries>> /\ allowance' = SetOver(allowance, t.batch, NextLevel(t))
    BY <1>10 DEF JoinEscalate
  <2>2. QED
    BY <1>4, <2>1
<1>11. CASE JoinTruncatedSingle(t)
  <2>1. SizerAfter(t.batch, 75, 0) /\ UNCHANGED <<allowance, tries>>
    BY <1>11 DEF JoinTruncatedSingle, ledger
  <2>2. QED
    BY <1>1, <2>1
<1>12. CASE JoinInvalidRetry(t)
  <2> DEFINE n == Tried(t, "invalid")
             c == IF n < 3 THEN n ELSE 3
  <2>1. /\ UNCHANGED sizer /\ allowance' = SetOver(allowance, t.batch, t.level)
        /\ tries' = [tries EXCEPT !["invalid"] = SetOver(tries["invalid"], t.batch, n),
                                  !["compact"] = SetOver(tries["compact"], t.batch, c)]
    BY <1>12 DEF JoinInvalidRetry
  <2> HIDE DEF n, c
  <2>2. \A w \in Ways : tries'[w] = IF w = "compact" THEN SetOver(tries["compact"], t.batch, c)
                                    ELSE IF w = "invalid" THEN SetOver(tries["invalid"], t.batch, n)
                                    ELSE tries[w]
    BY <1>0, <2>1
  <2>3. \A i \in Items \ Covers(t.batch) : /\ SetOver(tries["compact"], t.batch, c)[i] = tries["compact"][i]
                                          /\ SetOver(tries["invalid"], t.batch, n)[i] = tries["invalid"][i]
    BY <1>2
  <2>4. \A i \in Items \ Covers(t.batch) : \A w \in Ways : tries'[w][i] = tries[w][i]
    BY <2>2, <2>3
  <2>5. \A i \in Items \ Covers(t.batch) : allowance'[i] = allowance[i]
    BY <1>4, <2>1
  <2>6. QED
    BY <2>1, <2>4, <2>5
<1>13. CASE JoinInvalidSingle(t)
  <2>1. UNCHANGED <<sizer, allowance>> /\ Count(t, "invalid", Tried(t, "invalid"))
    BY <1>13 DEF JoinInvalidSingle
  <2>2. QED
    BY <1>0, <1>3, <2>1
<1>14. CASE JoinInvalidSplit(t)
  <2>1. (\E percent : SizerAfter(t.batch, percent, 0)) /\ UNCHANGED <<allowance, tries>>
    BY <1>14 DEF JoinInvalidSplit, ledger
  <2>2. QED
    BY <1>1, <2>1
<1>15. QED
  BY <1>5, <1>6, <1>7, <1>8, <1>9, <1>10, <1>11, <1>12, <1>13, <1>14 DEF Join

\* The batches after a join: the others, and what the joined one was put back as.
LEMMA JoinBatches ==
    ASSUME BatchTypeOK, Placed, Working, NEW t \in tasks, NEW p \in BOOLEAN, tasks' = Others(t, p),
           NEW I, NEW P, Deals(P, I), queue' = queue \o P
    PROVE  /\ \A k \in DOMAIN P : P[k] \in Batches'
           /\ \A b \in Batches' : \/ \E k \in DOMAIN P : b = P[k]
                                  \/ b \in Batches /\ Covers(b) \cap Covers(t.batch) = {}
<1>1. /\ Deals(queue, Queued)
      /\ Covers(t.batch) \cap Queued = {}
      /\ \A u \in tasks : t # u => Covers(t.batch) \cap Covers(u.batch) = {}
  BY DEF Placed
<1>2. tasks' = {Woken(u, p) : u \in tasks \ {t}} /\ \A u \in tasks : Woken(u, p).batch = u.batch
  BY OthersKeep
<1>3. /\ DOMAIN queue = 1 .. Len(queue) /\ Len(queue) \in Nat
      /\ DOMAIN P = 1 .. Len(P) /\ Len(P) \in Nat
  BY <1>1, DealsParts
<1>4. /\ DOMAIN queue' = 1 .. (Len(queue) + Len(P))
      /\ \A k \in DOMAIN queue' : queue'[k] = IF k <= Len(queue) THEN queue[k] ELSE P[k - Len(queue)]
  BY <1>3
<1>5. ASSUME NEW k \in DOMAIN P PROVE P[k] \in Batches'
  <2>1. Len(queue) + k \in DOMAIN queue' /\ queue'[Len(queue) + k] = P[k]
    BY <1>3, <1>4
  <2>2. QED
    BY <2>1 DEF Batches
<1>6. ASSUME NEW k \in DOMAIN queue'
      PROVE  \/ \E l \in DOMAIN P : queue'[k] = P[l]
             \/ queue'[k] \in Batches /\ Covers(queue'[k]) \cap Covers(t.batch) = {}
  <2>1. CASE k <= Len(queue)
    <3>1. k \in DOMAIN queue /\ queue'[k] = queue[k]
      BY <1>3, <1>4, <2>1
    <3>2. Covers(queue[k]) \subseteq Queued
      BY <3>1 DEF Queued
    <3>3. QED
      BY <1>1, <3>1, <3>2 DEF Batches
  <2>2. CASE ~(k <= Len(queue))
    <3>1. k - Len(queue) \in DOMAIN P /\ queue'[k] = P[k - Len(queue)]
      BY <1>3, <1>4, <2>2
    <3>2. QED
      BY <3>1
  <2>3. QED
    BY <2>1, <2>2
<1>7. ASSUME NEW v \in tasks' PROVE v.batch \in Batches /\ Covers(v.batch) \cap Covers(t.batch) = {}
  <2>1. PICK u \in tasks \ {t} : v = Woken(u, p) /\ v.batch = u.batch
    BY <1>2
  <2>2. QED
    BY <1>1, <2>1 DEF Batches
<1>8. \A b \in Batches' : (\E k \in DOMAIN queue' : b = queue'[k]) \/ \E v \in tasks' : b = v.batch
  BY DEF Batches
<1>9. QED
  BY <1>5, <1>6, <1>7, <1>8

\* Whatever is not in the joined batch may be asked for as before.
LEMMA JoinOthersAsked ==
    ASSUME BatchTypeOK, Placed, NEW t \in tasks, Join(t), NEW i \in Items, i \notin Covers(t.batch)
    PROVE  NoMoreAsked(i)
<1>0. JoinMove(t) /\ Joinable(t) /\ Working
  BY JoinMoves DEF Joinable, Working
<1>1. PICK p \in BOOLEAN : tasks' = Others(t, p)
  BY <1>0, JoinRest
<1>2. \E P : queue' = queue \o P /\ (Deals(P, Covers(t.batch)) \/ Deals(P, {}))
  <2>1. queue' = queue => queue' = queue \o <<>>
    <3>1. queue \in Seq(Seq(Items))
      BY DEF BatchTypeOK
    <3>2. QED
      BY <3>1
  <2>2. queue' = queue \/ \E P : Deals(P, Covers(t.batch)) /\ queue' = queue \o P
    BY <1>0 DEF JoinMove, GiveUp, JoinStopped, JoinOk
  <2>3. QED
    BY <2>1, <2>2, NoneHolds
<1>3. PICK P : queue' = queue \o P /\ (Deals(P, Covers(t.batch)) \/ Deals(P, {}))
  BY <1>2
<1>4. \A k \in DOMAIN P : Covers(P[k]) \subseteq Covers(t.batch)
  BY <1>3, DealsParts
<1>5. \A b \in Batches' : (\E k \in DOMAIN P : b = P[k]) \/ b \in Batches
  BY <1>0, <1>1, <1>3, JoinBatches
<1>6. Peers(i)' \subseteq Peers(i)
  <2>1. t.batch \in Batches
    BY DEF Batches
  <2>2. \A b \in Batches' : \E c \in Batches : Covers(b) \subseteq Covers(c)
    BY <1>4, <1>5, <2>1
  <2>3. QED
    BY <2>2, PeersFew
<1>7. sizer'.revision = sizer.revision /\ allowance'[i] = allowance[i] /\ \A w \in Ways : tries'[w][i] = tries[w][i]
  BY JoinLocal
<1>8. ASSUME NEW n \in Raises(i)' PROVE n \in Raises(i)
  <2>1. /\ n \in 1 .. Ceiling /\ allowance'[i] < n
        /\ \A v \in tasks' : i \in Covers(v.batch) /\ v.escalated => v.level < n
    BY DEF Raises
  <2>2. ASSUME NEW u \in tasks, i \in Covers(u.batch), u.escalated PROVE u.level < n
    <3>1. u # t
      BY <2>2
    <3>2. Woken(u, p) \in tasks'
      BY <1>1, <3>1, OthersKeep
    <3>3. Woken(u, p).batch = u.batch /\ Woken(u, p).level = u.level /\ Woken(u, p).escalated = u.escalated
      BY TaskTyped DEF Woken, Tasks
    <3>4. QED
      BY <2>1, <2>2, <3>2, <3>3
  <2>3. QED
    BY <1>7, <2>1, <2>2 DEF Raises
<1>9. QED
  BY <1>6, <1>7, <1>8 DEF NoMoreAsked

\* A batch put back whole: its items have the same peers.
LEMMA WholeBack ==
    ASSUME BatchTypeOK, Placed, Working, NEW t \in tasks, NEW p \in BOOLEAN, tasks' = Others(t, p),
           PutBack(<<t.batch>>), NEW i \in Covers(t.batch)
    PROVE  Peers(i)' = Peers(i)
<1>1. Lists(t.batch, Covers(t.batch)) /\ t.batch # <<>> /\ Covers(t.batch) \subseteq Items /\ t.batch \in Batches
  BY TaskTyped DEF Placed, Batches
<1>2. Deals(<<t.batch>>, Covers(t.batch)) /\ queue' = queue \o <<t.batch>>
  BY <1>1, OneHolds DEF PutBack
<1>3. /\ \A k \in DOMAIN <<t.batch>> : <<t.batch>>[k] \in Batches'
      /\ \A b \in Batches' : \/ \E k \in DOMAIN <<t.batch>> : b = <<t.batch>>[k]
                             \/ b \in Batches /\ Covers(b) \cap Covers(t.batch) = {}
  BY <1>2, JoinBatches
<1>4. DOMAIN <<t.batch>> = {1} /\ <<t.batch>>[1] = t.batch
  OBVIOUS
<1>5. t.batch \in Batches' /\ \A b \in Batches' : i \in Covers(b) => b = t.batch
  BY <1>3, <1>4
<1>6. Peers(i) = Covers(t.batch)
  BY <1>1, PeersAre
<1>7. \A j : j \in Peers(i)' <=> j \in Items /\ \E b \in Batches' : {i, j} \subseteq Covers(b)
  BY DEF Peers
<1>8. \A j : j \in Peers(i)' <=> j \in Covers(t.batch)
  BY <1>1, <1>5, <1>7
<1>9. QED
  BY <1>6, <1>8

\* A batch put back in halves: its items have fewer peers.
LEMMA HalvesBack ==
    ASSUME BatchTypeOK, Placed, Working, NEW t \in tasks, NEW p \in BOOLEAN, tasks' = Others(t, p),
           Multi(t), PutBack(Split(t.batch)), NEW i \in Covers(t.batch)
    PROVE  Peers(i)' \subseteq Peers(i) /\ Peers(i)' # Peers(i)
<1> DEFINE P == Split(t.batch)
<1>1. Lists(t.batch, Covers(t.batch)) /\ Covers(t.batch) \subseteq Items /\ t.batch \in Batches
  BY TaskTyped DEF Placed, Batches
<1>2. /\ Deals(P, Covers(t.batch)) /\ queue' = queue \o P
      /\ DOMAIN P = {1, 2}
  <2>1. Deals(P, Covers(t.batch)) /\ queue' = queue \o P
    BY <1>1, SplitHolds DEF PutBack, Multi
  <2>2. DOMAIN P = {1, 2}
    BY DEF Split
  <2>3. QED
    BY <2>1, <2>2
<1> HIDE DEF P
<1>3. /\ \A k \in DOMAIN P : P[k] \in Batches'
      /\ \A b \in Batches' : \/ \E k \in DOMAIN P : b = P[k]
                             \/ b \in Batches /\ Covers(b) \cap Covers(t.batch) = {}
  BY <1>2, JoinBatches
<1>4. Peers(i) = Covers(t.batch)
  BY <1>1, PeersAre
<1>5. \A k \in DOMAIN P : Covers(P[k]) \subseteq Covers(t.batch) /\ P[k] # <<>> /\ P[k] \in Seq(Covers(t.batch))
  BY <1>2, DealsParts
<1>6. \A k, l \in DOMAIN P : \A m \in DOMAIN P[k], n \in DOMAIN P[l] : P[k][m] = P[l][n] => k = l
  BY <1>2 DEF Deals
<1>7. PICK k \in DOMAIN P : \E m \in DOMAIN P[k] : P[k][m] = i
  BY <1>2 DEF Deals
<1>8. PICK l \in DOMAIN P : l # k
  BY <1>2
<1>9. PICK j \in Covers(P[l]) : TRUE
  <2>1. 1 \in DOMAIN P[l]
    BY <1>5, EmptySeq
  <2>2. QED
    BY <2>1 DEF Covers
<1>10. \A q \in Peers(i)' : q \in Covers(t.batch)
  <2> SUFFICES ASSUME NEW q, NEW b \in Batches', {i, q} \subseteq Covers(b) PROVE q \in Covers(t.batch)
    BY DEF Peers
  <2>1. \E n \in DOMAIN P : b = P[n]
    BY <1>3
  <2>2. QED
    BY <1>5, <2>1
<1>11. j \notin Peers(i)'
  <2> SUFFICES ASSUME NEW b \in Batches', {i, j} \subseteq Covers(b) PROVE FALSE
    BY DEF Peers
  <2>1. PICK n \in DOMAIN P : b = P[n]
    BY <1>3
  <2>2. PICK x \in DOMAIN P[n] : P[n][x] = i
    BY <2>1 DEF Covers
  <2>3. PICK y \in DOMAIN P[n] : P[n][y] = j
    BY <2>1 DEF Covers
  <2>4. n = k
    BY <1>6, <1>7, <2>2
  <2>5. PICK z \in DOMAIN P[l] : P[l][z] = j
    BY <1>9 DEF Covers
  <2>6. n = l
    BY <1>6, <2>3, <2>5
  <2>7. QED
    BY <1>8, <2>4, <2>6
<1>12. j \in Peers(i)
  BY <1>4, <1>5, <1>9
<1>13. QED
  BY <1>4, <1>10, <1>11, <1>12

\* A batch that is not put back is gone.
LEMMA NotBack ==
    ASSUME BatchTypeOK, Placed, Working, NEW t \in tasks, NEW p \in BOOLEAN, tasks' = Others(t, p),
           queue' = queue, NEW i \in Covers(t.batch)
    PROVE  i \notin Open'
<1>1. queue' = queue \o <<>>
  <2>1. queue \in Seq(Seq(Items))
    BY DEF BatchTypeOK
  <2>2. QED
    BY <2>1
<1>2. \A b \in Batches' : (\E k \in DOMAIN <<>> : b = <<>>[k]) \/ Covers(b) \cap Covers(t.batch) = {}
  BY <1>1, NoneHolds, JoinBatches
<1>3. DOMAIN <<>> = {}
  OBVIOUS
<1>4. QED
  BY <1>2, <1>3 DEF Open

\* One more attempt, counted for the items of a batch, is one more for each.
LEMMA OneMore ==
    ASSUME BatchTypeOK, NEW t \in tasks, NEW w \in Ways, NEW i \in Covers(t.batch)
    PROVE  /\ i \in Items /\ tries[w][i] \in Nat /\ tries[w][i] < Tried(t, w) /\ Tried(t, w) \in Nat
           /\ \A n : SetOver(tries[w], t.batch, n)[i] = n
<1>1. tries[w] \in [Items -> Nat] /\ t.batch \in Seq(Items) \ {<<>>} /\ Covers(t.batch) \subseteq Items
  BY TaskTyped DEF BatchTypeOK
<1>2. MaxOver(tries[w], t.batch) \in Nat /\ tries[w][i] <= MaxOver(tries[w], t.batch)
  BY <1>1, MaxOverHolds
<1>3. i \in Items /\ tries[w][i] \in Nat
  BY <1>1
<1>4. \A n : SetOver(tries[w], t.batch, n)[i] = n
  BY <1>3 DEF SetOver
<1>5. QED
  BY <1>2, <1>3, <1>4 DEF Tried

\* Of an item whose request ended without settling it, less may be asked; and it stays
\* within its limits.
LEMMA JoinOwnAsked ==
    ASSUME BatchTypeOK, Placed, AskInv, NEW t \in tasks, Join(t), NEW i \in Covers(t.batch), i \in Open'
    PROVE  AskedLess(i) /\ Tolerated(i)'
<1>0. JoinMove(t) /\ Joinable(t) /\ Working
  BY JoinMoves DEF Joinable, Working
<1>1. PICK p \in BOOLEAN : tasks' = Others(t, p)
  BY <1>0, JoinRest
<1>2. sizer'.revision = sizer.revision
  BY JoinLocal
<1>3. i \in Items /\ i \in Open /\ Tolerated(i) /\ allowance[i] = 0
  <2>1. i \in Items
    BY TaskTyped
  <2>2. i \in Open
    BY <1>0, <2>1 DEF Open, Batches, Working
  <2>3. QED
    BY <1>0, <2>1, <2>2 DEF AskInv
<1>4. queue' # queue
  BY <1>0, <1>1, NotBack
<1>w. "transient" \in Ways /\ "invalid" \in Ways /\ "compact" \in Ways
      /\ tries \in [Ways -> [Items -> Nat]]
  BY DEF Ways, BatchTypeOK
<1>m. \A w \in Ways : /\ tries[w][i] < Tried(t, w) /\ Tried(t, w) \in Nat
                      /\ \A n : SetOver(tries[w], t.batch, n)[i] = n
  BY OneMore
<1>t. Counts(i)
  BY <1>3, CountsTyped
<1>5. ASSUME PutBack(<<t.batch>>) PROVE Peers(i)' = Peers(i)
  BY <1>0, <1>1, <1>5, WholeBack
<1>6. ASSUME Multi(t), PutBack(Split(t.batch)) PROVE AskedLess(i)
  <2>1. Peers(i)' \subseteq Peers(i) /\ Peers(i)' # Peers(i)
    BY <1>0, <1>1, <1>6, HalvesBack
  <2>2. QED
    BY <1>2, <2>1 DEF AskedLess
<1>7. CASE JoinTransientRetry(t)
  <2> DEFINE n == Tried(t, "transient")
  <2>1. /\ n < AttemptLimit(t.answer.kind) /\ PutBack(<<t.batch>>)
        /\ tries' = [tries EXCEPT !["transient"] = SetOver(tries["transient"], t.batch, n)]
    BY <1>7 DEF JoinTransientRetry, Count
  <2>2. tries["transient"][i] < n /\ n \in Nat /\ SetOver(tries["transient"], t.batch, n)[i] = n
    BY <1>w, <1>m
  <2> HIDE DEF n
  <2>3. tries'["transient"][i] = n /\ tries'["invalid"] = tries["invalid"] /\ tries'["compact"] = tries["compact"]
    BY <1>w, <2>1, <2>2
  <2>4. n < TransientLimit
    <3>1. AttemptLimit(t.answer.kind) \in Nat /\ AttemptLimit(t.answer.kind) <= TransientLimit /\ TransientLimit \in Nat
      BY LimitsTyped
    <3>2. QED
      BY <2>1, <2>2, <3>1
  <2>5. Tolerated(i)'
    BY <1>3, <2>3, <2>4, LimitsTyped DEF Tolerated
  <2>6. tries["transient"][i] + tries["invalid"][i] < tries'["transient"][i] + tries'["invalid"][i]
    BY <1>t, <2>2, <2>3 DEF Counts
  <2>7. QED
    BY <1>2, <1>5, <2>1, <2>5, <2>6 DEF AskedLess
<1>8. CASE JoinTransientSplit(t)
  <2>1. /\ Multi(t) /\ PutBack(Split(t.batch))
        /\ tries' = [tries EXCEPT !["transient"] = SetOver(tries["transient"], t.batch, 0)]
    BY <1>8 DEF JoinTransientSplit, Count
  <2>2. SetOver(tries["transient"], t.batch, 0)[i] = 0
    BY <1>w, <1>m
  <2>3. tries'["transient"][i] = 0 /\ tries'["invalid"] = tries["invalid"] /\ tries'["compact"] = tries["compact"]
    BY <1>w, <2>1, <2>2
  <2>4. Tolerated(i)'
    BY <1>3, <2>3, LimitsTyped DEF Tolerated
  <2>5. QED
    BY <1>6, <2>1, <2>4
<1>9. CASE JoinTooLargeSplit(t) \/ JoinInvalidSplit(t)
  <2>1. Multi(t) /\ PutBack(Split(t.batch)) /\ tries' = tries
    BY <1>9 DEF JoinTooLargeSplit, JoinInvalidSplit, ledger
  <2>2. Tolerated(i)'
    BY <1>3, <2>1 DEF Tolerated
  <2>3. QED
    BY <1>6, <2>1, <2>2
<1>10. CASE JoinCompactRetry(t)
  <2> DEFINE n == Tried(t, "compact")
  <2>1. /\ PutBack(<<t.batch>>) /\ MaxOver(tries["compact"], t.batch) < CompactRetries
        /\ tries' = [tries EXCEPT !["compact"] = SetOver(tries["compact"], t.batch, n)]
    BY <1>10 DEF JoinCompactRetry, Count, CompactAgain
  <2>2. tries["compact"][i] < n /\ n \in Nat /\ SetOver(tries["compact"], t.batch, n)[i] = n
    BY <1>w, <1>m
  <2>3. n <= CompactLimit
    <3>1. n = MaxOver(tries["compact"], t.batch) + 1
      BY DEF Tried
    <3>2. tries["compact"] \in [Items -> Nat] /\ t.batch \in Seq(Items) \ {<<>>}
      BY <1>w, TaskTyped
    <3>3. MaxOver(tries["compact"], t.batch) \in Nat /\ CompactRetries \in Nat /\ CompactLimit \in Nat
          /\ CompactLimit >= CompactRetries
      BY <3>2, MaxOverHolds, DispatchAssumption, LimitsTyped
    <3>4. QED
      BY <2>1, <3>1, <3>3
  <2> HIDE DEF n
  <2>4. tries'["compact"][i] = n /\ tries'["invalid"] = tries["invalid"] /\ tries'["transient"] = tries["transient"]
    BY <1>w, <2>1, <2>2
  <2>5. Tolerated(i)'
    BY <1>3, <2>3, <2>4, LimitsTyped DEF Tolerated
  <2>6. QED
    BY <1>2, <1>5, <2>1, <2>2, <2>4, <2>5 DEF AskedLess
<1>11. CASE JoinEscalate(t)
  <2> DEFINE n == NextLevel(t)
  <2>1. PutBack(<<t.batch>>) /\ tries' = tries /\ n # 0 /\ allowance' = SetOver(allowance, t.batch, n)
    BY <1>11 DEF JoinEscalate
  <2>2. t.level \in 1 .. Ceiling /\ Ceiling \in Nat
    BY TaskTyped, DispatchAssumption
  <2>3. n = t.level + 1 /\ n \in 1 .. Ceiling
    BY <2>1, <2>2 DEF NextLevel
  <2>4. allowance'[i] = n
    BY <1>3, <2>1 DEF SetOver
  <2> HIDE DEF n
  <2>5. \A u \in tasks : i \in Covers(u.batch) => u = t
    BY <1>0 DEF Placed
  <2>6. n \in Raises(i) /\ n \notin Raises(i)'
    BY <1>3, <2>2, <2>3, <2>4, <2>5 DEF Raises
  <2>7. ASSUME NEW m \in Raises(i)' PROVE m \in Raises(i)
    <3>1. m \in 1 .. Ceiling /\ n < m
      BY <2>4 DEF Raises
    <3>2. allowance[i] < m /\ t.level < m
      BY <1>3, <2>2, <2>3, <3>1
    <3>3. QED
      BY <2>5, <3>1, <3>2 DEF Raises
  <2>8. Tolerated(i)'
    BY <1>3, <2>1 DEF Tolerated
  <2>9. QED
    BY <1>2, <1>5, <2>1, <2>6, <2>7, <2>8 DEF AskedLess
<1>12. CASE JoinInvalidRetry(t)
  <2> DEFINE n == Tried(t, "invalid")
             c == IF n < 3 THEN n ELSE 3
  <2>1. /\ PutBack(<<t.batch>>) /\ n < SingleLimit
        /\ tries' = [tries EXCEPT !["invalid"] = SetOver(tries["invalid"], t.batch, n),
                                  !["compact"] = SetOver(tries["compact"], t.batch, c)]
    BY <1>12 DEF JoinInvalidRetry
  <2>2. /\ tries["invalid"][i] < n /\ n \in Nat /\ SetOver(tries["invalid"], t.batch, n)[i] = n
        /\ SetOver(tries["compact"], t.batch, c)[i] = c
    BY <1>w, <1>m
  <2>3. c <= CompactLimit
    BY <2>2, LimitsTyped
  <2> HIDE DEF n, c
  <2>4. tries'["invalid"][i] = n /\ tries'["compact"][i] = c /\ tries'["transient"] = tries["transient"]
    BY <1>w, <2>1, <2>2
  <2>5. Tolerated(i)'
    BY <1>3, <2>1, <2>3, <2>4 DEF Tolerated
  <2>6. tries["transient"][i] + tries["invalid"][i] < tries'["transient"][i] + tries'["invalid"][i]
    BY <1>t, <2>2, <2>4 DEF Counts
  <2>7. QED
    BY <1>2, <1>5, <2>1, <2>5, <2>6 DEF AskedLess
<1>13. CASE JoinStopped(t) \/ JoinOk(t) \/ JoinTransientFail(t) \/ JoinFatal(t) \/ JoinTruncatedSingle(t)
              \/ JoinInvalidSingle(t)
  BY <1>4, <1>13 DEF JoinStopped, JoinOk, JoinTransientFail, JoinFatal, JoinTruncatedSingle, JoinInvalidSingle, GiveUp
<1>14. QED
  BY <1>7, <1>8, <1>9, <1>10, <1>11, <1>12, <1>13 DEF Join

\* The same after a step.
LEMMA LoadsTellNext ==
    /\ Batches' = {queue'[k] : k \in DOMAIN queue'} \cup {l[1] : l \in Loads'}
    /\ \A i : Raises(i)' = {n \in 1 .. Ceiling :
                               /\ allowance'[i] < n
                               /\ \A l \in Loads' : i \in Covers(l[1]) /\ l[3] => l[2] < n}
<1>1. (/\ Batches = {queue[k] : k \in DOMAIN queue} \cup {l[1] : l \in Loads}
       /\ \A i : Raises(i) = {n \in 1 .. Ceiling :
                                 /\ allowance[i] < n
                                 /\ \A l \in Loads : i \in Covers(l[1]) /\ l[3] => l[2] < n})'
  BY LoadsTell, PTL
<1>2. QED
  BY <1>1

\* Steps that leave the queue, the ledgers, the sizer and what the tasks carry.
Idle == UNCHANGED <<queue, sizer, allowance, tries>> /\ Loads' = Loads

\* While requests are made, a step is idle, changes the sizer and the queue, dispatches or joins.
LEMMA AskingSteps ==
    ASSUME BatchTypeOK, [BatchNext]_batchVars, Working'
    PROVE  /\ Working
           /\ \/ Idle /\ (settings' = settings \/ settings'.revision = settings.revision + 1)
              \/ FillFull \/ Dispatch
              \/ \E t \in tasks : Join(t)
<1>0. tasks' = tasks => Loads' = Loads
  BY DEF Loads
<1>1. CASE UNCHANGED batchVars
  BY <1>0, <1>1 DEF batchVars, Working, Idle
<1>2. CASE User
  <2>1. UNCHANGED <<phase, queue, tasks, sizer, ledger>>
    BY <1>2 DEF User, Pause, Resume, Stop, Signal, Reconfigure
  <2>2. settings' = settings \/ settings'.revision = settings.revision + 1
    BY <1>2 DEF User, Pause, Resume, Stop, Signal, Reconfigure
  <2>3. QED
    BY <1>0, <2>1, <2>2 DEF Working, Idle, ledger
<1>3. CASE Work
  <2>1. OnlyTasks /\ Loads' = Loads
    BY <1>3, WorkFrame, WorkLoads
  <2>2. QED
    BY <2>1 DEF OnlyTasks, envVars, ledger, Working, Idle
<1>4. CASE FillPaused \/ FillStopped \/ FillEmpty \/ JoinNone
  <2>1. UNCHANGED <<settings, queue, tasks, sizer, ledger>> /\ Working
    BY <1>4 DEF FillPaused, FillStopped, FillEmpty, JoinNone, Filling, envVars, Working
  <2>2. QED
    BY <1>0, <2>1 DEF Idle, ledger
<1>5. CASE FillFull \/ Dispatch
  BY <1>5 DEF FillFull, Dispatch, Filling, Working
<1>6. ASSUME NEW t \in tasks, Join(t) PROVE Working
  BY <1>6, JoinFrame DEF Working
<1>7. CASE Aggregate \/ Repair \/ \E t \in tasks : RepairJoin(t)
  BY <1>7 DEF Aggregate, Repair, RepairStopped, RepairPaused, RepairDispatch, RepairEnds, Finish,
              RepairJoin, RepairJoined, RepairOk, RepairAgain, RepairFails, Working
<1>8. QED
  BY <1>1, <1>2, <1>3, <1>4, <1>5, <1>6, <1>7 DEF BatchNext, Driver, Fill

\* The same of what a step may put in the sizer.
LEMMA SizerFollows ==
    ASSUME BatchTypeOK, sizer' = CurrentSizer
    PROVE  /\ Stale => sizer'.revision = settings.revision /\ settings.revision # sizer.revision
           /\ ~Stale => sizer' = sizer
BY DEF CurrentSizer, Stale

\* What is open is queued or in a task.
LEMMA OpenMeans == ASSUME BatchTypeOK, Working PROVE Open = Queued \cup InTasks
<1>1. Queued \subseteq Items /\ InTasks \subseteq Items
  BY QueuedTyped, InTasksTyped
<1>2. \A i : (\E b \in Batches : i \in Covers(b)) <=> i \in Queued \cup InTasks
  BY DEF Batches, Queued, InTasks
<1>3. QED
  BY <1>1, <1>2 DEF Open, Working

\* A dispatch spends the allowance lent to the items it takes, and opens none.
LEMMA DispatchSpends ==
    ASSUME BatchTypeOK, Placed, Dispatch
    PROVE  /\ tries' = tries /\ sizer' = CurrentSizer /\ settings' = settings
           /\ \A t \in tasks' : t \in tasks \/ \A i \in Covers(t.batch) \cap Items : allowance'[i] = 0
           /\ \A i \in Items \ Queued : allowance'[i] = allowance[i]
           /\ Queued' \cup InTasks' \subseteq Queued \cup InTasks
<1>0. Deals(queue, Queued) /\ Queued \subseteq Items /\ queue # <<>> /\ allowance \in [Items -> 0 .. Ceiling]
  BY QueuedTyped DEF Placed, Working, Dispatch, Filling, BatchTypeOK
<1> DEFINE head  == Head(CurrentQueue)
           level == MaxOver(allowance, head)
           parts == Chunk(head, CurrentSizer.limit[ModeOfBatch(head)])
           first == Head(parts)
           slow  == level = 0 /\ Len(first) > 1 /\ Len(first) > LatencyCap
<1>1. /\ tasks' = IF slow THEN tasks ELSE tasks \cup {NewTask(first, level)}
      /\ allowance' = SetOver(SetOver(allowance, head, level), first, 0)
      /\ sizer' = CurrentSizer /\ tries' = tries /\ settings' = settings
  BY ZenonT(40) DEF Dispatch, envVars
<1>2. Covers(head) \subseteq Queued /\ head # <<>> /\ Lists(head, Covers(head))
  <2>1. Deals(CurrentQueue, Queued)
    BY <1>0, CurrentHolds
  <2>2. CurrentQueue # <<>>
    BY <1>0, <2>1, DealsCovers
  <2>3. QED
    BY <2>1, <2>2, HeadHolds
<1> HIDE DEF head
<1>3. head \in Seq(Items) \ {<<>>} /\ head[1] \in Items
  <2>1. head \in Seq(Covers(head)) /\ Covers(head) \subseteq Items
    BY <1>0, <1>2 DEF Lists
  <2>2. head \in Seq(Items)
    BY <2>1, SeqMonotonic
  <2>3. QED
    BY <1>2, <2>2, EmptySeq
<1>4. Covers(first) \subseteq Covers(head)
  <2>1. CurrentSizer.limit[ModeOfBatch(head)] \in Nat \ {0}
    <3>1. CurrentSizer.limit \in [Modes -> Nat \ {0}]
      BY <1>0, CurrentHolds
    <3>2. QED
      BY <1>3, <3>1, PlanAssumption DEF ModeOfBatch
  <2>2. Deals(parts, Covers(head))
    BY <1>2, <2>1, ChunkHolds
  <2>3. parts # <<>>
    <3>1. Covers(head) # {}
      BY <1>3, EmptySeq DEF Covers
    <3>2. QED
      BY <2>2, <3>1, DealsCovers
  <2> HIDE DEF parts
  <2>4. QED
    BY <2>2, <2>3, HeadHolds
<1> HIDE DEF level, parts, first, slow
<1>5. \A i \in Items : allowance'[i] = IF i \in Covers(first) THEN 0
                                       ELSE IF i \in Covers(head) THEN level ELSE allowance[i]
  BY <1>1 DEF SetOver
<1>6. \A i \in Items \ Queued : allowance'[i] = allowance[i]
  BY <1>2, <1>4, <1>5
<1>7. NewTask(first, level).batch = first
  BY DEF NewTask
<1>8. \A t \in tasks' : t \in tasks \/ \A i \in Covers(t.batch) \cap Items : allowance'[i] = 0
  BY <1>1, <1>5, <1>7
<1>9. Queued' \cup InTasks' \subseteq Queued \cup InTasks
  <2>1. \A J : Deals(queue', J) => Queued' = J
    BY DealsCovers DEF Queued
  <2>2. Queued' \subseteq Queued
    BY <2>1, DispatchMoves
  <2>3. InTasks' \subseteq InTasks \cup Covers(first)
    BY <1>1, <1>7 DEF InTasks
  <2>4. QED
    BY <1>2, <1>4, <2>2, <2>3
<1>10. QED
  BY <1>1, <1>6, <1>8, <1>9

\* Nothing more is asked of an open item in a step, and less of one whose request ended.
LEMMA AskedStep ==
    ASSUME BatchTypeOK, Placed, AskInv, [BatchNext]_batchVars, Working', NEW i \in Open, i \in Open'
    PROVE  (NoMoreAsked(i) \/ AskedLess(i)) /\ Tolerated(i)'
<1>0. Working /\ i \in Items /\ Tolerated(i)
  BY AskingSteps DEF Open, AskInv
<1>i. sizer.revision <= settings.revision /\ sizer.revision \in Int /\ settings.revision \in Int
  BY SetupTyped, DispatchAssumption DEF AskInv, BatchTypeOK
<1>1. CASE Idle
  <2>1. Batches' = Batches
    <3>1. Batches = {queue[k] : k \in DOMAIN queue} \cup {l[1] : l \in Loads}
      BY LoadsTell
    <3>2. Batches' = {queue'[k] : k \in DOMAIN queue'} \cup {l[1] : l \in Loads'}
      BY LoadsTellNext
    <3>3. QED
      BY <1>1, <3>1, <3>2 DEF Idle
  <2>2. Peers(i)' = Peers(i)
    BY <2>1 DEF Peers
  <2>3. Raises(i)' = Raises(i)
    <3>1. Raises(i) = {n \in 1 .. Ceiling : /\ allowance[i] < n
                                            /\ \A l \in Loads : i \in Covers(l[1]) /\ l[3] => l[2] < n}
      BY LoadsTell
    <3>2. Raises(i)' = {n \in 1 .. Ceiling : /\ allowance'[i] < n
                                             /\ \A l \in Loads' : i \in Covers(l[1]) /\ l[3] => l[2] < n}
      BY LoadsTellNext
    <3>3. QED
      BY <1>1, <3>1, <3>2 DEF Idle
  <2>4. QED
    BY <1>0, <1>1, <2>2, <2>3 DEF Idle, NoMoreAsked, Tolerated
<1>2. CASE FillFull
  <2>1. /\ tries' = tries /\ allowance' = allowance /\ tasks' = tasks
        /\ sizer' = CurrentSizer /\ queue' = CurrentQueue
    BY <1>2 DEF FillFull, ledger
  <2>2. CASE Stale
    BY <1>0, <1>i, <2>1, <2>2, SizerFollows DEF AskedLess, Tolerated
  <2>3. CASE ~Stale
    <3>1. queue' = queue /\ sizer' = sizer
      BY <2>1, <2>3, SizerFollows DEF CurrentQueue
    <3>2. Peers(i)' = Peers(i) /\ Raises(i)' = Raises(i)
      BY <2>1, <3>1 DEF Peers, Batches, Raises
    <3>3. QED
      BY <1>0, <2>1, <3>1, <3>2 DEF NoMoreAsked, Tolerated
  <2>4. QED
    BY <2>2, <2>3
<1>3. CASE Dispatch
  <2>1. tries' = tries /\ sizer' = CurrentSizer
    BY <1>3, DispatchSpends
  <2>2. CASE Stale
    BY <1>0, <1>i, <2>1, <2>2, SizerFollows DEF AskedLess, Tolerated
  <2>3. CASE ~Stale
    <3>1. Peers(i)' \subseteq Peers(i) /\ Raises(i)' \subseteq Raises(i) /\ sizer' = sizer
      BY <1>0, <1>3, <2>3, DispatchAsks, PeersFew
    <3>2. QED
      BY <1>0, <2>1, <3>1 DEF NoMoreAsked, Tolerated
  <2>4. QED
    BY <2>2, <2>3
<1>4. ASSUME NEW t \in tasks, Join(t) PROVE (NoMoreAsked(i) \/ AskedLess(i)) /\ Tolerated(i)'
  <2>1. CASE i \in Covers(t.batch)
    BY <1>4, <2>1, JoinOwnAsked
  <2>2. CASE i \notin Covers(t.batch)
    <3>1. NoMoreAsked(i)
      BY <1>0, <1>4, <2>2, JoinOthersAsked
    <3>2. "transient" \in Ways /\ "invalid" \in Ways /\ "compact" \in Ways
      BY DEF Ways
    <3>3. Tolerated(i)'
      BY <1>0, <3>1, <3>2 DEF NoMoreAsked, Tolerated
    <3>4. QED
      BY <3>1, <3>3
  <2>3. QED
    BY <2>1, <2>2
<1>5. QED
  BY <1>1, <1>2, <1>3, <1>4, AskingSteps

\* No step opens an item.
LEMMA OpenStays ==
    ASSUME BatchTypeOK, BatchTypeOK', Placed, [BatchNext]_batchVars, Working', NEW i \in Open'
    PROVE  i \in Open
<1>0. Working /\ i \in Items
  BY AskingSteps DEF Open
<1>1. PICK b \in Batches' : i \in Covers(b)
  BY DEF Open
<1>2. CASE Idle
  <2>1. Batches = {queue[k] : k \in DOMAIN queue} \cup {l[1] : l \in Loads}
    BY LoadsTell
  <2>2. Batches' = {queue'[k] : k \in DOMAIN queue'} \cup {l[1] : l \in Loads'}
    BY LoadsTellNext
  <2>3. b \in Batches
    BY <1>1, <1>2, <2>1, <2>2 DEF Idle
  <2>4. QED
    BY <1>0, <1>1, <2>3 DEF Open, Working
<1>3. CASE FillFull
  <2>1. tasks' = tasks /\ queue' = CurrentQueue
    BY <1>3 DEF FillFull
  <2>2. Deals(CurrentQueue, Queued)
    BY <1>0, QueuedTyped, CurrentHolds DEF Placed
  <2>3. ASSUME NEW k \in DOMAIN queue', b = queue'[k] PROVE i \in Queued
    BY <1>1, <2>1, <2>2, <2>3, DealsParts
  <2>4. ASSUME NEW t \in tasks', b = t.batch PROVE i \in InTasks
    BY <1>1, <2>1, <2>4 DEF InTasks
  <2>5. i \in Queued \cup InTasks
    BY <2>3, <2>4 DEF Batches
  <2>6. QED
    BY <1>0, <2>5, OpenMeans
<1>4. CASE Dispatch
  <2>1. i \in Queued' \cup InTasks'
    BY <1>1 DEF Batches, Queued, InTasks
  <2>2. i \in Queued \cup InTasks
    BY <1>4, <2>1, DispatchSpends
  <2>3. QED
    BY <1>0, <2>2, OpenMeans
<1>5. ASSUME NEW t \in tasks, Join(t) PROVE i \in Open
  <2>1. CASE i \in Covers(t.batch)
    <3>1. t.batch \in Batches
      BY DEF Batches
    <3>2. QED
      BY <1>0, <2>1, <3>1 DEF Open, Working
  <2>2. CASE i \notin Covers(t.batch)
    <3>1. Peers(i)' \subseteq Peers(i)
      BY <1>0, <1>5, <2>2, JoinOthersAsked DEF NoMoreAsked
    <3>2. i \in Peers(i)'
      BY <1>0, <1>1 DEF Peers
    <3>3. QED
      BY <1>0, <3>1, <3>2 DEF Peers, Open, Working
  <2>3. QED
    BY <2>1, <2>2
<1>6. QED
  BY <1>2, <1>3, <1>4, <1>5, AskingSteps

\* AskInv is inductive.
LEMMA AskStep ==
    ASSUME BatchTypeOK, BatchTypeOK', Placed, Placed', AskInv, [BatchNext]_batchVars
    PROVE  AskInv'
<1>i. sizer.revision <= settings.revision /\ sizer.revision \in Int /\ settings.revision \in Int
  BY SetupTyped, DispatchAssumption DEF AskInv, BatchTypeOK
<1>1. sizer'.revision <= settings'.revision
  <2>1. CASE settings' = settings /\ (sizer'.revision = sizer.revision \/ sizer' = CurrentSizer)
    BY <1>i, <2>1, SizerFollows
  <2>2. CASE sizer' = sizer /\ settings'.revision = settings.revision + 1
    BY <1>i, <2>2
  <2>3. \/ settings' = settings /\ (sizer'.revision = sizer.revision \/ sizer' = CurrentSizer)
        \/ sizer' = sizer /\ settings'.revision = settings.revision + 1
    <3>1. CASE UNCHANGED batchVars \/ User
      BY <3>1 DEF batchVars, User, Pause, Resume, Stop, Signal, Reconfigure
    <3>2. CASE Work
      BY <3>2, WorkFrame DEF OnlyTasks, envVars
    <3>3. CASE Fill \/ JoinNone \/ Aggregate \/ Repair \/ \E t \in tasks : RepairJoin(t)
      <4>1. CASE FillPaused \/ FillStopped \/ FillEmpty \/ JoinNone \/ Aggregate
        BY <4>1 DEF FillPaused, FillStopped, FillEmpty, JoinNone, Aggregate, envVars
      <4>2. CASE FillFull
        BY <4>2 DEF FillFull, envVars
      <4>3. CASE Dispatch
        BY <4>3, DispatchSpends
      <4>4. CASE RepairStopped \/ RepairPaused \/ RepairEnds \/ Finish
        BY <4>4 DEF RepairStopped, RepairPaused, RepairEnds, Finish, envVars
      <4>5. CASE RepairDispatch
        BY <4>5 DEF RepairDispatch, envVars
      <4>6. ASSUME NEW t \in tasks, RepairJoin(t) PROVE settings' = settings /\ sizer' = sizer
        BY <4>6 DEF RepairJoin, RepairJoined, RepairOk, RepairAgain, RepairFails, envVars
      <4>7. QED
        BY <3>3, <4>1, <4>2, <4>3, <4>4, <4>5, <4>6 DEF Fill, Repair
    <3>4. ASSUME NEW t \in tasks, Join(t) PROVE settings' = settings /\ sizer'.revision = sizer.revision
      BY <3>4, JoinLocal, JoinFrame DEF envVars
    <3>5. QED
      BY <3>1, <3>2, <3>3, <3>4 DEF BatchNext, Driver
  <2>4. QED
    BY <2>1, <2>2, <2>3
<1>2. ASSUME Working', NEW t \in tasks', NEW i \in Covers(t.batch) PROVE allowance'[i] = 0
  <2>0. Working /\ i \in Items
    <3>1. Working
      BY <1>2, AskingSteps
    <3>2. t \in Tasks
      BY DEF BatchTypeOK
    <3>3. t.batch \in Seq(Items)
      BY <3>2 DEF Tasks
    <3>4. Covers(t.batch) \subseteq Items
      BY <3>3 DEF Covers
    <3>5. QED
      BY <3>1, <3>4
  <2>a. \A u \in tasks : \A j \in Covers(u.batch) : allowance[j] = 0
    BY <2>0 DEF AskInv
  <2>1. CASE Idle
    <3>1. <<t.batch, t.level, t.escalated>> \in Loads
      BY <2>1 DEF Idle, Loads
    <3>2. PICK u \in tasks : u.batch = t.batch
      BY <3>1 DEF Loads
    <3>3. QED
      BY <2>1, <2>a, <3>2 DEF Idle
  <2>2. CASE FillFull
    BY <2>2, <2>a DEF FillFull, ledger
  <2>3. CASE Dispatch
    <3>1. t \in tasks \/ allowance'[i] = 0
      BY <2>0, <2>3, DispatchSpends
    <3>2. ASSUME t \in tasks PROVE allowance'[i] = 0
      <4>1. i \notin Queued
        BY <2>0, <3>2 DEF Placed
      <4>2. QED
        BY <2>0, <2>3, <2>a, <3>2, <4>1, DispatchSpends
    <3>3. QED
      BY <3>1, <3>2
  <2>4. ASSUME NEW u \in tasks, Join(u) PROVE allowance'[i] = 0
    <3>0. JoinMove(u) /\ Joinable(u)
      BY <2>4, JoinMoves
    <3>1. PICK p \in BOOLEAN : tasks' = Others(u, p)
      BY <3>0, JoinRest
    <3>2. PICK v \in tasks \ {u} : t.batch = v.batch
      BY <3>1, OthersKeep
    <3>3. i \notin Covers(u.batch)
      BY <2>0, <3>2 DEF Placed
    <3>4. QED
      BY <2>0, <2>4, <2>a, <3>2, <3>3, JoinLocal
  <2>5. QED
    BY <1>2, <2>1, <2>2, <2>3, <2>4, AskingSteps
<1>3. ASSUME NEW i \in Open' PROVE Tolerated(i)'
  <2>1. Working'
    BY DEF Open, Working
  <2>2. i \in Open
    BY <2>1, OpenStays
  <2>3. QED
    BY <2>1, <2>2, AskedStep
<1>4. QED
  BY <1>1, <1>2, <1>3 DEF AskInv

\* It holds at the start.
LEMMA AskStart == ASSUME BatchInit PROVE AskInv
<1>1. BatchTypeOK
  BY InitTyped
<1>2. sizer.revision = 0 /\ settings.revision = 0 /\ tasks = {}
  BY DEF BatchInit
<1>3. ASSUME NEW i \in Open PROVE Tolerated(i)
  <2>1. i \in Items /\ "transient" \in Ways /\ "invalid" \in Ways /\ "compact" \in Ways
    BY DEF Open, Ways
  <2>2. tries["transient"][i] = 0 /\ tries["invalid"][i] = 0 /\ tries["compact"][i] = 0
    BY <2>1 DEF BatchInit
  <2>3. QED
    BY <2>2, LimitsTyped DEF Tolerated
<1>4. QED
  BY <1>2, <1>3 DEF AskInv

\* The three together are an invariant.
LEMMA AskInvariant == BatchSpec => [](BatchIInv /\ AskInv)
<1>1. BatchInit => BatchIInv /\ AskInv
  BY BatchStart, AskStart
<1>2. BatchIInv /\ AskInv /\ [BatchNext]_batchVars => (BatchIInv /\ AskInv)'
  <2> SUFFICES ASSUME BatchIInv, AskInv, [BatchNext]_batchVars PROVE BatchIInv' /\ AskInv'
    OBVIOUS
  <2>1. BatchIInv'
    BY BatchStep
  <2>2. BatchTypeOK /\ BatchTypeOK' /\ Placed /\ Placed'
    BY <2>1 DEF BatchIInv
  <2>3. QED
    BY <2>1, <2>2, AskStep
<1>3. QED
  BY <1>1, <1>2, PTL DEF BatchSpec

\* Every request that ends without settling its items lowers their ranks, and no step
\* raises one, whatever the book, the limits, the endings and the users.
THEOREM RequestsDoRunOut == BatchSpec => RequestsRunOut
<1>1. ASSUME BatchIInv, BatchIInv', AskInv, [BatchNext]_batchVars
      PROVE  \A i \in Open \cap Open' :
                /\ Rank(i)' = Rank(i) \/ Below(Rank(i)', Rank(i))
                /\ (\E t \in tasks : i \in Covers(t.batch) /\ Join(t)) => Below(Rank(i)', Rank(i))
  <2> SUFFICES ASSUME NEW i \in Open, i \in Open'
               PROVE  /\ Rank(i)' = Rank(i) \/ Below(Rank(i)', Rank(i))
                      /\ (\E t \in tasks : i \in Covers(t.batch) /\ Join(t)) => Below(Rank(i)', Rank(i))
    OBVIOUS
  <2>0. BatchTypeOK /\ BatchTypeOK' /\ Placed /\ Working' /\ i \in Items
    BY <1>1 DEF BatchIInv, Open, Working
  <2>1. NoMoreAsked(i) \/ AskedLess(i)
    BY <1>1, <2>0, AskedStep
  <2>2. Rank(i)' = Rank(i) \/ Below(Rank(i)', Rank(i))
    BY <2>0, <2>1, RankStays, RankFalls
  <2>3. ASSUME NEW t \in tasks, i \in Covers(t.batch), Join(t) PROVE Below(Rank(i)', Rank(i))
    <3>1. AskedLess(i)
      BY <1>1, <2>0, <2>3, JoinOwnAsked
    <3>2. QED
      BY <2>0, <3>1, RankFalls
  <2>4. QED
    BY <2>2, <2>3
<1>2. BatchIInv /\ BatchIInv' /\ AskInv /\ [BatchNext]_batchVars =>
          [\A i \in Open \cap Open' :
              /\ Rank(i)' = Rank(i) \/ Below(Rank(i)', Rank(i))
              /\ (\E t \in tasks : i \in Covers(t.batch) /\ Join(t)) => Below(Rank(i)', Rank(i))]_batchVars
  BY <1>1
<1>3. QED
  BY <1>2, AskInvariant, PTL DEF BatchSpec, RequestsRunOut

\* The rank of an item that waits or is in flight is made of numbers: there is an end to
\* its falling.
THEOREM RanksAreNumbers == BatchSpec => [](\A i \in Open : Rank(i) \in Ranks)
<1>1. ASSUME BatchIInv, AskInv, NEW i \in Open PROVE Rank(i) \in Ranks
  <2>1. BatchTypeOK /\ i \in Items /\ Tolerated(i)
    BY <1>1 DEF BatchIInv, Open, AskInv
  <2>2. RankOK(i) /\ Counts(i)
    BY <2>1, RankTyped, CountsTyped
  <2>3. (TransientLimit - tries["transient"][i]) + (SingleLimit - tries["invalid"][i]) \in Nat
    BY <2>1, <2>2, LimitsTyped DEF Tolerated, Counts
  <2>4. CompactLimit - tries["compact"][i] \in Nat
    BY <2>1, <2>2, LimitsTyped DEF Tolerated, Counts
  <2>5. QED
    BY <2>2, <2>3, <2>4 DEF RankOK, Rank, Ranks
<1>2. BatchIInv /\ AskInv => \A i \in Open : Rank(i) \in Ranks
  BY <1>1
<1>3. QED
  BY <1>2, AskInvariant, PTL

=============================================================================
