------------------------ MODULE CorrectionDeskProofs ------------------------
(***************************************************************************)
(* Proofs about JobStore and CorrectionDesk, which extends it: whatever the*)
(* tabs, the shells and the other processes do, it reaches the database as *)
(* one of the store's transactions at a time, and the published book never *)
(* runs ahead of the store.                                                *)
(***************************************************************************)
EXTENDS CorrectionDesk, SequenceTheorems, TLAPS

-----------------------------------------------------------------------------
(* The store: for every set of segments, texts and clients, and every order*)
(* in which the processes call it.                                         *)

\* The conjunction the steps preserve.  CorrectionStands is not inductive by
\* itself: that a checkpoint leaves a frozen segment's blocks alone needs the
\* types of the functions it updates, and that a correction's text is not
\* NoText needs the assumption on the constants.
IInv == TypeOK /\ CorrectionStands /\ ResolvedIsRebuildable

-----------------------------------------------------------------------------
(* The steps.                                                              *)

\* A step of the store is one of its transactions, with the arguments its
\* callers pass.
LEMMA NextCases ==
    ASSUME Next
    PROVE  \/ \E s \in Segments, t \in ModelTexts :
                 \E segStatus \in {"succeeded", "needs_review", "retry_pending", "skipped_cached"},
                    jobStatus \in {"running", "needs_review"} :
                    /\ segStatus # "failed"
                    /\ ModelCheckpoint(s, t, segStatus, jobStatus)
           \/ \E s \in Segments, t \in Texts : MarkStoredForReview(s, t)
           \/ \E s \in Segments : MarkSegmentFailedIfUnfinished(s)
           \/ \E status \in MarkableStatus : MarkJob(status)
           \/ MarkJobRunningForResume
           \/ MarkJobStopped
           \/ \E c \in Clients, S \in SUBSET Segments : MarkUnfinishedSegmentsFailed(c, S)
           \/ \E c \in Clients, S \in SUBSET Segments : MarkSegmentsNeedsReview(c, S)
           \/ \E c \in Clients, s \in Segments, t \in HumanTexts : SaveManualCorrection(c, s, t)
           \/ \E c \in Clients, s \in Segments : RequestSegmentRetry(c, s)
           \/ \E c \in Clients : ReadSegments(c) \/ PayDebt(c)
           \/ \E c \in Clients : ClientDies(c)
           \/ \E scope \in RetryScopes : RetrySegments(scope)
           \/ Prune
BY DEF Next, SegmentCheckpoint, JobTouch, ClientCall,
       SaveTranslation, SaveNeedsReview, SaveRetryPending, SaveCached

\* A step that leaves every variable alone, and so every state predicate.
LEMMA StutterStep ==
    ASSUME IInv, UNCHANGED vars
    PROVE  IInv'
BY DEF IInv, vars, TypeOK, CorrectionStands, ResolvedIsRebuildable

\* A step that only moves statuses: it keeps every translation, block and
\* correction, and may resolve no segment that was unresolved.
LEMMA StatusStep ==
    ASSUME IInv, KeepOutput,
           job' \in JobStatus \cup {"deleted"},
           seg' \in [Segments -> SegStatus \cup {"deleted"}],
           owed' \in [Clients -> Debts],
           \A s \in Segments : seg'[s] \in Resolved => seg[s] \in Resolved
    PROVE  IInv'
BY DEF IInv, TypeOK, CorrectionStands, ResolvedIsRebuildable, KeepOutput

\* The model checkpoint: either it yields to a correction, or it writes the
\* translation and the blocks of a segment nobody corrected.
LEMMA CheckpointStep ==
    ASSUME IInv,
           NEW s \in Segments, NEW t \in ModelTexts,
           NEW segStatus \in SegStatus, NEW jobStatus \in JobStatus,
           ModelCheckpoint(s, t, segStatus, jobStatus)
    PROVE  IInv'
<1>1. CASE YieldToCorrection(s)
  BY <1>1, StutterStep DEF YieldToCorrection
<1>2. CASE /\ ~human[s]
           /\ WriteModelOutput(s, t)
           /\ SetSegment(s, segStatus)
           /\ TouchUnless(jobStatus, Held)
           /\ UNCHANGED owed
  <2>1. /\ text' = [text EXCEPT ![s] = t]
        /\ blocks' = [blocks EXCEPT ![s] = t]
        /\ human' = human /\ correction' = correction /\ committed' = committed
        /\ seg' = [seg EXCEPT ![s] = segStatus]
        /\ owed' = owed
        /\ t # NoText
    BY <1>2, NoTextAssumption DEF WriteModelOutput, SetSegment, IInv, TypeOK
  <2>2. TypeOK'
    <3>1. job' \in JobStatus \cup {"deleted"}
      BY <1>2 DEF TouchUnless, IInv, TypeOK
    <3>2. QED
      BY <2>1, <3>1 DEF IInv, TypeOK, Texts
  <2>3. CorrectionStands'
    BY <1>2, <2>1 DEF IInv, TypeOK, CorrectionStands
  <2>4. ResolvedIsRebuildable'
    BY <2>1 DEF IInv, TypeOK, ResolvedIsRebuildable
  <2>5. QED
    BY <2>2, <2>3, <2>4 DEF IInv
<1>3. QED
  BY <1>1, <1>2 DEF ModelCheckpoint

-----------------------------------------------------------------------------
(* The inductive invariant.                                                *)

\* A job just created satisfies the invariant (create_job, insert_segments).
THEOREM InitHolds == Init => IInv
BY NoTextAssumption
   DEF Init, IInv, TypeOK, CorrectionStands, ResolvedIsRebuildable,
       JobStatus, SegStatus, Debts, Resolved

\* Every store transaction keeps the invariant, in whatever state it finds the
\* database.
THEOREM StepHolds == IInv /\ [Next]_vars => IInv'
<1> SUFFICES ASSUME IInv, [Next]_vars PROVE IInv'
  OBVIOUS
<1>1. ASSUME NEW s \in Segments, NEW t \in ModelTexts,
             NEW segStatus \in {"succeeded", "needs_review", "retry_pending", "skipped_cached"},
             NEW jobStatus \in {"running", "needs_review"},
             ModelCheckpoint(s, t, segStatus, jobStatus)
      PROVE  IInv'
  <2>1. segStatus \in SegStatus /\ jobStatus \in JobStatus
    BY DEF SegStatus, JobStatus
  <2>2. QED
    BY <1>1, <2>1, CheckpointStep
<1>2. ASSUME NEW s \in Segments, NEW t \in Texts, MarkStoredForReview(s, t)
      PROVE  IInv'
  <2>1. CASE UNCHANGED vars
    BY <2>1, StutterStep
  <2>2. CASE SetSegment(s, "needs_review") /\ TouchUnless("needs_review", Held)
             /\ KeepOutput /\ UNCHANGED owed
    BY <2>2, StatusStep
       DEF SetSegment, TouchUnless, IInv, TypeOK, SegStatus, JobStatus, Resolved
  <2>3. QED
    BY <1>2, <2>1, <2>2 DEF MarkStoredForReview
<1>3. ASSUME NEW s \in Segments, MarkSegmentFailedIfUnfinished(s)
      PROVE  IInv'
  <2>1. CASE YieldToCorrection(s)
    BY <2>1, StutterStep DEF YieldToCorrection
  <2>2. CASE ~YieldToCorrection(s)
    BY <1>3, <2>2, StatusStep
       DEF MarkSegmentFailedIfUnfinished, TouchUnless, IInv, TypeOK, SegStatus,
           JobStatus, Resolved, TerminalWithTranslation
  <2>3. QED
    BY <2>1, <2>2
<1>4. ASSUME NEW status \in MarkableStatus, MarkJob(status)
      PROVE  IInv'
  BY <1>4, StatusStep
     DEF MarkJob, TouchUnless, MarkableStatus, IInv, TypeOK, JobStatus
<1>5. ASSUME MarkJobRunningForResume \/ MarkJobStopped
      PROVE  IInv'
  BY <1>5, StatusStep
     DEF MarkJobRunningForResume, MarkJobStopped, IInv, TypeOK, JobStatus
<1>6. ASSUME NEW c \in Clients, NEW S \in SUBSET Segments,
             MarkUnfinishedSegmentsFailed(c, S) \/ MarkSegmentsNeedsReview(c, S)
      PROVE  IInv'
  <2>1. owed' \in [Clients -> Debts]
    BY <1>6 DEF MarkUnfinishedSegmentsFailed, MarkSegmentsNeedsReview, Owe, IInv,
                TypeOK, Debts, Guarded
  <2>2. /\ seg' \in [Segments -> SegStatus \cup {"deleted"}]
        /\ \A s \in Segments : seg'[s] \in Resolved => seg[s] \in Resolved
        /\ KeepOutput
        /\ job' \in JobStatus \cup {"deleted"}
    BY <1>6 DEF MarkUnfinishedSegmentsFailed, MarkSegmentsNeedsReview, IInv, TypeOK,
                SegStatus, Resolved
  <2>3. QED
    BY <2>1, <2>2, StatusStep
<1>7. ASSUME NEW c \in Clients, NEW s \in Segments, NEW t \in HumanTexts,
             SaveManualCorrection(c, s, t)
      PROVE  IInv'
  <2>1. /\ text' = [text EXCEPT ![s] = t]
        /\ human' = [human EXCEPT ![s] = TRUE]
        /\ blocks' = [blocks EXCEPT ![s] = t]
        /\ correction' = [correction EXCEPT ![s] = t]
        /\ committed' = [committed EXCEPT ![s] = @ \cup {t}]
        /\ seg' = [seg EXCEPT ![s] = "succeeded"]
        /\ owed' = [owed EXCEPT ![c] = "recompute"]
        /\ job' = job
        /\ t # NoText
    BY <1>7, NoTextAssumption DEF SaveManualCorrection, SetSegment, Owe
  <2>2. TypeOK'
    BY <2>1 DEF IInv, TypeOK, Texts, SegStatus, Debts
  <2>3. CorrectionStands'
    BY <2>1 DEF IInv, TypeOK, CorrectionStands
  <2>4. ResolvedIsRebuildable'
    BY <2>1 DEF IInv, TypeOK, ResolvedIsRebuildable
  <2>5. QED
    BY <2>2, <2>3, <2>4 DEF IInv
<1>8. ASSUME NEW c \in Clients, NEW s \in Segments, RequestSegmentRetry(c, s)
      PROVE  IInv'
  BY <1>8, StatusStep
     DEF RequestSegmentRetry, SetSegment, Owe, IInv, TypeOK, SegStatus, Debts, Guarded,
         Resolved
<1>9. ASSUME NEW c \in Clients, ReadSegments(c) \/ PayDebt(c)
      PROVE  IInv'
  <2>1. CASE ReadSegments(c)
    <3>1. owed' \in [Clients -> Debts]
      BY <2>1 DEF ReadSegments, IInv, TypeOK, Debts, Verdict
    <3>2. QED
      BY <2>1, <3>1, StatusStep DEF ReadSegments, storeVars, KeepOutput, IInv, TypeOK
  <2>2. CASE PayDebt(c)
    <3>1. job' \in JobStatus \cup {"deleted"}
      BY <2>2 DEF PayDebt, TouchUnless, IInv, TypeOK, JobStatus, Debts, Guarded, Verdict
    <3>2. QED
      BY <2>2, <3>1, StatusStep DEF PayDebt, IInv, TypeOK, Debts
  <2>3. QED
    BY <1>9, <2>1, <2>2
<1>10. ASSUME NEW c \in Clients, ClientDies(c)
       PROVE  IInv'
  BY <1>10, StatusStep DEF ClientDies, IInv, TypeOK, Debts
<1>11. ASSUME NEW scope \in RetryScopes, RetrySegments(scope)
       PROVE  IInv'
  BY <1>11, StatusStep
     DEF RetrySegments, TouchUnless, IInv, TypeOK, SegStatus, JobStatus, Resolved
<1>12. ASSUME Prune
       PROVE  IInv'
  BY <1>12 DEF Prune, IInv, TypeOK, CorrectionStands, ResolvedIsRebuildable, Resolved
<1>13. CASE UNCHANGED vars
  BY <1>13, StutterStep
<1>14. QED
  BY <1>1, <1>2, <1>3, <1>4, <1>5, <1>6, <1>7, <1>8, <1>9, <1>10, <1>11, <1>12,
     <1>13, NextCases

\* So the invariant holds under every interleaving of the transactions.
THEOREM InvariantHolds == Spec => []IInv
BY InitHolds, StepHolds, PTL DEF Spec

-----------------------------------------------------------------------------
(* What a reader should take away.                                         *)

\* Every reachable row holds a value of its column's type.
THEOREM TypeCorrect == Spec => []TypeOK
BY InvariantHolds, PTL DEF IInv

\* A committed human correction survives every interleaving of store calls,
\* whoever makes them.
THEOREM CorrectionsStand == Spec => []CorrectionStands
BY InvariantHolds, PTL DEF IInv

\* The translation row and the block rows always describe the same output,
\* and a resolved segment has one.
THEOREM ResolvedRebuildable == Spec => []ResolvedIsRebuildable
BY InvariantHolds, PTL DEF IInv

\* No transaction of the store turns a segment that has a translation into a
\* failed one.
LEMMA StepKeepsWork ==
    ASSUME IInv, [Next]_vars
    PROVE  [\A s \in Segments :
               seg[s] \in TerminalWithTranslation => seg'[s] # "failed"]_vars
<1> DEFINE Kept == \A s \in Segments :
                      seg[s] \in TerminalWithTranslation => seg'[s] # "failed"
<1>1. ASSUME IInv, Next PROVE Kept
  <2> SUFFICES ASSUME NEW u \in Segments, seg[u] \in TerminalWithTranslation
               PROVE  seg'[u] # "failed"
    OBVIOUS
  <2>0. seg \in [Segments -> SegStatus \cup {"deleted"}] /\ seg[u] # "failed"
    BY <1>1 DEF IInv, TypeOK, TerminalWithTranslation, Resolved
  <2>1. ASSUME NEW s \in Segments, NEW t \in ModelTexts,
               NEW segStatus \in {"succeeded", "needs_review", "retry_pending", "skipped_cached"},
               NEW jobStatus \in {"running", "needs_review"},
               ModelCheckpoint(s, t, segStatus, jobStatus)
        PROVE  seg'[u] # "failed"
    BY <2>0, <2>1 DEF ModelCheckpoint, YieldToCorrection, SetSegment, vars
  <2>2. ASSUME NEW s \in Segments, NEW t \in Texts, MarkStoredForReview(s, t)
        PROVE  seg'[u] # "failed"
    BY <2>0, <2>2 DEF MarkStoredForReview, SetSegment, vars
  <2>3. ASSUME NEW s \in Segments, MarkSegmentFailedIfUnfinished(s)
        PROVE  seg'[u] # "failed"
    BY <2>0, <2>3 DEF MarkSegmentFailedIfUnfinished, YieldToCorrection, vars
  <2>4. ASSUME NEW c \in Clients, NEW S \in SUBSET Segments,
               MarkUnfinishedSegmentsFailed(c, S) \/ MarkSegmentsNeedsReview(c, S)
        PROVE  seg'[u] # "failed"
    BY <2>0, <2>4 DEF MarkUnfinishedSegmentsFailed, MarkSegmentsNeedsReview
  <2>5. ASSUME NEW c \in Clients, NEW s \in Segments, NEW t \in HumanTexts,
               SaveManualCorrection(c, s, t)
        PROVE  seg'[u] # "failed"
    BY <2>0, <2>5 DEF SaveManualCorrection, SetSegment
  <2>6. ASSUME NEW c \in Clients, NEW s \in Segments, RequestSegmentRetry(c, s)
        PROVE  seg'[u] # "failed"
    BY <2>0, <2>6 DEF RequestSegmentRetry, SetSegment
  <2>7. ASSUME NEW scope \in RetryScopes, RetrySegments(scope)
        PROVE  seg'[u] # "failed"
    BY <2>0, <2>7 DEF RetrySegments
  <2>8. CASE Prune
    BY <2>8 DEF Prune
  <2>9. ASSUME UNCHANGED seg PROVE seg'[u] # "failed"
    BY <2>0, <2>9
  <2>10. QED
    BY <1>1, <2>1, <2>2, <2>3, <2>4, <2>5, <2>6, <2>7, <2>8, <2>9, NextCases
       DEF MarkJob, MarkJobRunningForResume, MarkJobStopped, ReadSegments, PayDebt,
           ClientDies, storeVars
<1>2. QED
  BY <1>1

\* Work that is already persisted is never turned into a failure.
THEOREM LateFailuresKeepWork == Spec => LateFailureKeepsWork
<1>1. IInv /\ [Next]_vars => [\A s \in Segments :
          seg[s] \in TerminalWithTranslation => seg'[s] # "failed"]_vars
  BY StepKeepsWork
<1>2. QED
  BY <1>1, InvariantHolds, PTL DEF Spec, LateFailureKeepsWork

\* A transaction that moves a stopped job is one of the deliberate ones.
LEMMA StepKeepsStop ==
    ASSUME Next
    PROVE  job = "stopped" /\ job' # "stopped" =>
               \/ MarkJobRunningForResume
               \/ \E c \in Clients : owed[c] \in Verdict /\ PayDebt(c)
               \/ Prune
<1> DEFINE Undone ==
      job = "stopped" /\ job' # "stopped" =>
          \/ MarkJobRunningForResume
          \/ \E c \in Clients : owed[c] \in Verdict /\ PayDebt(c)
          \/ Prune
<1>1. ASSUME Next PROVE Undone
  <2> SUFFICES ASSUME job = "stopped", job' # "stopped",
                      ~MarkJobRunningForResume, ~Prune
               PROVE  \E c \in Clients : owed[c] \in Verdict /\ PayDebt(c)
    OBVIOUS
  <2>1. ASSUME NEW s \in Segments, NEW t \in ModelTexts, NEW segStatus, NEW jobStatus,
               ModelCheckpoint(s, t, segStatus, jobStatus)
        PROVE  FALSE
    BY <2>1 DEF ModelCheckpoint, YieldToCorrection, TouchUnless, Held, vars
  <2>2. ASSUME NEW s \in Segments, NEW t \in Texts, MarkStoredForReview(s, t)
        PROVE  FALSE
    BY <2>2 DEF MarkStoredForReview, TouchUnless, Held, vars
  <2>3. ASSUME NEW s \in Segments, MarkSegmentFailedIfUnfinished(s)
        PROVE  FALSE
    BY <2>3 DEF MarkSegmentFailedIfUnfinished, YieldToCorrection, TouchUnless, vars
  <2>4. ASSUME NEW status \in MarkableStatus, MarkJob(status)
        PROVE  FALSE
    BY <2>4 DEF MarkJob, TouchUnless
  <2>5. ASSUME NEW c \in Clients, PayDebt(c)
        PROVE  owed[c] \in Verdict
    BY <2>5 DEF PayDebt, TouchUnless, Guarded, Verdict
  <2>6. ASSUME NEW scope \in RetryScopes, RetrySegments(scope)
        PROVE  FALSE
    BY <2>6 DEF RetrySegments, TouchUnless
  <2>7. ASSUME MarkJobStopped PROVE FALSE
    BY <2>7 DEF MarkJobStopped
  <2>8. ASSUME UNCHANGED job PROVE FALSE
    BY <2>8
  <2>9. QED
    BY <1>1, <2>1, <2>2, <2>3, <2>4, <2>5, <2>6, <2>7, <2>8, NextCases
       DEF MarkUnfinishedSegmentsFailed, MarkSegmentsNeedsReview,
           SaveManualCorrection, RequestSegmentRetry, ReadSegments, ClientDies, storeVars
<1>2. QED
  BY <1>1

\* No checkpoint, failure, pause, retry or completion moves a stopped job.
THEOREM StopIsSticky == Spec => StopHolds
<1>1. Next => (job = "stopped" /\ job' # "stopped" =>
                   \/ MarkJobRunningForResume
                   \/ \E c \in Clients : owed[c] \in Verdict /\ PayDebt(c)
                   \/ Prune)
  BY StepKeepsStop
<1>2. QED
  BY <1>1, PTL DEF Spec, StopHolds

-----------------------------------------------------------------------------
(* The desk.                                                               *)


\* What the steps of a correction need to know of its local state.
DeskTyped ==
    /\ ask \in [Clients -> Asks]
    /\ step \in [Clients -> Steps]
    /\ view \in [Clients -> Books]
    /\ book \in Books

\* A client's step in a correction, in the order of DeskNext.
Correct(c) == OpenTab(c) \/ StageInShell(c) \/ Proceed(c) \/ HangUp(c)

-----------------------------------------------------------------------------
(* The steps of a correction are transactions of the store.                *)

\* There is something to ask for, so NoAsk is an ask.
LEMMA NoAskIsAsk == NoAsk \in Asks
<1>1. PICK s \in Segments, t \in HumanTexts : TRUE
  BY AsksAssumption
<1>2. [segment |-> s, text |-> t] \in Asks
  BY DEF Asks
<1>3. QED
  BY <1>2 DEF NoAsk

\* Each step of a correction calls the store at most once (correct_job_segment).
LEMMA CorrectCallsStore ==
    ASSUME DeskTyped, NEW c \in Clients, Correct(c)
    PROVE  [Next]_vars
<1>1. ask[c].segment \in Segments /\ ask[c].text \in HumanTexts
  BY DEF DeskTyped, Asks
<1>2. CASE OpenTab(c) \/ StageInShell(c) \/ HangUp(c) \/ Queue(c) \/ StartInTab(c)
           \/ StageInTab(c) \/ StageFails(c) \/ Publish(c) \/ PublishFails(c) \/ Release(c) \/ Evict(c)
  <2>1. UNCHANGED vars
    BY <1>2 DEF OpenTab, StageInShell, HangUp, Queue, StartInTab, StageInTab, StageFails,
                Publish, PublishFails, Release, Evict
  <2>2. QED
    BY <2>1
<1>3. CASE Save(c)
  <2>1. CASE SaveManualCorrection(c, ask[c].segment, ask[c].text)
    <3>1. ClientCall(c)
      BY <1>1, <2>1 DEF ClientCall
    <3>2. QED
      BY <3>1 DEF Next
  <2>2. CASE UNCHANGED vars
    BY <2>2
  <2>3. QED
    BY <1>3, <2>1, <2>2 DEF Save
<1>4. CASE Recompute(c)
  BY <1>4 DEF Recompute, Next, ClientCall
<1>5. CASE RecomputeFails(c)
  BY <1>5 DEF RecomputeFails, Next, ClientCall
<1>6. QED
  BY <1>2, <1>3, <1>4, <1>5 DEF Correct, Proceed

\* What other processes do to the job while it is corrected is one call, too.
LEMMA ElsewhereCallsStore == Elsewhere => Next
BY DEF Elsewhere, Next, JobTouch, MarkableStatus

\* The local state of a correction keeps its types.
LEMMA CorrectKeepsTypes ==
    ASSUME TypeOK, DeskTyped, NEW c \in Clients, Correct(c)
    PROVE  DeskTyped'
<1> USE DEF DeskTyped
<1>1. Empty \in Books
  BY DEF Empty, Books
<1>2. ASSUME NEW a \in Asks, Overlay(c, a)
      PROVE  view' \in [Clients -> Books] /\ step' \in [Clients -> Steps] /\ book' \in Books
  <2>1. [blocks EXCEPT ![a.segment] = a.text] \in Books
    BY DEF TypeOK, Books, Asks, Texts
  <2>2. QED
    BY <1>2, <2>1 DEF Overlay, Goto, Steps
<1>3. ASSUME Answer(c)
      PROVE  ask' \in [Clients -> Asks] /\ step' \in [Clients -> Steps]
             /\ view' \in [Clients -> Books]
  BY <1>1, <1>3, NoAskIsAsk DEF Answer, Goto, Steps
<1>4. CASE OpenTab(c)
  BY <1>4, WantsAssumption DEF OpenTab, Goto, Steps
<1>5. CASE StageInShell(c)
  <2>1. PICK a \in Asks : ask' = [ask EXCEPT ![c] = a] /\ Overlay(c, a)
    BY <1>5, WantsAssumption DEF StageInShell
  <2>2. QED
    BY <1>2, <2>1
<1>6. CASE StageInTab(c)
  <2>1. ask[c] \in Asks /\ Overlay(c, ask[c]) /\ ask' = ask
    BY <1>6 DEF StageInTab
  <2>2. QED
    BY <1>2, <2>1
<1>7. CASE HangUp(c)
  BY <1>3, <1>7 DEF HangUp
<1>8. CASE Release(c)
  BY <1>3, <1>8 DEF Release, Goto, Steps
<1>9. CASE Evict(c)
  BY <1>3, <1>9 DEF Evict
<1>10. CASE \/ Queue(c) \/ StartInTab(c) \/ StageFails(c) \/ Save(c)
            \/ RecomputeFails(c) \/ PublishFails(c)
  BY <1>10 DEF Queue, StartInTab, StageFails, Save, RecomputeFails, PublishFails, Goto, Steps
<1>11. CASE Recompute(c)
  BY <1>11 DEF Recompute, deskVars, deskLocal
<1>12. CASE Publish(c)
  BY <1>12 DEF Publish, Goto, Steps
<1>13. QED
  BY <1>4, <1>5, <1>6, <1>7, <1>8, <1>9, <1>10, <1>11, <1>12 DEF Correct, Proceed

-----------------------------------------------------------------------------
(* The book never runs ahead of the store.                                 *)

\* A book whose every text is a provider's, the source, or one committed for
\* that segment.
Committed(b) == \A s \in Segments : b[s] \in ModelTexts \cup {NoText} \cup committed[s]

\* BookNeverAheadOfStore is not inductive: the book comes from a staged file,
\* which was rebuilt from the blocks.  A staged file may hold one text that is
\* not committed yet, the one it was made for; when the swap comes it holds
\* none.
BooksAreCommitted ==
    /\ Committed(blocks) /\ Committed(book)
    /\ \A c \in Clients : step[c] = "saved" => Committed(view[c])
    /\ \A c \in Clients : step[c] = "staged" =>
          \A s \in Segments :
              \/ view[c][s] \in ModelTexts \cup {NoText} \cup committed[s]
              \/ s = ask[c].segment /\ view[c][s] = ask[c].text

\* No call of the store writes a reviewer's text into the blocks without
\* committing it.
LEMMA StoreKeepsCommitted ==
    ASSUME IInv, [Next]_vars, Committed(blocks)
    PROVE  /\ \A s \in Segments : committed[s] \subseteq committed'[s]
           /\ Committed(blocks)'
<1> DEFINE Goal == /\ \A s \in Segments : committed[s] \subseteq committed'[s]
                   /\ Committed(blocks)'
<1> USE DEF Committed
<1>1. ASSUME NEW s \in Segments, NEW t \in ModelTexts,
             NEW segStatus, NEW jobStatus, ModelCheckpoint(s, t, segStatus, jobStatus)
      PROVE  Goal
  <2>1. CASE UNCHANGED vars
    BY <2>1 DEF vars
  <2>2. CASE WriteModelOutput(s, t)
    BY <2>2 DEF WriteModelOutput, IInv, TypeOK
  <2>3. QED
    BY <1>1, <2>1, <2>2 DEF ModelCheckpoint, YieldToCorrection
<1>2. ASSUME KeepOutput
      PROVE  Goal
  BY <1>2 DEF KeepOutput
<1>3. ASSUME UNCHANGED vars
      PROVE  Goal
  BY <1>3 DEF vars
<1>4. ASSUME NEW s \in Segments, NEW t \in Texts, MarkStoredForReview(s, t)
      PROVE  Goal
  BY <1>2, <1>3, <1>4 DEF MarkStoredForReview
<1>5. ASSUME NEW s \in Segments, MarkSegmentFailedIfUnfinished(s)
      PROVE  Goal
  BY <1>2, <1>3, <1>5 DEF MarkSegmentFailedIfUnfinished, YieldToCorrection
<1>6. ASSUME NEW status, MarkJob(status)
      PROVE  Goal
  BY <1>2, <1>6 DEF MarkJob
<1>7. CASE MarkJobRunningForResume \/ MarkJobStopped
  BY <1>2, <1>7 DEF MarkJobRunningForResume, MarkJobStopped
<1>8. ASSUME NEW c \in Clients, NEW S \in SUBSET Segments,
             MarkUnfinishedSegmentsFailed(c, S) \/ MarkSegmentsNeedsReview(c, S)
      PROVE  Goal
  BY <1>2, <1>8 DEF MarkUnfinishedSegmentsFailed, MarkSegmentsNeedsReview
<1>9. ASSUME NEW c \in Clients, NEW s \in Segments, NEW t \in HumanTexts,
             SaveManualCorrection(c, s, t)
      PROVE  Goal
  BY <1>9 DEF SaveManualCorrection, IInv, TypeOK
<1>10. ASSUME NEW c \in Clients, NEW s \in Segments, RequestSegmentRetry(c, s)
       PROVE  Goal
  BY <1>2, <1>10 DEF RequestSegmentRetry
<1>11. ASSUME NEW c \in Clients, ReadSegments(c) \/ PayDebt(c) \/ ClientDies(c)
       PROVE  Goal
  BY <1>11 DEF ReadSegments, PayDebt, ClientDies, KeepOutput, storeVars
<1>12. ASSUME NEW scope \in RetryScopes, RetrySegments(scope)
       PROVE  Goal
  BY <1>2, <1>12 DEF RetrySegments
<1>13. CASE Prune
  BY <1>13 DEF Prune
<1>14. CASE Next
  BY <1>14, <1>1, <1>4, <1>5, <1>6, <1>7, <1>8, <1>9, <1>10, <1>11, <1>12, <1>13, NextCases
<1>15. QED
  BY <1>3, <1>14

\* A step that leaves every correction where it is: whatever the store does
\* meanwhile, what was committed stays committed.
LEMMA StoreKeepsBooks ==
    ASSUME IInv, BooksAreCommitted, [Next]_vars, UNCHANGED <<book, step, ask, view>>
    PROVE  BooksAreCommitted'
<1>1. /\ \A s \in Segments : committed[s] \subseteq committed'[s]
      /\ Committed(blocks)'
  BY StoreKeepsCommitted DEF BooksAreCommitted
<1>2. QED
  BY <1>1 DEF BooksAreCommitted, Committed

\* Every step of a correction keeps it so (the order stage, persist, swap of
\* correct_job_segment).
LEMMA CorrectKeepsBooks ==
    ASSUME IInv, DeskTyped, BooksAreCommitted, NEW c \in Clients, Correct(c)
    PROVE  BooksAreCommitted'
<1>1. /\ \A s \in Segments : committed[s] \subseteq committed'[s]
      /\ Committed(blocks)'
  BY StoreKeepsCommitted, CorrectCallsStore DEF BooksAreCommitted
<1>2. /\ Committed(blocks) /\ Committed(book)
      /\ \A d \in Clients : step[d] = "saved" => Committed(view[d])
      /\ \A d \in Clients : step[d] = "staged" =>
            \A s \in Segments :
                \/ view[d][s] \in ModelTexts \cup {NoText} \cup committed[s]
                \/ s = ask[d].segment /\ view[d][s] = ask[d].text
  BY DEF BooksAreCommitted
<1> USE DEF Committed
<1>3. ASSUME /\ book' = book
             /\ \A d \in Clients : step'[d] \in {"staged", "saved"} =>
                  step'[d] = step[d] /\ view'[d] = view[d] /\ ask'[d] = ask[d]
      PROVE  BooksAreCommitted'
  BY <1>1, <1>2, <1>3 DEF BooksAreCommitted
<1>4. ASSUME Answer(c)
      PROVE  \A d \in Clients : step'[d] \in {"staged", "saved"} =>
                  step'[d] = step[d] /\ view'[d] = view[d] /\ ask'[d] = ask[d]
  BY <1>4 DEF Answer, Goto, DeskTyped
<1>5. ASSUME NEW a \in Asks, Overlay(c, a), ask' = [ask EXCEPT ![c] = a], UNCHANGED vars
      PROVE  BooksAreCommitted'
  <2>1. book' = book /\ blocks' = blocks /\ committed' = committed
    BY <1>5 DEF Overlay, vars
  <2>2. /\ step'[c] = "staged" /\ ask'[c] = a
        /\ view'[c] = [blocks EXCEPT ![a.segment] = a.text]
        /\ \A d \in Clients \ {c} :
              step'[d] = step[d] /\ view'[d] = view[d] /\ ask'[d] = ask[d]
    BY <1>5 DEF Overlay, Goto, DeskTyped
  <2>3. \A s \in Segments :
            view'[c][s] = IF s = a.segment THEN a.text ELSE blocks[s]
    BY <2>2 DEF IInv, TypeOK
  <2>4. /\ Committed(blocks)' /\ Committed(book)'
        /\ \A d \in Clients : step'[d] = "saved" => Committed(view[d])'
    BY <1>2, <2>1, <2>2
  <2>5. \A d \in Clients : step'[d] = "staged" =>
            \A s \in Segments :
                \/ view'[d][s] \in ModelTexts \cup {NoText} \cup committed'[s]
                \/ s = ask'[d].segment /\ view'[d][s] = ask'[d].text
    <3> SUFFICES ASSUME NEW d \in Clients, step'[d] = "staged", NEW s \in Segments
                 PROVE  \/ view'[d][s] \in ModelTexts \cup {NoText} \cup committed'[s]
                        \/ s = ask'[d].segment /\ view'[d][s] = ask'[d].text
      OBVIOUS
    <3>1. CASE d = c
      BY <1>2, <2>1, <2>2, <2>3, <3>1
    <3>2. CASE d # c
      BY <1>2, <2>1, <2>2, <3>2
    <3>3. QED
      BY <3>1, <3>2
  <2>6. QED
    BY <2>4, <2>5 DEF BooksAreCommitted
<1>6. CASE OpenTab(c)
  BY <1>3, <1>6 DEF OpenTab, Goto, DeskTyped
<1>7. CASE StageInShell(c)
  BY <1>5, <1>7, WantsAssumption DEF StageInShell
<1>8. CASE StageInTab(c)
  BY <1>5, <1>8 DEF StageInTab, DeskTyped
<1>9. CASE HangUp(c)
  BY <1>3, <1>4, <1>9 DEF HangUp
<1>10. CASE Release(c)
  BY <1>3, <1>4, <1>10 DEF Release, Goto, DeskTyped
<1>11. CASE Evict(c)
  BY <1>3, <1>4, <1>11 DEF Evict
<1>12. CASE Queue(c) \/ StartInTab(c) \/ StageFails(c) \/ RecomputeFails(c) \/ PublishFails(c)
  BY <1>3, <1>12 DEF Queue, StartInTab, StageFails, RecomputeFails, PublishFails, Goto, DeskTyped
<1>13. CASE Recompute(c)
  BY <1>3, <1>13 DEF Recompute, deskVars, deskLocal
<1>14. CASE Save(c)
  <2>1. CASE SaveManualCorrection(c, ask[c].segment, ask[c].text) /\ Goto(c, "saved")
             /\ UNCHANGED <<book, ask, view>>
    <3>1. ask[c].segment \in Segments
      BY DEF DeskTyped, Asks
    <3>2. ask[c].text \in committed'[ask[c].segment]
      BY <2>1, <3>1 DEF SaveManualCorrection, IInv, TypeOK
    <3>3. Committed(view[c])'
      BY <1>1, <1>2, <1>14, <2>1, <3>2 DEF Save
    <3>4. \A d \in Clients : step'[d] = IF d = c THEN "saved" ELSE step[d]
      BY <2>1 DEF Goto, DeskTyped
    <3>5. QED
      BY <1>1, <1>2, <2>1, <3>3, <3>4 DEF BooksAreCommitted
  <2>2. CASE Goto(c, "failed") /\ UNCHANGED <<book, ask, view>>
    BY <1>3, <2>2 DEF Goto, DeskTyped
  <2>3. QED
    BY <1>14, <2>1, <2>2 DEF Save
<1>15. CASE Publish(c)
  BY <1>1, <1>2, <1>15 DEF BooksAreCommitted, Publish, Goto, DeskTyped
<1>16. QED
  BY <1>6, <1>7, <1>8, <1>9, <1>10, <1>11, <1>12, <1>13, <1>14, <1>15 DEF Correct, Proceed

-----------------------------------------------------------------------------
(* The desk on its own.                                                    *)

DeskIInv == IInv /\ DeskTyped

\* A finished job whose book carries its blocks satisfies the invariant.
LEMMA DeskInitHolds == DeskInit => DeskIInv
<1> SUFFICES ASSUME DeskInit PROVE DeskIInv
  OBVIOUS
<1>1. PICK m \in ModelTexts : text = [s \in Segments |-> m] /\ blocks = text
  BY DEF DeskInit
<1>2. IInv
  BY <1>1, NoTextAssumption
     DEF DeskInit, IInv, TypeOK, CorrectionStands, ResolvedIsRebuildable,
         JobStatus, SegStatus, Debts, Resolved, Texts
<1>3. DeskTyped
  BY <1>1, NoAskIsAsk DEF DeskInit, DeskTyped, Steps, Books, Empty, Texts
<1>4. QED
  BY <1>2, <1>3 DEF DeskIInv

\* Every step of the desk is at most one call of the store and keeps the types.
LEMMA DeskStepHolds ==
    DeskIInv /\ [DeskNext]_allVars => DeskIInv' /\ [Next]_vars
<1> SUFFICES ASSUME DeskIInv, [DeskNext]_allVars PROVE DeskIInv' /\ [Next]_vars
  OBVIOUS
<1> USE DEF DeskIInv
<1>1. ASSUME NEW c \in Clients, Correct(c)
      PROVE  DeskTyped' /\ [Next]_vars
  BY <1>1, CorrectCallsStore, CorrectKeepsTypes DEF IInv
<1>2. ASSUME Elsewhere
      PROVE  DeskTyped' /\ [Next]_vars
  BY <1>2, ElsewhereCallsStore DEF Elsewhere, DeskTyped, deskVars, deskLocal
<1>3. ASSUME UNCHANGED allVars
      PROVE  DeskTyped' /\ [Next]_vars
  BY <1>3 DEF allVars, DeskTyped, deskVars, deskLocal
<1>4. DeskTyped' /\ [Next]_vars
  BY <1>1, <1>2, <1>3 DEF DeskNext, Correct
<1>5. QED
  BY <1>4, StepHolds

\* The invariant holds whatever the tabs, shells and other processes do.
THEOREM DeskInvariantHolds == DeskSpec => []DeskIInv
<1>1. DeskIInv /\ [DeskNext]_allVars => DeskIInv'
  BY DeskStepHolds
<1>2. QED
  BY <1>1, DeskInitHolds, PTL DEF DeskSpec

\* The published book shows no text of a reviewer that the store has not
\* committed for that segment, also after earlier corrections of it: however
\* many tabs and shells, with or without the mutex.
THEOREM BookStaysBehind == DeskSpec => []BookNeverAheadOfStore
<1>1. DeskInit => BooksAreCommitted
  BY DEF DeskInit, BooksAreCommitted, Committed
<1>2. DeskIInv /\ BooksAreCommitted /\ [DeskNext]_allVars => BooksAreCommitted'
  <2> SUFFICES ASSUME DeskIInv, BooksAreCommitted, [DeskNext]_allVars
               PROVE  BooksAreCommitted'
    OBVIOUS
  <2>1. ASSUME NEW c \in Clients, Correct(c)
        PROVE  BooksAreCommitted'
    BY <2>1, CorrectKeepsBooks DEF DeskIInv
  <2>2. CASE Elsewhere \/ UNCHANGED allVars
    BY <2>2, StoreKeepsBooks, ElsewhereCallsStore DEF Elsewhere, DeskIInv, deskVars, deskLocal,
       allVars
  <2>3. QED
    BY <2>1, <2>2 DEF DeskNext, Correct
<1>3. BooksAreCommitted => BookNeverAheadOfStore
  BY DEF BooksAreCommitted, Committed, BookNeverAheadOfStore
<1>4. QED
  BY <1>1, <1>2, <1>3, DeskInvariantHolds, PTL DEF DeskSpec
-----------------------------------------------------------------------------
(* While corrections are serialized, the quiet book carries the blocks.    *)

Attended  == Tabs \ hungUp
Standing  == {c \in Clients : step[c] = "queued" \/ step[c] \in Working}
Amid(c)   == step[c] \in {"staged", "saved"}

HandlesTyped ==
    /\ handle \in [Clients -> Locks \cup {NoLock}]
    /\ registry \in Locks \cup {NoLock}
    /\ line \in [Locks -> Seq(Clients)]
    /\ hungUp \subseteq Tabs

\* Only the registry's mutex is anybody's, and whoever is at the desk has it:
\* all but the shells and the closures that outlived their handler.
OneMutex ==
    /\ \A c \in Clients : handle[c] \in {registry, NoLock}
    /\ \A c \in Clients : step[c] \in {"handle", "queued", "evict"} => c \in Attended
    /\ \A c \in Attended : step[c] # "away" => handle[c] # NoLock
    /\ \A c \in Clients : step[c] # "away" => c \in Tabs \cup Shells
    /\ \A c \in hungUp : step[c] \in Working

\* Who stands in a line stands in it once, and holds the mutex it is for.
NoTwice(q)      == \A i, j \in DOMAIN q : q[i] = q[j] => i = j
LinesAreInOrder ==
    \A l \in Locks :
        /\ NoTwice(line[l])
        /\ \A i \in DOMAIN line[l] : handle[line[l][i]] = l /\ line[l][i] \in Standing

\* A tab that works on the book stands first.
WorkersStandFirst ==
    \A c \in Attended : step[c] \in Working =>
        line[handle[c]] # <<>> /\ line[handle[c]][1] = c

OneAtATime == \A c, d \in Clients : Amid(c) /\ Amid(d) => c = d

MutexWorks ==
    HandlesTyped /\ OneMutex /\ LinesAreInOrder /\ WorkersStandFirst /\ OneAtATime

\* QuietBookIsCurrent is not inductive: the book comes from a view, and the
\* view was rebuilt from the blocks of an earlier state.  One correction at a
\* time means that they are still the blocks when its file is swapped in.
ViewsAreCurrent ==
    /\ \A c \in Clients : step[c] = "staged" =>
          view[c] = [blocks EXCEPT ![ask[c].segment] = ask[c].text]
    /\ \A c \in Clients : step[c] = "saved" => view[c] = blocks
    /\ (\A c \in Clients : step[c] # "saved") /\ unpublished = "no" => book = blocks

QuietInv ==
    /\ ~unserialized => MutexWorks
    /\ ~unserialized /\ JobExists => ViewsAreCurrent

\* Leaving a line keeps the others in it, in their order.
LEMMA WithoutHolds ==
    ASSUME NEW q \in Seq(Clients), NoTwice(q), NEW c \in Clients
    PROVE  /\ Without(q, c) \in Seq(Clients)
           /\ NoTwice(Without(q, c))
           /\ \A i \in DOMAIN Without(q, c) : \E j \in DOMAIN q :
                 Without(q, c)[i] = q[j] /\ q[j] # c
           /\ q # <<>> /\ q[1] # c => Without(q, c) # <<>> /\ Without(q, c)[1] = q[1]
<1>0. Len(q) \in Nat /\ DOMAIN q = 1 .. Len(q) /\ \A i \in DOMAIN q : q[i] \in Clients
  BY LenProperties, ElementOfSeq
<1>1. CASE \E i \in DOMAIN q : q[i] = c
  <2> DEFINE k == CHOOSE n \in DOMAIN q : q[n] = c
             r == [n \in 1 .. Len(q) - 1 |-> IF n < k THEN q[n] ELSE q[n + 1]]
  <2>1. k \in 1 .. Len(q) /\ q[k] = c
    BY <1>0, <1>1
  <2>2. Without(q, c) = r
    BY <1>1 DEF Without
  <2> HIDE DEF k
  <2>3. \A i \in 1 .. Len(q) - 1 :
           IF i < k THEN i \in DOMAIN q /\ r[i] = q[i] ELSE i + 1 \in DOMAIN q /\ r[i] = q[i + 1]
    BY <1>0, <2>1
  <2>4. r \in Seq(Clients) /\ DOMAIN r = 1 .. Len(q) - 1 /\ Len(r) = Len(q) - 1
    <3>1. r \in [1 .. Len(q) - 1 -> Clients]
      BY <1>0, <2>3
    <3>2. Len(q) - 1 \in Nat
      BY <1>0, <2>1
    <3>3. QED
      BY <3>1, <3>2, IsASeq, LenProperties
  <2>5. \A i \in DOMAIN r : \E j \in DOMAIN q : r[i] = q[j] /\ q[j] # c
    <3> SUFFICES ASSUME NEW i \in 1 .. Len(q) - 1
                 PROVE  \E j \in DOMAIN q : r[i] = q[j] /\ j # k
      BY <1>0, <2>1, <2>4 DEF NoTwice
    <3>1. CASE i < k
      BY <1>0, <2>1, <2>3, <3>1
    <3>2. CASE ~(i < k)
      BY <1>0, <2>1, <2>3, <3>2
    <3>3. QED
      BY <3>1, <3>2
  <2>6. NoTwice(r)
    <3> SUFFICES ASSUME NEW i \in 1 .. Len(q) - 1, NEW j \in 1 .. Len(q) - 1, r[i] = r[j]
                 PROVE  i = j
      BY <2>4 DEF NoTwice
    <3>1. \A m, n \in DOMAIN q : q[m] = q[n] => m = n
      BY DEF NoTwice
    <3>2. CASE i < k /\ j < k
      BY <2>3, <3>1, <3>2
    <3>3. CASE i < k /\ ~(j < k)
      <4>1. i = j + 1
        BY <2>3, <3>1, <3>3
      <4>2. QED
        BY <1>0, <2>1, <3>3, <4>1
    <3>4. CASE ~(i < k) /\ j < k
      <4>1. i + 1 = j
        BY <2>3, <3>1, <3>4
      <4>2. QED
        BY <1>0, <2>1, <3>4, <4>1
    <3>5. CASE ~(i < k) /\ ~(j < k)
      <4>1. i + 1 = j + 1
        BY <2>3, <3>1, <3>5
      <4>2. QED
        BY <1>0, <4>1
    <3>6. QED
      BY <3>2, <3>3, <3>4, <3>5
  <2>7. q[1] # c => r # <<>> /\ r[1] = q[1]
    <3> SUFFICES ASSUME q[1] # c
                 PROVE  r # <<>> /\ r[1] = q[1]
      OBVIOUS
    <3>1. 1 < k /\ 1 \in 1 .. Len(q) - 1
      BY <1>0, <2>1
    <3>2. r[1] = q[1]
      BY <2>3, <3>1
    <3>3. r # <<>>
      <4> HIDE DEF r
      <4>1. QED
        BY <1>0, <2>4, <3>1
    <3>4. QED
      BY <3>2, <3>3
  <2> HIDE DEF r
  <2>8. QED
    BY <2>2, <2>4, <2>5, <2>6, <2>7
<1>2. CASE ~\E i \in DOMAIN q : q[i] = c
  BY <1>2 DEF Without
<1>3. QED
  BY <1>1, <1>2
\* A client that only moves on in its correction: who stood in a line still
\* does, and whoever starts to work on the book comes first and is alone.
LEMMA MovingOnKeepsMutex ==
    ASSUME DeskTyped, MutexWorks, NEW c \in Clients,
           UNCHANGED <<handle, registry, line, hungUp>>,
           \A d \in Clients \ {c} : step'[d] = step[d],
           step'[c] \in Working, c \in Tabs \cup Shells,
           step[c] \in Working \/ c \in Shells \/ (step[c] = "queued" /\ Holds(c)),
           Amid(c)' => Amid(c) \/ \A d \in Clients \ {c} : ~Amid(d)
    PROVE  MutexWorks'
<1> USE DEF MutexWorks
<1>1. HandlesTyped'
  BY DEF HandlesTyped
<1>2. OneMutex'
  <2>1. step'[c] # "away" /\ step'[c] \notin {"handle", "queued", "evict"}
    BY DEF Working
  <2>2. c \in Attended => handle[c] # NoLock
    BY ClientsAssumption DEF OneMutex, Attended, Working
  <2>3. \A d \in Clients : step'[d] \in {"handle", "queued", "evict"} => d \in Attended'
    BY <2>1 DEF OneMutex, Attended
  <2>4. \A d \in Attended' : step'[d] # "away" => handle'[d] # NoLock
    BY <2>2, ClientsAssumption DEF OneMutex, Attended
  <2>5. \A d \in hungUp' : step'[d] \in Working
    BY ClientsAssumption DEF OneMutex, HandlesTyped
  <2>6. QED
    BY <2>3, <2>4, <2>5 DEF OneMutex
<1>3. LinesAreInOrder'
  <2>1. Standing \subseteq Standing'
    BY DEF Standing
  <2>2. \A l \in Locks : \A i \in DOMAIN line[l] : line[l][i] \in Clients
    BY ElementOfSeq, LenProperties DEF HandlesTyped
  <2>3. QED
    BY <2>1, <2>2 DEF LinesAreInOrder
<1>4. WorkersStandFirst'
  <2>1. ASSUME step[c] = "queued", Holds(c)
        PROVE  line[handle[c]] # <<>> /\ line[handle[c]][1] = c
    <3>1. PICK l \in Locks : line[l] # <<>> /\ line[l][1] = c
      BY <2>1 DEF Holds
    <3>2. 1 \in DOMAIN line[l]
      BY <3>1 DEF HandlesTyped
    <3>3. handle[c] = l
      BY <3>1, <3>2 DEF LinesAreInOrder
    <3>4. QED
      BY <3>1, <3>3
  <2>2. QED
    BY <2>1, ClientsAssumption DEF WorkersStandFirst, Attended
<1>5. OneAtATime'
  BY DEF OneAtATime, Amid
<1>6. QED
  BY <1>1, <1>2, <1>3, <1>4, <1>5

\* A client that gives up its handle, at the end of its correction or because
\* its connection dropped while the book is being written: the others keep
\* their places, and the registry forgets the mutex only if nobody else has it.
LEMMA DroppingKeepsMutex ==
    ASSUME DeskTyped, MutexWorks, NEW c \in Clients, Drop(c),
           \A d \in Clients \ {c} : step'[d] = step[d],
           \/ step'[c] = "away" /\ hungUp' = hungUp \ {c}
           \/ c \in Tabs /\ step[c] \in Working /\ step'[c] = step[c]
              /\ hungUp' = hungUp \cup {c},
           \/ registry' = registry
           \/ registry' = NoLock /\ \A d \in Clients \ {c} : handle[d] = NoLock
    PROVE  MutexWorks'
<1> USE DEF MutexWorks
<1>0. /\ handle'[c] = NoLock
      /\ \A d \in Clients \ {c} : handle'[d] = handle[d]
      /\ \A d \in Clients \ {c} : d \in Attended' <=> d \in Attended
      /\ step'[c] # "away" => c \notin Attended'
  BY DEF Drop, HandlesTyped, Attended
<1>1. \A l \in Locks :
        /\ line'[l] \in Seq(Clients) /\ NoTwice(line'[l])
        /\ \A i \in DOMAIN line'[l] : \E j \in DOMAIN line[l] :
              line'[l][i] = line[l][j] /\ line[l][j] # c
        /\ line[l] # <<>> /\ line[l][1] # c => line'[l] # <<>> /\ line'[l][1] = line[l][1]
  <2> SUFFICES ASSUME NEW l \in Locks
               PROVE  /\ line'[l] \in Seq(Clients) /\ NoTwice(line'[l])
                      /\ \A i \in DOMAIN line'[l] : \E j \in DOMAIN line[l] :
                            line'[l][i] = line[l][j] /\ line[l][j] # c
                      /\ line[l] # <<>> /\ line[l][1] # c =>
                            line'[l] # <<>> /\ line'[l][1] = line[l][1]
    OBVIOUS
  <2>1. line'[l] = Without(line[l], c) /\ line[l] \in Seq(Clients) /\ NoTwice(line[l])
    BY DEF Drop, HandlesTyped, LinesAreInOrder
  <2>2. /\ Without(line[l], c) \in Seq(Clients) /\ NoTwice(Without(line[l], c))
        /\ \A i \in DOMAIN Without(line[l], c) : \E j \in DOMAIN line[l] :
              Without(line[l], c)[i] = line[l][j] /\ line[l][j] # c
        /\ line[l] # <<>> /\ line[l][1] # c =>
              Without(line[l], c) # <<>> /\ Without(line[l], c)[1] = line[l][1]
    BY <2>1, WithoutHolds
  <2>3. QED
    BY <2>1, <2>2
<1>2. HandlesTyped'
  <2>1. line' \in [Locks -> Seq(Clients)]
    BY <1>1 DEF Drop
  <2>2. QED
    BY <2>1 DEF HandlesTyped, Drop
<1>3. OneMutex'
  <2>1. \A d \in Clients : handle'[d] \in {registry', NoLock}
    BY <1>0 DEF OneMutex
  <2>2. /\ \A d \in Clients : step'[d] \in {"handle", "queued", "evict"} => d \in Attended'
        /\ \A d \in Clients : step'[d] # "away" => d \in Tabs \cup Shells
    BY <1>0 DEF OneMutex, Working
  <2>3. \A d \in Attended' : step'[d] # "away" => handle'[d] # NoLock
    BY <1>0, ClientsAssumption DEF OneMutex, Attended
  <2>4. \A d \in hungUp' : step'[d] \in Working
    BY ClientsAssumption DEF OneMutex, HandlesTyped
  <2>5. QED
    BY <2>1, <2>2, <2>3, <2>4 DEF OneMutex
<1>4. LinesAreInOrder'
  <2>1. ASSUME NEW l \in Locks, NEW i \in DOMAIN line'[l]
        PROVE  (handle[line[l][i]] = l /\ line[l][i] \in Standing)'
    <3>1. PICK j \in DOMAIN line[l] : line'[l][i] = line[l][j] /\ line[l][j] # c
      BY <1>1
    <3>2. line[l][j] \in Clients
      BY ElementOfSeq, LenProperties DEF HandlesTyped
    <3>3. handle[line[l][j]] = l /\ line[l][j] \in Standing
      BY DEF LinesAreInOrder
    <3>4. step'[line'[l][i]] = step[line[l][j]]
      BY <3>1, <3>2
    <3>5. handle'[line'[l][i]] = l
      BY <1>0, <3>1, <3>2, <3>3
    <3>6. QED
      BY <3>1, <3>2, <3>3, <3>4, <3>5 DEF Standing
  <2>2. \A l \in Locks : NoTwice(line'[l])
    BY <1>1
  <2>3. QED
    BY <2>1, <2>2 DEF LinesAreInOrder, NoTwice
<1>5. WorkersStandFirst'
  <2> SUFFICES ASSUME NEW d \in Attended', step'[d] \in Working
               PROVE  line'[handle'[d]] # <<>> /\ line'[handle'[d]][1] = d
    BY DEF WorkersStandFirst
  <2>1. d \in Clients /\ d # c
    BY <1>0, ClientsAssumption DEF Attended, Working
  <2>2. line[handle[d]] # <<>> /\ line[handle[d]][1] = d
    BY <1>0, <2>1 DEF WorkersStandFirst
  <2>3. handle[d] \in Locks
    BY <1>0, <2>1 DEF HandlesTyped, OneMutex, Working
  <2>4. QED
    BY <1>0, <1>1, <2>1, <2>2, <2>3
<1>6. OneAtATime'
  BY DEF OneAtATime, Amid
<1>7. QED
  BY <1>2, <1>3, <1>4, <1>5, <1>6
\* A tab that takes the mutex out of the registry, or enters one.
LEMMA OpeningKeepsMutex ==
    ASSUME DeskTyped, MutexWorks, NEW c \in Clients, OpenTab(c)
    PROVE  MutexWorks'
<1> USE DEF MutexWorks
<1>1. c \in Attended /\ step[c] = "away" /\ step'[c] = "handle"
      /\ \A d \in Clients \ {c} : step'[d] = step[d]
  BY DEF OpenTab, Goto, DeskTyped, OneMutex, Attended, Working
<1>2. registry' \in Locks /\ registry' # NoLock /\ (registry # NoLock => registry' = registry)
  <2>1. CASE registry = NoLock
    <3>1. \A d \in Clients : handle[d] = NoLock
      BY <2>1 DEF OneMutex
    <3>2. Locks # {} /\ NoLock \notin Locks
      BY LocksAssumption DEF OpenTab
    <3>3. Unreferenced = Locks
      BY <2>1, <3>1, <3>2 DEF Unreferenced
    <3>4. registry' \in Locks
      BY <2>1, <3>2, <3>3 DEF OpenTab
    <3>5. QED
      BY <2>1, <3>2, <3>4
  <2>2. CASE registry # NoLock
    BY <2>2 DEF OpenTab, HandlesTyped
  <2>3. QED
    BY <2>1, <2>2
<1>3. handle'[c] = registry' /\ \A d \in Clients \ {c} : handle'[d] = handle[d]
  BY DEF OpenTab, HandlesTyped
<1>4. line' = line /\ hungUp' = hungUp
  BY DEF OpenTab
<1>5. HandlesTyped'
  BY <1>2, <1>4 DEF HandlesTyped, OpenTab
<1>6. OneMutex'
  <2>1. \A d \in Clients : handle'[d] \in {registry', NoLock}
    BY <1>2, <1>3 DEF OneMutex
  <2>2. \A d \in Clients : step'[d] \in {"handle", "queued", "evict"} => d \in Attended'
    BY <1>1, <1>4 DEF OneMutex, Attended
  <2>3. \A d \in Attended' : step'[d] # "away" => handle'[d] # NoLock
    BY <1>1, <1>2, <1>3, <1>4, ClientsAssumption DEF OneMutex, Attended
  <2>4. /\ \A d \in Clients : step'[d] # "away" => d \in Tabs \cup Shells
        /\ \A d \in hungUp' : step'[d] \in Working
    BY <1>1, <1>4, ClientsAssumption DEF OneMutex, Attended, HandlesTyped
  <2>5. QED
    BY <2>1, <2>2, <2>3, <2>4 DEF OneMutex
<1>7. LinesAreInOrder'
  <2>1. \A l \in Locks : \A i \in DOMAIN line[l] : line[l][i] \in Clients
    BY ElementOfSeq, LenProperties DEF HandlesTyped
  <2>2. c \notin Standing
    BY <1>1 DEF Standing, Working
  <2>3. \A d \in Standing : handle'[d] = handle[d] /\ d \in Standing'
    BY <1>1, <1>3, <2>2 DEF Standing
  <2>4. QED
    BY <1>4, <2>1, <2>3 DEF LinesAreInOrder
<1>8. WorkersStandFirst'
  BY <1>1, <1>3, <1>4, ClientsAssumption DEF WorkersStandFirst, Attended, Working
<1>9. OneAtATime'
  BY <1>1 DEF OneAtATime, Amid
<1>10. QED
  BY <1>5, <1>6, <1>7, <1>8, <1>9

\* A tab that joins the line of its mutex.
LEMMA QueueingKeepsMutex ==
    ASSUME DeskTyped, MutexWorks, NEW c \in Clients, Queue(c)
    PROVE  MutexWorks'
<1> USE DEF MutexWorks
<1> DEFINE k == handle[c]
<1>1. step[c] = "handle" /\ step'[c] = "queued"
      /\ \A d \in Clients \ {c} : step'[d] = step[d]
  BY DEF Queue, Goto, DeskTyped
<1>2. c \in Attended /\ k \in Locks
  BY <1>1 DEF OneMutex, HandlesTyped
<1>3. handle' = handle /\ registry' = registry /\ hungUp' = hungUp
  BY DEF Queue
<1>4. line'[k] = Append(line[k], c) /\ \A l \in Locks \ {k} : line'[l] = line[l]
  BY <1>2 DEF Queue, HandlesTyped
<1> HIDE DEF k
<1>5. \A l \in Locks : /\ line[l] \in Seq(Clients) /\ Len(line[l]) \in Nat
                       /\ DOMAIN line[l] = 1 .. Len(line[l])
                       /\ \A i \in DOMAIN line[l] : line[l][i] \in Clients
  BY ElementOfSeq, LenProperties DEF HandlesTyped
<1>6. /\ line'[k] \in Seq(Clients)
      /\ DOMAIN line'[k] = 1 .. Len(line[k]) + 1
      /\ \A i \in DOMAIN line[k] : line'[k][i] = line[k][i]
      /\ line'[k][Len(line[k]) + 1] = c
      /\ line'[k] # <<>>
  <2>1. line[k] \in Seq(Clients)
    BY <1>2, <1>5
  <2>2. /\ Append(line[k], c) \in Seq(Clients)
        /\ Append(line[k], c) # <<>>
        /\ Len(Append(line[k], c)) = Len(line[k]) + 1
        /\ \A i \in 1 .. Len(line[k]) : Append(line[k], c)[i] = line[k][i]
        /\ Append(line[k], c)[Len(line[k]) + 1] = c
    BY <2>1, AppendProperties
  <2>3. DOMAIN Append(line[k], c) = 1 .. Len(line[k]) + 1
    BY <2>2, LenProperties
  <2>4. QED
    BY <1>2, <1>4, <1>5, <2>2, <2>3
<1>7. \A i \in DOMAIN line[k] : line[k][i] # c
  BY <1>1, <1>2 DEF LinesAreInOrder, Standing, Working
<1>8. HandlesTyped'
  <2>1. line' \in [Locks -> Seq(Clients)]
    BY <1>4, <1>5, <1>6 DEF Queue, HandlesTyped
  <2>2. QED
    BY <1>3, <2>1 DEF HandlesTyped
<1>9. OneMutex'
  BY <1>1, <1>2, <1>3, ClientsAssumption DEF OneMutex, Attended, HandlesTyped, Working
<1>10. LinesAreInOrder'
  <2>1. Standing \subseteq Standing'
    BY <1>1 DEF Standing
  <2>2. c \in Standing'
    BY <1>1 DEF Standing
  <2>3. ASSUME NEW l \in Locks, l # k
        PROVE  /\ NoTwice(line'[l])
               /\ \A i \in DOMAIN line'[l] :
                     handle'[line'[l][i]] = l /\ line'[l][i] \in Standing'
    BY <1>3, <1>4, <1>5, <2>1, <2>3 DEF LinesAreInOrder
  <2>4. NoTwice(line'[k])
    <3>1. \A i, j \in DOMAIN line[k] : line[k][i] = line[k][j] => i = j
      BY <1>2 DEF LinesAreInOrder, NoTwice
    <3>2. DOMAIN line'[k] = DOMAIN line[k] \cup {Len(line[k]) + 1}
      BY <1>2, <1>5, <1>6
    <3>3. QED
      BY <1>6, <1>7, <3>1, <3>2 DEF NoTwice
  <2>5. ASSUME NEW i \in DOMAIN line'[k]
        PROVE  handle'[line'[k][i]] = k /\ line'[k][i] \in Standing'
    <3>1. CASE i \in DOMAIN line[k]
      <4>1. line'[k][i] = line[k][i] /\ line[k][i] \in Clients
        BY <1>2, <1>5, <1>6, <3>1
      <4>2. handle[line[k][i]] = k /\ line[k][i] \in Standing
        BY <1>2, <3>1 DEF LinesAreInOrder
      <4>3. QED
        BY <1>3, <2>1, <4>1, <4>2 DEF Standing
    <3>2. CASE i = Len(line[k]) + 1
      BY <1>3, <1>6, <2>2, <3>2 DEF k, Standing
    <3>3. QED
      BY <1>2, <1>5, <1>6, <3>1, <3>2
  <2>6. QED
    BY <2>3, <2>4, <2>5 DEF LinesAreInOrder
<1>11. WorkersStandFirst'
  <2> SUFFICES ASSUME NEW d \in Attended', step'[d] \in Working
               PROVE  line'[handle'[d]] # <<>> /\ line'[handle'[d]][1] = d
    BY DEF WorkersStandFirst
  <2>1. d \in Clients /\ d # c /\ d \in Attended /\ step[d] \in Working
    BY <1>1, <1>3, ClientsAssumption DEF Attended, Working
  <2>2. line[handle[d]] # <<>> /\ line[handle[d]][1] = d /\ handle[d] \in Locks
    BY <2>1 DEF WorkersStandFirst, HandlesTyped, OneMutex, Working
  <2>3. 1 \in DOMAIN line[handle[d]]
    BY <2>2 DEF HandlesTyped
  <2>4. QED
    BY <1>3, <1>4, <1>6, <2>2, <2>3
<1>12. OneAtATime'
  BY <1>1 DEF OneAtATime, Amid
<1>13. QED
  BY <1>8, <1>9, <1>10, <1>11, <1>12
\* A tab whose book has been swapped in gives the mutex to the next in line.
LEMMA LeavingKeepsMutex ==
    ASSUME DeskTyped, MutexWorks, NEW c \in Attended,
           step[c] = "published", Goto(c, "evict"),
           line' = [line EXCEPT ![handle[c]] = Tail(@)],
           UNCHANGED <<handle, registry>>, hungUp' = hungUp \ {c}
    PROVE  MutexWorks'
<1> USE DEF MutexWorks
<1> DEFINE k == handle[c]
<1>1. c \in Clients /\ step'[c] = "evict" /\ \A d \in Clients \ {c} : step'[d] = step[d]
  BY ClientsAssumption DEF Goto, DeskTyped, Attended
<1>2. k \in Locks /\ line[k] # <<>> /\ line[k][1] = c
  BY <1>1 DEF WorkersStandFirst, HandlesTyped, OneMutex, Working
<1>3. hungUp' = hungUp
  BY DEF Attended
<1>4. line'[k] = Tail(line[k]) /\ \A l \in Locks \ {k} : line'[l] = line[l]
  BY <1>2 DEF HandlesTyped
<1> HIDE DEF k
<1>5. \A l \in Locks : \A i \in DOMAIN line[l] : line[l][i] \in Clients
  BY ElementOfSeq, LenProperties DEF HandlesTyped
<1>6. /\ line'[k] \in Seq(Clients)
      /\ \A i \in DOMAIN line'[k] :
            i \in Nat /\ i + 1 \in DOMAIN line[k] /\ i + 1 # 1 /\ line'[k][i] = line[k][i + 1]
  <2>1. line[k] \in Seq(Clients)
    BY <1>2 DEF HandlesTyped
  <2>2. /\ Tail(line[k]) \in Seq(Clients)
        /\ Len(Tail(line[k])) = Len(line[k]) - 1
        /\ \A i \in 1 .. Len(Tail(line[k])) : Tail(line[k])[i] = line[k][i + 1]
    BY <1>2, <2>1, HeadTailProperties
  <2>3. /\ DOMAIN Tail(line[k]) = 1 .. Len(line[k]) - 1
        /\ DOMAIN line[k] = 1 .. Len(line[k]) /\ Len(line[k]) \in Nat
    BY <2>1, <2>2, LenProperties
  <2>4. ASSUME NEW i \in 1 .. Len(line[k]) - 1
        PROVE  i \in Nat /\ i + 1 \in DOMAIN line[k] /\ i + 1 # 1
               /\ Tail(line[k])[i] = line[k][i + 1]
    BY <2>2, <2>3
  <2>5. QED
    BY <1>4, <2>2, <2>3, <2>4
<1>7. HandlesTyped'
  <2>1. line' \in [Locks -> Seq(Clients)]
    BY <1>4, <1>6 DEF HandlesTyped
  <2>2. QED
    BY <1>3, <2>1 DEF HandlesTyped
<1>8. OneMutex'
  <2>1. handle[c] # NoLock /\ c \in Tabs /\ c \notin hungUp
    BY <1>1 DEF OneMutex, Attended
  <2>2. QED
    BY <1>1, <1>3, <2>1, ClientsAssumption DEF OneMutex, Attended, HandlesTyped
<1>9. LinesAreInOrder'
  <2>1. \A d \in Standing \ {c} : d \in Standing'
    BY <1>1 DEF Standing
  <2>2. ASSUME NEW l \in Locks, l # k
        PROVE  /\ NoTwice(line'[l])
               /\ \A i \in DOMAIN line'[l] :
                     handle'[line'[l][i]] = l /\ line'[l][i] \in Standing'
    BY <1>4, <2>1, <2>2 DEF LinesAreInOrder, k
  <2>3. \A i, j \in DOMAIN line[k] : line[k][i] = line[k][j] => i = j
    BY <1>2 DEF LinesAreInOrder, NoTwice
  <2>4. NoTwice(line'[k])
    <3> SUFFICES ASSUME NEW i \in DOMAIN line'[k], NEW j \in DOMAIN line'[k],
                        line'[k][i] = line'[k][j]
                 PROVE  i = j
      BY DEF NoTwice
    <3>1. i \in Nat /\ j \in Nat /\ i + 1 = j + 1
      BY <1>6, <2>3
    <3>2. QED
      BY <3>1
  <2>5. ASSUME NEW i \in DOMAIN line'[k]
        PROVE  handle'[line'[k][i]] = k /\ line'[k][i] \in Standing'
    <3>1. 1 \in DOMAIN line[k]
      BY <1>2 DEF HandlesTyped
    <3>2. line'[k][i] # c
      BY <1>2, <1>6, <2>3, <3>1
    <3>3. handle[line'[k][i]] = k /\ line'[k][i] \in Standing
      BY <1>2, <1>6 DEF LinesAreInOrder
    <3>4. QED
      BY <2>1, <3>2, <3>3
  <2>6. QED
    BY <2>2, <2>4, <2>5 DEF LinesAreInOrder
<1>10. WorkersStandFirst'
  <2> SUFFICES ASSUME NEW d \in Attended, step'[d] \in Working
               PROVE  line'[handle[d]] # <<>> /\ line'[handle[d]][1] = d
    BY <1>3 DEF WorkersStandFirst, Attended
  <2>1. d \in Clients /\ d # c /\ step[d] \in Working
    BY <1>1, ClientsAssumption DEF Attended, Working
  <2>2. line[handle[d]][1] = d /\ line[handle[d]] # <<>> /\ handle[d] \in Locks
    BY <2>1 DEF WorkersStandFirst, HandlesTyped, OneMutex, Working
  <2>3. QED
    BY <1>2, <1>4, <2>1, <2>2
<1>11. OneAtATime'
  BY <1>1 DEF OneAtATime, Amid
<1>12. QED
  BY <1>7, <1>8, <1>9, <1>10, <1>11

\* Nobody else is amid a correction when one starts that overlaps none.
LEMMA StartingIsAlone ==
    ASSUME DeskTyped, MutexWorks, NEW c \in Clients, ~Overlaps(c),
           c \in Shells \/ step[c] = "started"
    PROVE  \A d \in Clients \ {c} : ~Amid(d)
<1> USE DEF MutexWorks
<1> SUFFICES ASSUME NEW d \in Clients \ {c}, Amid(d)
             PROVE  FALSE
  OBVIOUS
<1>1. c \notin Shells \cup hungUp /\ d \notin Shells \cup hungUp
  BY DEF Overlaps, Amid
<1>2. /\ c \in Attended /\ step[c] \in Working
      /\ d \in Attended /\ step[d] \in Working
  BY <1>1 DEF OneMutex, Attended, Amid, Working
<1>3. line[handle[c]][1] = c /\ line[handle[d]][1] = d
  BY <1>2 DEF WorkersStandFirst
<1>4. handle[c] = registry /\ handle[d] = registry
  BY <1>2 DEF OneMutex, Working
<1>5. QED
  BY <1>3, <1>4

\* Every step of a correction keeps the mutex working, unless it goes round it.
LEMMA CorrectKeepsMutex ==
    ASSUME DeskTyped, MutexWorks, NEW c \in Clients, Correct(c), ~unserialized'
    PROVE  MutexWorks'
<1>1. CASE OpenTab(c)
  BY <1>1, OpeningKeepsMutex
<1>2. CASE Queue(c)
  BY <1>2, QueueingKeepsMutex
<1>3. CASE StageInShell(c)
  <2>1. ~Overlaps(c) /\ c \in Shells /\ UNCHANGED <<handle, registry, line, hungUp>>
    BY <1>3 DEF StageInShell
  <2>2. step'[c] = "staged" /\ \A d \in Clients \ {c} : step'[d] = step[d]
    BY <1>3 DEF StageInShell, Overlay, Goto, DeskTyped
  <2>3. \A d \in Clients \ {c} : ~Amid(d)
    BY <2>1, StartingIsAlone
  <2>4. QED
    BY <2>1, <2>2, <2>3, MovingOnKeepsMutex DEF Working
<1>4. CASE StageInTab(c)
  <2>1. /\ ~Overlaps(c) /\ step[c] = "started" /\ step[c] \in Working
        /\ UNCHANGED <<handle, registry, line, hungUp>>
    BY <1>4 DEF StageInTab, Working
  <2>2. step'[c] = "staged" /\ \A d \in Clients \ {c} : step'[d] = step[d]
    BY <1>4 DEF StageInTab, Overlay, Goto, DeskTyped
  <2>3. \A d \in Clients \ {c} : ~Amid(d)
    BY <2>1, StartingIsAlone
  <2>4. c \in Tabs \cup Shells
    BY <2>1 DEF MutexWorks, OneMutex
  <2>5. QED
    BY <2>1, <2>2, <2>3, <2>4, MovingOnKeepsMutex DEF Working
<1>5. CASE \/ StartInTab(c) \/ StageFails(c) \/ Save(c) \/ RecomputeFails(c)
           \/ Publish(c) \/ PublishFails(c)
  <2>1. /\ UNCHANGED <<handle, registry, line, hungUp>>
        /\ \A d \in Clients \ {c} : step'[d] = step[d]
        /\ step'[c] \in Working
        /\ step[c] \in Working \/ (step[c] = "queued" /\ Holds(c))
    BY <1>5 DEF StartInTab, StageFails, Save, RecomputeFails, Publish, PublishFails, Goto,
                DeskTyped, Working
  <2>2. Amid(c)' => Amid(c)
    BY <1>5 DEF StartInTab, StageFails, Save, RecomputeFails, Publish, PublishFails, Goto,
                DeskTyped, Amid
  <2>3. c \in Tabs \cup Shells
    BY <2>1 DEF MutexWorks, OneMutex, Working
  <2>4. QED
    BY <2>1, <2>2, <2>3, MovingOnKeepsMutex
<1>6. CASE Recompute(c)
  BY <1>6 DEF Recompute, deskVars, deskLocal, MutexWorks, HandlesTyped, OneMutex, LinesAreInOrder,
              WorkersStandFirst, OneAtATime, Standing, Attended, Amid
<1>7. CASE HangUp(c)
  BY <1>7, DroppingKeepsMutex, ClientsAssumption DEF HangUp, Answer, Goto, DeskTyped, MutexWorks, OneMutex
<1>8. CASE Release(c)
  <2>1. CASE c \in Attended /\ step[c] = "published"
    BY <1>8, <2>1, LeavingKeepsMutex DEF Release, Attended
  <2>2. CASE ~(c \in Attended /\ step[c] = "published")
    <3>1. Drop(c) /\ Answer(c) /\ hungUp' = hungUp \ {c} /\ registry' = registry
      BY <1>8, <2>2 DEF Release, Attended
    <3>2. QED
      BY <3>1, DroppingKeepsMutex DEF Answer, Goto, DeskTyped
  <2>3. QED
    BY <2>1, <2>2
<1>9. CASE Evict(c)
  <2>1. /\ Drop(c) /\ Answer(c) /\ hungUp' = hungUp /\ step[c] = "evict"
        /\ \/ registry' = registry
           \/ registry' = NoLock /\ \A d \in Clients \ {c} : handle[d] # registry
    BY <1>9 DEF Evict
  <2>2. c \notin hungUp
    BY <2>1 DEF MutexWorks, OneMutex, Working
  <2>3. \/ registry' = registry
        \/ registry' = NoLock /\ \A d \in Clients \ {c} : handle[d] = NoLock
    BY <2>1 DEF MutexWorks, OneMutex
  <2>4. QED
    BY <2>1, <2>2, <2>3, DroppingKeepsMutex DEF Answer, Goto, DeskTyped
<1>10. QED
  BY <1>1, <1>2, <1>3, <1>4, <1>5, <1>6, <1>7, <1>8, <1>9 DEF Correct, Proceed
\* A call of the store that is no correction leaves the blocks alone, or
\* deletes the job.
LEMMA OtherCallsKeepBlocks ==
    ASSUME JobExists',
           \/ Elsewhere
           \/ \E c \in Clients : Recompute(c) \/ RecomputeFails(c)
    PROVE  JobExists /\ blocks' = blocks
<1>1. CASE Elsewhere
  BY <1>1 DEF Elsewhere, MarkJobRunningForResume, MarkJob, KeepOutput, Prune, JobExists
<1>2. ASSUME NEW c \in Clients, Recompute(c) \/ RecomputeFails(c)
      PROVE  JobExists /\ blocks' = blocks
  BY <1>2 DEF Recompute, RecomputeFails, ReadSegments, PayDebt, ClientDies, KeepOutput,
              storeVars, JobExists
<1>3. QED
  BY <1>1, <1>2

\* Every step of a correction keeps the views current: whoever works on the
\* book works on the last one, and saves before anybody reads the blocks again.
LEMMA CorrectKeepsViews ==
    ASSUME TypeOK, DeskTyped, MutexWorks, MutexWorks', NEW c \in Clients, Correct(c),
           JobExists => ViewsAreCurrent, JobExists'
    PROVE  ViewsAreCurrent'
<1>1. CASE \/ OpenTab(c) \/ Queue(c) \/ StartInTab(c) \/ StageFails(c) \/ HangUp(c) \/ Release(c)
           \/ Evict(c)
  <2>1. UNCHANGED <<vars, book, unpublished>>
    BY <1>1 DEF OpenTab, Queue, StartInTab, StageFails, HangUp, Release, Evict
  <2>2. \A d \in Clients : step'[d] \in {"staged", "saved"} =>
           step'[d] = step[d] /\ view'[d] = view[d] /\ ask'[d] = ask[d]
    BY <1>1 DEF OpenTab, Queue, StartInTab, StageFails, HangUp, Release, Evict, Answer, Goto,
                DeskTyped
  <2>3. step[c] = "saved" => step'[c] = "saved"
    BY <1>1 DEF OpenTab, Queue, StartInTab, StageFails, HangUp, Release, Evict, Working
  <2>4. \A d \in Clients \ {c} : step'[d] = step[d]
    BY <1>1 DEF OpenTab, Queue, StartInTab, StageFails, HangUp, Release, Evict, Answer, Goto,
                DeskTyped
  <2>5. (\A d \in Clients : step'[d] # "saved") => \A d \in Clients : step[d] # "saved"
    BY <2>3, <2>4
  <2>6. JobExists /\ blocks' = blocks
    BY <2>1 DEF vars, JobExists
  <2>7. QED
    BY <2>1, <2>2, <2>5, <2>6 DEF ViewsAreCurrent
<1>2. ASSUME NEW a \in Asks, Overlay(c, a), ask' = [ask EXCEPT ![c] = a],
             UNCHANGED <<vars, unpublished>>, step[c] # "saved"
      PROVE  ViewsAreCurrent'
  <2>1. JobExists /\ blocks' = blocks /\ book' = book /\ step'[c] = "staged"
    BY <1>2 DEF vars, JobExists, Overlay, Goto, DeskTyped
  <2>2. /\ view'[c] = [blocks EXCEPT ![a.segment] = a.text] /\ ask'[c] = a
        /\ \A d \in Clients \ {c} :
              step'[d] = step[d] /\ view'[d] = view[d] /\ ask'[d] = ask[d]
    BY <1>2 DEF Overlay, Goto, DeskTyped
  <2>3. QED
    BY <1>2, <2>1, <2>2 DEF ViewsAreCurrent
<1>3. CASE StageInTab(c)
  BY <1>2, <1>3 DEF StageInTab, DeskTyped
<1>4. CASE StageInShell(c)
  BY <1>2, <1>4, WantsAssumption DEF StageInShell
<1>5. CASE Save(c)
  <2>1. CASE SaveManualCorrection(c, ask[c].segment, ask[c].text) /\ Goto(c, "saved")
    <3>1. /\ JobExists /\ step[c] = "staged" /\ step'[c] = "saved" /\ view' = view
          /\ blocks' = [blocks EXCEPT ![ask[c].segment] = ask[c].text]
      BY <1>5, <2>1 DEF Save, SaveManualCorrection, Goto, DeskTyped
    <3>2. view[c] = blocks'
      BY <3>1 DEF ViewsAreCurrent
    <3>3. \A d \in Clients : step'[d] \in {"staged", "saved"} => d = c
      BY <3>1 DEF MutexWorks, OneAtATime, Amid
    <3>4. QED
      BY <3>1, <3>2, <3>3 DEF ViewsAreCurrent
  <2>2. CASE Goto(c, "failed") /\ UNCHANGED vars
    <3>1. JobExists /\ blocks' = blocks /\ step'[c] = "failed" /\ step[c] = "staged"
          /\ \A d \in Clients \ {c} : step'[d] = step[d]
      BY <1>5, <2>2 DEF Save, vars, JobExists, Goto, DeskTyped
    <3>2. UNCHANGED <<book, view, ask, unpublished>>
      BY <1>5 DEF Save
    <3>3. QED
      BY <3>1, <3>2 DEF ViewsAreCurrent
  <2>3. QED
    BY <1>5, <2>1, <2>2 DEF Save
<1>6. CASE Recompute(c)
  BY <1>6, OtherCallsKeepBlocks DEF Recompute, deskVars, deskLocal, ViewsAreCurrent
<1>7. CASE RecomputeFails(c) \/ PublishFails(c)
  <2>1. JobExists /\ blocks' = blocks
    BY <1>7, OtherCallsKeepBlocks DEF PublishFails, vars, JobExists
  <2>2. /\ unpublished' # "no" /\ UNCHANGED <<view, ask>> /\ step'[c] = "failed"
        /\ \A d \in Clients \ {c} : step'[d] = step[d]
    BY <1>7 DEF RecomputeFails, PublishFails, Goto, DeskTyped
  <2>3. QED
    BY <2>1, <2>2 DEF ViewsAreCurrent
<1>8. CASE Publish(c)
  <2>1. /\ JobExists /\ blocks' = blocks /\ book' = view[c] /\ UNCHANGED <<view, ask>>
        /\ step[c] = "saved" /\ step'[c] = "published"
        /\ \A d \in Clients \ {c} : step'[d] = step[d]
    BY <1>8 DEF Publish, vars, JobExists, Goto, DeskTyped
  <2>2. view[c] = blocks
    BY <2>1 DEF ViewsAreCurrent
  <2>3. QED
    BY <2>1, <2>2 DEF ViewsAreCurrent
<1>9. QED
  BY <1>1, <1>3, <1>4, <1>5, <1>6, <1>7, <1>8 DEF Correct, Proceed

\* What was serialized so far was serialized before.
LEMMA SerialSteps ==
    ASSUME [DeskNext]_allVars, ~unserialized'
    PROVE  ~unserialized
BY DEF DeskNext, Elsewhere, OpenTab, StageInShell, Proceed, HangUp, Queue, StartInTab,
       StageInTab, StageFails, Save, Recompute, RecomputeFails, Publish, PublishFails, Release, Evict,
       allVars, deskVars, deskLocal

\* With no correction in progress the book carries the stored blocks, after
\* any number of tabs and corrections, unless a swap failed or the mutex was
\* gone round.
THEOREM QuietBooksAreCurrent == DeskSpec => []QuietBookIsCurrent
<1>1. DeskInit => QuietInv
  <2> SUFFICES ASSUME DeskInit PROVE QuietInv
    OBVIOUS
  <2>1. \A c \in Clients : step[c] = "away" /\ handle[c] = NoLock
    BY DEF DeskInit
  <2>2. \A l \in Locks : line[l] = <<>> /\ line[l] \in Seq(Clients) /\ DOMAIN line[l] = {}
    BY DEF DeskInit
  <2>3. HandlesTyped /\ LinesAreInOrder
    BY <2>2 DEF DeskInit, HandlesTyped, LinesAreInOrder, NoTwice
  <2>4. OneMutex /\ WorkersStandFirst /\ OneAtATime
    BY <2>1, ClientsAssumption DEF DeskInit, OneMutex, WorkersStandFirst, OneAtATime, Amid,
       Working, Attended
  <2>5. ViewsAreCurrent
    BY <2>1 DEF DeskInit, ViewsAreCurrent
  <2>6. QED
    BY <2>3, <2>4, <2>5 DEF QuietInv, MutexWorks
<1>2. DeskIInv /\ QuietInv /\ [DeskNext]_allVars => QuietInv'
  <2> SUFFICES ASSUME DeskIInv, QuietInv, [DeskNext]_allVars, ~unserialized'
               PROVE  MutexWorks' /\ (JobExists' => ViewsAreCurrent')
    BY DEF QuietInv
  <2>1. MutexWorks /\ (JobExists => ViewsAreCurrent)
    BY SerialSteps DEF QuietInv
  <2>2. ASSUME NEW c \in Clients, Correct(c)
        PROVE  MutexWorks' /\ (JobExists' => ViewsAreCurrent')
    BY <2>1, <2>2, CorrectKeepsMutex, CorrectKeepsViews DEF DeskIInv, IInv
  <2>3. CASE Elsewhere \/ UNCHANGED allVars
    <3>1. UNCHANGED deskVars
      BY <2>3 DEF Elsewhere, allVars
    <3>2. JobExists' => JobExists /\ blocks' = blocks
      BY <2>3, OtherCallsKeepBlocks DEF allVars, vars, JobExists
    <3>3. MutexWorks'
      BY <2>1, <3>1 DEF deskVars, deskLocal, MutexWorks, HandlesTyped, OneMutex,
         LinesAreInOrder, WorkersStandFirst, OneAtATime, Standing, Attended, Amid
    <3>4. JobExists' => ViewsAreCurrent'
      BY <2>1, <3>1, <3>2 DEF deskVars, deskLocal, ViewsAreCurrent
    <3>5. QED
      BY <3>3, <3>4
  <2>4. QED
    BY <2>2, <2>3 DEF DeskNext, Correct
<1>3. QuietInv => QuietBookIsCurrent
  BY DEF QuietInv, ViewsAreCurrent, QuietBookIsCurrent
<1>4. QED
  BY <1>1, <1>2, <1>3, DeskInvariantHolds, PTL DEF DeskSpec

=============================================================================
