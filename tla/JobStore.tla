------------------------------ MODULE JobStore ------------------------------
(***************************************************************************)
(* The checkpoint transactions of bookforge-store (crates/bookforge-store/ *)
(* src/db) on one job row, its segment rows, its translation rows and its  *)
(* block rows.                                                             *)
(*                                                                         *)
(* Every action is one SQLite transaction (or one autocommitted statement) *)
(* and Next lets any process call any of them at any time: the worker's    *)
(* checkpoint writer, the control watcher, the CLI, the dashboard and the  *)
(* pruner all open the same database file.  What is proved of this module  *)
(* therefore holds for every caller.  Calls that are refused (StoreError)  *)
(* change nothing and are left out; calls that return Ok without writing   *)
(* are steps that leave the store unchanged.                               *)
(*                                                                         *)
(* Four calls touch the job row after their transaction has committed.     *)
(* They are split in two steps by owed[c], what client c still has to do;  *)
(* a client may die in between (ClientDies).                               *)
(***************************************************************************)
EXTENDS Naturals

CONSTANTS
    Segments,     \* the segments of the job
    ModelTexts,   \* translations a provider or the cache can return
    HumanTexts,   \* texts a reviewer can type
    NoText,       \* no row in translations
    Clients       \* processes that call the two-step operations

ASSUME NoTextAssumption == NoText \notin ModelTexts \cup HumanTexts

VARIABLES
    job,          \* jobs.status, or "deleted" once the row is gone
    seg,          \* segments.status of each segment
    text,         \* translations.translated_text
    human,        \* translations.human_corrected
    blocks,       \* the text spelled by the translation_blocks rows
    owed,         \* the job touch each client still owes after its commit
    correction,   \* history: the text of the last committed human correction
    committed     \* history: the texts of all committed human corrections

storeVars == <<job, seg, text, human, blocks, correction, committed>>
vars      == <<job, seg, text, human, blocks, correction, committed, owed>>

-----------------------------------------------------------------------------
Texts     == ModelTexts \cup HumanTexts
JobStatus == {"running", "paused", "stopped", "interrupted", "succeeded",
              "failed", "needs_review", "retry_pending"}
SegStatus == {"queued", "succeeded", "failed", "retry_pending",
              "needs_review", "skipped_cached"}

\* SegmentStatus::resolved, ::terminal_with_translation, ::resumable.
Resolved                == {"succeeded", "skipped_cached"}
TerminalWithTranslation == Resolved \cup {"needs_review"}
Resumable               == {"queued", "retry_pending", "failed"}

Held_PausedOnly == {"paused"}
Held   == {"paused", "stopped"}     \* statuses a checkpoint does not touch
Active == {"running", "paused"}     \* statuses that refuse reviewers and prune

\* What a client still has to do after its commit: the three guarded touches,
\* or recompute_job_status, which first reads the segments ("recompute") and
\* then writes what it concluded from them.
Guarded == {"retry_pending", "failed", "needs_review"}
Verdict == {"recomputed_succeeded", "recomputed_needs_review"}
Debts   == {"nothing", "recompute"} \cup Guarded \cup Verdict

TypeOK ==
    /\ job \in JobStatus \cup {"deleted"}
    /\ seg \in [Segments -> SegStatus \cup {"deleted"}]
    /\ text \in [Segments -> Texts \cup {NoText}]
    /\ human \in [Segments -> BOOLEAN]
    /\ blocks \in [Segments -> Texts \cup {NoText}]
    /\ owed \in [Clients -> Debts]
    /\ correction \in [Segments -> HumanTexts \cup {NoText}]
    /\ committed \in [Segments -> SUBSET HumanTexts]

\* create_job followed by insert_segments.
Init ==
    /\ job = "running"
    /\ seg = [s \in Segments |-> "queued"]
    /\ text = [s \in Segments |-> NoText]
    /\ human = [s \in Segments |-> FALSE]
    /\ blocks = [s \in Segments |-> NoText]
    /\ owed = [c \in Clients |-> "nothing"]
    /\ correction = [s \in Segments |-> NoText]
    /\ committed = [s \in Segments |-> {}]

-----------------------------------------------------------------------------
(* Pieces shared by the transactions.                                      *)

JobExists == job # "deleted"

TouchUnless(status, protected) ==
    job' = IF job \in protected THEN job ELSE status

SetSegment(s, status) == seg' = [seg EXCEPT ![s] = status]

\* MODEL_TRANSLATION_UPSERT and replace_block_translations.  The mutant leaves
\* the block rows of the previous output in place.
WriteModelOutput_KeepBlocks(s, t) ==
    /\ text' = [text EXCEPT ![s] = IF human[s] THEN @ ELSE t]
    /\ UNCHANGED <<human, blocks, correction, committed>>

WriteModelOutput(s, t) ==
    /\ text' = [text EXCEPT ![s] = IF human[s] THEN @ ELSE t]
    /\ blocks' = [blocks EXCEPT ![s] = t]
    /\ UNCHANGED <<human, correction, committed>>

KeepOutput == UNCHANGED <<text, human, blocks, correction, committed>>

\* A model write that finds a frozen correction returns Ok and rolls back.
YieldToCorrection(s) == human[s] /\ UNCHANGED vars

\* The mutant relies on the guard of the upsert alone.
ModelCheckpoint_NoFreezeCheck(s, t, segStatus, jobStatus) ==
    /\ JobExists
    /\ WriteModelOutput(s, t)
    /\ SetSegment(s, segStatus)
    /\ TouchUnless(jobStatus, Held)
    /\ UNCHANGED owed

ModelCheckpoint(s, t, segStatus, jobStatus) ==
    /\ JobExists
    /\ \/ YieldToCorrection(s)
       \/ /\ ~human[s]
          /\ WriteModelOutput(s, t)
          /\ SetSegment(s, segStatus)
          /\ TouchUnless(jobStatus, Held)
          /\ UNCHANGED owed

-----------------------------------------------------------------------------
(* Checkpoints of the worker.                                              *)

SaveTranslation(s, t)  == ModelCheckpoint(s, t, "succeeded", "running")
SaveNeedsReview(s, t)  == ModelCheckpoint(s, t, "needs_review", "needs_review")
SaveRetryPending(s, t) == ModelCheckpoint(s, t, "retry_pending", "running")
SaveCached(s, t)       == ModelCheckpoint(s, t, "skipped_cached", "running")

\* The compare-and-set on the stored text is what protects a newer
\* correction; t is the text the caller validated.
MarkStoredForReview(s, t) ==
    /\ JobExists
    /\ \/ /\ seg[s] \in Resolved /\ ~human[s] /\ text[s] = t
          /\ SetSegment(s, "needs_review")
          /\ TouchUnless("needs_review", Held)
          /\ KeepOutput /\ UNCHANGED owed
       \/ /\ ~(seg[s] \in Resolved /\ ~human[s] /\ text[s] = t)
          /\ UNCHANGED vars

\* The job is touched even when the segment's row was left alone.  The mutant
\* protects resolved segments only.
MarkSegmentFailedIfUnfinished_ResolvedOnly(s) ==
    /\ JobExists
    /\ \/ YieldToCorrection(s)
       \/ /\ ~human[s]
          /\ seg' = [seg EXCEPT ![s] = IF @ \in Resolved THEN @ ELSE "failed"]
          /\ TouchUnless("failed", {"stopped"})
          /\ KeepOutput /\ UNCHANGED owed

MarkSegmentFailedIfUnfinished(s) ==
    /\ JobExists
    /\ \/ YieldToCorrection(s)
       \/ /\ ~human[s]
          /\ seg' = [seg EXCEPT ![s] =
                        IF @ \in TerminalWithTranslation THEN @ ELSE "failed"]
          /\ TouchUnless("failed", {"stopped"})
          /\ KeepOutput /\ UNCHANGED owed

\* mark_job_complete, _running, _paused, _needs_review, _interrupted, _failed.
MarkJob(status) ==
    /\ JobExists
    /\ TouchUnless(status, {"stopped"})
    /\ UNCHANGED seg /\ KeepOutput /\ UNCHANGED owed

MarkJobRunningForResume ==
    JobExists /\ job' = "running" /\ UNCHANGED seg /\ KeepOutput /\ UNCHANGED owed

MarkJobStopped ==
    JobExists /\ job' = "stopped" /\ UNCHANGED seg /\ KeepOutput /\ UNCHANGED owed

-----------------------------------------------------------------------------
(* Calls whose job touch follows the commit.                               *)

Owe(c, debt) ==
    /\ owed[c] = "nothing"
    /\ owed' = [owed EXCEPT ![c] = debt]

\* A run that died fails every candidate it had not finished.
MarkUnfinishedSegmentsFailed(c, candidates) ==
    LET hit == {s \in candidates : seg[s] \notin TerminalWithTranslation} IN
    /\ JobExists
    /\ Owe(c, IF hit # {} THEN "failed" ELSE "nothing")
    /\ seg' = [s \in Segments |-> IF s \in hit THEN "failed" ELSE seg[s]]
    /\ UNCHANGED job /\ KeepOutput

\* ingest-flags: no freeze check and no status check.
MarkSegmentsNeedsReview(c, flagged) ==
    /\ JobExists
    /\ flagged # {}
    /\ Owe(c, "needs_review")
    /\ seg' = [s \in Segments |-> IF s \in flagged THEN "needs_review" ELSE seg[s]]
    /\ UNCHANGED job /\ KeepOutput

\* Refused while the job is running or paused.
SaveManualCorrection(c, s, t) ==
    /\ JobExists /\ job \notin Active
    /\ Owe(c, "recompute")
    /\ text' = [text EXCEPT ![s] = t]
    /\ human' = [human EXCEPT ![s] = TRUE]
    /\ blocks' = [blocks EXCEPT ![s] = t]
    /\ correction' = [correction EXCEPT ![s] = t]
    /\ committed' = [committed EXCEPT ![s] = @ \cup {t}]
    /\ SetSegment(s, "succeeded")
    /\ UNCHANGED job

\* Refused for a frozen segment and while the job is running or paused.
RequestSegmentRetry(c, s) ==
    /\ JobExists /\ job \notin Active /\ ~human[s]
    /\ Owe(c, "retry_pending")
    /\ SetSegment(s, "retry_pending")
    /\ UNCHANGED job /\ KeepOutput

\* recompute_job_status counts the unresolved segments in a statement of its
\* own; a pruned job has none left and counts as unresolved.
ReadSegments(c) ==
    /\ owed[c] = "recompute"
    /\ owed' = [owed EXCEPT ![c] =
                   IF \A s \in Segments : seg[s] \in Resolved
                   THEN "recomputed_succeeded" ELSE "recomputed_needs_review"]
    /\ UNCHANGED storeVars

\* The verdict of recompute_job_status is the only post-commit touch that
\* ignores a stop.  On a pruned job every touch is refused (NotFound).
PayDebt(c) ==
    /\ owed[c] \in Guarded \cup Verdict
    /\ owed' = [owed EXCEPT ![c] = "nothing"]
    /\ \/ ~JobExists /\ UNCHANGED job
       \/ /\ JobExists /\ owed[c] \in Guarded
          /\ TouchUnless(owed[c], {"stopped"})
       \/ /\ JobExists /\ owed[c] = "recomputed_succeeded"
          /\ job' = "succeeded"
       \/ /\ JobExists /\ owed[c] = "recomputed_needs_review"
          /\ job' = "needs_review"
    /\ UNCHANGED seg /\ KeepOutput

ClientDies(c) ==
    /\ owed[c] # "nothing"
    /\ owed' = [owed EXCEPT ![c] = "nothing"]
    /\ UNCHANGED <<job, seg>> /\ KeepOutput

-----------------------------------------------------------------------------
(* Bulk retry and prune.                                                   *)

RetryScopes == {{"failed"}, {"needs_review"}, {"failed", "needs_review"}}

\* Segment flips and job roll-up in one transaction; no freeze check.
RetrySegments(scope) ==
    /\ JobExists
    /\ seg' = [s \in Segments |-> IF seg[s] \in scope THEN "retry_pending" ELSE seg[s]]
    /\ TouchUnless("retry_pending", {"stopped"})
    /\ KeepOutput /\ UNCHANGED owed

\* prune_job_now re-reads the status in the deleting transaction.
Prune ==
    /\ JobExists /\ job \notin Active
    /\ job' = "deleted"
    /\ seg' = [s \in Segments |-> "deleted"]
    /\ text' = [s \in Segments |-> NoText]
    /\ human' = [s \in Segments |-> FALSE]
    /\ blocks' = [s \in Segments |-> NoText]
    /\ correction' = [s \in Segments |-> NoText]
    /\ UNCHANGED <<committed, owed>>

-----------------------------------------------------------------------------
MarkableStatus ==
    {"succeeded", "running", "paused", "needs_review", "interrupted", "failed"}

SegmentCheckpoint(s) ==
    \/ \E t \in ModelTexts :
          \/ SaveTranslation(s, t)
          \/ SaveNeedsReview(s, t)
          \/ SaveRetryPending(s, t)
          \/ SaveCached(s, t)
    \/ \E t \in Texts : MarkStoredForReview(s, t)
    \/ MarkSegmentFailedIfUnfinished(s)

JobTouch ==
    \/ \E status \in MarkableStatus : MarkJob(status)
    \/ MarkJobRunningForResume
    \/ MarkJobStopped

ClientCall(c) ==
    \/ \E S \in SUBSET Segments :
          MarkUnfinishedSegmentsFailed(c, S) \/ MarkSegmentsNeedsReview(c, S)
    \/ \E s \in Segments :
          (\E t \in HumanTexts : SaveManualCorrection(c, s, t)) \/ RequestSegmentRetry(c, s)
    \/ ReadSegments(c)
    \/ PayDebt(c)
    \/ ClientDies(c)

Next ==
    \/ \E s \in Segments : SegmentCheckpoint(s)
    \/ JobTouch
    \/ \E c \in Clients : ClientCall(c)
    \/ \E scope \in RetryScopes : RetrySegments(scope)
    \/ Prune

Spec == Init /\ [][Next]_vars

-----------------------------------------------------------------------------
(* Properties.                                                             *)

\* Once a human correction is committed its text, its frozen mark and the
\* blocks the EPUB is rebuilt from stay exactly as the reviewer left them,
\* whatever late success, failure, partial, cache or review write any other
\* process commits afterwards; only a newer correction or deleting the whole
\* job replaces it (db/translations.rs, docs/CHECKPOINTING.md "Store").
CorrectionStands ==
    \A s \in Segments :
        /\ human[s] <=> correction[s] # NoText
        /\ human[s] => text[s] = correction[s] /\ blocks[s] = correction[s]

\* A segment that counts as resolved can be rebuilt: it has a translation row,
\* and the block rows the EPUB is rebuilt from spell that same translation, so
\* no interleaving of checkpoints leaves the two tables describing different
\* outputs (save_* in db/translations.rs).
ResolvedIsRebuildable ==
    \A s \in Segments :
        /\ blocks[s] = text[s]
        /\ seg[s] \in Resolved => text[s] # NoText

\* A late failure report never turns a segment whose translation is already
\* persisted into a failed one (mark_segment_failed_if_unfinished and
\* mark_unfinished_segments_failed in db/jobs.rs).
LateFailureKeepsWork ==
    [][\A s \in Segments :
          seg[s] \in TerminalWithTranslation => seg'[s] # "failed"]_vars

\* An explicit stop is only ever undone by a deliberate act: a resume of the
\* stopped job, a reviewer's correction recomputing the status, or pruning.
\* No checkpoint, failure, pause, retry or completion that was still in flight
\* moves a stopped job (touch_job_unless_status in db/jobs.rs).
StopHolds ==
    [][job = "stopped" /\ job' # "stopped" =>
          \/ MarkJobRunningForResume
          \/ \E c \in Clients : owed[c] \in Verdict /\ PayDebt(c)
          \/ Prune]_vars
=============================================================================
