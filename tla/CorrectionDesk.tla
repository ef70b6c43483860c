--------------------------- MODULE CorrectionDesk ---------------------------
(***************************************************************************)
(* Manual corrections of one job: the dashboard handler                    *)
(* save_manual_translation with its registry of per-job locks              *)
(* (commands/serve/jobs.rs), the shell command `bookforge correct`, which  *)
(* takes no lock, and correct_job_segment (commands/correct.rs), the       *)
(* read-modify-write over the whole book that both of them run.            *)
(*                                                                         *)
(* A correction loads every block of the job, overlays its own segment,    *)
(* stages a rebuilt EPUB, commits through JobStore and swaps the staged    *)
(* file over the published book.                                           *)
(***************************************************************************)
EXTENDS JobStore, Sequences

CONSTANTS
    Tabs,         \* dashboard requests in flight at once, one per browser tab
    Shells,       \* `bookforge correct` processes
    Impatient,    \* tabs whose connection may drop before the answer
    Locks,        \* mutexes the registry can allocate
    NoLock,
    Wants         \* bound: the corrections each client may be asked for

ASSUME ClientsAssumption ==
    Tabs \cup Shells \subseteq Clients /\ Tabs \cap Shells = {} /\ Impatient \subseteq Tabs
ASSUME LocksAssumption   == NoLock \notin Locks /\ (Tabs # {} => Locks # {})
ASSUME AsksAssumption    == Segments # {} /\ HumanTexts # {}

VARIABLES
    book,         \* the text of each segment in the published EPUB
    step,         \* where each client is in its correction
    ask,          \* the segment and text each client wants to correct
    view,         \* the blocks each client rebuilt its staged EPUB from
    handle,       \* the mutex each tab cloned out of the registry
    line,         \* holder, then waiters, of each mutex (tokio's is FIFO)
    registry,     \* AppState.correction_locks: the job's mutex
    hungUp,       \* tabs whose handler was dropped while its work goes on
    unpublished,  \* history: fate of the stage of a saved text not in the book
    unserialized  \* history: two corrections may have overlapped (see Overlaps, Evict)

deskLocal == <<step, ask, view, handle, line, registry, hungUp, unpublished,
               unserialized>>
deskVars  == <<book, deskLocal>>
allVars   == <<vars, deskVars>>

-----------------------------------------------------------------------------
Books   == [Segments -> Texts \cup {NoText}]
Empty   == [s \in Segments |-> NoText]
Asks    == [segment : Segments, text : HumanTexts]
NoAsk   == CHOOSE a \in Asks : TRUE
Steps   == {"away", "handle", "queued", "started", "staged", "saved", "failed",
            "published", "evict"}
Working == {"started", "staged", "saved", "failed", "published"}

ASSUME WantsAssumption == Wants \in [Clients -> SUBSET Asks]

DeskTypeOK ==
    /\ TypeOK
    /\ book \in Books
    /\ step \in [Clients -> Steps]
    /\ ask \in [Clients -> Asks]
    /\ view \in [Clients -> Books]
    /\ handle \in [Clients -> Locks \cup {NoLock}]
    /\ \A l \in Locks : \A i \in DOMAIN line[l] : line[l][i] \in Tabs
    /\ registry \in Locks \cup {NoLock}
    /\ hungUp \subseteq Tabs
    /\ unpublished \in {"no", "kept", "discarded"}
    /\ unserialized \in BOOLEAN

\* A finished job whose book was rebuilt from its stored blocks.
DeskInit ==
    /\ \E m \in ModelTexts :
          /\ text = [s \in Segments |-> m]
          /\ blocks = text
    /\ job = "succeeded"
    /\ seg = [s \in Segments |-> "succeeded"]
    /\ human = [s \in Segments |-> FALSE]
    /\ owed = [c \in Clients |-> "nothing"]
    /\ correction = [s \in Segments |-> NoText]
    /\ committed = [s \in Segments |-> {}]
    /\ book = blocks
    /\ step = [c \in Clients |-> "away"]
    /\ ask = [c \in Clients |-> NoAsk]
    /\ view = [c \in Clients |-> Empty]
    /\ handle = [c \in Clients |-> NoLock]
    /\ line = [l \in Locks |-> <<>>]
    /\ registry = NoLock
    /\ hungUp = {}
    /\ unpublished = "no"
    /\ unserialized = FALSE

-----------------------------------------------------------------------------
(* The lock of the job.                                                    *)

Goto(c, s) == step' = [step EXCEPT ![c] = s]

\* The client has its answer, and its locals are gone.
Answer(c) ==
    /\ Goto(c, "away")
    /\ ask' = [ask EXCEPT ![c] = NoAsk]
    /\ view' = [view EXCEPT ![c] = Empty]

Unreferenced == {l \in Locks : l # registry /\ \A c \in Clients : handle[c] # l}

Holds(c) == \E l \in Locks : line[l] # <<>> /\ Head(line[l]) = c

\* job_correction_lock: clone the job's mutex, entering a new one if missing.
OpenTab(c) ==
    /\ c \in Tabs /\ step[c] = "away"
    /\ \E a \in Wants[c] : ask' = [ask EXCEPT ![c] = a]
    /\ registry' = IF registry = NoLock THEN CHOOSE l \in Unreferenced : TRUE
                   ELSE registry
    /\ handle' = [handle EXCEPT ![c] = registry']
    /\ Goto(c, "handle")
    /\ UNCHANGED <<vars, book, view, line, hungUp, unpublished, unserialized>>

\* The first poll of lock().await takes the mutex or joins its queue.
Queue(c) ==
    /\ step[c] = "handle"
    /\ line' = [line EXCEPT ![handle[c]] = Append(@, c)]
    /\ Goto(c, "queued")
    /\ UNCHANGED <<vars, book, ask, view, handle, registry, hungUp, unpublished,
                   unserialized>>

\* Nobody stands in a line twice.
Without(q, c) ==
    IF \E i \in DOMAIN q : q[i] = c
    THEN LET i == CHOOSE n \in DOMAIN q : q[n] = c
         IN  [n \in 1 .. Len(q) - 1 |-> IF n < i THEN q[n] ELSE q[n + 1]]
    ELSE q

Drop(c) ==
    /\ line' = [l \in Locks |-> Without(line[l], c)]
    /\ handle' = [handle EXCEPT ![c] = NoLock]

\* A dropped connection drops the handler's future, and with it the guard; the
\* closure that spawn_blocking started runs on.
HangUp(c) ==
    /\ c \in Impatient \ hungUp /\ step[c] # "away"
    /\ Drop(c)
    /\ IF step[c] \in Working
       THEN hungUp' = hungUp \cup {c} /\ UNCHANGED <<step, ask, view>>
       ELSE Answer(c) /\ UNCHANGED hungUp
    /\ UNCHANGED <<vars, book, registry, unpublished, unserialized>>

\* The guard is dropped at the end of the block that computed the outcome; a
\* mutant keeps it when the correction failed.
Release_KeepGuardOnError(c) ==
    /\ step[c] \in {"failed", "published"}
    /\ IF c \in Tabs \ hungUp /\ step[c] = "published"
       THEN /\ line' = [line EXCEPT ![handle[c]] = Tail(@)]
            /\ Goto(c, "evict") /\ UNCHANGED <<handle, ask, view>>
       ELSE /\ handle' = [handle EXCEPT ![c] = NoLock]
            /\ Answer(c) /\ UNCHANGED line
    /\ hungUp' = hungUp \ {c}
    /\ UNCHANGED <<vars, book, registry, unpublished, unserialized>>

Release(c) ==
    /\ step[c] \in {"failed", "published"}
    /\ IF c \in Tabs \ hungUp /\ step[c] = "published"
       THEN /\ line' = [line EXCEPT ![handle[c]] = Tail(@)]
            /\ Goto(c, "evict") /\ UNCHANGED <<handle, ask, view>>
       ELSE Drop(c) /\ Answer(c)
    /\ hungUp' = hungUp \ {c}
    /\ UNCHANGED <<vars, book, registry, unpublished, unserialized>>

\* evict_idle_correction_lock: whatever mutex the registry now holds leaves it
\* if try_lock succeeds, that is, if nobody holds it or queues for it.  The
\* mutant skips the try_lock.
Evict_Always(c) ==
    /\ step[c] = "evict"
    /\ registry' = NoLock
    /\ Drop(c) /\ Answer(c)
    /\ UNCHANGED <<vars, book, hungUp, unpublished, unserialized>>

Evict(c) ==
    LET idle == registry # NoLock /\ line[registry] = <<>> IN
    /\ step[c] = "evict"
    /\ registry' = IF idle THEN NoLock ELSE registry
    /\ unserialized' =
          (unserialized \/ (idle /\ \E d \in Clients \ {c} : handle[d] = registry))
    /\ Drop(c) /\ Answer(c)
    /\ UNCHANGED <<vars, book, hungUp, unpublished>>

-----------------------------------------------------------------------------
(* correct_job_segment.                                                    *)

\* Load every stored block, overlay the correction and stage the rebuilt EPUB.
\* The mutant writes the rebuilt EPUB straight over the output.
Overlay_InPlace(c, a) ==
    /\ view' = [view EXCEPT ![c] = [blocks EXCEPT ![a.segment] = a.text]]
    /\ book' = view'[c]
    /\ Goto(c, "staged")

Overlay(c, a) ==
    /\ view' = [view EXCEPT ![c] = [blocks EXCEPT ![a.segment] = a.text]]
    /\ Goto(c, "staged")
    /\ UNCHANGED book

\* Nothing keeps c apart from a correction in progress: one of the two runs in
\* a shell, which takes no mutex, or lost its mutex with its handler.
Overlaps(c) ==
    \E d \in Clients \ {c} :
        /\ step[d] \in {"staged", "saved"}
        /\ {c, d} \cap (Shells \cup hungUp) # {}

\* The handler has the mutex and starts the blocking closure.
StartInTab(c) ==
    /\ step[c] = "queued" /\ Holds(c)
    /\ Goto(c, "started")
    /\ UNCHANGED <<vars, book, ask, view, handle, line, registry, hungUp, unpublished,
                   unserialized>>

\* The closure opens the store, reads the job, its snapshot and its EPUB, and
\* only then the blocks; a job pruned in between is one that was not found.
StageInTab(c) ==
    /\ step[c] = "started"
    /\ JobExists
    /\ Overlay(c, ask[c])
    /\ unserialized' = (unserialized \/ Overlaps(c))
    /\ UNCHANGED <<vars, ask, handle, line, registry, hungUp, unpublished>>

StageInShell(c) ==
    /\ c \in Shells /\ step[c] = "away"
    /\ JobExists
    /\ \E a \in Wants[c] : ask' = [ask EXCEPT ![c] = a] /\ Overlay(c, a)
    /\ unserialized' = (unserialized \/ Overlaps(c))
    /\ UNCHANGED <<vars, handle, line, registry, hungUp, unpublished>>

\* The job is gone, or the rebuild or its validation fails: the staged file is
\* removed and nothing was saved.
StageFails(c) ==
    /\ step[c] \in {"started", "staged"}
    /\ Goto(c, "failed")
    /\ UNCHANGED <<vars, book, ask, view, handle, line, registry, hungUp, unpublished,
                   unserialized>>

\* save_manual_correction commits, or refuses a live or deleted job.
Save(c) ==
    /\ step[c] = "staged"
    /\ \/ /\ SaveManualCorrection(c, ask[c].segment, ask[c].text)
          /\ Goto(c, "saved")
       \/ /\ ~JobExists \/ job \in Active
          /\ Goto(c, "failed")
          /\ UNCHANGED vars
    /\ UNCHANGED <<book, ask, view, handle, line, registry, hungUp, unpublished,
                   unserialized>>

\* The tail of save_manual_correction: recompute the job's status.
Recompute(c) ==
    /\ step[c] = "saved"
    /\ ReadSegments(c) \/ (JobExists /\ PayDebt(c))
    /\ UNCHANGED deskVars

\* An error of the recompute is an error of the save: the staged file is
\* removed although the correction has been committed.
RecomputeFails(c) ==
    /\ step[c] = "saved"
    /\ ClientDies(c)
    /\ unpublished' = "discarded"
    /\ Goto(c, "failed")
    /\ UNCHANGED <<book, ask, view, handle, line, registry, hungUp, unserialized>>

Publish(c) ==
    /\ step[c] = "saved" /\ owed[c] = "nothing"
    /\ book' = view[c]
    /\ unpublished' = IF view[c] = blocks THEN "no" ELSE unpublished
    /\ Goto(c, "published")
    /\ UNCHANGED <<vars, ask, view, handle, line, registry, hungUp, unserialized>>

\* The rename fails: the staged file is kept for the user to recover.
PublishFails(c) ==
    /\ step[c] = "saved" /\ owed[c] = "nothing"
    /\ unpublished' = "kept"
    /\ Goto(c, "failed")
    /\ UNCHANGED <<vars, book, ask, view, handle, line, registry, hungUp, unserialized>>

-----------------------------------------------------------------------------
\* Another process resumes the job and is interrupted before it publishes, or
\* prunes the job.
Elsewhere ==
    /\ \/ job \notin Active /\ MarkJobRunningForResume
       \/ job = "running" /\ MarkJob("interrupted")
       \/ Prune
    /\ UNCHANGED deskVars

Proceed(c) ==
    \/ Queue(c) \/ StartInTab(c) \/ StageInTab(c) \/ StageFails(c)
    \/ Save(c) \/ Recompute(c) \/ RecomputeFails(c)
    \/ Publish(c) \/ PublishFails(c)
    \/ Release(c) \/ Evict(c)

DeskNext ==
    \/ \E c \in Clients : OpenTab(c) \/ StageInShell(c) \/ Proceed(c) \/ HangUp(c)
    \/ Elsewhere

\* The runtime keeps polling a request it accepted and the operating system
\* keeps running a process; nothing makes a reviewer start another correction.
DeskSpec ==
    /\ DeskInit /\ [][DeskNext]_allVars
    /\ \A c \in Clients : WF_allVars(Proceed(c))

-----------------------------------------------------------------------------
(* Properties.                                                             *)

\* Every text in the published EPUB is a provider's, the source, or one that a
\* reviewer's correction of that segment has committed, whichever step of the
\* correction fails, also after earlier corrections and once the job is pruned
\* (the order stage, validate, persist, swap of correct_job_segment).
BookNeverAheadOfStore ==
    \A s \in Segments : book[s] \in ModelTexts \cup {NoText} \cup committed[s]

\* With no correction in progress the published EPUB carries exactly the stored
\* blocks: the mutex keeps tabs from losing each other's text, except after a
\* swap that failed and was reported, or after one of the three ways round the
\* mutex was taken: two corrections overlapped and one of them ran in a shell or
\* had lost its connection, or a mutex was evicted under a tab about to take it
\* (job_correction_lock, the guard of save_manual_translation).
QuietBookIsCurrent ==
    /\ JobExists
    /\ \A c \in Clients : step[c] \notin {"staged", "saved"}
    /\ unpublished = "no"
    /\ ~unserialized
    => book = blocks

\* Every correction a reviewer submits comes to an end, error or not: a failed
\* one does not keep the mutex and no queued tab waits forever.
CorrectionsEnd == \A c \in Clients : step[c] # "away" ~> step[c] = "away"

\* A second tab cannot stage a rebuilt EPUB from a snapshot taken before a
\* correction that has landed (serve/jobs.rs, comment on the guard).
NoTabStagesStaleSnapshot ==
    \A c \in Tabs : step[c] = "staged" =>
        \A s \in Segments \ {ask[c].segment} : human[s] => view[c][s] = blocks[s]

\* Corrections of one job are serialized: no two tabs are inside the
\* read-modify-write at once (serve/jobs.rs, comment on job_correction_lock).
TabsTakeTurns ==
    \A c, d \in Tabs : step[c] \in {"staged", "saved"} /\ step[d] \in {"staged", "saved"}
                          => c = d

\* A correction that was saved and has been swapped in stays in the rebuilt
\* EPUB (ROADMAP acceptance of `correct`: the rebuilt EPUB reflects the change).
SavedCorrectionIsPublished ==
    /\ JobExists
    /\ \A c \in Clients : step[c] = "away"
    /\ unpublished = "no"
    => \A s \in Segments : human[s] => book[s] = text[s]

\* The staged file of a correction the store has committed is never deleted:
\* it is the only place the corrected EPUB exists (correct.rs, comment before
\* the rename).
SavedStageIsKept == unpublished # "discarded"
=============================================================================
