------------------------------- MODULE JobRun -------------------------------
(***************************************************************************)
(* One job over its whole life: the worker process of `bookforge resume`   *)
(* (commands/resume.rs) with its checkpoint writer (checkpoint.rs), its    *)
(* boundary poller and its control watcher, launched again after a stop, a *)
(* Ctrl+C or a crash; the users who pause, resume and stop it; the         *)
(* reviewers who correct its segments; and the commands that queue a       *)
(* retry.  It composes JobStore, JobControl and CorrectionDesk.            *)
(*                                                                         *)
(* run is the memory of the worker process and run.pc the statement of     *)
(* run_pipeline it stands before; a crash loses all of it.  Statements     *)
(* between which nothing can be observed are one step.  The primary and    *)
(* the fallback pass share one dispatch loop; run.stage tells them apart.  *)
(***************************************************************************)
EXTENDS CorrectionDesk, JobControl, FiniteSets

CONSTANTS
    Worker,         \* the client the worker is when it calls the store
    Concurrency,    \* provider requests in flight at once
    Cached,         \* the cache's hit for each segment, or NoText
    SourceCopies,   \* stored texts the source-copy rule rejects
    Outcomes,       \* how a provider request may end
    Fallback,       \* a fallback provider is configured
    DoubleCheck,    \* the double-check pass is on
    Faults,         \* failures this run may meet
    Meddlers,       \* retry-queueing commands other processes may run meanwhile
    MaxCommands, MaxCrashes, MaxInterrupts   \* bounds

ASSUME RunAssumption ==
    /\ Segments \subseteq Nat /\ Concurrency \in Nat \ {0}
    /\ Worker \in Clients \ (Tabs \cup Shells)
    /\ Cached \in [Segments -> ModelTexts \cup {NoText}]
    /\ SourceCopies \subseteq ModelTexts
    /\ Outcomes \subseteq {"succeeded", "needs_review", "failed", "retry_pending"}
    /\ Fallback \in BOOLEAN /\ DoubleCheck \in BOOLEAN
    /\ Faults \subseteq {"preflight", "boundary", "drop", "validation"}
    /\ Meddlers \subseteq {"retry", "flag"}

VARIABLES
    run,          \* the worker's memory
    cancelled,    \* Ctrl+C reached the worker
    checked,      \* snapshot.finalize.double_check_complete
    used          \* how often each bounded event has happened

runVars == <<run, cancelled, checked, used>>
sysVars == <<allVars, controlVars, runVars>>

-----------------------------------------------------------------------------
Results == [segment : Segments, outcome : SegStatus, text : ModelTexts]
Events  == {"command", "crash", "interrupt"}

Gates == {"gate_fallback", "gate_check", "gate_rebuild", "gate_finish"}
PCs   == Gates \cup
    {"down", "preflight", "own", "revalidate", "cache", "reread", "start", "dispatch",
     "spawn", "join", "halt", "error_touch", "error_mark", "drain", "load",
     "fallback", "check", "checking", "check_save", "rebuild", "validate", "finish",
     "complete", "review", "finished", "leave", "settle", "settle_error",
     "settle_interrupt"}

RunMemory ==
    [pc : PCs,
     stage : {"primary", "fallback"},
     launch : JobStatus,                 \* the job's status as this launch read it
     owned : BOOLEAN,                    \* preflight passed
     ok : BOOLEAN,                       \* what the pipeline returns
     assigned : SUBSET Segments,         \* the segments of this dispatch
     pending : SUBSET Segments,          \* those not dispatched yet
     inFlight : SUBSET Segments,         \* those a provider request runs for
     queue : Seq(Results),               \* results on their way to the writer
     work : SUBSET (Segments \X Texts),  \* store calls a loop has still to make
     mem : Books,                        \* translations in memory
     bad : SUBSET Segments,              \* those failed or needing review
     frozen : SUBSET Segments,           \* corrected segments double-check skips
     late : Nat,                         \* history: requests since the pause
     answered : SUBSET Segments]         \* history: translated by this launch

RunTypeOK ==
    /\ DeskTypeOK /\ ControlTypeOK
    /\ run \in RunMemory
    /\ cancelled \in BOOLEAN /\ checked \in BOOLEAN
    /\ used \in [Events -> Nat]

Down ==
    [pc |-> "down", stage |-> "primary", launch |-> "running", owned |-> FALSE,
     ok |-> TRUE, assigned |-> {}, pending |-> {}, inFlight |-> {}, queue |-> <<>>,
     work |-> {}, mem |-> Empty, bad |-> {}, frozen |-> {}, late |-> 0,
     answered |-> {}]

\* A job just created, or one an older build left when it died: that build had
\* no source-copy rule, so some segments may be stored with copies.
RunInit ==
    /\ \E old \in [Segments -> SourceCopies \cup {NoText}] :
          /\ text = old /\ blocks = old
          /\ seg = [s \in Segments |-> IF old[s] = NoText THEN "queued" ELSE "succeeded"]
    /\ job = "running"
    /\ human = [s \in Segments |-> FALSE]
    /\ owed = [c \in Clients |-> "nothing"]
    /\ correction = [s \in Segments |-> NoText]
    /\ committed = [s \in Segments |-> {}]
    /\ ControlInit
    /\ book = Empty
    /\ step = [c \in Clients |-> "away"]
    /\ ask = [c \in Clients |-> NoAsk]
    /\ view = [c \in Clients |-> Empty]
    /\ handle = [c \in Clients |-> NoLock]
    /\ line = [l \in Locks |-> <<>>]
    /\ registry = NoLock /\ hungUp = {}
    /\ unpublished = "no" /\ unserialized = FALSE
    /\ run = Down /\ cancelled = FALSE /\ checked = FALSE
    /\ used = [e \in Events |-> 0]

Use(event, bound) ==
    /\ used[event] < bound
    /\ used' = [used EXCEPT ![event] = @ + 1]

At(pc) == run.pc = pc

ToResume == {s \in Segments : seg[s] \in Resumable}

-----------------------------------------------------------------------------
(* From the launch to the first dispatch.                                  *)

\* A paused job is only relaunched with --force; without it `resume` asks the
\* worker thought to be alive to go on, which is a command like any other.
Launch ==
    /\ At("down") /\ JobExists
    /\ run' = [Down EXCEPT !.pc = "preflight", !.launch = job]
    /\ rewritten' = FALSE /\ signal' = "running" /\ aborted' = FALSE
    /\ poll' = [poll EXCEPT !["worker"] = "idle"]
    /\ cancelled' = FALSE
    /\ UNCHANGED <<vars, book, control, checked, used>>

\* Rebuild the input and the contract of the job; the segments to resume are
\* read here, long before they are dispatched.
Preflight ==
    /\ At("preflight")
    /\ \/ run' = [run EXCEPT !.pc = "own", !.pending = ToResume]
       \/ /\ "preflight" \in Faults
          /\ run' = [run EXCEPT !.pc = "leave", !.ok = FALSE]

\* The mutant leaves the command of the previous run in the control file.
Own_KeepCommand ==
    /\ At("own")
    /\ UNCHANGED control
    /\ IF run.launch \in Held THEN MarkJobRunningForResume ELSE UNCHANGED vars
    /\ run' = [run EXCEPT
          !.pc = "revalidate", !.owned = TRUE,
          !.work = {<<s, text[s]>> : s \in
              {x \in Segments : seg[x] \in Resolved /\ ~human[x] /\ text[x] \in SourceCopies}}]
    /\ UNCHANGED <<rewritten, signal, aborted, poll>>

\* clear_preflight_control, then take a paused or stopped job back to running;
\* the stored translations the current source-copy rule rejects are collected.
Own ==
    /\ At("own")
    /\ control' = IF rewritten THEN control ELSE "run"
    /\ IF run.launch \in Held THEN MarkJobRunningForResume ELSE UNCHANGED vars
    /\ run' = [run EXCEPT
          !.pc = "revalidate", !.owned = TRUE,
          !.work = {<<s, text[s]>> : s \in
              {x \in Segments : seg[x] \in Resolved /\ ~human[x] /\ text[x] \in SourceCopies}}]
    /\ UNCHANGED <<rewritten, signal, aborted, poll>>

Revalidate ==
    /\ At("revalidate")
    /\ \E call \in run.work :
          /\ MarkStoredForReview(call[1], call[2])
          /\ run' = [run EXCEPT !.work = @ \ {call}]

\* Start the control watcher, then look the pending segments up in the cache.
\* Segments queued for a retry are not served from it.
StartWatcher ==
    /\ At("revalidate") /\ run.work = {}
    /\ poll' = [poll EXCEPT !["watcher"] = "idle"]
    /\ run' = [run EXCEPT !.pc = "cache",
          !.work = {<<s, Cached[s]>> : s \in
              {x \in run.pending : /\ seg[x] # "retry_pending"
                                   /\ Cached[x] \notin SourceCopies \cup {NoText}}}]
    /\ UNCHANGED <<control, rewritten, signal, aborted>>

ApplyCache ==
    /\ At("cache")
    /\ \E call \in run.work :
          /\ SaveCached(call[1], call[2])
          /\ run' = [run EXCEPT !.work = @ \ {call}]

\* The second read of the resumable segments is the one that is dispatched.
\* The mutant dispatches the first.
Reread_KeepFirst ==
    /\ At("cache") /\ run.work = {}
    /\ run' = [run EXCEPT !.pc = "start", !.assigned = run.pending]

Reread ==
    /\ At("cache") /\ run.work = {}
    /\ run' = [run EXCEPT !.pc = "start", !.assigned = ToResume, !.pending = ToResume]

Start ==
    /\ At("start")
    /\ MarkJob("running")
    /\ run' = [run EXCEPT !.pc = IF run.pending = {} THEN "drain" ELSE "dispatch"]

-----------------------------------------------------------------------------
(* translate_segments_with_control and the tasks it spawns.                *)

NextSegment == CHOOSE s \in run.pending : \A r \in run.pending : s <= r
Backlog(pending) == IF pending = {} THEN "join" ELSE "dispatch"

PolledAt(pc) == At(pc) /\ poll["worker"] = "polled"

\* What the loop does with the signal after its poll; a paused loop with
\* nothing in flight polls again.
Dispatch ==
    /\ PolledAt("dispatch")
    /\ poll' = [poll EXCEPT !["worker"] = "idle"]
    /\ run' = [run EXCEPT !.pc =
          CASE signal = "running" -> "spawn"
            [] signal = "stopped" -> "halt"
            [] signal = "paused"  -> IF run.inFlight = {} THEN "dispatch" ELSE "join",
          !.late = IF signal = "running" THEN 0 ELSE @]
    /\ UNCHANGED <<control, rewritten, signal, aborted>>

\* The mutant polls once and then fills every free slot.
Spawn_WithoutPolling ==
    /\ At("spawn")
    /\ IF Cardinality(run.inFlight) >= Concurrency
       THEN run' = [run EXCEPT !.pc = "join"]
       ELSE run' = [run EXCEPT
                !.pc = IF run.pending = {NextSegment} THEN "join" ELSE "spawn",
                !.pending = @ \ {NextSegment},
                !.inFlight = @ \cup {NextSegment},
                !.late = IF signal = "paused" THEN @ + 1 ELSE @]

Spawn ==
    /\ At("spawn")
    /\ IF Cardinality(run.inFlight) >= Concurrency
       THEN run' = [run EXCEPT !.pc = "join"]
       ELSE run' = [run EXCEPT
                !.pc = Backlog(run.pending \ {NextSegment}),
                !.pending = @ \ {NextSegment},
                !.inFlight = @ \cup {NextSegment},
                !.late = IF signal = "paused" THEN @ + 1 ELSE @]

\* A request that is aborted comes back failed or, from a batch, interrupted.
Endings == Outcomes \cup IF aborted THEN {"failed", "retry_pending"} ELSE {}

\* A finished request is sent to the writer; the fallback pass also replaces
\* the translation in memory.
Join ==
    /\ run.pc \in {"join", "halt"}
    /\ \E s \in run.inFlight, e \in Endings, t \in ModelTexts \ SourceCopies :
          run' = [run EXCEPT
              !.pc = IF @ = "halt" THEN @ ELSE Backlog(run.pending),
              !.inFlight = @ \ {s},
              !.queue = Append(@, [segment |-> s, outcome |-> e, text |-> t]),
              !.mem = IF run.stage = "fallback" /\ e # "failed" THEN [@ EXCEPT ![s] = t]
                      ELSE @,
              !.bad = IF run.stage = "primary" THEN @
                      ELSE IF e \in {"failed", "needs_review"} THEN @ \cup {s} ELSE @ \ {s},
              !.answered = IF e = "succeeded" THEN @ \cup {s} ELSE @]

\* With nothing in flight the loop goes round, or ends and drops the writer's
\* sender.
JoinNone ==
    /\ run.pc \in {"join", "halt"} /\ run.inFlight = {}
    /\ run' = [run EXCEPT !.pc = IF At("halt") \/ run.pending = {} THEN "drain"
                                 ELSE "dispatch"]

\* A poll that fails ends the loop and aborts its tasks.  Unless the run is
\* being stopped, every segment of the dispatch that has no result is failed.
DispatchError ==
    /\ "boundary" \in Faults
    /\ At("dispatch") /\ poll["worker"] = "idle"
    /\ IF signal = "stopped"
       THEN UNCHANGED vars /\ run' = [run EXCEPT !.pc = "drain", !.inFlight = {}]
       ELSE /\ MarkUnfinishedSegmentsFailed(Worker, run.assigned)
            /\ run' = [run EXCEPT !.pc = "error_touch", !.inFlight = {}, !.ok = FALSE]

ErrorTouch ==
    /\ At("error_touch")
    /\ IF owed[Worker] = "nothing" THEN UNCHANGED vars ELSE PayDebt(Worker)
    /\ run' = [run EXCEPT !.pc = "error_mark"]

ErrorMark ==
    /\ At("error_mark")
    /\ MarkJob("failed")
    /\ run' = [run EXCEPT !.pc = "drain"]

\* The checkpoint writer persists the results in order.  A write that fails is
\* logged and dropped.  The mutant writes the status apart from its text.
ApplyResult_StatusOnly(r) ==
    /\ SetSegment(r.segment, r.outcome)
    /\ UNCHANGED <<job, owed>> /\ KeepOutput

ApplyResult(r) ==
    \/ r.outcome = "succeeded"     /\ SaveTranslation(r.segment, r.text)
    \/ r.outcome = "needs_review"  /\ SaveNeedsReview(r.segment, r.text)
    \/ r.outcome = "retry_pending" /\ SaveRetryPending(r.segment, r.text)
    \/ r.outcome = "failed"        /\ MarkSegmentFailedIfUnfinished(r.segment)

Persist ==
    /\ run.queue # <<>>
    /\ ApplyResult(Head(run.queue))
    /\ run' = [run EXCEPT !.queue = Tail(@)]

DropResult ==
    /\ "drop" \in Faults
    /\ run.queue # <<>>
    /\ run' = [run EXCEPT !.queue = Tail(@), !.answered = @ \ {Head(run.queue).segment}]

\* finalize_writer: the pass returns once the writer has drained its queue,
\* and the primary pass then ends the run if it was stopped.  The mutant does
\* not wait for the writer.
Drain_WithoutWaiting ==
    /\ At("drain")
    /\ run' = [run EXCEPT !.queue = <<>>, !.pc =
          IF ~run.ok \/ (run.stage = "primary" /\ job = "stopped") THEN "leave"
          ELSE IF run.stage = "primary" THEN "load" ELSE "gate_check"]

Drain ==
    /\ At("drain") /\ run.queue = <<>>
    /\ run' = [run EXCEPT !.pc =
          IF ~run.ok \/ (run.stage = "primary" /\ job = "stopped") THEN "leave"
          ELSE IF run.stage = "primary" THEN "load" ELSE "gate_check"]

-----------------------------------------------------------------------------
(* The finalize stages.                                                    *)

\* load_block_translations, segment_records and rebuild_segment_translations.
Load ==
    /\ At("load")
    /\ run' = [run EXCEPT !.pc = "gate_fallback", !.mem = blocks,
          !.bad = {s \in Segments : seg[s] \in {"failed", "needs_review"}}]

\* wait_until_running_or_stopped between two stages.
Behind(gate) ==
    CASE gate = "gate_fallback" -> "fallback"
      [] gate = "gate_check"    -> "check"
      [] gate = "gate_rebuild"  -> "rebuild"
      [] gate = "gate_finish"   -> "finish"

Gate ==
    /\ run.pc \in Gates /\ poll["worker"] = "polled"
    /\ poll' = [poll EXCEPT !["worker"] = "idle"]
    /\ run' = [run EXCEPT !.pc =
          CASE signal = "running" -> Behind(@)
            [] signal = "stopped" -> "leave"
            [] signal = "paused"  -> @]
    /\ UNCHANGED <<control, rewritten, signal, aborted>>

\* A poll that fails at a gate is an error of the pipeline.
GateError ==
    /\ "boundary" \in Faults
    /\ run.pc \in Gates /\ poll["worker"] = "idle"
    /\ run' = [run EXCEPT !.pc = "leave", !.ok = FALSE]

\* run_fallback_pass picks its candidates by the status in memory, and by the
\* stored status where memory has no translation.
StartFallback ==
    LET known      == {s \in Segments : run.mem[s] # NoText} \cup run.bad
        candidates == run.bad \cup {s \in Segments \ known :
                                        seg[s] \in {"failed", "needs_review"}} IN
    /\ At("fallback")
    /\ IF Fallback /\ candidates # {}
       THEN run' = [run EXCEPT !.pc = "dispatch", !.stage = "fallback",
                               !.assigned = candidates, !.pending = candidates]
       ELSE run' = [run EXCEPT !.pc = "gate_check"]

\* The double-check pass reads which segments a reviewer froze, asks the
\* provider, changes translations in memory and saves each changed one.
StartCheck ==
    /\ At("check")
    /\ run' = IF DoubleCheck /\ ~checked
              THEN [run EXCEPT !.pc = "checking", !.frozen = {s \in Segments : human[s]}]
              ELSE [run EXCEPT !.pc = "rebuild"]

CheckAnswered ==
    /\ At("checking")
    /\ \/ \E changed \in SUBSET {s \in Segments \ (run.bad \cup run.frozen) :
                                     run.mem[s] # NoText},
             t \in ModelTexts \ SourceCopies :
             run' = [run EXCEPT !.pc = "check_save",
                 !.mem = [s \in Segments |-> IF s \in changed THEN t ELSE @[s]],
                 !.work = {<<s, t>> : s \in {x \in changed : run.mem[x] # t}}]
       \/ run' = [run EXCEPT !.pc = "leave", !.ok = signal = "stopped"]

CheckSave ==
    /\ At("check_save")
    /\ \E call \in run.work :
          /\ SaveTranslation(call[1], call[2])
          /\ run' = [run EXCEPT !.work = @ \ {call}]

\* The snapshot remembers that the pass is done; blocks are read again.
CheckDone ==
    /\ At("check_save") /\ run.work = {}
    /\ checked' = TRUE
    /\ run' = [run EXCEPT !.pc = "gate_rebuild",
          !.mem = [s \in Segments |-> IF @[s] = NoText THEN blocks[s] ELSE @[s]]]

\* The EPUB is rebuilt from memory; source text stands where there is none.
Rebuild ==
    /\ At("rebuild")
    /\ book' = run.mem
    /\ run' = [run EXCEPT !.pc = "validate"]

Validate ==
    /\ At("validate")
    /\ \/ UNCHANGED vars /\ run' = [run EXCEPT !.pc = "gate_finish"]
       \/ /\ "validation" \in Faults
          /\ MarkJob("failed")
          /\ run' = [run EXCEPT !.pc = "leave", !.ok = FALSE]

\* mark_job_finished: the store's summary decides, then the statuses in memory
\* may still ask for a review.  The mutant trusts memory alone.
Finish_MemoryOnly ==
    /\ At("finish")
    /\ run' = [run EXCEPT !.pc =
          CASE job = "stopped" -> "leave"
            [] job = "paused"  -> "gate_finish"
            [] OTHER -> IF run.bad = {} THEN "complete" ELSE "review"]

Finish ==
    /\ At("finish")
    /\ run' = [run EXCEPT !.pc =
          CASE job = "stopped" -> "leave"
            [] job = "paused"  -> "gate_finish"
            [] OTHER -> IF run.bad = {} /\ \A s \in Segments : seg[s] \in Resolved
                        THEN "complete" ELSE "review"]

FinishMark ==
    /\ \/ At("complete") /\ MarkJob("succeeded")
       \/ At("review")   /\ MarkJob("needs_review")
    /\ run' = [run EXCEPT !.pc = "finished"]

\* A stop or a pause that was recorded meanwhile sends the loop round.
Finished ==
    /\ At("finished")
    /\ run' = [run EXCEPT !.pc = IF job = "paused" THEN "gate_finish" ELSE "leave"]

-----------------------------------------------------------------------------
(* The end of a launch.                                                    *)

\* Dropping the watcher joins its thread, which finishes the poll it is in.
Leave ==
    /\ At("leave") /\ poll["watcher"] \in {"off", "idle"}
    /\ poll' = [p \in Pollers |-> "off"]
    /\ run' = [run EXCEPT !.pc = "settle"]
    /\ UNCHANGED <<control, rewritten, signal, aborted>>

\* The tail of run_inner: an interrupted run is recorded unless it was stopped.
Settle ==
    /\ At("settle")
    /\ IF job # "stopped" /\ cancelled /\ run.ok THEN MarkJob("interrupted")
       ELSE UNCHANGED vars
    /\ run' = [run EXCEPT !.pc = "settle_error"]

\* The tail of run: a hard failure does not leave the job running.
SettleError ==
    /\ At("settle_error")
    /\ IF ~run.ok /\ job = "running" THEN MarkJob("failed") ELSE UNCHANGED vars
    /\ run' = [run EXCEPT !.pc = "settle_interrupt"]

SettleInterrupt ==
    /\ At("settle_interrupt")
    /\ IF cancelled /\ job \in {"running", "retry_pending", "interrupted"}
       THEN MarkJob("interrupted") ELSE UNCHANGED vars
    /\ run' = Down

-----------------------------------------------------------------------------
(* The world around the worker.                                            *)

\* Ctrl+C stops the signal and aborts the provider calls.
Interrupt ==
    /\ ~At("down") /\ ~cancelled
    /\ Use("interrupt", MaxInterrupts)
    /\ cancelled' = TRUE /\ signal' = "stopped" /\ aborted' = TRUE
    /\ UNCHANGED <<vars, book, control, rewritten, poll, run, checked>>

Crash ==
    /\ ~At("down")
    /\ Use("crash", MaxCrashes)
    /\ run' = Down
    /\ poll' = [p \in Pollers |-> "off"]
    /\ owed' = [owed EXCEPT ![Worker] = "nothing"]
    /\ UNCHANGED <<storeVars, book, control, rewritten, signal, aborted, cancelled, checked>>

UserCommand ==
    /\ Use("command", MaxCommands)
    /\ \E c \in Commands : Command(c)
    /\ UNCHANGED <<book, run, cancelled, checked>>

\* `bookforge retry`, the watch screen and `ingest-flags`.
Meddle ==
    \/ "retry" \in Meddlers /\ \E scope \in RetryScopes : RetrySegments(scope)
    \/ "flag" \in Meddlers
       /\ \E c \in Shells : /\ step[c] = "away"
                           /\ \/ \E s \in Segments : MarkSegmentsNeedsReview(c, {s})
                              \/ PayDebt(c)

WatcherPolls == poll["watcher"] # "off" /\ Poll("watcher", TRUE)

BoundaryPoll ==
    /\ run.pc \in Gates \cup {"dispatch"}
    /\ Poll("worker", run.pc \in Gates \/ run.stage = "fallback")

-----------------------------------------------------------------------------
WorkerThinks ==
    /\ \/ Preflight \/ Reread \/ Spawn \/ Join \/ JoinNone \/ Drain \/ DropResult
       \/ Load \/ GateError \/ StartFallback \/ StartCheck \/ CheckAnswered \/ Finish \/ Finished
    /\ UNCHANGED <<vars, controlVars, book, checked>>

WorkerStores ==
    /\ \/ Revalidate \/ ApplyCache \/ Start \/ DispatchError \/ ErrorTouch \/ ErrorMark
       \/ CheckSave \/ Validate \/ FinishMark \/ Settle \/ SettleError \/ SettleInterrupt
    /\ UNCHANGED <<controlVars, book, checked>>

WorkerControls ==
    /\ \/ StartWatcher \/ Dispatch \/ Gate \/ Leave
    /\ UNCHANGED <<vars, book, checked>>

WorkerPolls ==
    /\ BoundaryPoll \/ RecordPoll("worker")
    /\ UNCHANGED <<book, run, checked>>

WorkerPublishes ==
    \/ CheckDone /\ UNCHANGED <<vars, controlVars, book>>
    \/ Rebuild /\ UNCHANGED <<vars, controlVars, checked>>
    \/ Own /\ UNCHANGED <<book, checked>>

WorkerStep ==
    /\ \/ WorkerThinks \/ WorkerStores \/ WorkerControls \/ WorkerPolls \/ WorkerPublishes
    /\ UNCHANGED <<deskLocal, cancelled, used>>

WriterStep ==
    /\ Persist
    /\ UNCHANGED <<controlVars, deskVars, cancelled, checked, used>>

WatcherStep ==
    /\ WatcherPolls \/ RecordPoll("watcher")
    /\ UNCHANGED <<deskVars, runVars>>

DeskStep ==
    /\ \E c \in Tabs \cup Shells : OpenTab(c) \/ StageInShell(c) \/ Proceed(c) \/ HangUp(c)
    /\ UNCHANGED <<controlVars, runVars>>

WorldStep ==
    \/ (Launch \/ Interrupt \/ Crash \/ UserCommand) /\ UNCHANGED deskLocal
    \/ Meddle /\ UNCHANGED <<deskVars, controlVars, runVars>>

RunNext == WorkerStep \/ WriterStep \/ WatcherStep \/ DeskStep \/ WorldStep

RunSpec == RunInit /\ [][RunNext]_sysVars

\* The runtime keeps polling the worker's tasks, the watcher thread keeps
\* ticking and every provider request ends (it has a timeout).  Nothing makes
\* a user give a command.
FairRunSpec ==
    /\ RunSpec
    /\ WF_sysVars(WorkerStep) /\ WF_sysVars(WriterStep) /\ WF_sysVars(WatcherStep)

\* Besides, somebody resumes a job whose worker is gone.
TendedRunSpec == FairRunSpec /\ WF_sysVars(Launch /\ UNCHANGED deskLocal)

-----------------------------------------------------------------------------
(* Properties.                                                             *)

\* Whatever the worker, its writer, its watcher, the reviewers and the other
\* commands do together reaches the database as one of JobStore's transactions
\* at a time, so what is proved of JobStore holds of the whole system.
StepsAreTransactions == [][Next]_vars

\* A job that claims success has every segment resolved and a published EPUB
\* that carries exactly the stored translations, whatever mix of failed,
\* partial and dropped checkpoints, passes, crashes and relaunches led there
\* (mark_job_finished; "the DB summary is authoritative").
SuccessIsHonest ==
    job = "succeeded" =>
        /\ \A s \in Segments : seg[s] \in Resolved
        /\ book = blocks

\* No provider request runs for a segment whose translation is resolved: not
\* after the cache supplied it, not after a crash between the answer and the
\* relaunch (the list read after the cache scan in run_pipeline).
NothingPaidTwice == \A s \in run.inFlight : seg[s] \notin Resolved

\* After a pause has reached the signal at most one more request starts
\* (translate_segments_with_control polls before every dispatch).
PauseHoldsDispatch == run.late <= 1

\* However a launch ends short of a crash (finished, stopped, interrupted, or
\* failed), every translation a provider returned to it is in the store:
\* finalize_writer waits for the writer's queue.
AnswersReachStore ==
    run.pc \in {"settle", "settle_error", "settle_interrupt"} =>
        \A s \in run.answered : seg[s] \in Resolved

\* A stop that stands ends the run, whether its requests succeed or fail and
\* also while it is paused, with one exception: a paused worker whose row reads
\* failed or needs_review takes it for a late one, and stays (the final-outcome
\* check of ControlFilePoller::stop; wait_until_running_or_stopped).
Deaf == signal = "paused" /\ job \in {"failed", "needs_review"}

StopEndsRun == []<>(At("down") \/ control # "stop") \/ <>[]Deaf

\* A stop that reaches a worker which is still dispatching leaves the job
\* stopped; it is not lost to a completion, to a pause or in a poll.  Only a
\* newer command, a crash, a Ctrl+C in the same run (see StopOutranksInterrupt)
\* or a row marked failed by a segment (see Deaf) may take its place.
StopIsRecorded ==
    \A n \in 0 .. MaxCrashes :
        control = "stop" /\ At("dispatch") /\ poll["worker"] = "idle" /\ used["crash"] = n
            ~> \/ job = "stopped" \/ cancelled \/ job \in {"failed", "needs_review"}
               \/ control \in {"pause", "resume"} \/ used["crash"] > n

\* Whatever stops, crashes or interrupts a run and whichever of its requests
\* fail, resuming it in the end publishes the whole book, unless requests fail
\* again and again.
ResumeCompletesBook ==
    \/ <>[](At("down") => job = "succeeded" /\ book = blocks)
    \/ []<>(\E n \in DOMAIN run.queue : run.queue[n].outcome = "failed")

-----------------------------------------------------------------------------
(* What the repository says of a run, and a run refutes.                   *)

\* A job that recorded success is not paused or stopped afterwards (control.rs,
\* comments of pause and stop).
CompletionIsFinal == [][job = "succeeded" => job' \notin {"paused", "stopped"}]_vars

\* "`stop` asks it to exit", it being the worker that a pause parked
\* (docs/CLI_REFERENCE.md, pause and stop).
StopAlwaysEndsRun == control = "stop" ~> At("down") \/ control # "stop"

\* A resume after a pause lets the run go on to its end (ROADMAP, acceptance of
\* pause and resume).
ResumeContinues == control = "resume" ~> At("down") \/ control # "resume"

\* "An explicit stop keeps precedence: the job stays stopped", also when a
\* Ctrl+C follows it (docs/CHECKPOINTING.md, Interruption).
StopOutranksInterrupt ==
    control = "stop" /\ At("dispatch") /\ poll["worker"] = "idle"
        ~> job = "stopped" \/ control # "stop"

\* A rejected resume leaves the status as it was (run_pipeline, comment before
\* clear_preflight_control).
RejectedResumeKeepsStatus ==
    [][job' # job => ~(run.pc = "settle_error" /\ ~run.owned)]_vars

\* Once the worker and the reviewer are done, the published book shows the
\* correction (ROADMAP, acceptance 2 of manual corrections: never overwritten
\* by a later resume, QA or double-check pass).
CorrectionSurvivesRun ==
    /\ At("down") /\ \A c \in Clients : step[c] = "away"
    /\ unpublished = "no"
    => \A s \in Segments : human[s] => book[s] = text[s]
=============================================================================
