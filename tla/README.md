# bookforge: a TLA+ verification project

bookforge translates EPUB and PDF books through LLM providers. A book is a *job* of *segments*; a job
takes hours, costs money, is paused, stopped, killed, resumed and corrected by hand while it runs.
These modules model the part of the program that keeps that right: the SQLite job store, the worker
that runs a job, the control channel, manual corrections, the launch claim, batch dispatch with its
context fence, the rate controller with the limiter it drives, the review and double check of a translated
book with the provider calls they make, the settings that can be changed while
a job runs, and the audiobook runs of the dashboard. Paths below are relative to the repository; `cli` stands for
`crates/bookforge-cli/src`, `store` for `crates/bookforge-store/src/db`, `llm` for
`crates/bookforge-llm/src`, `audio` for `crates/bookforge-audio/src`.

1. [The system](#1-the-system) 2. [Plan](#2-plan) 3. [Modules](#3-modules-and-the-code-they-model)
4. [Runs](#4-runs) 5. [Disagreements](#5-where-code-and-documentation-disagree)
6. [Proofs](#6-proofs) 7. [Not modelled](#7-what-is-not-modelled)

## 1. The system

### Components, their state and their operations

| Component | State | Operations | Hard behaviour | Correct if |
|---|---|---|---|---|
| Job store (`store/*.rs`) | one SQLite file: `jobs`, `segments`, `translations`, `translation_blocks`, findings, guidance, glossary | checkpoints (`save_*`, `mark_*`), `save_manual_correction`, `request_segment_retry`, `retry_segments`, `mark_segments_needs_review`, `prune_job_now` | every process opens the file; some calls touch the job row *after* their transaction | corrections stand; resolved segments can be rebuilt; late failures destroy nothing; a stop holds |
| Worker (`cli/commands/resume.rs`, `translate/*.rs`, `llm/scheduler.rs`) | its memory: pending and in-flight segments, translations, the stage it is in | preflight, cache, dispatch, fallback, double check, rebuild, validation, completion | concurrent requests, Ctrl+C, crash and relaunch, failures of single steps | a success is honest; nothing is paid twice; a relaunch completes the book |
| Checkpoint writer (`cli/checkpoint.rs`) | a queue of results | persist in order | results queued when the pass ends; a write that fails | every answer reaches the store before the launch ends |
| Control channel (`cli/control.rs`, `llm/concurrency.rs`) | `control.json`, `PauseSignal`, cancel token, job row | `pause`, `resume`, `stop`; worker poller and watcher thread | two pollers act on the same file, signal and row | a stop ends the run and is recorded; a pause holds dispatch; a resume continues |
| Manual corrections (`cli/commands/correct.rs`, `serve/jobs.rs`) | lock registry, staged EPUB, published EPUB | save through a tab; `bookforge correct` | a read-modify-write of the whole book; lock eviction; dropped connections; steps that fail | the book never runs ahead of the store; a quiet book is current; every correction ends |
| Launch claim and lease (`cli/control.rs`, `resume.rs`, `retry.rs`, `serve/jobs.rs`) | `resume.launch`, `runtime.json` | acquire, heartbeat, hand off, adopt, clear, reclaim | file operations of several processes; deaths | one worker per job; no claim blocks a job for ever |
| Concurrency limiter (`llm/concurrency.rs`) | semaphore, target, burn counter | acquire, drop, shrink, grow | lock-free drops during a resize | permits are conserved; the pool never starves |
| Batch dispatch (`llm/batch/*.rs`) | queue of batches, tasks, sizer, allowances and attempts per item, results | plan, fill, join, split, escalate, repack, repair, hand over | retries, splits and escalations feed one another; a segment's blocks come in several requests; pause, stop, reconfiguration at any time | no item is lost or sent twice; a segment is handed over once and truly; the run ends |
| Segment contexts (`llm/scheduler.rs`) | registry of segments that have come to an end | publish, await | missed wakeups, a predecessor never dispatched, waiters that fill the slots | the fence opens for everyone who waits |
| Rate controller (`llm/rate_controller.rs`) | window of observations, cooldowns, the limiter's target | observe, cut, grow | observations arrive late and in any order | it stays within its bounds, and finds its way back when the provider does |
| Audiobook runs (`audio/*.rs`, `cli/commands/audiobook.rs`, `serve/audio.rs`) | kernel lock and its owner record, manifest, chunk files, `process.json`, cancellation tokens and marker | launch, retry, cancel, prune, build, watch | the lock passes from a handler to its child; crashes, kills, restarts of the dashboard; a Cancel at any moment | one owner of a directory; nothing paid twice; a Cancel ends the run; an end is recorded |
| Runtime overrides (`cli/commands/reconfigure.rs`, `cli/control.rs`) | `overrides.json` with its revision, a kernel lock, the channels of job and engine settings | merge, load, publish, read, clear | writers of several processes; the watcher and the dispatch loop poll separately; a relaunch inherits the document; the clear takes no lock | no accepted setting is lost; work never goes back to older settings; a live worker catches up |
| Quality passes (`llm/qa_batch.rs`, `llm/double_check.rs`) | a task per chunk with its queue, the records, the items still to correct and their newest texts | review, audit, correction rounds, split, join | answers that leave items out, break off or break a text; tasks end in any order; pause and stop between requests | every item is settled once; the pass ends |
| Provider calls (`llm/provider.rs`, `complete`) | a shared flag for `response_format`, the cancel token; per call the attempts | post, retry, fall back, cancel | calls share the flag and read it twice; the fallback is not an attempt | a call ends; a 400 for the format falls back |
| Prompts, validation, EPUB, PDF, dashboard, reports | files and text | pure functions and I/O | – | see section 7 |

### How they interact

A worker is launched by a user, by `bookforge retry`'s supervisor or by the dashboard; the launch
claim decides which launch becomes *the* worker and the runtime lease then names it. The worker reads the
store, dispatches requests through the scheduler and the limiter, and sends results to its checkpoint
writer, which commits them. In batch mode the driver packs the blocks of many segments into one request and tells the
writer of a segment when its last block has arrived. The rate controller hears from the driver how requests
ended and moves the limiter's target. Users replace the control file; the worker polls it at its boundaries and
its watcher thread polls it every 100 ms; both swap the shared `PauseSignal` and then write the job row.
Before each of its polls the watcher loads `overrides.json`, which users and the dashboard merge settings into, and publishes
what it says to the scheduler.
The review and the double check send the translated book back to the provider in chunks, through one client whose calls run side by side.
Reviewers' processes commit corrections and swap the rebuilt EPUB over the one the worker published.
The dashboard runs audiobooks as children: a handler takes the output directory's lock, writes the child's nonce
into it and lets go for the child to adopt; a watcher task folds the child's end into `process.json`.
`ingest-flags`, `retry`, `prune` and the watch screen write the same rows. The only mutual exclusion
between processes is SQLite's write lock, the status checks inside the transactions and the claim.

### Hazards

`PROJECT.json` lists 40 of them, each at its line and with the properties that would show it going wrong; a
hazard without a property says why. They steered the choice of properties: nearly all of them need two
actors, or one actor and a crash.

## 2. Plan

Done, in this order:

1. `JobStore`: what all processes share. Proved first, since every other module reaches the database through it.
2. `CorrectionDesk` (composes `JobStore`) and `CorrectionDeskProofs`, which holds the store's theorems too.
3. `JobControl` (composes `JobStore`), used by
4. `JobRun` (composes `CorrectionDesk` and `JobControl`) and `JobRunProofs`.
5. `PermitPool`; `LaunchClaim`.
6. `BatchPlan`, `ContextRegistry`, the abstract `BatchDelivery`, and `BatchDispatch`, which composes the first two and implements the third; `BatchDispatchProofs`.
7. `RateController` (composes and implements `PermitPool`) and `RateControllerProofs`, which holds the pool's theorems too.
8. `AudioBuild`, `AudioOutput` (composes it) and `AudioOutputProofs`.
9. `LaunchClaimProofs`.
10. `Reconfigure` (composes `JobControl`) and `ReconfigureProofs`.
11. `ProviderCalls`, and `QualityPasses`, which composes it; `QualityPassesProofs`.

Left, in this order:

1. An abstract job (what a user is promised: segments get resolved, statuses move along legal paths) with `JobRun` shown to implement it by a refinement mapping.
2. `BatchDispatch` behind `JobRun`'s writer instead of dispatch by segment, and `QualityPasses` behind its double check.
3. `StoreFindings`: QA findings and retry guidance on top of `JobStore`; the entry of a first `translate`.

## 3. Modules and the code they model

`PROJECT.json` "map" gives the lines of every definition.

### JobStore

One job row (`job`), its segment rows (`seg`), `translations` (`text`, `human`) and the text its
`translation_blocks` rows spell (`blocks`). One action per store call; each is one SQLite transaction,
so it is one step. Four calls (`mark_unfinished_segments_failed`, `mark_segments_needs_review`,
`save_manual_correction`, `request_segment_retry`) touch the job row after their commit. They leave a
debt in `owed[c]`, which `PayDebt(c)` pays; `ReadSegments(c)` is the count inside
`recompute_job_status`, and `ClientDies(c)` is a process killed in between. Calls that return an error
without writing are no steps. `correction` and `committed`, the last and all texts reviewers have committed for a segment, are history variables. `Next` lets anyone call anything at any
time: no caller is assumed to behave.

Abstracted: timestamps, attempt counters, usage columns, findings, guidance rows, and block rows one by one
(`blocks[s]` is the text they spell together).

### CorrectionDesk

`OpenTab` and `Queue` take the job's mutex from the registry; `StartInTab` starts the blocking closure; `StageInTab`/`StageInShell` load every
block, overlay the correction and stage the rebuilt EPUB (`view`). Between the two the closure opens the store and reads
the job, its snapshot and its EPUB, and a connection that drops there frees the mutex before the blocks are read; `Save`, `Recompute`, `Publish` are the
commit, the status recompute and the rename; `StageFails`, `RecomputeFails`, `PublishFails` their
errors; `Release` and `Evict` the end of the handler. `HangUp` is a dropped connection: the handler's
future is dropped with its guard; the blocking closure, once started, runs on. `Elsewhere` is what other processes do
to the job meanwhile. `book` is the published EPUB as a map from segments to texts. `unserialized` and
`unpublished` are history variables.

External semantics assumed: a tokio mutex is FIFO, and the HTTP server drops a handler's future when
its connection closes. The `map` marks `Holds` external for the former.

### JobControl

`control` is the control file, `signal` the `PauseSignal`, `aborted` the stop token, `poll[p]` where each
of the two pollers is. `Poll` is the part of `ControlFilePoller::poll` up to the swap of the
signal (the read of the file, the check of the row and the swap are one step); `RecordPoll` is the
write of the row. Between them the other poller may act, which is what the code allows and what
the witness `MCRunResumeRace` needs.

### JobRun

`run.pc` is the statement of `run_pipeline` the worker stands before, the rest of `run` is what it remembers;
`Crash` loses all of it. Each stage is an action: `Preflight`, `Own`, `Revalidate`, `StartWatcher`,
`ApplyCache`, `Reread`, `Start`, then the dispatch loop (`Dispatch`, `Spawn`, `Join`, `JoinNone`,
`DispatchError`), the writer (`Persist`, `DropResult`, `Drain`), the gates with their stages
(`StartFallback`, `StartCheck`, `CheckAnswered`, `CheckSave`, `CheckDone`, `Rebuild`, `Validate`, `Finish`,
`FinishMark`, `Finished`) and the tails of the three enclosing functions (`Leave`, `Settle`,
`SettleError`, `SettleInterrupt`). The primary and the fallback pass share the loop, as they share
`translate_and_checkpoint`. `run.late`, `run.answered` and `used` are history and bounds.

Merged or left out: consecutive gates around QA review are one; the QA report, glossary proposals and
report files are not there; a store error in the watcher thread, which reopens the store and polls again, is
not modelled (a poll of the worker may fail, fault `boundary`); prune is not in `WorldStep` (it refuses a live job, and a job whose row is gone ends the
run with errors no property is about); dispatch is segment at a time; a second worker is excluded
here because that is `LaunchClaim`'s subject.

### LaunchClaim

`claim` is `resume.launch`, `lease`/`gone` is `runtime.json`, `proc[p]` the control state of each process.
Every exclusive install, rename, read and heartbeat write is its own step; the two reads before a
claim rename are merged into one. A process that reads a file of a dead owner may find it young or stale:
clocks are left out and both outcomes are explored. `exposed` is a history variable: it becomes true when someone
moves or overwrites the claim of a live owner. The invariants are stated under `~exposed`, and the
witness `MCClaimRace` shows how `exposed` comes about. `Forced` is the click on a paused job, whose child is
started with `--force` and makes neither check of the lease.

### PermitPool

`target`, `available`, `held`, `burns` are `state`, the semaphore, the permits out with requests and
`permits_to_burn`. A drop that found no burn is a step of its own before its permit is back (`releasing`);
an update holds the mutex from `Update` to its last step and works through `change` and
`left`. The growth interval only delays `on_success` and is left out.

### RateController

Composes `PermitPool`: `owner` says whether the controller or the live settings set the target. A request gives its permit
back (`Return`, `Release`) before the driver observes how it ended (`Observe`), and `ended` counts those in between, so
that the controller hears late and in any order. `window` holds the last observations; `ages` are the ticks since the
last growth and cuts, which stop at the interval they are compared with. A latency is at most
the target percentile or above it. Requests that run without a permit, which the code allows when adaptive concurrency is toggled, are left out.

### BatchPlan

The planner and the repacking helpers as operators: `Plan`, `Chunk`, `Split`, `Repartition`. An item is its position in
the book, so items follow the segments in reading order, as `build_translation_batches` numbers them. A batch is bounded by
tokens, items and expected output at once; the model has one number of items per mode. Nothing is recursive, so that the
operators can be proved about: the planner's loops push items onto a batch until it is full, the model puts the items in a row (`Arranged`, `Flat`) and
cuts it where a batch begins (`Cut`): every `limit` items of a run of neighbours that agree in section and mode (`Pack`).

### ContextRegistry

`completed` says how each segment ended, as far as it was published; `Prior` is the window of segments a request is shown,
`ContextReady` the strict fence, `Publish` the publication. A resumed run's registry would be seeded with resolved segments,
which are not planned either: here it starts empty and the plan is the whole book.

### BatchDelivery

What the checkpoint writer is promised, without batches, retries or repairs: blocks `Arrive`, and a segment is handed over
once, as succeeded when it is whole, for review at the `Close` only.

### BatchDispatch

The driver (`phase`, `queue`, `sizer`, `allowance`, `tries`), its `tasks`, the registry, and what was
`sent`. The driver fills slots (`Dispatch`, `FillFull`, `FillEmpty`, `FillPaused`, `FillStopped`), joins a task at a time
(`JoinOk` to `JoinFatal`: one action per arm of the outcome match, with its counters, its split or
escalation, its sizer update and its publication), aggregates, repairs (`Repair*`) and hands over the rest (`Finish`). A
task awaits its context (`Subscribe`, `CheckContext`, `Sleep`, `Wake`: the subscription comes before the look), the pause gate and a permit,
and its request ends in any way its setup lists. `Setups` is a set of runs: strict or not, slots, limits, faults and users.
Faults are not counted: only the code's own limits bound the retries. An output allowance is a level. A cut of the sizer never goes below
one item and it may grow after any success, which covers the code's twenty observations.

### AudioBuild

One `bookforge audiobook` process: it takes the lock (`TakeDirectly`, `Adopt`, `GiveUpWaiting`), starts a manifest (`Begin`), runs one
task per chunk (`Ask`, `Reuse`, `Refuse`, `Answer`, `SeeStop`), joins them in the order they end (`Join`, `Abort`),
finishes, or dies. A chunk's file is valid or not; hashes and sizes are abstracted to that. All runs of a directory have the
same plan. `aborted` is a history variable: some build ended before its plan did.

### AudioOutput

The dashboard around it. A request goes through `Lock`, `Prepare`, `HandOff`, `Publish`, `Register`, `Unlock`; a child's watcher
through `SeeExit` or `SeeCancel`, `ForceStop`, `SeeCancelled`, then `Settle`, or `SettleFails` when the state cannot be written, and `Unregister`; `Cancel` reaches a token, `CancelLook` and
`CancelSettle` do without one; `ClerkLock`, `ClerkScan`, `ClerkLeave` are a prune or its preview; `Restart` loses all of the
dashboard's memory and locks while its children live on. Two abstractions to know: what a prune deletes is not modelled beyond that it
keeps every file the manifest names, and pids are not reused. The retry claim on top of the output lock adds no exclusion and
is left out. A task panic is covered by `Die`; tasks are taken to have ended before the lock is released.

### Reconfigure

A writer takes the lock (`Ask`, `ReadDocument`), merges and lets go (`WriteDocument`), or times out, fails or dies (`GiveUp`). `document` is
`overrides.json`; settings are fields with values. The worker goes from `Launch` through `Own`, `SpawnWatcher`, `Start`, its dispatch loop
(`BoundaryPoll`, then `Dispatch` or `Boundary`), `Finish`, `Clear` to `Leave`, or it dies (`Crash`). A tick of its watcher is three steps: `Load` publishes the
job's settings, `Send` the engine's, `WatcherPoll` looks at the control file as in `JobControl`. The dispatch loop takes the engine's settings after a
poll of its own. A resume seeds the worker's own settings with the document, a launch of a job that is neither paused nor
ended does not (`Overridable`). `accepted`, `promised` and `spent` are history; a clear voids them, as does `Spoil`, a
document that no longer parses, which only `SpoiltSpec` has. Which settings exist, and which are refused, is left out.

### ProviderCalls

`call[c]` is one `OpenAiCompatibleProvider::complete`: `BuildBody` and `ReadFlag` are the two reads of the shared flag `supported`, then
posts alternate with delays until the call is answered, refused or out of attempts (`PostFails`, `BadRequest`, `Refused`, `Answered`,
`DelayEnds`), or the token ends it (`Interrupted`). A finished call is left as its result, which the caller takes. The server may
answer anything at any time. A retry policy of none is `MaxAttempts` 1; delays and timeouts have no length; usage, budgets and the detection of reasoning models are left out.

### QualityPasses

One pass of either kind over the items of a book. A task is admitted (`Admit`), asks for the chunk at the head of its queue (`Ask`), and
goes on with what came back: `Understood`, `Misshapen` (split in two), `Refusal`, `AskStopped`. `JoinReview`, `JoinAudit` and
`JoinCorrection` are the join loops with `resolve_correction_chunk`, `BeginRound` and `EndPass` the boundaries, `Fail` the error that drops the tasks left.
`records[i]` counts the records an item has; they are counted when a task is joined, which is when the code collects them. A text is stored, broken
or better, and `Valid` is `validate_correction` on these. Within a chunk issues are in the book's order; the
code keeps the answer's, and the order decides only which chunk an item falls in. The wait for the pause a review makes before its permit
is merged with taking the permit; it waits again before each request. A panicking task is left out.

### MC modules

`MCCorrectionDesk`, `MCJobRun` and `MCBatchDispatch` define what a configuration cannot write down: who wants which text, the
cache tables (`NoHits`, `OneHit`), the books and the setups. The other configurations instantiate the component's module itself. No
symmetry is declared: the runs fit without it, and half of them check liveness.

## 4. Runs

State counts are distinct states.

| Run | Instance | Checks | States |
|---|---|---|---|
| `store` | 2 segments, 2 provider texts, 1 human text, 2 clients | `CorrectionStands`, `ResolvedIsRebuildable`, `LateFailureKeepsWork`, `StopHolds` | 63 910 |
| `desk_tabs` | 2 tabs, one of which may hang up, a shell, 3 mutexes, 1 segment, 2 texts | `BookNeverAheadOfStore`, `QuietBookIsCurrent`, `CorrectionsEnd` | 423 370 |
| `run` | 2 segments, cache hit, source copy, fallback, double check, all faults; 1 command, 1 crash, 1 Ctrl+C | `SuccessIsHonest`, `PauseHoldsDispatch`, `AnswersReachStore`, `NothingPaidTwice` | 6 900 034 |
| `run_ends` | 2 segments, requests that succeed or fail, 2 of pause and stop, 1 crash, 1 Ctrl+C, relaunch | `StopEndsRun`, `StopIsRecorded`, `ResumeCompletesBook` | 636 806 |
| `run_crowd` | 1 segment, double check, shell reviewer, retry and flag commands | `StepsAreTransactions` | 705 172 |
| `pool` | targets 1 to 4, 3 tasks, a window of 2, either owner | `PermitsConserved`, `PoolNeverStarves`, `ShrinkTakesEffect`, `Recovers` | 43 154 |
| `claim` | 1 resume, 1 supervisor, 1 click, 1 child, 2 spawns, 1 kill, a dead predecessor | `NeverDoubleRun`, `LeaseNamesWorker`, `ClaimHasCustodian` | 1 744 851 |
| `batch` | 3 items of 2 segments, 8 setups | `ItemsConserved`, `SentOnce`, `EndReportsAll`, `FenceFollows`, `NotStranded`, `DeliversSegments`, `DispatchEnds` | 499 810 |
| `audio` | 2 chunks, a launch, a retry, a run from a shell, prunes, cancels, 1 restart | `OneOwner`, `LiveRunOnRecord`, `QuietManifestIsExact`, `NothingPaidAgain` | 2 887 297 |
| `audio_ends` | the same without the shell, one call at a time, under fairness | `CancelEndsRun`, `EndsAreSettled` | 301 760 |
| `reconfigure` | 2 writers, 2 settings, 2 revisions; pause and resume, crashes, relaunches, completion | `AcceptedSettingsStand`, `WorkFollowsRevisions`, `SettingsReachWork` | 1 040 073 |
| `quality` | 3 items, one a source copy, chunks of 2, 2 at once, 2 rounds, 2 attempts; each kind of pass; 1 pause, stop, Ctrl+C | `EveryItemIsSettled`, `PassEnds` | 1 024 194 |

`NeverAboveTarget`, `LaunchIsClaimed`, `RequestsRunOut` (checked on the instance of `batch`) and `TasksRunOut` (on that of `quality`) are proved (section 6) and left to the proofs. `BookNeverAheadOfStore` is also proved for the composition with a
run. The type invariants are not in the runs: those of the store, the pool and its controller, the claim and the settings are proved
(section 6), that of the batch run too (`BatchTypes`), those of the desk and the run are part of their proofs, that of the provider calls is (`CallsAreTyped`), that of the quality passes was checked on the instance of its run, and the proofs of the audiobooks take from
theirs the domains of the functions only.

### Why the bounds are enough

* *Segments.* No store call relates two segments except through "all resolved" and the sets handed to bulk calls; two segments show one resolved and one not, one in flight and one pending. `run_crowd` and `desk_tabs` have one segment, since their races are between actors on the same segment.
* *Texts.* Provider texts are told apart only by being a source copy, stored, or newer; two are enough. One human text is enough to tell a reviewer's text from the others when there are two segments, because a segment's text and its blocks are compared with the history of *that* correction.
* *Clients.* Debts of two clients on one job row already interleave in every order; a third would only add a debt of a kind that is there.
* *Tabs and mutexes.* A mutex is lost between a holder and one other tab. A tab that returns may need a second one, because the first was evicted while the other tab still refers to it; a third is never allocated with two tabs, so the registry never runs out. The hang-up tab writes one text and the other tab and the shell write another (`Wants`), so a book swapped in late, or rebuilt from blocks read too early, differs from the store although there is one segment. The witness configurations use two segments and let everybody write anything; the proof of `BookNeverAheadOfStore` covers any number of segments, tabs, shells and texts.
* *Commands, crashes, interrupts* (`MaxCommands`, `MaxCrashes`, `MaxInterrupts`). One command per `run` meets every state of the worker, together with one crash and one Ctrl+C. Two commands are needed where one undoes the other (`run_ends`, `MCRunResumeRace`).
* *Concurrency.* 2 covers a free slot, a full one and an empty one on two segments.
* *Faults* and *Meddlers* switch failure steps and foreign commands on per run, to keep each run small; every one of them is on in some run.
* *`MaxSpawns`, one child.* The supervisor's attempts matter as "first", "again" and "budget spent"; with one child, a click and a supervisor compete for it.
* *Pool 1..4.* Every cut (half, three quarters, 85 %) and a growth by one lead to different targets, and two shrinks in a row leave burns behind. Three tasks let two late observations arrive after a cut; a window of two lets a failure both spoil it and leave it.
* *Batch.* A segment of two blocks and one of one, in one chapter, give a batch of one segment, of part of one, and across two; a limit of 2 packs the book in two batches, 3 in one and 1 in three. Each setup has a few kinds of fault together, because the counters that could feed one another are those of one batch. `Ceiling` 3 allows two escalations, `MaxAttempts` 2 one retry, `ConnectAttempts` 3 more than that. `LatencyCap` 2 halves a batch of three.
* *Audio.* Two chunks are one failed and one done, in either order of joining; `CheckpointInterval` 2 leaves one success unsaved. A launch and a retry meet at every step, since a retry needs the launch's failure to start; the third run, from a shell, competes for the lock. One restart may come at any step.
* *Settings* (`MaxChanges`, `MaxRevision`, `Legacy`). A setting is lost between two writers, of different fields; that makes two revisions, which also are an older and a newer one for the worker. After a clear the revisions start again, so the bound does not limit how often a job is reconfigured and run.
* *Quality.* Three items in chunks of two are a chunk that can be split and one that cannot; with two at once they end in either order. Two rounds are one that carries over and a final one; two attempts are one that fails and is retried, and one that is the last.

### Deadlock

`run*`, `claim`, `batch`, `quality` and `audio*` say `CHECK_DEADLOCK FALSE`, because there a system may really come to rest (the
run has ended, every launcher is done, every request is over). So does `store`, where a pruned
job with no debts left is the end. That a batch run comes to rest only at its end is `DispatchEnds` and `NotStranded`; of a quality pass, `PassEnds`. The desk, the pool and
`reconfigure` are checked for deadlock: a reviewer may always open a tab, a request may always ask for a permit and a user may always give a command, so a state without a step would be everyone waiting on
everyone.

### Fairness

* `DeskSpec`: weak fairness of each correction in progress. The async runtime keeps polling a request it has accepted, and the operating system keeps running a process. Nothing makes a reviewer open a tab.
* `FairRunSpec`: weak fairness of the worker, its writer and its watcher. They are threads of a live process, and every provider request ends because the client sets a timeout. No fairness for users, reviewers, crashes or launches.
* `TendedRunSpec` adds weak fairness of `Launch`: somebody resumes a job whose worker is gone. Only `ResumeCompletesBook` needs it, and that is its premise: resuming, in the end, completes the book.
* `FairBatchSpec`: weak fairness of the driver and of the tasks taken together. Requests end (timeout) and so do sleeps; nobody need resume a paused run, which `DispatchEnds` says in its premise.
* `FairRateSpec`: requests end, a thread that holds the mutex or is dropping a permit goes on, and time passes. `Recovers` is conditional on observations going on and ending well from some time on; nothing makes them.
* `FairAudioSpec`: the dashboard's watchers, the handler's release of the lock, a child's wait for the lock (it has a timeout) and a prune go on. A child may hang for ever in a provider call, and nobody need cancel it: that a Cancel then ends it rests on the forced stop.
* `QualitySpec`: weak fairness of the tasks, their calls and the join loop taken together. The runtime polls them, and a request has a timeout. `PassEnds` excludes a pass that stays paused; nobody need resume it.
* `FairReconfSpec`: the watcher's thread ticks and the worker's loop runs. Writers, users, launches and crashes are free; `SettingsReachWork` asks nothing of a worker that has ended.

### What the properties mean

* `SuccessIsHonest`: `succeeded` implies every segment resolved and a published book equal to the stored blocks. It holds for the worker's own races and its failures. It does not survive an `ingest-flags` that commits between the summary and the row write (`MCRunFlagRace.cfg`), so `run` has no meddlers; this is a limit of the code, not of the model.
* `QuietBookIsCurrent`: with no correction under way the book carries the stored blocks, unless a failed swap was reported or one of three known ways round the mutex was taken (`Overlaps`, `Evict`). The mutants show that without the mutex discipline it breaks.
* `BookNeverAheadOfStore` compares the book with all texts that reviewers have committed for the segment (`committed`), so it also speaks of a second correction of a segment that has one already.
* `StopEndsRun`: a stop that stands ends the run, or the run is paused for good with a row that reads `failed` or `needs_review` (`Deaf`). When a segment fails, the row of the live worker reads `failed` and every poll takes a stop for a late one. A worker that is dispatching then runs to its end, a paused one stays: `MCRunStopIgnored.cfg` shows it against the plain promise (`StopAlwaysEndsRun`). The property says that there is no other way to outlast a stop. Outcomes that make the row `needs_review` were tried without the crash, with the same result; `run_ends` leaves them out.
* `StopIsRecorded` quantifies over the number of crashes, so that a stop given before a crash is not expected to be recorded after it. It excuses a Ctrl+C in the same run and a row marked failed: that a stop after a Ctrl+C is not recorded is `MCRunStopAfterCtrlC.cfg`.
* `ResumeCompletesBook` excuses requests that fail again and again, and nothing else: after the last failure the relaunches get the book done.
* `LiveRunOnRecord` admits `cancelled` for a run that is live: a Cancel without a token may take the free lock between the handler's release and the child's adoption, and writes `cancelled` for a child that then adopts the lock and runs. The comment at `cli/commands/serve/audio.rs:1209` ("if it is free, the recorded worker is gone") takes a free lock for proof of the contrary.
* `ClaimHasCustodian` and the others in `LaunchClaim` are about behaviours in which nobody moved a live claim; `MCClaimRace` is about the rest.
* `DeliversSegments` is the refinement of `BatchDelivery`: `arrived` is `blocks`, `report` the first thing the writer was told of a segment. `SentOnce` says that there was no second.
* `NotStranded` and the strict half of `DispatchEnds` assume a slot for every item and a run left alone (`SlotForAll`, `calm`). Both are limits of the code: with fewer slots than batches (`MCBatchStrand.cfg`), or a pause or stop while tasks wait for context, a strict run really waits for ever.
* `QuietManifestIsExact` and `NothingPaidAgain` hold until a run is killed or cancelled. A cancelled run has stored audio its manifest does not know; a retry refuses the chunk, records it failed, and the next retry pays for it (`MCAudioRepay.cfg`).
* `EndsAreSettled` holds while nobody takes the lock over the ended child and its state can be written; `MCAudioStuck.cfg` shows that a prune preview takes it. An error of the lock file or of the write is dropped by the watcher (`SettleFails`), and `process.json` says `running` until somebody cancels. After a dashboard crash between `starting` and `running`, cancel, retry and prune all refuse the operation: nothing states that they should not, and no property is about it.
* `WorkFollowsRevisions` is about the order of revisions, not about when one arrives. A resume may well release work under the settings from before the pause: the dispatch loop polls the control file itself, and the watcher loads the document before it polls (`MCReconfRace.cfg`).
* `AcceptedSettingsStand` and `SettingsReachWork` end with the completion of the job, which removes the document without the lock; a merge under way then writes the old settings back (`MCReconfRace.cfg`). `SettingsReachWork` assumes that nobody spoils the document: a writer starts again at revision 1, and a watcher that has seen another revision 1 ignores it (the instance of `reconfigure` under `FairSpoiltSpec` shows it).

* `EveryItemIsSettled` is about passes that end well; a double check that is stopped or refused fails as a whole and records nothing. An item without an answer is settled as unresolved, not lost.
* `PassEnds` rests on three bounds that multiply: attempts of a call, splits of a chunk, rounds of a pass; the fallback post is outside the first and happens once a call.

Every property of every passing run is broken by a plausible bug: `PROJECT.json` "mutants" names the mutated definition, which
stands beside the original in its module.

## 5. Where code and documentation disagree

These configurations are kept as witnesses. They are not part of the regular checks; each, run with
`tlc -config X.cfg M`, ends in a violation which shows that a caveat above is real. Where two witnesses share an
instance, the configuration names both and the second is commented out: one property at a time.

| Configuration | Module | Refutes | Shows |
|---|---|---|---|
| `MCDeskEvict` | `MCCorrectionDesk` | `NoTabStagesStaleSnapshot` | eviction between another tab's clone of the mutex and its first poll |
| `MCDeskEvict` | `MCCorrectionDesk` | `TabsTakeTurns` | a dropped connection frees the mutex while its work goes on |
| `MCDeskLost` | `MCCorrectionDesk` | `SavedCorrectionIsPublished` | a shell's and a tab's corrections overlap and one text is missing from the book |
| `MCDeskLost` | `MCCorrectionDesk` | `SavedStageIsKept` | an error of the recompute deletes the staged file of a committed correction |
| `MCRunOverwrite` | `MCJobRun` | `CorrectionSurvivesRun` | a `needs_review` checkpoint makes a live run's row non-active, a correction is admitted, and the run rebuilds the book from translations it loaded before ("A human-corrected segment is never overwritten by a later resume, QA, or double-check pass", `docs/ROADMAP.md:2579`) |
| `MCRunLateStop` | `MCJobRun` | `CompletionIsFinal` | a stop passes the final check, the completion commits, the stop is written |
| `MCRunStopIgnored` | `MCJobRun` | `StopAlwaysEndsRun` | a paused run whose row says `failed` does not end at a stop ("`stop` asks it to exit", `docs/CLI_REFERENCE.md:361`) |
| `MCRunRejected` | `MCJobRun` | `RejectedResumeKeepsStatus` | a resume that fails its preflight rewrites the status |
| `MCRunStopAfterCtrlC` | `MCJobRun` | `StopOutranksInterrupt` | a stop that meets a signal already stopped by Ctrl+C is not recorded |
| `MCRunFlagRace` | `MCJobRun` | `SuccessIsHonest` | a flag commits between the summary and the completion |
| `MCRunResumeRace` | `MCJobRun` | `ResumeContinues` | `pause()` swaps the signal, then writes `paused`; the other poller reads a resume in between and writes `running` first, the row stays `paused` while the signal runs, and the finish loop spins |
| `MCClaimRace` | `LaunchClaim` | `LiveClaimIsKept` | the slower of two launchers that saw a dead claim renames away the fresh claim of the faster one ("a concurrent acquirer can never lose a freshly created claim", `cli/control.rs:607`) |
| `MCClaimOrphan` | `LaunchClaim` | `ClickNeverBlocksJob` | a dashboard child dies after the startup check and before adopting; the claim names the living dashboard for good |
| `MCClaimForced` | `LaunchClaim` | `NeverDoubleRun` | two clicks on a paused job: the second decided on `--force` before the first one's worker had written its lease and cleared its claim, and its child makes no check of the lease: two workers |
| `MCBatchStrand` | `MCBatchDispatch` | `NeverStranded` | strict context and two slots, both taken by tasks that wait for a batch still in the queue (comment at `llm/batch/execution.rs:675`) |
| `MCBatchStop` | `MCBatchDispatch` | `StopKeepsResumable` | a stop cuts a segment in half and the half is reported for review, which a resume does not take up (comment at `cli/checkpoint.rs:259`) |
| `MCAudioRepay` | `AudioOutput` | `RetrySparesSuccesses` | a cancelled run's stored chunk is refused by a retry, recorded as failed, and paid for by the next |
| `MCAudioRepay` | `AudioOutput` | `LiveRunIsCancellable` | the watcher of an ended run removes the token of the retry that has just replaced it |
| `MCAudioStuck` | `AudioOutput` | `EndedRunIsSettled` | A prune preview takes the output lock between the handoff and the adoption, or between the child's end and its watcher's look, and writes a nonce of its own into the record. The watcher takes the record for another's, and `process.json` says `running` for good. |
| `MCReconfRace` | `Reconfigure` | `ResumeReleasesNewSettings` | the watcher loads the document, a user reconfigures and resumes, and the watcher's poll or the dispatch loop's own releases work before the next load ("a Resume can never release work under the pre-pause settings", `llm/scheduler.rs:641`; `cli/control.rs:1348` calls it an ordering guarantee across processes) |
| `MCReconfRace` | `Reconfigure` | `ClearedSettingsStayCleared` | a writer reads the document, the completed job's worker removes it without the lock, and the write brings the finished run's settings back for the next one |
| `MCQualityRaces` | `QualityPasses` | `FormatFallsBack` | a call builds its body with `response_format` (`llm/provider.rs:979`), another call's 400 clears the flag before the first one reads it again (line 1042), and the first one's own 400 is then final instead of a reason to fall back (comment at line 1244) |
| `MCQualityRaces` | `QualityPasses` | `AppliedTextIsNew` | a second round compares with the broken attempt of the first, so the very text that was rejected comes back and counts as applied ("actually changed the rejected text", `llm/double_check.rs:887`) |
| `MCPermitShrink` | `PermitPool` | `WaitersRespectTarget` | a permit dropped during a shrink goes to a waiter beyond the new target |

## 6. Proofs

All theorems are proved for every value of the constants that satisfies the assumptions named in the
modules: `NoTextAssumption` (no row is not a text), `ClientsAssumption`, `LocksAssumption` and
`AsksAssumption`, `WantsAssumption` (tabs and shells are clients, and nobody is both; if there are tabs there is a mutex; there is something to ask for; what a client wants is a correction), `CommandsAssumption`,
`RunAssumption` (segments are numbered, the worker is a client and no reviewer, the cache holds provider texts), `PassAssumption` (items are numbered, a chunk, a round and the concurrency are at least 1),
`BoundsAssumption` (1 <= min <= initial <= max), `ControllerAssumption`, `PlanAssumption` (no segment is empty, the items follow the segments),
`ContextAssumption`, `DispatchAssumption`, `AudioAssumption`, `RolesAssumption` (a process has one role,
and the dead predecessor is none of them), `NoClaimAssumption`, `SettingsAssumption` (no override is not a value, no writer not a writer). The number of segments, items, clients, requests, processes, crashes and commands
is unbounded.

| Module | Theorem | Statement |
|---|---|---|
| `CorrectionDeskProofs` | `TypeCorrect`, `CorrectionsStand`, `ResolvedRebuildable` | `Spec => []` of the property |
| | `LateFailuresKeepWork`, `StopIsSticky` | `Spec =>` the action property |
| | `BookStaysBehind` | `DeskSpec => []BookNeverAheadOfStore` |
| | `QuietBooksAreCurrent` | `DeskSpec => []QuietBookIsCurrent` |
| `JobRunProofs` | `RunIsTransactional` | `RunSpec => StepsAreTransactions` |
| | `RunCorrectionsStand`, `RunResolvedRebuildable`, `RunBookStaysBehind` | `RunSpec => []` of the property |
| | `RunKeepsWork`, `RunStopHolds` | `RunSpec =>` the store's action properties |
| | `PauseHoldsTheDispatch` | `RunSpec => []PauseHoldsDispatch` |
| | `SuccessClaimIsHonest`, `NothingIsPaidTwice`, `AnswersReachTheStore` | `Alone /\ RunSpec => []` of the property |
| `BatchDispatchProofs` | `BatchDelivers` | `BatchSpec => DeliversSegments`, the refinement of `BatchDelivery` |
| | `DeliveryInvariant` | `BatchSpec => []DeliveryInv`, which it rests on |
| | `ItemsAreConserved`, `SegmentsAreSentOnce`, `TheEndReportsAll`, `TheFenceFollows`, `NobodyIsStranded` | `BatchSpec => []` of the property |
| | `RequestsDoRunOut`, `RanksAreNumbers` | `BatchSpec => RequestsRunOut`; `BatchSpec => []` (every `Rank` is in `Ranks`) |
| | `BatchInvariantHolds`, `BatchTypes` | `BatchSpec => []BatchIInv`, the inductive invariant behind them, and `BatchSpec => []BatchTypeOK`, a part of it |
| `RateControllerProofs` | `ControllerKeepsContract` | `RateSpec => PoolSpec`: the controller implements the pool |
| | `ControllerTypeCorrect`, `ControllerConservesPermits`, `ControllerNeverStarves`, `ControllerRespectsTarget` | `RateSpec => []` of the property |
|  | `PermitsAreConserved`, `PoolDoesNotStarve`, `PoolRespectsTarget` | `PoolSpec => []` of the property |
| `LaunchClaimProofs` | `ClaimTypeCorrect`, `LaunchesAreClaimed`, `ClaimsHaveCustodians` | `Spec => []` of the property |
| | `OneWorker`, `LeaseIsOfTheWorker` | the same, if no click passes `--force` |
| `AudioOutputProofs` | `OneOwnerAtATime`, `LiveRunsAreOnRecord`, `ManifestsAreExact`, `NothingIsPaidAgain` | `AudioSpec => []` of the property |
| `QualityPassesProofs` | `EveryItemSettles` | `QualitySpec => []EveryItemIsSettled` |
| | `TasksDoRunOut`, `LeftAreNumbers`, `CallsAreTyped` | `QualitySpec => TasksRunOut`; `QualitySpec => []` (every `Left` is five numbers); `QualitySpec => []CallsTypeOK` |
| `ReconfigureProofs` | `AcceptedSettingsAlwaysStand`, `WorkAlwaysFollowsRevisions`, `ReconfTypesHold` | `ReconfSpec => []` of the property |
| | `SettingsStandAfterSpoil` | `SpoiltSpec => []AcceptedSettingsStand` |

### The argument

*Store.* `IInv == TypeOK /\ CorrectionStands /\ ResolvedIsRebuildable`. Neither of the last two is
inductive without the types of the rows it reads. `StepHolds` goes through the calls by kind: the four model
checkpoints share one lemma (`CheckpointStep`), all calls that change only statuses another (`StatusStep`).

*Desk.* `DeskTyped` types the local state. `CorrectCallsStore` shows that every step of a correction is at most
one transaction of `JobStore`, so `IInv` comes for free from `StepHolds`. `BookNeverAheadOfStore` is
not inductive: the book comes from a staged file, which came from the blocks. `BooksAreCommitted` says what
each of them may hold at which step: a staged file may contain one text that is not committed yet, the one it
was made for, and none once it is saved; `committed` only grows, so what was in order stays so. It does not use the mutex: the
property does not depend on it.

*A quiet book.* `QuietBookIsCurrent` does depend on it. `ViewsAreCurrent` says that a file staged from a snapshot is still the stored
blocks plus its own text when it is saved, and the stored blocks when it is swapped in; that is so only if nobody saves in between. Hence `MutexWorks`:
a handle is of the registry's one mutex (`OneMutex`), a line holds nobody twice and only who has its handle (`LinesAreInOrder`), a tab at
work stands first, from the start of its closure on (`WorkersStandFirst`), so one correction is between its snapshot and its swap at a time (`OneAtATime`). Each part
is needed for the next. The invariant ends where the property does, at the first hang-up, eviction or overlap with a shell
that goes round the mutex. Leaving a line is `Without` in the model, a function on positions rather than `SelectSeq`, of
which the provers know nothing.

*Run.* `RunIInv == IInv /\ DeskTyped /\ WorkerTyped`. `WorkerTyped` adds to the type of the worker's memory
that loops over store calls hold provider texts and that the dispatch loop is entered with something to dispatch
(else `NextSegment` would name no segment, and the result would not be a store call). There is one lemma per kind of
step: `ThinkingKeepsTypes`, `StoringIsSound`, `ControllingKeepsTypes`, `PublishingIsSound`, `WritingIsSound`,
`PollIsStep`, `WorldIsSound`; `RunStepHolds` puts them together: *every step of the system is at most one
step of `JobStore`*. That is the refinement `RunSpec` implements, step by step, with the identity
mapping, and all safety of the store follows. For the book, `MemoryIsRead` shows that a reviewer's text enters the
worker's memory only from the stored blocks; with `BooksAreCommitted` this makes a book rebuilt from memory
as safe as one swapped in by a reviewer. The store's action properties hold of the system by the same way: its steps are the store's.

*A job alone.* `SuccessIsHonest`, `NothingPaidTwice` and `AnswersReachStore` are proved of a job that only its worker writes
(`Alone`: no reviewer, no shell, no retry or flag command; users pause, resume, stop, kill and relaunch as they like), the instances the run `run`
is one of. Without it they are no theorems: a flag between the summary and the completion breaks the first (`MCRunFlagRace`), a correction that
commits while the segment is in flight the second, a retry or flag command behind the checkpoint the third, each within the instance of `MCRunCrowd`.
`AloneInv` is a chain. A segment is
pending, in flight or queued for the writer, never two of these (`SegmentsApart`), so what is dispatched stays unresolved until the
writer gets to it (`WorkIsOpen`) and a later result cannot overwrite an answer (`AnswersAreKept`). With that
the memory of the finalize stages holds the stored blocks of every resolved segment (`MemoryIsCurrent`), whichever of
preflight, writer, fallback and double check put it there, and so does the book rebuilt from it (`BookIsCurrent`),
which is what a recorded success claims.

*A pause.* `LateInv` holds whoever else is there: a request is started by a statement only a poll of a running signal leads to, and that poll
resets the count of requests started since the pause; so at most one starts after it.

*Pool.* `PoolInvariant == TypeOK /\ TargetBounded /\ PermitsConserved`; conservation is inductive once the target is
known to lie in its bounds, because a resize is only started towards a clamped target. The other two
properties are consequences of it in the states without an update under way.

*Rate controller.* A cut and a growth set a clamped target or leave the pool alone (`ControllerTargets`), so every step of the controller
is a step of `PermitPool` or leaves it alone, with the identity mapping. The pool's theorems follow. The type invariant needs
`TasksBounded`: permits held and ends not yet observed share the driver's tasks.

*Batch delivery.* `DeliveryInv` says that a segment is finalized exactly when its last block has arrived, that a finalized segment was told
succeeded first, and that a review was sent at the end only. It needs nothing of the batching: whatever splits, retries and limits do,
blocks only accumulate and the two places that hand a segment over early test the same condition. A driver step maps to `Arrive`, `Close` or
a stutter.

*Batching.* Lemmas about the planner first. `Arranged` lists the elements of a finite set, each once (`ArrangedHolds`: an
element's place is the number of elements up to it, which is an injection of a finite set into as many places); hence a row can be cut, packed, halved, flattened and repartitioned, and what results still *deals* the
same items: its batches are not empty and hold them, each in one place (`ChunkHolds`, `SplitHolds`, `RepartitionHolds`). `BatchIInv` is then
`Placed` (while requests are made, an item is queued, with one task, or settled, and one of these unless the stop dropped it) and what it needs: `BatchTypeOK`
(no batch is empty, or dispatching it would name no first item), `TasksSane` (an answer speaks of its own batch, a stop seen was a stop, a sleeper nobody woke still
lacks its context) and `Stops`. The arms of the join are reduced to four moves (`JoinMoves`): put the batch or its halves back, give it up, drop
it for a stop, take its blocks. `ItemsConserved` counts what `Placed` says. `Fenced` (an item that is neither queued, in a task nor translated is of a published segment)
gives `FenceFollows`. `Verdicts` and `Told` follow a segment from the aggregation to its report, which with
`SentOnce`, inductive next to `DeliveryInv`, is the only one. `NotStranded` is a pigeonhole and a least element: with a slot for every item, a run left alone joins only with an empty
queue (`JoinFull`: the batches of the tasks are disjoint and not empty), so the task with the first item in flight waits for segments of which nothing is
open, and those have been published (`FirstWaiterReady`); this is where items must follow the segments.

*Requests run out.* What makes `DispatchEnds` true is a variant. `Rank(i)` is what may still be asked of an item that waits or is in flight, in this
order: revisions the sizer has not seen, items it shares a batch with, attempts left (`transient` and `invalid`), compact retries left,
allowances not yet lent. Each mechanism may raise what comes after what it lowers, and nothing else: a split resets the transient count but leaves
fewer peers, an invalid answer sets the compact count but uses an attempt, a compact retry lends the same allowance again, a changed limit repartitions the queue, which
may join batches, but only once per revision. `RequestsRunOut` says that every join which does not settle the items lowers the rank of
each, and no step of anyone raises one. It needs `AskInv`: the sizer is not ahead of the settings, an item in flight keeps no allowance in the ledger
(`DispatchSpends`), and nobody is beyond its limits (`Tolerated`), or a falling rank would have no floor. `AskedStep` goes
through the steps that make requests (`AskingSteps`), `JoinOwnAsked` through the arms of the join. `RanksAreNumbers` gives the ranks their floor, and the lemma `NoRankFallsForever`, a fact
on the order that does not speak of the specification, says that there is no endless fall above it. That an item is asked for finitely often is the conclusion of a reader from the three:
no theorem states it. That the driver and the tasks then get to the end is fairness, and `DispatchEnds`.

*Launch claim.* Three layers. `Structure`: a process has a nonce of its own or its parent's, and two processes share one only while the parent
waits for the child; handing over is the one step that changes two processes, all others keep the nonce, make a fresh one or end (`Moves`).
`HolderOnDisk`: from the acquisition to the end of its custody the file carries the holder's nonce and pid, since whoever touched it would
not share the nonce and would set `exposed`. So two holders are one process, and `NobodyInCharge`: the worker that passed its second check is the
first to write the lease. The two theorems about workers need that the check is made, hence `~Forced`. `ClaimHasCustodian` follows from
`OwnerKeepsClaim` (a live owner is itself a custodian, but for a finished click), which needs `ParkedIsDead`: a claim that is
put back after `remove_if_owned` is of an owner that has died.

*Audio.* `OneOwner` is inductive as it stands (with the domains of the functions). `LiveRunOnRecord` is not: `RecordFollows` says whose nonce is in
the record during a handoff, `StateFollows` what `process.json` says until the adoption, `WaitingIsOnRecord` that a child which may still
adopt the lock is on record, `HandlerFollows` that nobody is watched before it is published. For the manifest `ManifestInv` follows each chunk
through a build: a task that ended is done, failed or cancelled, what is done has its audio stored (`BuildsAreOrdered`), what is asked for
has none, and what nobody has looked at has it exactly if the previous manifest said so (`FilesFollow`, up to the first run that is cut short). That
the manifest a build starts from is still the one on disk when it ends rests on `OneOwner`.

*Quality passes.* `EveryItemIsSettled` speaks of passes that have ended. While one is open, `OnePlace` says that an item is let pass, or
has its one record, or is pending once, or is in exactly one task's chunk, and `TaskSound` that a task has found something of every item of its chunk or has the
item still in its queue, through every split, made-up finding and left-out item. So a join deals with each of its items (`JoinKeeps`, one lemma for the
three kinds of join), and a pass that has joined all tasks has only the pending items open, which `EndPass` records. It rests on facts about
the packing: putting a set in order keeps each item once (`InOrderHolds`), and the chunks of a
sequence hold its items, each once (`ChunkBounds`, `ChunksHold`), where the arithmetic of the chunk bounds is.

*Tasks run out.* `Left(t)` is what a task at work has still to do, in this order: the pairs of items it may ask for together, the way to an answer for
the chunk at the head of its queue, the attempts its call has left, whether the post without a format is still to come, and where in an attempt the
call is. An answer, a refusal and a split each take pairs away: a chunk that is done had at least the pair of an item with itself, and of a chunk in
halves no pair across them is left (`HalvesAreLess`; the items of the queue are in one place each, `Tidy`). Within a chunk a call only gets
further: the fallback post does not use an attempt, but happens once (`CallStepLess`). `WorkInv` has what this rests on: the queues are tidy, a
call belongs to a task that waits for it, and is within its attempts. `TasksRunOut` puts the steps of tasks, calls and the join loop together; new
work comes in a new round only, and there are `Rounds` of these. The order is that of `Ranks` with numbers throughout, so the lemma `NoRankFallsForever` of
`BatchDispatchProofs` carries over, and a reader may conclude that a pass takes finitely many steps of its tasks and calls.

*Settings.* `SettingsInvariant` adds to `AcceptedSettingsStand` that a writer which merges holds the lock and has read everything accepted so far:
nobody else writes meanwhile, and a clear voids what was accepted. `RevisionsInvariant` is a chain: the revision work was last dispatched under is
at most that of the engine's settings, which is at most that of the job's, which is at most the document's. A crash breaks its middle and leaves the
ends; the load before the channels exist joins it again. A merge under way has
read a revision no older than the document's, so the document's revision never falls.

### What is only model-checked

Liveness under fairness (`CorrectionsEnd`, `StopEndsRun`, `StopIsRecorded`, `ResumeCompletesBook`, `ShrinkTakesEffect`, `Recovers`,
`DispatchEnds`, `CancelEndsRun`, `EndsAreSettled`, `SettingsReachWork`, `PassEnds`) and everything that would need `ENABLED` are outside the prover's reach. For `DispatchEnds` and `PassEnds` the variants behind them are proved
(`RequestsRunOut`, `TasksRunOut`), the liveness itself checked.
Which items share a batch is model-checked with the rest; the theorems hold for every way of cutting and say nothing about sizes.
`RunInit` is not `JobStore!Init`: an older build may have left stored translations, so the theorems about
the run start from `RunInit` and its own base case (`RunInitHolds`).

## 7. What is not modelled

* *Findings and retry guidance, the entry of a first translation*: planned (section 2).
* *Which settings can be overridden*, and which a live job refuses: a table of names. What a change of limits does to a run under way is an action of the batch and rate models.
* *Batch rendering and parsing, failure captures, usage records*: a request ends in one of the ways the driver tells apart.
* *Audiobook text planning, speech providers, stitching*: pure functions and I/O; a chunk is spoken or not.
* *Request bodies, usage, prompts, validation rules, glossary proposals*: text in, verdict out. The run and the quality passes take every verdict as possible. Calls outside the quality passes end in the ways their callers tell apart.
* *EPUB reading and writing, PDF conversion*: pure transformations; a book is abstracted to the text of each segment.
* *Glossary, style and entity tables, schema migrations*: single-statement edits by one user, or a linear list of DDL statements in one transaction.
* *Dashboard pages, watch, tail, reports, event log*: readers, except for what is modelled as an action already.
* *Clocks*: staleness, cooldowns and backoff are choices, which covers every timing, including ones a real clock would exclude.
