----------------------------- MODULE Reconfigure -----------------------------
(***************************************************************************)
(* Runtime overrides of one job: `bookforge reconfigure` and the dashboard *)
(* merge settings into overrides.json under a kernel lock                  *)
(* (commands/reconfigure.rs), the watcher of the job's worker reads the    *)
(* document and publishes the settings on two channels before it polls the *)
(* control file (control.rs), the dispatch loop reads a channel after its  *)
(* own control boundary, and a worker that completes the job removes the   *)
(* document without the lock.                                              *)
(*                                                                         *)
(* Settings are told apart by field and value.  Clear and Spoil void what  *)
(* was promised of the document before them.                               *)
(***************************************************************************)
EXTENDS JobControl, Integers, FiniteSets

CONSTANTS
    Writers,      \* processes that reconfigure the job
    Fields,       \* settings that can be overridden
    Values,
    Unset,        \* no override of a field
    NoWriter,
    Legacy,       \* bound: settings a document of an older build may carry
    MaxChanges,   \* bound: settings one writer changes
    MaxRevision   \* bound: revisions of one document

ASSUME SettingsAssumption ==
    /\ Unset \notin Values /\ NoWriter \notin Writers /\ Legacy \subseteq Fields
    /\ MaxChanges \in Nat /\ MaxRevision \in Nat

VARIABLES
    document,  \* overrides.json: "missing", "garbled" or "present", and what it says
    lock,      \* who holds the kernel lock on overrides.lock
    edit,      \* each writer: where it is, what it was asked, what it read
    worker,    \* where the worker is, its settings and its two channels
    watch,     \* where the watcher thread is in its tick
    accepted,  \* history: the last value written to each field
    promised,  \* history: the revision of the document at the last resume of a paused run
    spent      \* history: the highest revision work was dispatched under

settingsVars == <<document, lock, edit>>
historyVars  == <<accepted, promised, spent>>
reconfVars   == <<vars, controlVars, settingsVars, worker, watch, historyVars>>

-----------------------------------------------------------------------------
Overrides == [Fields -> Values \cup {Unset}]
Nothing   == [f \in Fields |-> Unset]
Revised   == [rev : 0 .. MaxRevision, set : Overrides]
Missing   == [is |-> "missing", rev |-> 0, set |-> Nothing]

SettingsTypeOK ==
    /\ document \in [is : {"missing", "garbled", "present"}, rev : 0 .. MaxRevision, set : Overrides]
    /\ document.is # "present" => document.rev = 0
    /\ lock \in Writers \cup {NoWriter}
    /\ edit \in [Writers -> [pc : {"away", "waiting", "merging"}, want : Overrides, found : Revised]]

WorkerTypeOK ==
    /\ worker \in [pc : {"down", "own", "spawn", "start", "dispatch", "finish", "clear", "leave"},
                   launch : JobStatus, base : Overrides, seen : {-1} \cup 0 .. MaxRevision,
                   runtime : Revised, engine : Revised]
    /\ watch \in {"off", "load", "send", "poll", "record"}

ReconfTypeOK ==
    /\ TypeOK /\ ControlTypeOK /\ SettingsTypeOK /\ WorkerTypeOK
    /\ accepted \in Overrides
    /\ promised \in 0 .. MaxRevision /\ spent \in 0 .. MaxRevision

\* RunConfigOverrides::merge.
Merge(new, old) == [f \in Fields |-> IF new[f] # Unset THEN new[f] ELSE old[f]]

Changed(overrides) == {f \in Fields : overrides[f] # Unset}

Blank == [rev |-> 0, set |-> Nothing]
Idle  == [pc |-> "away", want |-> Nothing, found |-> Blank]
Gone  == [pc |-> "down", launch |-> "running", base |-> Nothing, seen |-> -1,
          runtime |-> Blank, engine |-> Blank]

\* No document, or the flat one of an older build, which loads as revision 0.
ReconfInit ==
    /\ Init /\ ControlInit
    /\ \/ document = Missing
       \/ \E old \in Overrides :
             /\ Changed(old) \subseteq Legacy
             /\ document = [is |-> "present", rev |-> 0, set |-> old]
    /\ lock = NoWriter /\ edit = [w \in Writers |-> Idle]
    /\ worker = Gone /\ watch = "off"
    /\ accepted = Nothing /\ promised = 0 /\ spent = 0

-----------------------------------------------------------------------------
(* A writer.                                                               *)

Edit(w, state) == edit' = [edit EXCEPT ![w] = state]

\* The status is checked once, before the lock is taken.
Ask(w) ==
    /\ edit[w].pc = "away" /\ job \in {"running", "paused", "stopped"}
    /\ \E want \in Overrides \ {Nothing} :
          /\ Cardinality(Changed(want)) =< MaxChanges
          /\ Edit(w, [Idle EXCEPT !.pc = "waiting", !.want = want])
    /\ UNCHANGED <<vars, controlVars, document, lock, worker, watch, historyVars>>

\* What a writer makes of the document: one it cannot read counts as an empty
\* one of revision 0.
Existing == IF document.is = "present" THEN [rev |-> document.rev, set |-> document.set] ELSE Blank

\* The lock is held from before the read to after the write.  The mutant does
\* not wait for the other holder.
ReadDocument_Anyway(w) ==
    /\ edit[w].pc = "waiting"
    /\ lock' = w
    /\ Edit(w, [edit[w] EXCEPT !.pc = "merging", !.found = Existing])
    /\ UNCHANGED <<vars, controlVars, document, worker, watch, historyVars>>

ReadDocument(w) ==
    /\ edit[w].pc = "waiting" /\ lock = NoWriter
    /\ lock' = w
    /\ Edit(w, [edit[w] EXCEPT !.pc = "merging", !.found = Existing])
    /\ UNCHANGED <<vars, controlVars, document, worker, watch, historyVars>>

WriteDocument(w) ==
    /\ edit[w].pc = "merging" /\ edit[w].found.rev < MaxRevision
    /\ document' = [is |-> "present", rev |-> edit[w].found.rev + 1,
                    set |-> Merge(edit[w].want, edit[w].found.set)]
    /\ accepted' = Merge(edit[w].want, accepted)
    /\ lock' = NoWriter /\ Edit(w, Idle)
    /\ UNCHANGED <<vars, controlVars, worker, watch, promised, spent>>

\* The wait for the lock times out, a step fails, or the writer dies; the
\* kernel lets go of its lock.
GiveUp(w) ==
    /\ edit[w].pc # "away"
    /\ lock' = IF edit[w].pc = "waiting" THEN lock ELSE NoWriter
    /\ Edit(w, Idle)
    /\ UNCHANGED <<vars, controlVars, document, worker, watch, historyVars>>

\* Somebody leaves a document behind that does not parse.
Spoil ==
    /\ document' = [Missing EXCEPT !.is = "garbled"]
    /\ accepted' = Nothing /\ promised' = 0 /\ spent' = 0
    /\ UNCHANGED <<vars, controlVars, lock, edit, worker, watch>>

-----------------------------------------------------------------------------
(* The worker, from its launch to its end.                                 *)

At(pc) == worker.pc = pc

\* Statuses whose resume takes the overrides into its own settings.
Overridable == {"paused", "stopped", "interrupted", "retry_pending", "needs_review", "failed"}

Launch ==
    /\ At("down") /\ JobExists
    /\ job \in Overridable => document.is # "garbled"
    /\ worker' = [Gone EXCEPT !.pc = "own", !.launch = job,
                     !.base = IF job \in Overridable THEN document.set ELSE Nothing]
    /\ rewritten' = FALSE /\ signal' = "running" /\ aborted' = FALSE
    /\ poll' = [poll EXCEPT !["worker"] = "idle"]
    /\ promised' = 0
    /\ UNCHANGED <<vars, control, settingsVars, watch, accepted, spent>>

Own ==
    /\ At("own")
    /\ control' = IF rewritten THEN control ELSE "run"
    /\ IF worker.launch \in Held THEN MarkJobRunningForResume ELSE UNCHANGED vars
    /\ worker' = [worker EXCEPT !.pc = "spawn", !.launch = "running"]
    /\ UNCHANGED <<rewritten, signal, aborted, poll, settingsVars, watch, historyVars>>

\* What the document makes of the worker's own settings.
Effective == [rev |-> document.rev, set |-> Merge(document.set, worker.base)]
Baseline  == [rev |-> 0, set |-> worker.base]

\* The document is read before the channels exist.  The mutant leaves it to
\* the first tick.
SpawnWatcher_Unread ==
    /\ At("spawn")
    /\ worker' = [worker EXCEPT !.pc = "start", !.seen = -1, !.runtime = Baseline, !.engine = Baseline]
    /\ watch' = "load"
    /\ poll' = [poll EXCEPT !["watcher"] = "idle"]
    /\ UNCHANGED <<vars, control, rewritten, signal, aborted, settingsVars, historyVars>>

SpawnWatcher ==
    /\ At("spawn")
    /\ worker' = IF document.is = "present"
                 THEN [worker EXCEPT !.pc = "start", !.seen = document.rev,
                                     !.runtime = Effective, !.engine = Effective]
                 ELSE [worker EXCEPT !.pc = "start", !.runtime = Baseline, !.engine = Baseline]
    /\ watch' = "load"
    /\ poll' = [poll EXCEPT !["watcher"] = "idle"]
    /\ UNCHANGED <<vars, control, rewritten, signal, aborted, settingsVars, historyVars>>

Start ==
    /\ At("start")
    /\ MarkJob("running")
    /\ worker' = [worker EXCEPT !.pc = "dispatch"]
    /\ UNCHANGED <<controlVars, settingsVars, watch, historyVars>>

BoundaryPoll ==
    /\ At("dispatch")
    /\ Poll("worker", FALSE) \/ RecordPoll("worker")
    /\ UNCHANGED <<settingsVars, worker, watch, historyVars>>

\* The settings are read after the control boundary.
Dispatch ==
    /\ At("dispatch") /\ poll["worker"] = "polled" /\ signal = "running"
    /\ spent' = IF worker.engine.rev > spent THEN worker.engine.rev ELSE spent
    /\ PollTo("worker", "idle")
    /\ UNCHANGED <<vars, control, rewritten, signal, aborted, settingsVars, worker, watch,
                   accepted, promised>>

\* A paused loop polls again; a stopped one leaves; one with no work left goes
\* on to finish.
Boundary ==
    /\ At("dispatch") /\ poll["worker"] = "polled"
    /\ worker' = [worker EXCEPT !.pc = CASE signal = "paused"  -> "dispatch"
                                         [] signal = "stopped" -> "leave"
                                         [] signal = "running" -> "finish"]
    /\ PollTo("worker", "idle")
    /\ UNCHANGED <<vars, control, rewritten, signal, aborted, settingsVars, watch, historyVars>>

\* mark_job_finished; or validation fails, or an error ends the run, and the
\* document stays.
Finish ==
    /\ At("finish")
    /\ \/ /\ MarkJob("succeeded") \/ MarkJob("needs_review")
          /\ worker' = [worker EXCEPT !.pc = IF job = "stopped" THEN "leave" ELSE "clear"]
       \/ /\ MarkJob("failed") \/ UNCHANGED vars
          /\ worker' = [worker EXCEPT !.pc = "leave"]
    /\ UNCHANGED <<controlVars, settingsVars, watch, historyVars>>

\* clear_overrides_for_job takes no lock.
Clear ==
    /\ At("clear")
    /\ document' = Missing
    /\ accepted' = Nothing /\ promised' = 0 /\ spent' = 0
    /\ worker' = [worker EXCEPT !.pc = "leave"]
    /\ UNCHANGED <<vars, controlVars, lock, edit, watch>>

Down ==
    /\ worker' = Gone /\ watch' = "off"
    /\ poll' = [p \in Pollers |-> "off"]
    /\ UNCHANGED <<control, rewritten, signal, aborted, settingsVars, historyVars>>

\* Dropping the watcher joins its thread, which sees the token after a tick;
\* then a failure or an interrupt is recorded.
Leave ==
    /\ At("leave") /\ watch = "off"
    /\ \/ UNCHANGED vars
       \/ job = "running" /\ MarkJob("failed")
       \/ job \in {"running", "retry_pending", "interrupted"} /\ MarkJob("interrupted")
    /\ Down

Crash == ~At("down") /\ Down /\ UNCHANGED vars

-----------------------------------------------------------------------------
(* A tick of the watcher.                                                  *)

\* The mutant reads the document once.
Load_Once ==
    /\ watch = "load"
    /\ IF document.is = "present" /\ worker.seen = -1
       THEN /\ worker' = [worker EXCEPT !.seen = document.rev, !.runtime = Effective]
            /\ watch' = "send"
       ELSE watch' = "poll" /\ UNCHANGED worker
    /\ UNCHANGED <<vars, controlVars, settingsVars, historyVars>>

\* A revision other than the last one replaces the settings of the job; a
\* document that cannot be read leaves them alone.
Load ==
    /\ watch = "load"
    /\ IF document.is = "present" /\ worker.seen # document.rev
       THEN /\ worker' = [worker EXCEPT !.seen = document.rev, !.runtime = Effective]
            /\ watch' = "send"
       ELSE watch' = "poll" /\ UNCHANGED worker
    /\ UNCHANGED <<vars, controlVars, settingsVars, historyVars>>

\* Then those of the engine.
Send ==
    /\ watch = "send"
    /\ worker' = [worker EXCEPT !.engine = worker.runtime]
    /\ watch' = "poll"
    /\ UNCHANGED <<vars, controlVars, settingsVars, historyVars>>

WatcherPoll ==
    /\ \/ watch = "poll" /\ Poll("watcher", TRUE)
       \/ watch = "record" /\ RecordPoll("watcher")
    /\ watch' = CASE poll'["watcher"] # "idle" -> "record"
                  [] At("leave") -> "off"
                  [] OTHER -> "load"
    /\ UNCHANGED <<settingsVars, worker, historyVars>>

UserCommand ==
    /\ \E c \in Commands :
          /\ Command(c)
          /\ promised' = IF c = "resume" /\ signal = "paused" THEN document.rev ELSE promised
    /\ UNCHANGED <<settingsVars, worker, watch, accepted, spent>>

-----------------------------------------------------------------------------
WriterStep(w) == Ask(w) \/ ReadDocument(w) \/ WriteDocument(w) \/ GiveUp(w)
WatcherStep   == Load \/ Send \/ WatcherPoll
WorkerStep    ==
    Own \/ SpawnWatcher \/ Start \/ BoundaryPoll \/ Dispatch \/ Boundary \/ Finish \/ Clear \/ Leave

ReconfNext ==
    \/ \E w \in Writers : WriterStep(w)
    \/ WatcherStep \/ WorkerStep
    \/ Launch \/ Crash \/ UserCommand

ReconfSpec == ReconfInit /\ [][ReconfNext]_reconfVars

\* The watcher's thread ticks, and the worker's loop runs.
Fairness       == WF_reconfVars(WatcherStep) /\ WF_reconfVars(WorkerStep)
FairReconfSpec == ReconfSpec /\ Fairness

\* The document may also be spoilt, at any time.
SpoiltSpec     == ReconfInit /\ [][ReconfNext \/ Spoil]_reconfVars
FairSpoiltSpec == SpoiltSpec /\ Fairness

-----------------------------------------------------------------------------
(* Properties.                                                             *)

\* No accepted setting is lost: whatever other writers merge meanwhile, fail
\* or die at, the document carries the last value written to each field, until
\* the job completes (write_merged_overrides_at_path and its lock).
AcceptedSettingsStand ==
    \A f \in Fields : accepted[f] # Unset => document.is = "present" /\ document.set[f] = accepted[f]

\* Work is never dispatched under an older revision than work before it, over
\* pauses, crashes and relaunches of the job (spawn_inner loads the document
\* before it returns the channels; the watcher follows the revisions).
WorkFollowsRevisions == At("dispatch") => worker.engine.rev >= spent

\* A live worker keeps catching up with the document: again and again both
\* channels carry exactly what the document makes of the worker's settings,
\* unless the worker ends.
SettingsReachWork ==
    []<>(\/ watch = "off" \/ document.is # "present"
         \/ worker.engine = Effective /\ worker.runtime = Effective)

\* A resume never releases work under the settings from before the pause
\* (comment at scheduler.rs:640): the work dispatched after it has at least the
\* revision the document had when the user gave the command.
ResumeReleasesNewSettings == [][Dispatch => worker.engine.rev >= promised]_reconfVars

\* Once the job has completed, no setting from before comes back
\* (clear_overrides_for_job).
ClearedSettingsStayCleared ==
    document.is = "present" /\ document.rev > 0 => document.set = accepted
=============================================================================
