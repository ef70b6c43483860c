----------------------------- MODULE AudioOutput ----------------------------
(***************************************************************************)
(* The dashboard's audiobook operations on one output directory            *)
(* (bookforge-cli/src/commands/serve/audio.rs): the launch, the retries of *)
(* failed chunks, the pruning, the cancellation, and the watcher that      *)
(* folds the end of a child into process.json.  A handler takes the        *)
(* directory's lock, writes the child's nonce into the record, spawns the  *)
(* child, publishes `running` and lets the lock go for the child to adopt. *)
(*                                                                         *)
(* A pid is the child's name: pids are not reused.  A dashboard may be     *)
(* restarted: its handlers, watchers and tokens are gone, its locks are    *)
(* released by the kernel, and its children live on.                       *)
(***************************************************************************)
EXTENDS AudioBuild

CONSTANT MaxRestarts

VARIABLES
    process,     \* process.json: status and pid
    handler,     \* child -> progress of the request that spawns it
    watcher,     \* child -> progress of its watcher
    token,       \* child whose cancellation token is registered, or NoRun
    clicked,     \* children whose token is cancelled
    marker,      \* the cancellation marker file exists
    clerk,       \* a prune request, or its preview
    canceller,   \* pid a Cancel without a token has read, or NoRun
    restarts

deskVars  == <<process, handler, watcher, token, clicked, marker, clerk, canceller, restarts>>
audioVars == <<lock, record, phase, manifest, files, build, aborted, process, handler, watcher,
               token, clicked, marker, clerk, canceller, restarts>>

Unfinished == {"starting", "running"}
Verdicts   == {"succeeded", "failed", "cancelled"}
Holding    == {"locked", "prepared", "spawned", "published", "registered"}
First      == Children \ Retries

AudioTypeOK ==
    /\ lock \in {"nobody", "parent", "run", "clerk"} /\ record \in Children \cup {NoRun}
    /\ phase \in [Runs -> Phases]
    /\ manifest \in [Chunks -> Statuses] /\ files \subseteq Chunks
    /\ build \in [Runs -> [previous : [Chunks -> Statuses], task : [Chunks -> Tasks],
                           outcomes : Seq(Chunks), joined : SUBSET Chunks,
                           unsaved : Nat, stopping : BOOLEAN]]
    /\ aborted \in BOOLEAN
    /\ process \in [status : {"absent"} \cup Unfinished \cup Verdicts, pid : Children \cup {NoRun}]
    /\ handler \in [Children -> {"idle", "over"} \cup Holding]
    /\ watcher \in [Children -> {"none", "watching", "cancelling", "settled", "unwritten", "done"}
                                \cup Verdicts]
    /\ token \in Children \cup {NoRun} /\ clicked \subseteq Children
    /\ marker \in BOOLEAN /\ clerk \in {"away", "looking", "deleting"}
    /\ canceller \in Children \cup {NoRun} /\ restarts \in 0 .. MaxRestarts

AudioInit ==
    /\ BuildInit
    /\ process = [status |-> "absent", pid |-> NoRun]
    /\ handler = [r \in Children |-> "idle"]
    /\ watcher = [r \in Children |-> "none"]
    /\ token = NoRun /\ clicked = {} /\ marker = FALSE
    /\ clerk = "away" /\ canceller = NoRun /\ restarts = 0

-----------------------------------------------------------------------------
(* Spawning a child.                                                       *)

Step(r, from, to) == handler[r] = from /\ handler' = [handler EXCEPT ![r] = to]

Lock(r) ==
    /\ Step(r, "idle", "locked")
    /\ r \in First <=> process.status = "absent"
    /\ Claim("parent", NoRun)
    /\ UNCHANGED <<phase, manifest, files, build, aborted, process, watcher, token, clicked, marker,
                   clerk, canceller, restarts>>

\* A launch writes `starting`; a retry checks that the last run is over and
\* left failures, and clears the marker of an interrupted cancellation.
Prepare(r) ==
    /\ Step(r, "locked", "prepared")
    /\ IF r \in Retries
       THEN /\ process.status \notin Unfinished /\ FailedIn(manifest) # {}
            /\ marker' = FALSE /\ UNCHANGED process
       ELSE process' = [status |-> "starting", pid |-> NoRun] /\ UNCHANGED marker
    /\ UNCHANGED <<buildVars, watcher, token, clicked, clerk, canceller, restarts>>

\* A refusal, or an error before there is a child (a nonce that cannot be
\* written is published as a failure).  A launch that fails takes its
\* directory with it.
RefuseRequest(r) ==
    /\ handler[r] \in {"locked", "prepared"}
    /\ handler' = [handler EXCEPT ![r] = IF r \in Retries THEN "idle" ELSE "over"]
    /\ lock' = "nobody"
    /\ IF r \in Retries THEN process' \in {process, [status |-> "failed", pid |-> NoRun]}
                        ELSE process' = [status |-> "absent", pid |-> NoRun]
    /\ UNCHANGED <<record, phase, manifest, files, build, aborted, watcher, token, clicked, marker,
                   clerk, canceller, restarts>>

HandOff(r) ==
    /\ Step(r, "prepared", "spawned")
    /\ record' = r /\ phase' = [phase EXCEPT ![r] = "waiting"]
    /\ UNCHANGED <<lock, manifest, files, build, aborted, process, watcher, token, clicked, marker,
                   clerk, canceller, restarts>>

\* Defect: the pid is asked for too late.
Publish_NoPid(r) ==
    /\ Step(r, "spawned", "published")
    /\ process' = [status |-> "running", pid |-> NoRun]
    /\ UNCHANGED <<buildVars, watcher, token, clicked, marker, clerk, canceller, restarts>>

Publish(r) ==
    /\ Step(r, "spawned", "published")
    /\ process' = [status |-> "running", pid |-> r]
    /\ UNCHANGED <<buildVars, watcher, token, clicked, marker, clerk, canceller, restarts>>

\* `running` could not be written: the child is killed, and the failure is
\* written if it can be.
FailToPublish(r) ==
    /\ Step(r, "spawned", "over")
    /\ phase' = [phase EXCEPT ![r] = "failed"] /\ lock' = "nobody"
    /\ process' \in {process, [status |-> "failed", pid |-> r]}
    /\ UNCHANGED <<record, manifest, files, build, aborted, watcher, token, clicked, marker, clerk,
                   canceller, restarts>>

Register(r) ==
    /\ Step(r, "published", "registered")
    /\ token' = r /\ watcher' = [watcher EXCEPT ![r] = "watching"]
    /\ UNCHANGED <<buildVars, process, clicked, marker, clerk, canceller, restarts>>

Unlock(r) ==
    /\ Step(r, "registered", "over")
    /\ lock' = "nobody"
    /\ UNCHANGED <<record, phase, manifest, files, build, aborted, process, watcher, token, clicked,
                   marker, clerk, canceller, restarts>>

-----------------------------------------------------------------------------
(* The watcher of a child.                                                 *)

Watch(r, from, to) == watcher[r] = from /\ watcher' = [watcher EXCEPT ![r] = to]

\* Defect: a failed child is taken for one that is still to be waited for.
SeeExit_Success(r) ==
    /\ phase[r] = "ok" /\ Watch(r, "watching", "succeeded")
    /\ UNCHANGED <<buildVars, process, handler, token, clicked, marker, clerk, canceller, restarts>>

SeeExit(r) ==
    /\ phase[r] \in Gone
    /\ Watch(r, "watching", IF phase[r] = "ok" THEN "succeeded" ELSE "failed")
    /\ UNCHANGED <<buildVars, process, handler, token, clicked, marker, clerk, canceller, restarts>>

SeeCancel(r) ==
    /\ r \in clicked /\ Watch(r, "watching", "cancelling")
    /\ marker' = TRUE
    /\ UNCHANGED <<buildVars, process, handler, token, clicked, clerk, canceller, restarts>>

\* Defect: the watcher waits for the child for as long as it takes.
ForceStop_Never(r) == FALSE /\ Die(r) /\ UNCHANGED deskVars

\* AUDIO_CANCEL_GRACE passed.
ForceStop(r) ==
    /\ watcher[r] = "cancelling" /\ Die(r)
    /\ UNCHANGED deskVars

SeeCancelled(r) ==
    /\ phase[r] \in Gone /\ Watch(r, "cancelling", "cancelled")
    /\ marker' = FALSE
    /\ UNCHANGED <<buildVars, process, handler, token, clicked, clerk, canceller, restarts>>

\* The terminal state is written under the lock, and only while the record
\* and the state are this child's; it is dropped if the lock is held.
Addressed(r) == lock = "nobody" /\ record = r /\ process.pid = r

Settle(r) ==
    /\ watcher[r] \in Verdicts
    /\ process' = IF Addressed(r) THEN [process EXCEPT !.status = watcher[r]] ELSE process
    /\ watcher' = [watcher EXCEPT ![r] = "settled"]
    /\ UNCHANGED <<buildVars, handler, token, clicked, marker, clerk, canceller, restarts>>

\* The lock file cannot be opened or the state not written: the error is dropped.
SettleFails(r) ==
    /\ watcher[r] \in Verdicts
    /\ watcher' = [watcher EXCEPT ![r] = "unwritten"]
    /\ UNCHANGED <<buildVars, process, handler, token, clicked, marker, clerk, canceller, restarts>>

\* The registry is keyed by the operation: whichever token is there goes.
Unregister(r) ==
    /\ watcher[r] \in {"settled", "unwritten"} /\ watcher' = [watcher EXCEPT ![r] = "done"]
    /\ token' = NoRun
    /\ UNCHANGED <<buildVars, process, handler, clicked, marker, clerk, canceller, restarts>>

-----------------------------------------------------------------------------
(* Cancel, prune, restart.                                                 *)

Cancel ==
    /\ token # NoRun /\ clicked' = clicked \cup {token}
    /\ UNCHANGED <<buildVars, process, handler, watcher, token, marker, clerk, canceller, restarts>>

\* Without a token the state file says which process there was ...
CancelLook ==
    /\ token = NoRun /\ canceller = NoRun /\ process.status \in Unfinished
    /\ canceller' = process.pid
    /\ UNCHANGED <<buildVars, process, handler, watcher, token, clicked, marker, clerk, restarts>>

\* ... and a free lock says that it is gone.
CancelSettle ==
    /\ canceller # NoRun /\ canceller' = NoRun
    /\ process' = IF lock = "nobody" /\ process.pid = canceller
                  THEN [process EXCEPT !.status = "cancelled"] ELSE process
    /\ UNCHANGED <<buildVars, handler, watcher, token, clicked, marker, clerk, restarts>>

ClerkLock ==
    /\ clerk = "away" /\ process.status # "absent" /\ Claim("clerk", NoRun) /\ clerk' = "looking"
    /\ UNCHANGED <<phase, manifest, files, build, aborted, process, handler, watcher, token, clicked,
                   marker, canceller, restarts>>

\* Pruning keeps every file the manifest names: the plan's cache files stay.
ClerkScan ==
    /\ clerk = "looking" /\ process.status \notin Unfinished
    /\ clerk' = "deleting"
    /\ UNCHANGED <<buildVars, process, handler, watcher, token, clicked, marker, canceller, restarts>>

\* A preview and a refusal end without deleting.
ClerkLeave ==
    /\ clerk # "away" /\ clerk' = "away" /\ lock' = "nobody"
    /\ UNCHANGED <<record, phase, manifest, files, build, aborted, process, handler, watcher, token,
                   clicked, marker, canceller, restarts>>

Restart ==
    /\ restarts < MaxRestarts /\ restarts' = restarts + 1
    /\ handler' = [r \in Children |-> IF handler[r] \in Holding THEN "over" ELSE handler[r]]
    /\ watcher' = [r \in Children |-> "none"]
    /\ token' = NoRun /\ clicked' = {} /\ clerk' = "away" /\ canceller' = NoRun
    /\ lock' = IF lock \in {"parent", "clerk"} THEN "nobody" ELSE lock
    /\ UNCHANGED <<record, phase, manifest, files, build, aborted, process, marker>>

-----------------------------------------------------------------------------

\* The marker is polled by the children only.
SeeMarker(b) == b \in Children /\ marker /\ Stop(b) /\ UNCHANGED deskVars

Request(r) ==
    \/ Lock(r) \/ Prepare(r) \/ RefuseRequest(r) \/ HandOff(r) \/ Publish(r) \/ FailToPublish(r)
    \/ Register(r) \/ Unlock(r)

Watching(r) ==
    \/ SeeExit(r) \/ SeeCancel(r) \/ ForceStop(r) \/ SeeCancelled(r)
    \/ Settle(r) \/ SettleFails(r) \/ Unregister(r)

Clerking == ClerkScan \/ ClerkLeave

AudioNext ==
    \/ \E b \in Runs : (Process(b) \/ Shell(b) \/ Die(b)) /\ UNCHANGED deskVars
    \/ \E b \in Runs : SeeMarker(b)
    \/ \E r \in Children : Request(r) \/ Watching(r)
    \/ Cancel \/ CancelLook \/ CancelSettle
    \/ ClerkLock \/ Clerking \/ Restart

AudioSpec == AudioInit /\ [][AudioNext]_audioVars

\* The dashboard's tasks and the children's lock waits go on; a child may be
\* slow for ever (a provider that does not answer) and nobody need click.
FairAudioSpec ==
    /\ AudioSpec
    /\ \A r \in Children :
        /\ WF_audioVars(Watching(r))
        /\ WF_audioVars(Unlock(r))
        /\ WF_audioVars((Adopt(r) \/ GiveUpWaiting(r)) /\ UNCHANGED deskVars)
    /\ WF_audioVars(Clerking)

-----------------------------------------------------------------------------
(* Correctness.                                                            *)

\* The directory has one owner at a time, across the handoff from a handler
\* to its child: a run, a handler or a prune, and the kernel lock is its own.
\* No two runs pay at a time, and nothing is pruned under a run.
OneOwner ==
    /\ \A b \in Runs : phase[b] \in Live =>
         lock = "run" /\ \A c \in Runs : phase[c] \in Live => b = c
    /\ \A r \in Children : handler[r] \in Holding =>
         lock = "parent" /\ \A q \in Children : handler[q] \in Holding => q = r
    /\ clerk # "away" => lock = "clerk"

\* process.json tells of the run that is live, and not that it has ended, as
\* long as its dashboard lives; only a Cancel that finds no token and a free
\* lock, before the child has adopted it, may have written `cancelled`.
LiveRunOnRecord ==
    \A r \in Children : phase[r] \in Live /\ watcher[r] \in {"watching", "cancelling"} =>
        process.pid = r /\ process.status \in {"running", "cancelled"}

\* When no run is at work the manifest names no audio that is not there, and
\* names all that is, unless a run was killed or cancelled.
QuietManifestIsExact ==
    (\A b \in Runs : phase[b] # "building") =>
        /\ DoneIn(manifest) \subseteq files
        /\ ~aborted => files \subseteq DoneIn(manifest)

\* A chunk whose audio is there is never paid for again, by a retry or by a
\* rerun, unless a run was killed or cancelled.
NothingPaidAgain ==
    ~aborted => \A b \in Runs, c \in Chunks : build[b].task[c] = "asked" => c \notin files

\* A Cancel that reached a child's token ends the child, whether or not it
\* waits for the lock, listens, or hangs.
CancelEndsRun ==
    \A r \in Children :
        r \in clicked /\ watcher[r] = "watching" ~> phase[r] \in Gone \/ r \notin clicked

\* A child that has ended, while the record is still its own and the lock is
\* free, is settled in process.json, unless somebody takes the lock over it,
\* the state cannot be written or the dashboard is restarted.
EndsAreSettled ==
    \A r \in Children :
        watcher[r] = "watching" /\ phase[r] \in Gone /\ lock = "nobody" /\ record = r /\ process.pid = r
            ~> process.status \notin Unfinished \/ record # r
               \/ watcher[r] \in {"unwritten", "none"}

-----------------------------------------------------------------------------
(* What the code's documents say and the code does not keep.               *)

\* "Previously successful chunks are validated but can never call the provider
\* in this mode" (commands/audiobook.rs:219): a retry asks for no chunk whose
\* audio is there.
RetrySparesSuccesses ==
    \A r \in Retries, c \in Chunks : build[r].task[c] = "asked" => c \notin files

\* "watch it to completion, durably folding its terminal state back into
\* process.json" (serve/audio.rs:1648): a watched child that has ended does not
\* stay `running`.
EndedRunIsSettled ==
    \A r \in Children :
        watcher[r] = "watching" /\ phase[r] \in Gone ~> process.pid # r \/ process.status \notin Unfinished

\* "Shared by the launch and retry-failed endpoints so both children are
\* cancellable identically" (serve/audio.rs:1649).
LiveRunIsCancellable ==
    \A r \in Children : phase[r] \in Live /\ watcher[r] = "watching" => token = r

=============================================================================
