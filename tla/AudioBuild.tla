----------------------------- MODULE AudioBuild -----------------------------
(***************************************************************************)
(* One `bookforge audiobook` process in an output directory: it takes the  *)
(* directory's lock (bookforge-audio/src/lock.rs), speaks the chunks of    *)
(* the book and keeps the manifest (builder.rs), and leaves.               *)
(*                                                                         *)
(* All runs in one directory have the same plan, so a cache file belongs   *)
(* to a chunk and `files` holds the chunks whose file is valid.  The       *)
(* kernel lock says only what kind of owner has it; the record inside the  *)
(* lock file outlives its owner.                                           *)
(***************************************************************************)
EXTENDS Naturals, Sequences, FiniteSets

CONSTANTS
    Chunks,               \* the chunks of the plan
    Children,             \* runs the dashboard spawns with a nonce of their own
    Direct,               \* runs started in a shell
    Retries,              \* children started with --retry-failed
    CheckpointInterval,   \* MANIFEST_CHECKPOINT_INTERVAL
    Concurrency,          \* calls to the provider at a time
    NoRun

Runs == Children \cup Direct

ASSUME AudioAssumption ==
    /\ Retries \subseteq Children /\ Children \cap Direct = {}
    /\ NoRun \notin Children \cup Direct
    /\ CheckpointInterval \in Nat /\ Concurrency \in Nat

VARIABLES
    lock,       \* kind of owner the kernel lock has
    record,     \* child whose nonce the owner record carries; NoRun: another nonce
    phase,      \* of each process
    manifest,   \* the manifest on disk: chunk -> status
    files,      \* chunks with a valid cache file
    build,      \* what each building process holds in memory
    aborted     \* some build ended before its plan did

buildVars == <<lock, record, phase, manifest, files, build, aborted>>

Statuses  == {"none", "pending", "done", "failed"}     \* "none": there is no manifest
Tasks     == {"todo", "asked", "done", "failed", "cancelled"}
Gone      == {"ok", "failed"}
Live      == {"preflight", "building", "stitching"}
Phases    == {"none", "waiting"} \cup Live \cup Gone

Fresh(old) == [previous |-> old, task |-> [c \in Chunks |-> "todo"], outcomes |-> <<>>,
               joined |-> {}, unsaved |-> 0, stopping |-> FALSE]
NoManifest == [c \in Chunks |-> "none"]
Idle       == Fresh(NoManifest)

BuildInit ==
    /\ lock = "nobody" /\ record = NoRun
    /\ phase = [b \in Runs |-> "none"]
    /\ manifest = NoManifest /\ files = {}
    /\ build = [b \in Runs |-> Idle]
    /\ aborted = FALSE

-----------------------------------------------------------------------------
(* The lock.                                                               *)

Claim(owner, nonce) == lock = "nobody" /\ lock' = owner /\ record' = nonce

\* A run started in a shell fails at once when the lock is held.
TakeDirectly(b) ==
    /\ b \in Direct /\ phase[b] = "none"
    /\ Claim("run", NoRun)
    /\ phase' = [phase EXCEPT ![b] = "preflight"]
    /\ UNCHANGED <<manifest, files, build, aborted>>

\* A child waits for its parent and adopts the lock only if it is addressed.
Adopt(b) ==
    /\ phase[b] = "waiting" /\ lock = "nobody"
    /\ \/ record = b /\ Claim("run", b) /\ phase' = [phase EXCEPT ![b] = "preflight"]
       \/ record # b /\ phase' = [phase EXCEPT ![b] = "failed"] /\ UNCHANGED <<lock, record>>
    /\ UNCHANGED <<manifest, files, build, aborted>>

\* Defect: the wait is over and the child goes on.
GiveUpWaiting_GoesOn(b) ==
    /\ phase[b] = "waiting" /\ lock # "nobody"
    /\ phase' = [phase EXCEPT ![b] = "preflight"]
    /\ UNCHANGED <<lock, record, manifest, files, build, aborted>>

\* HANDOFF_WAIT passed.
GiveUpWaiting(b) ==
    /\ phase[b] = "waiting" /\ lock # "nobody"
    /\ phase' = [phase EXCEPT ![b] = "failed"]
    /\ UNCHANGED <<lock, record, manifest, files, build, aborted>>

\* The process ends, and with it its hold on the lock.
Leave(b, verdict) ==
    /\ phase' = [phase EXCEPT ![b] = verdict]
    /\ lock' = IF phase[b] \in Live THEN "nobody" ELSE lock
    /\ build' = [build EXCEPT ![b] = Idle]

\* A crash or a kill, at any time.
Die(b) ==
    /\ phase[b] \in {"waiting"} \cup Live
    /\ Leave(b, "failed")
    /\ aborted' = (aborted \/ phase[b] = "building")
    /\ UNCHANGED <<record, manifest, files>>

-----------------------------------------------------------------------------
(* Building: one task per chunk, joined in the order they end.             *)

FailedIn(m) == {c \in Chunks : m[c] = "failed"}
DoneIn(m)   == {c \in Chunks : m[c] = "done"}

\* The new manifest starts with every chunk pending.
Begin(b) ==
    /\ phase[b] = "preflight"
    /\ b \in Retries => FailedIn(manifest) # {}
    /\ phase' = [phase EXCEPT ![b] = "building"]
    /\ build' = [build EXCEPT ![b] = Fresh(manifest)]
    /\ manifest' = [c \in Chunks |-> "pending"]
    /\ UNCHANGED <<lock, record, files, aborted>>

\* Nothing to retry, no key, no quota, a cancellation: nothing was written.
Decline(b) ==
    /\ phase[b] = "preflight"
    /\ Leave(b, "failed")
    /\ UNCHANGED <<record, manifest, files, aborted>>

Stop(b) ==
    /\ phase[b] = "building" /\ ~build[b].stopping
    /\ build' = [build EXCEPT ![b].stopping = TRUE]
    /\ UNCHANGED <<lock, record, phase, manifest, files, aborted>>

Interrupt(b) == b \in Direct /\ Stop(b)      \* Ctrl+C

Ends(b, c, outcome) ==
    build' = [build EXCEPT ![b].task[c] = outcome, ![b].outcomes = Append(@, c)]

\* Defect: a rerun does not look into the cache.
MayAsk_Uncached(b, c) == b \in Retries => build[b].previous[c] = "failed"

\* What a run may do with a chunk.  A retry asks only for what the previous
\* manifest records as failed, and refuses what it does not know.
MayAsk(b, c) == IF b \in Retries THEN build[b].previous[c] = "failed" ELSE c \notin files

MayReuse(b, c) == c \in files /\ (b \in Retries => build[b].previous[c] = "done")

Starts(b, c) ==
    /\ phase[b] = "building" /\ build[b].task[c] = "todo" /\ ~build[b].stopping
    /\ Cardinality({d \in Chunks : build[b].task[d] = "asked"}) < Concurrency
    /\ UNCHANGED <<lock, record, phase, manifest, files, aborted>>

Ask(b, c)    == Starts(b, c) /\ MayAsk(b, c) /\ build' = [build EXCEPT ![b].task[c] = "asked"]
Reuse(b, c)  == Starts(b, c) /\ MayReuse(b, c) /\ Ends(b, c, "done")
Refuse(b, c) == Starts(b, c) /\ ~MayAsk(b, c) /\ ~MayReuse(b, c) /\ Ends(b, c, "failed")

\* The audio is stored before the task ends; a call that had been made may
\* still be answered after a cancellation.
Answer(b, c) ==
    /\ phase[b] = "building" /\ build[b].task[c] = "asked"
    /\ \/ files' = files \cup {c} /\ Ends(b, c, "done")
       \/ UNCHANGED files /\ Ends(b, c, "failed")
    /\ UNCHANGED <<lock, record, phase, manifest, aborted>>

SeeStop(b, c) ==
    /\ phase[b] = "building" /\ build[b].stopping /\ build[b].task[c] \in {"todo", "asked"}
    /\ Ends(b, c, "cancelled")
    /\ UNCHANGED <<lock, record, phase, manifest, files, aborted>>

\* The manifest in memory, once the tasks of a set are joined.
Records(b, joined) == [c \in Chunks |-> IF c \in joined THEN build[b].task[c] ELSE "pending"]

\* Failures are checkpointed at once, successes every CheckpointInterval.
Join(b) ==
    /\ phase[b] = "building" /\ build[b].outcomes # <<>>
    /\ LET c == Head(build[b].outcomes)
           joined == build[b].joined \cup {c}
           unsaved == build[b].unsaved + 1
           save == build[b].task[c] = "failed" \/ unsaved >= CheckpointInterval
       IN /\ build[b].task[c] # "cancelled"
          /\ build' = [build EXCEPT ![b].outcomes = Tail(@), ![b].joined = joined,
                                    ![b].unsaved = IF save THEN 0 ELSE unsaved]
          /\ manifest' = IF save THEN Records(b, joined) ELSE manifest
    /\ UNCHANGED <<lock, record, phase, files, aborted>>

\* The first cancelled task ends the run; what is not joined is not recorded.
Abort(b) ==
    /\ phase[b] = "building" /\ build[b].outcomes # <<>>
    /\ build[b].task[Head(build[b].outcomes)] = "cancelled"
    /\ manifest' = Records(b, build[b].joined)
    /\ Leave(b, "failed")
    /\ aborted' = TRUE
    /\ UNCHANGED <<record, files>>

\* Defect: there is no last checkpoint.
Finish_Unsaved(b) ==
    /\ phase[b] = "building" /\ build[b].joined = Chunks
    /\ \/ FailedIn(Records(b, Chunks)) # {} /\ Leave(b, "failed")
       \/ /\ FailedIn(Records(b, Chunks)) = {}
          /\ phase' = [phase EXCEPT ![b] = "stitching"] /\ build' = [build EXCEPT ![b] = Idle]
          /\ UNCHANGED lock
    /\ UNCHANGED <<record, manifest, files, aborted>>

\* The last checkpoint; a run with failed chunks makes no book.
Finish(b) ==
    /\ phase[b] = "building" /\ build[b].joined = Chunks
    /\ manifest' = Records(b, Chunks)
    /\ \/ FailedIn(manifest') # {} /\ Leave(b, "failed")
       \/ /\ FailedIn(manifest') = {}
          /\ phase' = [phase EXCEPT ![b] = "stitching"] /\ build' = [build EXCEPT ![b] = Idle]
          /\ UNCHANGED lock
    /\ UNCHANGED <<record, files, aborted>>

Stitch(b) ==
    /\ phase[b] = "stitching"
    /\ \E verdict \in Gone : Leave(b, verdict)
    /\ UNCHANGED <<record, manifest, files, aborted>>

Process(b) ==
    \/ Adopt(b) \/ GiveUpWaiting(b) \/ Begin(b) \/ Decline(b)
    \/ \E c \in Chunks : Ask(b, c) \/ Reuse(b, c) \/ Refuse(b, c) \/ Answer(b, c) \/ SeeStop(b, c)
    \/ Join(b) \/ Abort(b) \/ Finish(b) \/ Stitch(b)

Shell(b) == TakeDirectly(b) \/ Interrupt(b)

=============================================================================
