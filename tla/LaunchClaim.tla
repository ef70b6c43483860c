---------------------------- MODULE LaunchClaim -----------------------------
(***************************************************************************)
(* Who may start a worker for one job: the launch claim resume.launch and  *)
(* the runtime lease runtime.json (control.rs), as `bookforge resume`      *)
(* (commands/resume.rs), the retry supervisor (commands/retry.rs) and the  *)
(* resume button of the dashboard (commands/serve/jobs.rs) use them.       *)
(*                                                                         *)
(* Every read, exclusive install and rename of a file is a step of its     *)
(* own.  Clocks are left out: a file of a dead process may still look      *)
(* young (then it is respected) or already be stale.                       *)
(***************************************************************************)
EXTENDS Naturals, FiniteSets

CONSTANTS
    Resumers,     \* `bookforge resume` processes started by a user
    Supervisors,  \* `bookforge retry` processes
    Clicks,       \* dashboard resume requests; they live as long as the dashboard
    Children,     \* workers spawned by a supervisor or a click
    Ghost,        \* a process that died before the model begins
    NoClaim,      \* resume.launch does not exist
    Forced,       \* the job is paused, so that a click passes --force
    MaxSpawns,    \* MAX_CONSECUTIVE_FAILURES, the supervisor's attempts
    MaxCrashes    \* bound: processes killed

Parents == Supervisors \cup Clicks
Workers == Resumers \cup Children
Pids    == Parents \cup Workers

ASSUME RolesAssumption ==
    /\ Resumers \cap (Parents \cup Children) = {} /\ Supervisors \cap Clicks = {}
    /\ Parents \cap Children = {} /\ Ghost \notin Pids
    /\ Forced \in BOOLEAN /\ MaxSpawns \in Nat \ {0} /\ MaxCrashes \in Nat

VARIABLES
    claim,    \* resume.launch: the nonce and the pid of its owner
    lease,    \* runtime.json: the worker that wrote it, or Ghost
    gone,     \* runtime.json does not exist
    proc,     \* where each process is
    crashes,
    exposed   \* history: a live owner's claim was moved or replaced by another

vars == <<claim, lease, gone, proc, crashes, exposed>>

-----------------------------------------------------------------------------
Nonces == (Pids \cup {Ghost}) \X (0 .. MaxSpawns)
Claims == [nonce : Nonces, owner : Pids \cup {Ghost}]

ASSUME NoClaimAssumption == NoClaim \notin Claims

PCs == {"idle", "look", "create", "inspect", "reclaim", "adopt", "adopting", "recheck",
        "handoff", "wait", "lease", "clear", "park", "unpark", "running",
        "refused", "finished", "crashed"}
Ended == {"refused", "finished", "crashed"}

Process ==
    [pc : PCs,
     nonce : Nonces,                   \* the identity of its RuntimeLaunchClaim
     tries : {0, 1},                   \* claims reclaimed in this acquire loop
     spawns : 0 .. MaxSpawns,          \* acquired claims, one per spawned child
     child : Children \cup {Ghost},
     parent : Parents \cup {Ghost},    \* whose claim its environment names
     beat : {"off", "on", "verified"}, \* the heartbeat thread of the claim
     parked : Claims \cup {NoClaim},   \* the file remove_if_owned moved aside
     then : {"create", "running", "refused", "finished"}]

TypeOK ==
    /\ claim \in Claims \cup {NoClaim}
    /\ lease \in Workers \cup {Ghost} /\ gone \in BOOLEAN
    /\ proc \in [Pids -> Process]
    /\ crashes \in 0 .. MaxCrashes
    /\ exposed \in BOOLEAN

\* The pid of a click is the dashboard's, which outlives the request.
Alive(p) ==
    /\ p \in Pids
    /\ IF p \in Clicks THEN proc[p].pc # "crashed" ELSE proc[p].pc \notin Ended

Blank == [pc |-> "idle", nonce |-> <<Ghost, 0>>, tries |-> 0, spawns |-> 0,
          child |-> Ghost, parent |-> Ghost, beat |-> "off", parked |-> NoClaim,
          then |-> "refused"]

\* A run that crashed may have left its claim, its lease or both.
Init ==
    /\ claim \in {NoClaim, [nonce |-> <<Ghost, 0>>, owner |-> Ghost]}
    /\ lease = Ghost /\ gone \in BOOLEAN
    /\ proc = [p \in Pids |-> Blank]
    /\ crashes = 0 /\ exposed = FALSE

At(p, pc)   == proc[p].pc = pc

\* The memory of a process that has ended is of no consequence.
Become(p, r) ==
    proc' = [proc EXCEPT ![p] = IF r.pc \in Ended THEN [Blank EXCEPT !.pc = r.pc] ELSE r]

Goto(p, pc) == Become(p, [proc[p] EXCEPT !.pc = pc])

\* p replaces or moves away a claim that a live process owns and p does not.
Exposes(p) ==
    claim # NoClaim /\ claim.nonce # proc[p].nonce /\ Alive(claim.owner)

-----------------------------------------------------------------------------
(* The runtime lease.                                                      *)

\* A dead owner's lease is respected while it is young; a live owner's always.
MayPass    == gone \/ ~Alive(lease)
MayRefuse  == ~gone

Launch(p) ==
    /\ At(p, "idle") /\ p \notin Children
    /\ Goto(p, "look")
    /\ UNCHANGED <<claim, lease, gone, crashes, exposed>>

\* The first check: ensure_no_live_worker, retry_launch_blocker, or `live` in
\* resume_job.  A forced child makes none.  A worker may also refuse its
\* snapshot, its paths or its flags.
Look(p) ==
    /\ At(p, "look")
    /\ \/ /\ MayPass \/ (Forced /\ p \in Children)
          /\ Goto(p, IF p \in Children THEN "adopt" ELSE "create")
       \/ /\ MayRefuse \/ p \in Workers
          /\ Goto(p, "refused")
    /\ UNCHANGED <<claim, lease, gone, crashes, exposed>>

\* The second check, under the claim; a refusal drops the claim.  The mutant
\* trusts the first one.
Recheck_Skip(p) ==
    /\ At(p, "recheck")
    /\ Goto(p, "lease")
    /\ UNCHANGED <<claim, lease, gone, crashes, exposed>>

Recheck(p) ==
    /\ At(p, "recheck")
    /\ \/ /\ MayPass \/ (Forced /\ p \in Children)
          /\ Goto(p, "lease")
       \/ /\ MayRefuse /\ ~(Forced /\ p \in Children)
          /\ proc' = [proc EXCEPT ![p].pc = "clear", ![p].then = "refused"]
    /\ UNCHANGED <<claim, lease, gone, crashes, exposed>>

\* The control watcher writes the lease before it starts; only then the worker
\* clears its claim.  A preflight that fails drops the claim unused.
WriteLease(p) ==
    /\ At(p, "lease")
    /\ \/ /\ lease' = p /\ gone' = FALSE
          /\ proc' = [proc EXCEPT ![p].pc = "clear", ![p].then = "running"]
       \/ /\ proc' = [proc EXCEPT ![p].pc = "clear", ![p].then = "refused"]
          /\ UNCHANGED <<lease, gone>>
    /\ UNCHANGED <<claim, crashes, exposed>>

InCharge(p) ==
    /\ p \in Workers
    /\ \/ At(p, "running")
       \/ proc[p].pc \in {"clear", "park", "unpark"} /\ proc[p].then = "running"

\* The watcher refreshes its lease without looking whose it is.
RefreshLease(p) ==
    /\ InCharge(p)
    /\ lease' = p /\ gone' = FALSE
    /\ UNCHANGED <<claim, proc, crashes, exposed>>

\* The run ends and removes the lease if it is its own; then the claim object
\* is dropped, which removes the claim a second time.
Finish(p) ==
    /\ At(p, "running")
    /\ gone' = (gone \/ lease = p)
    /\ proc' = [proc EXCEPT ![p].pc = "park", ![p].then = "finished"]
    /\ UNCHANGED <<claim, lease, crashes, exposed>>

-----------------------------------------------------------------------------
(* Acquiring the claim.                                                    *)

Owned(p) == IF p \in Parents THEN "handoff" ELSE "recheck"

Mine(p) == [nonce |-> <<p, proc[p].spawns + 1>>, owner |-> p]

\* The exclusive install fails if the file exists.
Create(p) ==
    /\ At(p, "create")
    /\ IF claim = NoClaim
       THEN /\ claim' = Mine(p)
            /\ proc' = [proc EXCEPT ![p].pc = Owned(p), ![p].nonce = Mine(p).nonce,
                                    ![p].spawns = @ + 1, ![p].beat = "on", ![p].tries = 0]
       ELSE Goto(p, "inspect") /\ UNCHANGED claim
    /\ UNCHANGED <<lease, gone, crashes, exposed>>

\* A launcher that gets no claim refuses.  A supervisor between two attempts
\* still clears the claim of the attempt before.
Refused(p) ==
    IF p \in Supervisors /\ proc[p].spawns > 0
    THEN [proc[p] EXCEPT !.pc = "clear", !.then = "refused"]
    ELSE [proc[p] EXCEPT !.pc = "refused"]

\* launch_claim_is_reclaimable.  A dead owner's claim is left alone while its
\* heartbeat is young.
Inspect(p) ==
    /\ At(p, "inspect")
    /\ \/ Become(p, Refused(p))
       \/ claim # NoClaim /\ ~Alive(claim.owner) /\ Goto(p, "reclaim")
    /\ UNCHANGED <<claim, lease, gone, crashes, exposed>>

\* reclaim_claim_file renames whatever is there by now; the loop has two rounds.
Reclaim(p) ==
    /\ At(p, "reclaim")
    /\ claim' = NoClaim
    /\ exposed' = (exposed \/ Exposes(p))
    /\ Become(p, IF claim # NoClaim /\ proc[p].tries = 0
                 THEN [proc[p] EXCEPT !.pc = "create", !.tries = 1] ELSE Refused(p))
    /\ UNCHANGED <<lease, gone, crashes>>

-----------------------------------------------------------------------------
(* The heartbeat of the claim.                                             *)

\* It begins no round once it is being stopped, and stops itself when the claim
\* is gone or carries another nonce.
BeatCheck(p) ==
    /\ proc[p].beat = "on" /\ proc[p].pc \notin {"handoff", "clear"}
    /\ proc' = [proc EXCEPT ![p].beat =
          IF claim # NoClaim /\ claim.nonce = proc[p].nonce THEN "verified" ELSE "off"]
    /\ UNCHANGED <<claim, lease, gone, crashes, exposed>>

BeatWrite(p) ==
    /\ proc[p].beat = "verified"
    /\ claim' = [nonce |-> proc[p].nonce, owner |-> p]
    /\ exposed' = (exposed \/ Exposes(p))
    /\ proc' = [proc EXCEPT ![p].beat = "on"]
    /\ UNCHANGED <<lease, gone, crashes>>

\* Stopping the heartbeat joins its thread, which finishes its write.
BeatIdle(p) == proc[p].beat # "verified"

-----------------------------------------------------------------------------
(* From a parent to its child.                                             *)

\* The heartbeat stops and a child is spawned whose environment names the
\* claim, or the spawn fails.
Handoff(p) ==
    /\ At(p, "handoff") /\ BeatIdle(p)
    /\ \/ \E c \in Children :
            /\ At(c, "idle")
            /\ proc' = [proc EXCEPT ![p].pc = "wait", ![p].beat = "off", ![p].child = c,
                                    ![c].pc = "look", ![c].parent = p,
                                    ![c].nonce = proc[p].nonce]
       \/ proc' = [proc EXCEPT ![p].pc = "wait", ![p].beat = "off", ![p].child = Ghost]
    /\ UNCHANGED <<claim, lease, gone, crashes, exposed>>

\* adopt_from_env: the file must carry the nonce and the pid the environment
\* names; otherwise the child acquires a claim of its own.
Adopt(p) ==
    /\ At(p, "adopt")
    /\ Goto(p, IF claim = [nonce |-> proc[p].nonce, owner |-> proc[p].parent]
               THEN "adopting" ELSE "create")
    /\ UNCHANGED <<claim, lease, gone, crashes, exposed>>

\* The rename that makes the child the owner.
AdoptWrite(p) ==
    /\ At(p, "adopting")
    /\ claim' = [nonce |-> proc[p].nonce, owner |-> p]
    /\ exposed' = (exposed \/ Exposes(p))
    /\ proc' = [proc EXCEPT ![p].pc = "recheck", ![p].beat = "on"]
    /\ UNCHANGED <<lease, gone, crashes>>

\* A child that was never spawned counts as one that exited with an error.
ChildExit(p) == IF proc[p].child = Ghost THEN "refused" ELSE proc[proc[p].child].pc

ChildFailed(p) == ChildExit(p) \in {"refused", "crashed"}

\* The supervisor waits for its child.  After a failure it clears the claim and
\* acquires another one for the next attempt; at the end it clears the claim.
Supervise(p) ==
    /\ At(p, "wait") /\ p \in Supervisors /\ ChildExit(p) \in Ended
    /\ \E next \in {"create", "finished"} :
          /\ next = "create" => (ChildFailed(p) /\ proc[p].spawns < MaxSpawns)
          /\ proc' = [proc EXCEPT ![p].pc = "clear", ![p].then = next]
    /\ UNCHANGED <<claim, lease, gone, crashes, exposed>>

\* The click watches its child for CHILD_STARTUP_CHECK only.  The mutant leaves
\* the claim of a child that failed.
Watch_KeepClaim(p) ==
    /\ At(p, "wait") /\ p \in Clicks
    /\ \/ ChildFailed(p) /\ Goto(p, "refused")
       \/ proc[p].child # Ghost /\ Goto(p, "finished")
    /\ UNCHANGED <<claim, lease, gone, crashes, exposed>>

Watch(p) ==
    /\ At(p, "wait") /\ p \in Clicks
    /\ \/ /\ ChildFailed(p)
          /\ proc' = [proc EXCEPT ![p].pc = "clear", ![p].then = "refused"]
       \/ /\ proc[p].child # Ghost
          /\ Goto(p, "finished")
    /\ UNCHANGED <<claim, lease, gone, crashes, exposed>>

-----------------------------------------------------------------------------
(* Releasing the claim: clear and remove_if_owned.                         *)

Clear(p) ==
    /\ At(p, "clear") /\ BeatIdle(p)
    /\ proc' = [proc EXCEPT ![p].pc = "park", ![p].beat = "off"]
    /\ UNCHANGED <<claim, lease, gone, crashes, exposed>>

\* The file is moved aside before anyone looks whose it is.
Park(p) ==
    /\ At(p, "park")
    /\ claim' = NoClaim
    /\ exposed' = (exposed \/ Exposes(p))
    /\ Become(p, [proc[p] EXCEPT !.pc = IF claim = NoClaim THEN proc[p].then ELSE "unpark",
                                 !.parked = claim])
    /\ UNCHANGED <<lease, gone, crashes>>

\* A foreign claim is renamed back, over one that was created meanwhile.
Unpark(p) ==
    /\ At(p, "unpark")
    /\ IF proc[p].parked.nonce = proc[p].nonce
       THEN UNCHANGED <<claim, exposed>>
       ELSE claim' = proc[p].parked /\ exposed' = (exposed \/ Exposes(p))
    /\ Become(p, [proc[p] EXCEPT !.pc = proc[p].then, !.parked = NoClaim])
    /\ UNCHANGED <<lease, gone, crashes>>

-----------------------------------------------------------------------------
Crash(p) ==
    /\ Alive(p) /\ ~At(p, "idle")
    /\ crashes < MaxCrashes /\ crashes' = crashes + 1
    /\ Goto(p, "crashed")
    /\ UNCHANGED <<claim, lease, gone, exposed>>

Proceed(p) ==
    \/ Look(p) \/ Recheck(p) \/ WriteLease(p) \/ Finish(p)
    \/ Create(p) \/ Inspect(p) \/ Reclaim(p)
    \/ Handoff(p) \/ Adopt(p) \/ AdoptWrite(p) \/ Supervise(p) \/ Watch(p)
    \/ Clear(p) \/ Park(p) \/ Unpark(p)

Beat(p) == BeatCheck(p) \/ BeatWrite(p)

Next == \E p \in Pids : Launch(p) \/ Proceed(p) \/ Beat(p) \/ RefreshLease(p) \/ Crash(p)

Spec == Init /\ [][Next]_vars

-----------------------------------------------------------------------------
(* Properties.                                                             *)

\* Two workers never process the job at once, whatever mix of resumes, retries
\* and clicks starts them and whoever of them dies, as long as nobody moves a
\* live claim (ensure_no_live_worker twice, the claim held in between).
NeverDoubleRun ==
    ~exposed => \A p, q \in Workers : InCharge(p) /\ InCharge(q) => p = q

\* The lease names the worker in charge, so that a command or a click reaches a
\* live worker instead of starting another.
LeaseNamesWorker ==
    ~exposed => \A p \in Workers : InCharge(p) => ~gone /\ lease = p

\* A launch that goes on to spawn or to start a worker has its claim on disk
\* (or a child of its own that adopted it): nobody else can acquire one.
LaunchIsClaimed ==
    ~exposed => \A p \in Pids : proc[p].pc \in {"recheck", "lease", "handoff"} =>
        claim # NoClaim /\ claim.nonce = proc[p].nonce

\* A live process that will clear the claim with this nonce before it ends.
Clears(p, n) == proc[p].pc \notin Ended /\ proc[p].nonce = n

\* No claim blocks the job for ever: whoever lives and owns it, some live
\* process still has to clear it, except for the claim of a click whose child
\* died after the click had stopped watching.
ClaimHasCustodian ==
    ~exposed /\ claim # NoClaim /\ Alive(claim.owner) =>
        (claim.owner \in Clicks /\ At(claim.owner, "finished")) \/ \E p \in Pids : Clears(p, claim.nonce)

-----------------------------------------------------------------------------
(* What the comments say of the claim, and a run refutes.                  *)

\* "a concurrent acquirer can never lose a freshly created claim" (control.rs,
\* reclaim_claim_file).
LiveClaimIsKept == ~exposed

\* The job is "not permanently blocked by a claim whose owner pid (ours) is
\* still alive" (serve/jobs.rs, after the startup check).
ClickNeverBlocksJob ==
    claim # NoClaim /\ Alive(claim.owner) => \E p \in Pids : Clears(p, claim.nonce)
=============================================================================
