----------------------------- MODULE PermitPool -----------------------------
(***************************************************************************)
(* AdaptiveLimiter (bookforge-llm/src/concurrency.rs): the pool of permits *)
(* that bounds concurrent provider requests while its target shrinks on    *)
(* rate limits, timeouts and latency and grows on success.                 *)
(*                                                                         *)
(* The target is guarded by a mutex, but a shrink or a growth then works   *)
(* on the semaphore and on the burn counter one atomic operation at a      *)
(* time, while requests acquire permits and drop them without the mutex.   *)
(* Permits are interchangeable, so they are counted.                       *)
(***************************************************************************)
EXTENDS Integers

CONSTANTS
    MinTarget, MaxTarget,   \* the limiter's bounds, after new_with_bounds
    Initial                 \* its first target

ASSUME BoundsAssumption ==
    /\ MinTarget \in Nat \ {0} /\ MaxTarget \in Nat /\ Initial \in Nat
    /\ MinTarget <= Initial /\ Initial <= MaxTarget

VARIABLES
    target,      \* state: the permits that should exist
    available,   \* permits in the semaphore
    held,        \* permits held by requests
    releasing,   \* dropped permits that found no burn and are not back yet
    burns,       \* permits_to_burn
    change,      \* what the holder of the mutex is doing
    left         \* remaining or deferred: permits it has still to account for

poolVars == <<target, available, held, releasing, burns, change, left>>

-----------------------------------------------------------------------------
Changes == {"none", "cancel", "add", "remove", "defer"}

TypeOK ==
    /\ target \in Nat /\ available \in Nat /\ held \in Nat
    /\ releasing \in Nat /\ burns \in Nat /\ left \in Nat
    /\ change \in Changes

PoolInit ==
    /\ target = Initial /\ available = Initial
    /\ held = 0 /\ releasing = 0 /\ burns = 0
    /\ change = "none" /\ left = 0

-----------------------------------------------------------------------------
(* A request's permit.                                                     *)

\* acquire and try_acquire.
Acquire ==
    /\ available > 0
    /\ available' = available - 1 /\ held' = held + 1
    /\ UNCHANGED <<target, releasing, burns, change, left>>

\* Dropping a permit claims a pending burn and forgets the permit, or, in two
\* steps, finds no burn and gives the permit back.  The mutant forgets the
\* permit and leaves the burn pending.
DropBurnt_KeepBurn ==
    /\ held > 0 /\ burns > 0
    /\ held' = held - 1
    /\ UNCHANGED <<target, available, releasing, burns, change, left>>

DropBurnt ==
    /\ held > 0 /\ burns > 0
    /\ held' = held - 1 /\ burns' = burns - 1
    /\ UNCHANGED <<target, available, releasing, change, left>>

DropUnburnt ==
    /\ held > 0 /\ burns = 0
    /\ held' = held - 1 /\ releasing' = releasing + 1
    /\ UNCHANGED <<target, available, burns, change, left>>

GiveBack ==
    /\ releasing > 0
    /\ releasing' = releasing - 1 /\ available' = available + 1
    /\ UNCHANGED <<target, held, burns, change, left>>

-----------------------------------------------------------------------------
(* update, under the mutex of the target.                                  *)

Clamp(t) == IF t < MinTarget THEN MinTarget ELSE IF t > MaxTarget THEN MaxTarget ELSE t

\* on_success, on_rate_limit, on_timeout, on_p95_high, set_target.
Wanted == {target + 1, target \div 2, (target * 3) \div 4, (target * 85) \div 100}
             \cup (MinTarget .. MaxTarget)

\* Taking the mutex for a target that differs from the old one.
Retarget(t) ==
    /\ change = "none" /\ t # target
    /\ target' = t
    /\ change' = IF t > target THEN "cancel" ELSE "remove"
    /\ left' = IF t > target THEN t - target ELSE target - t
    /\ UNCHANGED <<available, held, releasing, burns>>

Update == \E w \in Wanted : Retarget(Clamp(w))

\* A growth cancels pending burns before it adds permits.
CancelBurns ==
    LET cancelled == IF burns < left THEN burns ELSE left IN
    /\ change = "cancel"
    /\ burns' = burns - cancelled
    /\ left' = left - cancelled
    /\ change' = IF left' = 0 THEN "none" ELSE IF burns = 0 THEN "add" ELSE "cancel"
    /\ UNCHANGED <<target, available, held, releasing>>

AddPermits ==
    /\ change = "add"
    /\ available' = available + left
    /\ left' = 0 /\ change' = "none"
    /\ UNCHANGED <<target, held, releasing, burns>>

\* A shrink takes idle permits out one by one ...
RemoveIdle ==
    /\ change = "remove"
    /\ IF left > 0 /\ available > 0
       THEN /\ available' = available - 1 /\ left' = left - 1
            /\ UNCHANGED change
       ELSE /\ change' = IF left = 0 THEN "none" ELSE "defer"
            /\ UNCHANGED <<available, left>>
    /\ UNCHANGED <<target, held, releasing, burns>>

\* ... and leaves the rest to the drops.  The mutant overwrites the burns an
\* earlier shrink still has pending.
DeferBurns_Overwrite ==
    /\ change = "defer"
    /\ burns' = left
    /\ left' = 0 /\ change' = "none"
    /\ UNCHANGED <<target, available, held, releasing>>

DeferBurns ==
    /\ change = "defer"
    /\ burns' = burns + left
    /\ left' = 0 /\ change' = "none"
    /\ UNCHANGED <<target, available, held, releasing>>

-----------------------------------------------------------------------------
UpdateStep == CancelBurns \/ AddPermits \/ RemoveIdle \/ DeferBurns
DropStep   == DropBurnt \/ DropUnburnt

PoolNext == Acquire \/ DropStep \/ GiveBack \/ Update \/ UpdateStep

PoolSpec == PoolInit /\ [][PoolNext]_poolVars

\* Requests end, and a thread that holds the mutex or drops a permit finishes.
FairPoolSpec ==
    /\ PoolSpec
    /\ WF_poolVars(UpdateStep) /\ WF_poolVars(DropStep) /\ WF_poolVars(GiveBack)

-----------------------------------------------------------------------------
(* Properties.                                                             *)

Growing   == change \in {"cancel", "add"}
Shrinking == change \in {"remove", "defer"}

\* No permit is lost or made up, however acquires and drops interleave with a
\* shrink or a growth: what exists is the target, the pending burns, and what
\* the update under way has still to account for.
PermitsConserved ==
    available + held + releasing
        = target + burns + (IF Shrinking THEN left ELSE 0) - (IF Growing THEN left ELSE 0)

\* The pool cannot starve: with no request in flight and no update under way
\* at least min permits, and at least the target, can be acquired.
PoolNeverStarves ==
    change = "none" /\ held = 0 /\ releasing = 0 => available >= target /\ target >= MinTarget

\* With no burn pending the requests in flight never exceed the target, which
\* never exceeds the configured maximum.
NeverAboveTarget ==
    change = "none" /\ burns = 0 => held <= target /\ target <= MaxTarget

\* A shrink takes effect: the requests in flight come down to the target.
ShrinkTakesEffect == []<>(held <= target)

\* Once a shrink has finished, no waiter acquires a permit beyond the new target
\* (comment in update: idle permits are removed so that waiters cannot exceed it).
WaitersRespectTarget ==
    [][held' > held /\ change = "none" => held' <= target]_poolVars
=============================================================================
