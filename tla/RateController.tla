--------------------------- MODULE RateController ---------------------------
(***************************************************************************)
(* ProviderRateController (bookforge-llm/src/rate_controller.rs) and the   *)
(* pool it drives.  A request gives its permit back before the driver of   *)
(* the run observes how it ended, and observes in any order: what the      *)
(* controller hears is late, and several requests begun before a cut may   *)
(* report trouble after it.  A limiter has one owner: this controller, or  *)
(* the live settings, which may ask for any target (PermitPool!Update).    *)
(*                                                                         *)
(* A latency is at most the target p95 ("ok") or above it ("slow").  The   *)
(* clock is kept as the ages of the last growth and cuts, which stop at    *)
(* the interval they are compared with.                                    *)
(***************************************************************************)
EXTENDS PermitPool, Sequences, FiniteSets

CONSTANTS
    Slots,             \* tasks the driver of the run keeps
    WindowSize,        \* observation_window
    GrowInterval,      \* increase_interval, in ticks
    RateInterval,      \* rate_limit_decrease_interval
    GenericInterval    \* generic_decrease_interval

ASSUME ControllerAssumption ==
    /\ Slots \in Nat /\ WindowSize \in Nat \ {0}
    /\ GrowInterval \in Nat /\ RateInterval \in Nat /\ GenericInterval \in Nat

VARIABLES
    owner,     \* who sets the target: "controller" or "settings"
    ended,     \* requests over and not observed yet
    window,    \* observations
    ages       \* ticks since the last growth, rate limit cut and generic cut

controllerVars == <<owner, ended, window, ages>>
rateVars       == <<target, available, held, releasing, burns, change, left, owner, ended, window, ages>>

Statuses == {"ok", "slow", "rate_limited", "failed", "other"}
Clocks   == {"growth", "rate", "generic"}
Interval == [k \in Clocks |-> CASE k = "growth"  -> GrowInterval
                              [] k = "rate"    -> RateInterval
                              [] k = "generic" -> GenericInterval]

RateTypeOK ==
    /\ TypeOK
    /\ owner \in {"controller", "settings"}
    /\ ended \in 0 .. Slots
    /\ window \in Seq(Statuses) /\ Len(window) <= WindowSize
    /\ ages \in [Clocks -> Nat] /\ \A k \in Clocks : ages[k] <= Interval[k]

\* The first growth and cuts need not wait.
RateInit ==
    /\ PoolInit
    /\ owner \in {"controller", "settings"}
    /\ ended = 0 /\ window = <<>> /\ ages = Interval

-----------------------------------------------------------------------------
(* The controller's judgement.                                             *)

\* The window drops its oldest observation when it is full.
Pushed(status) ==
    IF Len(window) < WindowSize THEN Append(window, status) ELSE Append(Tail(window), status)

Count(w, S) == Cardinality({k \in DOMAIN w : w[k] \in S})

\* rolling_p95_locked is above the target: more than a twentieth is slow.
HighLatency(w) ==
    LET n == Count(w, {"ok", "slow"}) IN n > 0 /\ Count(w, {"slow"}) > n - ((n * 95 + 99) \div 100)

\* stable_success_threshold is 98 percent; the mutant wants more observations
\* than the window holds.
Stable_Never(w) == Len(w) > WindowSize /\ 100 * Count(w, {"ok", "slow"}) >= 98 * Len(w)

Stable(w) == Len(w) >= WindowSize /\ 100 * Count(w, {"ok", "slow"}) >= 98 * Len(w)

\* cut_locked_with_cooldown.
Cut(percent, clock) ==
    IF ages[clock] < Interval[clock]
    THEN UNCHANGED <<target, available, held, releasing, burns, change, left, ages>>
    ELSE LET t == (target * percent) \div 100 IN
         /\ ages' = [ages EXCEPT ![clock] = 0]
         /\ IF Clamp(t) = target THEN UNCHANGED poolVars ELSE Retarget(Clamp(t))

\* grow_if_stable_locked.
Grow(w) ==
    IF ages["growth"] < GrowInterval \/ ~Stable(w)
    THEN UNCHANGED <<target, available, held, releasing, burns, change, left, ages>>
    ELSE /\ ages' = [ages EXCEPT !["growth"] = 0]
         /\ IF Clamp(target + 1) = target THEN UNCHANGED poolVars ELSE Retarget(Clamp(target + 1))

-----------------------------------------------------------------------------
\* observe: the driver joined a task and reports how its request ended.
Observe(status) ==
    /\ owner = "controller" /\ ended > 0 /\ change = "none"
    /\ ended' = ended - 1 /\ window' = Pushed(status)
    /\ \/ status = "rate_limited" /\ Cut(50, "rate")
       \/ status = "failed" /\ Cut(75, "generic")
       \/ status \in {"ok", "slow"} /\ HighLatency(window') /\ Cut(85, "generic")
       \/ status \in {"ok", "slow"} /\ ~HighLatency(window') /\ Grow(window')
       \/ /\ status = "other"
          /\ UNCHANGED <<target, available, held, releasing, burns, change, left, ages>>
    /\ UNCHANGED owner

\* A task asks for a permit, and is joined once it has given the permit back.
Request ==
    /\ owner = "controller" => held + releasing + ended < Slots
    /\ Acquire
    /\ UNCHANGED controllerVars

End == ended' = IF owner = "controller" THEN ended + 1 ELSE ended

Return ==
    /\ \/ DropBurnt /\ End
       \/ DropUnburnt /\ UNCHANGED ended
    /\ UNCHANGED <<owner, window, ages>>

Release == GiveBack /\ End /\ UNCHANGED <<owner, window, ages>>
Adjust  == UpdateStep /\ UNCHANGED controllerVars

Reconfigure == owner = "settings" /\ Update /\ UNCHANGED controllerVars

Tick ==
    /\ owner = "controller" /\ ages # Interval
    /\ ages' = [k \in Clocks |-> IF ages[k] < Interval[k] THEN ages[k] + 1 ELSE ages[k]]
    /\ UNCHANGED <<target, available, held, releasing, burns, change, left, owner, ended, window>>

RateNext ==
    \/ Request \/ Return \/ Release \/ Adjust \/ Reconfigure \/ Tick
    \/ \E status \in Statuses : Observe(status)

RateSpec == RateInit /\ [][RateNext]_rateVars

\* Requests end, a thread that holds a mutex or drops a permit finishes, and
\* time passes.
FairRateSpec ==
    /\ RateSpec
    /\ WF_rateVars(Return) /\ WF_rateVars(Release) /\ WF_rateVars(Adjust) /\ WF_rateVars(Tick)

-----------------------------------------------------------------------------
\* The controller finds its way back: when from some time on requests end well
\* and keep ending, the target climbs to the maximum and stays there, whatever
\* cuts, late reports and half-done shrinks came before.
EndsWell == ended' < ended => window'[Len(window')] = "ok"

Recovers ==
    /\ <>[][EndsWell]_rateVars
    /\ []<><<\E status \in Statuses : Observe(status)>>_rateVars
    => <>[](owner = "controller" => target = MaxTarget)
=============================================================================
