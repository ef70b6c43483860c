------------------------ MODULE RateControllerProofs ------------------------
(***************************************************************************)
(* The permit pool keeps its count and its bounds for every minimum,       *)
(* maximum and initial target and any number of requests.  A rate          *)
(* controller drives its pool only as the pool allows, so what is proved   *)
(* of the pool holds under it, for every bound, interval, window and       *)
(* number of tasks.                                                        *)
(***************************************************************************)
EXTENDS RateController, TLAPS

-----------------------------------------------------------------------------
(* The pool.                                                               *)

\* The target stays between the bounds of the limiter.
TargetBounded == MinTarget <= target /\ target <= MaxTarget

\* Inductive: every step keeps the count, given that it is made of naturals and
\* that a new target is clamped.
PoolInvariant == TypeOK /\ TargetBounded /\ PermitsConserved

\* A clamped target lies between the bounds (update clamps whatever it is asked).
LEMMA ClampInBounds ==
    ASSUME NEW t \in Int
    PROVE  Clamp(t) \in Nat /\ MinTarget <= Clamp(t) /\ Clamp(t) <= MaxTarget
BY BoundsAssumption DEF Clamp

\* Every target an event asks for is an integer.
LEMMA WantedAreIntegers == ASSUME target \in Nat PROVE Wanted \subseteq Int
<1>1. /\ target + 1 \in Int /\ target \div 2 \in Int
      /\ (target * 3) \div 4 \in Int /\ (target * 85) \div 100 \in Int
  OBVIOUS
<1>2. MinTarget .. MaxTarget \subseteq Int
  BY BoundsAssumption
<1> QED
  BY <1>1, <1>2 DEF Wanted

\* A fresh limiter has exactly its initial target of permits.
LEMMA PoolInitHolds == PoolInit => PoolInvariant
BY BoundsAssumption
DEF PoolInit, PoolInvariant, TypeOK, TargetBounded, PermitsConserved, Changes,
    Growing, Shrinking

\* No acquire, drop, growth or shrink step loses or makes up a permit.
LEMMA PoolStepHolds == PoolInvariant /\ [PoolNext]_poolVars => PoolInvariant'
<1> SUFFICES ASSUME PoolInvariant, [PoolNext]_poolVars PROVE PoolInvariant'
  OBVIOUS
<1> USE BoundsAssumption
    DEF PoolInvariant, TypeOK, TargetBounded, PermitsConserved, Changes, Growing, Shrinking
<1>1. CASE Acquire
  BY <1>1 DEF Acquire
<1>2. CASE DropStep
  BY <1>2 DEF DropStep, DropBurnt, DropUnburnt
<1>3. CASE GiveBack
  BY <1>3 DEF GiveBack
<1>4. CASE Update
  <2>1. PICK w \in Wanted : Retarget(Clamp(w))
    BY <1>4 DEF Update
  <2>2. Clamp(w) \in Nat /\ MinTarget <= Clamp(w) /\ Clamp(w) <= MaxTarget
    BY <2>1, WantedAreIntegers, ClampInBounds
  <2>3. CASE Clamp(w) > target
    BY <2>1, <2>2, <2>3 DEF Retarget
  <2>4. CASE Clamp(w) < target
    BY <2>1, <2>2, <2>4 DEF Retarget
  <2> QED
    BY <2>1, <2>2, <2>3, <2>4 DEF Retarget
<1>5. CASE UpdateStep
  <2>1. CASE CancelBurns
    BY <2>1 DEF CancelBurns
  <2>2. CASE AddPermits
    BY <2>2 DEF AddPermits
  <2>3. CASE RemoveIdle
    BY <2>3 DEF RemoveIdle
  <2>4. CASE DeferBurns
    BY <2>4 DEF DeferBurns
  <2> QED
    BY <1>5, <2>1, <2>2, <2>3, <2>4 DEF UpdateStep
<1>6. CASE UNCHANGED poolVars
  BY <1>6 DEF poolVars
<1> QED
  BY <1>1, <1>2, <1>3, <1>4, <1>5, <1>6 DEF PoolNext

\* The invariant of the pool holds in every behaviour.
THEOREM PoolInvariantHolds == PoolSpec => []PoolInvariant
BY PoolInitHolds, PoolStepHolds, PTL DEF PoolSpec

\* No permit is ever lost or made up (AdaptivePermit::drop against update).
THEOREM PermitsAreConserved == PoolSpec => []PermitsConserved
BY PoolInvariantHolds, PTL DEF PoolInvariant

\* An idle pool always has its target of permits to give (AdaptiveLimiter).
THEOREM PoolDoesNotStarve == PoolSpec => []PoolNeverStarves
<1>1. PoolInvariant => PoolNeverStarves
  BY BoundsAssumption
  DEF PoolInvariant, TypeOK, TargetBounded, PermitsConserved, PoolNeverStarves, Growing,
      Shrinking
<1> QED
  BY <1>1, PoolInvariantHolds, PTL

\* Once all burns are paid the requests in flight respect the target, and the
\* target the configured maximum (AdaptiveLimiter).
THEOREM PoolRespectsTarget == PoolSpec => []NeverAboveTarget
<1>1. PoolInvariant => NeverAboveTarget
  BY BoundsAssumption
  DEF PoolInvariant, TypeOK, TargetBounded, PermitsConserved, NeverAboveTarget, Growing,
      Shrinking
<1> QED
  BY <1>1, PoolInvariantHolds, PTL

\* The pool's state has its types in every behaviour.
THEOREM PoolTypeCorrect == PoolSpec => []TypeOK
BY PoolInvariantHolds, PTL DEF PoolInvariant

-----------------------------------------------------------------------------
(* The controller.                                                         *)

\* Requests that ended unobserved still occupy a task of the driver.
TasksBounded ==
    IF owner = "controller" THEN held + releasing + ended <= Slots ELSE ended = 0

\* Inductive.
RateInvariant == RateTypeOK /\ TargetBounded /\ TasksBounded

\* A controller's cut and its growth set a clamped target, or leave the pool alone.
LEMMA ControllerTargets ==
    ASSUME NEW t \in Int, Clamp(t) # target, Retarget(Clamp(t))
    PROVE  Update
<1>1. Clamp(t) \in MinTarget .. MaxTarget /\ Clamp(Clamp(t)) = Clamp(t)
  BY ClampInBounds, BoundsAssumption DEF Clamp
<1> QED
  BY <1>1 DEF Update, Wanted

\* An observation moves the target within the bounds, if at all.
LEMMA ObserveIsPoolStep ==
    ASSUME TypeOK, NEW status \in Statuses, Observe(status)
    PROVE  /\ Update \/ UNCHANGED poolVars
           /\ \/ ages' = ages
              \/ \E clock \in {"growth", "rate", "generic"} :
                     ages' = [ages EXCEPT ![clock] = 0]
<1> DEFINE Moved == /\ Update \/ UNCHANGED poolVars
                    /\ \/ ages' = ages
                       \/ \E clock \in {"growth", "rate", "generic"} :
                              ages' = [ages EXCEPT ![clock] = 0]
<1>1. ASSUME NEW percent \in Int, NEW clock \in {"rate", "generic"}, Cut(percent, clock)
      PROVE  Moved
  <2>1. (target * percent) \div 100 \in Int
    BY DEF TypeOK
  <2>2. CASE ages[clock] < Interval[clock]
    BY <1>1, <2>2 DEF Cut, poolVars
  <2>3. CASE ~(ages[clock] < Interval[clock])
    BY <1>1, <2>1, <2>3, ControllerTargets DEF Cut
  <2> QED
    BY <2>2, <2>3
<1>2. ASSUME Grow(window')
      PROVE  Moved
  <2>1. target + 1 \in Int
    BY DEF TypeOK
  <2>2. CASE ages["growth"] < GrowInterval \/ ~Stable(window')
    BY <1>2, <2>2 DEF Grow, poolVars
  <2>3. CASE ~(ages["growth"] < GrowInterval \/ ~Stable(window'))
    <3>1. /\ ages' = [ages EXCEPT !["growth"] = 0]
          /\ IF Clamp(target + 1) = target THEN UNCHANGED poolVars
             ELSE Retarget(Clamp(target + 1))
      BY <1>2, <2>3 DEF Grow
    <3> QED
      BY <2>1, <3>1, ControllerTargets
  <2> QED
    BY <2>2, <2>3
<1>3. \/ Cut(50, "rate") \/ Cut(75, "generic") \/ Cut(85, "generic") \/ Grow(window')
      \/ UNCHANGED <<target, available, held, releasing, burns, change, left, ages>>
  BY DEF Observe
<1>4. CASE UNCHANGED <<target, available, held, releasing, burns, change, left, ages>>
  BY <1>4 DEF poolVars
<1> QED
  BY <1>1, <1>2, <1>3, <1>4

\* Every step of the controller and its tasks is a step of the pool, or none.
LEMMA RateStepIsPoolStep ==
    ASSUME TypeOK, [RateNext]_rateVars
    PROVE  [PoolNext]_poolVars
<1>1. CASE Request \/ Return \/ Release \/ Adjust \/ Reconfigure
  BY <1>1 DEF Request, Return, Release, Adjust, Reconfigure, DropStep, PoolNext
<1>2. CASE Tick \/ UNCHANGED rateVars
  BY <1>2 DEF Tick, rateVars, poolVars
<1>3. CASE \E status \in Statuses : Observe(status)
  BY <1>3, ObserveIsPoolStep DEF PoolNext
<1> QED
  BY <1>1, <1>2, <1>3 DEF RateNext

\* A pool under its controller is a pool: the target it is set, however late and
\* in whatever order requests are observed, never breaks the limiter's contract
\* (ProviderRateController over AdaptiveLimiter).
THEOREM ControllerKeepsContract == RateSpec => PoolSpec
<1>1. RateInit => PoolInit
  BY DEF RateInit
<1>2. PoolInvariant /\ [RateNext]_rateVars => [PoolNext]_poolVars
  BY RateStepIsPoolStep DEF PoolInvariant
<1>3. PoolInvariant /\ [RateNext]_rateVars => PoolInvariant'
  BY <1>2, PoolStepHolds
<1>4. RateInit => PoolInvariant
  BY <1>1, PoolInitHolds
<1> QED
  BY <1>1, <1>2, <1>3, <1>4, PTL DEF RateSpec, PoolSpec

\* Intervals are lengths of time.
LEMMA IntervalsAreNatural == Interval \in [Clocks -> Nat]
BY ControllerAssumption DEF Interval, Clocks

\* The invariant of the controller.
LEMMA RateInitHolds == RateInit => RateInvariant
<1> SUFFICES ASSUME RateInit PROVE RateInvariant
  OBVIOUS
<1>1. PoolInvariant
  BY PoolInitHolds DEF RateInit
<1>2. <<>> \in Seq(Statuses) /\ Len(<<>>) <= WindowSize
  BY ControllerAssumption
<1> QED
  BY <1>1, <1>2, ControllerAssumption, IntervalsAreNatural
  DEF RateInit, RateInvariant, RateTypeOK, TasksBounded, PoolInvariant, PoolInit

\* The window holds observations, and no more than it should.
LEMMA PushedBounded ==
    ASSUME window \in Seq(Statuses), Len(window) <= WindowSize, NEW status \in Statuses
    PROVE  Pushed(status) \in Seq(Statuses) /\ Len(Pushed(status)) <= WindowSize
BY ControllerAssumption DEF Pushed

LEMMA RateStepHolds ==
    ASSUME RateInvariant, PoolInvariant, PoolInvariant', [RateNext]_rateVars
    PROVE  RateInvariant'
<1>1. TypeOK /\ TypeOK' /\ TargetBounded'
  BY DEF PoolInvariant
<1> USE ControllerAssumption DEF RateInvariant, RateTypeOK, TasksBounded
<1>2. CASE Request \/ Adjust \/ Reconfigure
  <2>1. UNCHANGED controllerVars
    BY <1>2 DEF Request, Adjust, Reconfigure
  <2>2. owner = "controller" => held' + releasing' + ended <= Slots
    <3>1. CASE Request
      BY <1>1, <3>1 DEF Request, Acquire, TypeOK
    <3>2. CASE Adjust
      <4>1. held' = held /\ releasing' = releasing
        BY <3>2 DEF Adjust, UpdateStep, CancelBurns, AddPermits, RemoveIdle, DeferBurns
      <4> QED
        BY <4>1
    <3>3. CASE Reconfigure
      BY <3>3 DEF Reconfigure
    <3> QED
      BY <1>2, <3>1, <3>2, <3>3
  <2> QED
    BY <1>1, <2>1, <2>2 DEF controllerVars
<1>3. CASE Return \/ Release
  <2>1. owner' = owner /\ window' = window /\ ages' = ages
    BY <1>3 DEF Return, Release
  <2>2. /\ ended' = ended \/ (owner = "controller" /\ ended' = ended + 1)
        /\ owner = "controller" => held' + releasing' + ended' = held + releasing + ended
    <3>0. held \in Nat /\ releasing \in Nat /\ ended \in Nat
      BY <1>1 DEF TypeOK
    <3>1. CASE DropBurnt /\ End
      BY <3>0, <3>1 DEF DropBurnt, End
    <3>2. CASE DropUnburnt /\ UNCHANGED ended
      BY <3>0, <3>2 DEF DropUnburnt
    <3>3. CASE Release
      BY <3>0, <3>3 DEF Release, GiveBack, End
    <3> QED
      BY <1>3, <3>1, <3>2, <3>3 DEF Return
  <2>3. TasksBounded'
    BY <2>1, <2>2
  <2>4. ended' \in 0 .. Slots
    <3>1. held' \in Nat /\ releasing' \in Nat /\ ended' \in Nat
      BY <1>1, <2>2 DEF TypeOK
    <3> QED
      BY <2>1, <2>2, <2>3, <3>1
  <2> QED
    BY <1>1, <2>1, <2>3, <2>4
<1>4. CASE Tick
  <2>1. /\ owner' = owner /\ window' = window /\ ended' = ended
        /\ held' = held /\ releasing' = releasing
        /\ ages' = [k \in Clocks |->
                      IF ages[k] < Interval[k] THEN ages[k] + 1 ELSE ages[k]]
    BY <1>4 DEF Tick
  <2>2. ages' \in [Clocks -> Nat] /\ \A k \in Clocks : ages'[k] <= Interval[k]
    BY <2>1, IntervalsAreNatural
  <2> QED
    BY <1>1, <2>1, <2>2
<1>5. ASSUME NEW status \in Statuses, Observe(status) PROVE RateInvariant'
  <2>1. /\ owner' = owner /\ owner = "controller"
        /\ ended' = ended - 1 /\ ended > 0 /\ window' = Pushed(status)
    BY <1>5 DEF Observe
  <2>2. held' = held /\ releasing' = releasing
    BY <1>1, <1>5, ObserveIsPoolStep DEF Update, Retarget, poolVars
  <2>3. window' \in Seq(Statuses) /\ Len(window') <= WindowSize
    BY <1>5, <2>1, PushedBounded
  <2>4. ages' \in [Clocks -> Nat] /\ \A k \in Clocks : ages'[k] <= Interval[k]
    <3>1. \/ ages' = ages
          \/ \E clock \in {"growth", "rate", "generic"} : ages' = [ages EXCEPT ![clock] = 0]
      BY <1>1, <1>5, ObserveIsPoolStep
    <3> QED
      BY <3>1, IntervalsAreNatural DEF Clocks
  <2> QED
    BY <1>1, <2>1, <2>2, <2>3, <2>4 DEF TypeOK
<1>6. CASE UNCHANGED rateVars
  BY <1>1, <1>6 DEF rateVars
<1> QED
  BY <1>2, <1>3, <1>4, <1>5, <1>6 DEF RateNext

\* The state of pool and controller has its types, and the tasks that hold a
\* permit or wait to be observed never exceed the driver's.
THEOREM ControllerTypeCorrect == RateSpec => []RateTypeOK
<1>1. RateInvariant /\ PoolInvariant /\ PoolInvariant' /\ [RateNext]_rateVars => RateInvariant'
  BY RateStepHolds
<1>2. RateInvariant => RateTypeOK
  BY DEF RateInvariant
<1> QED
  BY <1>1, <1>2, RateInitHolds, ControllerKeepsContract, PoolInvariantHolds, PTL DEF RateSpec

\* Under the controller no permit is lost or made up.
THEOREM ControllerConservesPermits == RateSpec => []PermitsConserved
BY ControllerKeepsContract, PermitsAreConserved, PTL

\* Under the controller the pool always has its target to give.
THEOREM ControllerNeverStarves == RateSpec => []PoolNeverStarves
BY ControllerKeepsContract, PoolDoesNotStarve, PTL

\* Under the controller the requests in flight respect the target.
THEOREM ControllerRespectsTarget == RateSpec => []NeverAboveTarget
BY ControllerKeepsContract, PoolRespectsTarget, PTL
=============================================================================
