-------------------------- MODULE ContextRegistry --------------------------
(***************************************************************************)
(* The sliding-context fence (ContextRegistry in                           *)
(* bookforge-llm/src/scheduler.rs): which segments have come to an end,    *)
(* and which of them a request may be shown, or must wait for, as context. *)
(***************************************************************************)
EXTENDS BatchPlan

CONSTANTS
    Window,      \* prior segments shown to a request; 0 switches context off
    BookScope    \* prior segments may come from earlier chapters

ASSUME ContextAssumption == Window \in Nat /\ BookScope \in BOOLEAN

VARIABLE completed    \* how each segment ended, as far as published

RegistryTypeOK == completed \in [Segments -> {"none", "succeeded", "failed"}]

RegistryInit == completed = [s \in Segments |-> "none"]

\* prior_segments_before: the Window segments before s in its scope.
Prior(s) ==
    LET before == {p \in Segments : p < s /\ (BookScope \/ SectionOf[p] = SectionOf[s])}
    IN  {p \in before : Cardinality({q \in before : q >= p}) <= Window}

\* context_pairs_for_batch awaits the context of a batch's earliest item.
Earliest(b) == SegOf[CHOOSE i \in Covers(b) : \A j \in Covers(b) : i <= j]

\* await_context_for, strict: every prior segment has been published.
ContextReady(b) == \A p \in Prior(Earliest(b)) : completed[p] # "none"

\* publish: a later entry overwrites an earlier one.
Publish(S, how) == completed' = [s \in Segments |-> IF s \in S THEN how ELSE completed[s]]
=============================================================================
