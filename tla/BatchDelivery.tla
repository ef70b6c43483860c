---------------------------- MODULE BatchDelivery ----------------------------
(***************************************************************************)
(* What batch translation promises the checkpoint writer, whatever the     *)
(* batching, splitting, retrying and repairing behind it: translated       *)
(* blocks arrive, and every segment is handed over at most once, as        *)
(* succeeded when all of its blocks are there, for review when one is not. *)
(* After the hand-over of an incomplete segment nothing arrives any more.  *)
(***************************************************************************)
EXTENDS BatchPlan

VARIABLES
    arrived,    \* items whose translation was accepted, so far
    report      \* what the writer was told of each segment

deliveryVars == <<arrived, report>>

Whole(s, I) == ItemsOf(s) \subseteq I

DeliveryInit ==
    /\ arrived = {}
    /\ report = [s \in Segments |-> "none"]

Reported(S, I) ==
    [s \in Segments |-> IF s \notin S THEN report[s]
                        ELSE IF Whole(s, I) THEN "succeeded" ELSE "needs_review"]

\* Some blocks arrive, and segments they make whole are handed over.
Arrive ==
    \E S \in SUBSET {s \in Segments : report[s] = "none"} :
        /\ arrived \subseteq arrived'
        /\ \A s \in S : Whole(s, arrived')
        /\ report' = Reported(S, arrived')
        /\ \A s \in Segments : report[s] # "needs_review"

\* The run ends: what is left of the book is handed over.
Close ==
    \E S \in SUBSET {s \in Segments : report[s] = "none"} :
        /\ report' = Reported(S, arrived)
        /\ UNCHANGED arrived

DeliveryNext == Arrive \/ Close

DeliverySpec == DeliveryInit /\ [][DeliveryNext]_deliveryVars
=============================================================================
