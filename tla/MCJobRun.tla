------------------------------ MODULE MCJobRun ------------------------------
(* JobRun on one or two segments; what the cache knows of them.            *)
EXTENDS JobRun

Anything == [c \in Clients |-> Asks]

NoHits == [s \in Segments |-> NoText]
OneHit == [s \in Segments |-> IF s = 1 THEN CHOOSE m \in ModelTexts : TRUE ELSE NoText]
=============================================================================
