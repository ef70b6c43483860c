-------------------------- MODULE MCCorrectionDesk --------------------------
(* Two tabs and, in some runs, one shell, correcting the book of one job.  *)
EXTENDS CorrectionDesk

Anything == [c \in Clients |-> Asks]

\* The impatient tab has words of its own; the other clients share the rest.
First    == CHOOSE t \in HumanTexts : TRUE
OwnWords == [c \in Clients |-> {a \in Asks : (a.text = First) = (c \in Impatient)}]
=============================================================================
