-------------------------- MODULE MCBatchDispatch --------------------------
EXTENDS BatchDispatch

\* A chapter of two segments: the first has two blocks, the second one.
ThreeItems == [i \in 1 .. 3 |-> IF i <= 2 THEN 1 ELSE 2]
OneChapter == [s \in 1 .. 2 |-> 1]
OneMode    == [i \in 1 .. 3 |-> "plain"]
\* One block in each of four segments; the second carries markers.
FourSegments == [i \in 1 .. 4 |-> i]
FourInOne    == [s \in 1 .. 4 |-> 1]
MarkedSecond == [i \in 1 .. 4 |-> IF i = 2 THEN "marker_safe" ELSE "plain"]

Alone == [strict |-> FALSE, reasoning |-> FALSE, slots |-> {2}, limits |-> {2},
          outcomes |-> {}, users |-> {}]
Strict == [Alone EXCEPT !.strict = TRUE, !.slots = {3}]

\* Every outcome, every command and strict context, a few at a time.
EverySetup ==
    {[Alone  EXCEPT !.outcomes = {"reject", "transport"}, !.users = {"pause", "stop"}],
     [Alone  EXCEPT !.outcomes = {"echo", "too_large", "fatal"}, !.users = {"stop"}],
     [Alone  EXCEPT !.outcomes = {"connect"}, !.users = {"reconfigure"},
                    !.slots = {1, 2}, !.limits = {1, 3}],
     [Alone  EXCEPT !.outcomes = {"truncated"}],
     [Alone  EXCEPT !.outcomes = {"truncated", "status"}, !.reasoning = TRUE, !.slots = {1}, !.limits = {3}],
     [Alone  EXCEPT !.outcomes = {"empty"}, !.limits = {3}],
     [Strict EXCEPT !.outcomes = {"reject", "status"}],
     [Strict EXCEPT !.outcomes = {"invalid"}]}

\* No outcome but success and no user: two slots, strict context.
StrictTwoSlots == {[Strict EXCEPT !.slots = {2}, !.limits = {1}]}
\* One slot, no failed request, and a user who stops the run.
StoppedOnce    == {[Alone EXCEPT !.slots = {1}, !.limits = {1}, !.users = {"stop"}]}
=============================================================================
