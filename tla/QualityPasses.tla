--------------------------- MODULE QualityPasses ---------------------------
(***************************************************************************)
(* The two quality passes over a translated book: the review of            *)
(* bookforge-llm/src/qa_batch.rs, and the double check with its correction *)
(* rounds of double_check.rs.  Both pack items into chunks, give every     *)
(* chunk a task, split what comes back in the wrong shape, and join the    *)
(* tasks in the order they end.  Their requests are calls of ProviderCalls.*)
(*                                                                         *)
(* An item is a translated block (of the review: a segment).  A text is    *)
(* the stored one, one that fails validation, or one that passes it.       *)
(***************************************************************************)
EXTENDS ProviderCalls, Sequences, FiniteSets, Functions

CONSTANTS
    ItemCount,     \* items of the book, in reading order
    Copied,        \* items whose stored text is a copy of the source
    Kinds,         \* passes of this instance
    ChunkSize,     \* items of a chunk
    Concurrency,   \* tasks at work at once
    Rounds,        \* correction_rounds
    MaxPauses      \* bound: pauses a user asks for

Items == 1 .. ItemCount

ASSUME PassAssumption ==
    /\ ItemCount \in Nat /\ Copied \subseteq Items /\ Callers = Items
    /\ Kinds \subseteq {"review", "audit_only", "double_check"}
    /\ {ChunkSize, Concurrency, Rounds} \subseteq Nat \ {0} /\ MaxPauses \in Nat

VARIABLES
    kind,      \* which pass this is
    stage,     \* what its tasks do, or how it ended
    round,     \* the correction round
    task,      \* each task: where it is, the chunks it has left, what it found
    pending,   \* the items to correct, in the order they are asked for
    text,      \* the text a correction of the item starts from
    records,   \* how many records (reviews) each item has
    passed,    \* items the audit let pass
    signal,    \* the PauseSignal
    pauses

passVars    == <<kind, stage, round, task, pending, text, records, passed>>
signalVars  == <<signal, pauses>>
qualityVars == <<callVars, passVars, signalVars>>

-----------------------------------------------------------------------------
Texts    == {"stored", "broken", "better"}
Verdicts == {"pass", "keep", "correct"}   \* keep: an issue, but none that needs correction

NoTask == [pc |-> "absent", chunk |-> <<>>, queue |-> <<>>, found |-> [i \in Items |-> "none"]]
Ended  == {"done", "failed"}

PassTypeOK ==
    /\ CallsTypeOK
    /\ kind \in Kinds /\ stage \in {"review", "audit", "correct"} \cup Ended /\ round \in 0 .. Rounds
    /\ task \in [Callers -> [pc : {"absent", "waiting", "working", "asking", "over", "error"},
                             chunk : Seq(Items), queue : Seq(Seq(Items)),
                             found : [Items -> Verdicts \cup Texts \cup {"none"}]]]
    /\ pending \in Seq(Items) /\ text \in [Items -> Texts]
    /\ records \in [Items -> Nat] /\ passed \subseteq Items
    /\ signal \in {"running", "paused", "stopped"} /\ pauses \in 0 .. MaxPauses

\* chunk_by_budget: neighbours, at most ChunkSize to a chunk.
Chunks(items) ==
    [k \in 1 .. (Len(items) + ChunkSize - 1) \div ChunkSize |->
        SubSeq(items, (k - 1) * ChunkSize + 1,
               IF k * ChunkSize < Len(items) THEN k * ChunkSize ELSE Len(items))]

\* One task for each chunk.
TasksFor(items) ==
    [t \in Callers |->
        IF t \in DOMAIN Chunks(items)
        THEN [NoTask EXCEPT !.pc = "waiting", !.chunk = Chunks(items)[t], !.queue = <<Chunks(items)[t]>>]
        ELSE NoTask]

\* A set of items in reading order.
InOrder(I) ==
    CHOOSE q \in [1 .. Cardinality(I) -> I] : \A j, k \in DOMAIN q : j < k => q[j] < q[k]

\* A copied text is an issue without an audit.
PassInit ==
    /\ CallsInit
    /\ kind \in Kinds /\ round = 0
    /\ stage = IF kind = "review" THEN "review" ELSE "audit"
    /\ task = TasksFor(InOrder(IF kind = "review" THEN Items ELSE Items \ Copied))
    /\ pending = InOrder(IF kind = "review" THEN {} ELSE Copied)
    /\ text = [i \in Items |-> "stored"] /\ passed = {}
    /\ records = [i \in Items |-> 0]
    /\ signal = "running" /\ pauses = 0

-----------------------------------------------------------------------------
(* A task.                                                                 *)

SetTask(t, state) == task' = [task EXCEPT ![t] = state]
Leaves(t)         == UNCHANGED <<kind, stage, round, pending, text, records, passed, signalVars>>

\* The task goes on with what is left in its queue, or is over.
GoOn(t, queue, found) ==
    SetTask(t, [task[t] EXCEPT !.pc = IF queue = <<>> THEN "over" ELSE "working",
                               !.queue = queue, !.found = found])

\* What was found of each item of a chunk.
Finding(t, b, outcome) == [i \in Items |-> IF i \in Range(b) THEN outcome[i] ELSE task[t].found[i]]

\* The outcome of a chunk the provider gave none for: every review is made up,
\* an audit counts as an issue, a correction as left out.
Failing(b) ==
    [i \in Range(b) |-> IF stage = "correct" THEN "none" ELSE "keep"]

Outcomes(b) ==
    CASE stage = "review"  -> {Failing(b)}
      [] stage = "audit"   -> [Range(b) -> Verdicts]
      [] stage = "correct" -> [Range(b) -> Texts \cup {"none"}]

\* A review waits for the pause before it queues for its permit, too.
Admit(t) ==
    /\ task[t].pc = "waiting" /\ (stage = "review" => signal # "paused")
    /\ Cardinality({u \in Callers : task[u].pc \in {"working", "asking"}}) < Concurrency
    /\ SetTask(t, [task[t] EXCEPT !.pc = "working"])
    /\ Leaves(t) /\ UNCHANGED callVars

Ask(t) ==
    /\ task[t].pc = "working" /\ signal = "running"
    /\ BuildBody(t)
    /\ SetTask(t, [task[t] EXCEPT !.pc = "asking"])
    /\ Leaves(t)

\* A chunk that cannot be asked for, or not be answered, ends a task of the
\* double check; the review makes its findings up.
GiveUp(t) ==
    LET b == Head(task[t].queue) IN
    IF stage = "review" THEN GoOn(t, Tail(task[t].queue), Finding(t, b, Failing(b)))
                        ELSE SetTask(t, [task[t] EXCEPT !.pc = "error"])

AskStopped(t) ==
    /\ task[t].pc = "working" /\ signal = "stopped"
    /\ GiveUp(t)
    /\ Leaves(t) /\ UNCHANGED callVars

Replied(t, results) ==
    /\ task[t].pc = "asking" /\ call[t].pc \in results
    /\ SetCall(t, NoCall)
    /\ Leaves(t) /\ UNCHANGED <<supported, cancelled>>

\* Items the provider leaves out are issues, too.
Understood(t) ==
    /\ Replied(t, {"answer"})
    /\ LET b == Head(task[t].queue) IN
       \E outcome \in Outcomes(b) : GoOn(t, Tail(task[t].queue), Finding(t, b, outcome))

\* Truncated, not JSON, or (of a double check) two findings for one item: two
\* halves are asked for instead.
Misshapen(t) ==
    /\ Replied(t, {"answer", "invalid"})
    /\ LET b   == Head(task[t].queue)
           mid == Len(b) \div 2
       IN  IF Len(b) > 1
           THEN GoOn(t, <<SubSeq(b, 1, mid), SubSeq(b, mid + 1, Len(b))>> \o Tail(task[t].queue),
                     task[t].found)
           ELSE GoOn(t, Tail(task[t].queue), Finding(t, b, Failing(b)))

Refusal(t) == Replied(t, {"fatal"}) /\ GiveUp(t)

TaskStep(t) == Admit(t) \/ Ask(t) \/ AskStopped(t) \/ Understood(t) \/ Misshapen(t) \/ Refusal(t)

-----------------------------------------------------------------------------
(* The pass.                                                               *)

Joinable(t) == stage \notin Ended /\ task[t].pc \in {"over", "error"}
AllJoined   == \A t \in Callers : task[t].pc = "absent"

\* A pass that fails drops the tasks that are left, and their requests.
Fail ==
    /\ stage' = "failed"
    /\ task' = [t \in Callers |-> NoTask] /\ call' = [c \in Callers |-> NoCall]
    /\ UNCHANGED <<supported, cancelled, kind, round, pending, text, records, passed>>

ItemsWith(t, findings) == {i \in Range(task[t].chunk) : task[t].found[i] \in findings}
Settle(I)              == records' = [i \in Items |-> IF i \in I THEN records[i] + 1 ELSE records[i]]

JoinReview(t) ==
    /\ stage = "review" /\ Joinable(t)
    /\ Settle(ItemsWith(t, {"keep"}))
    /\ SetTask(t, NoTask)
    /\ UNCHANGED <<callVars, kind, stage, round, pending, text, passed>>

JoinAudit(t) ==
    /\ stage = "audit" /\ Joinable(t)
    /\ IF signal = "stopped" \/ task[t].pc = "error"
       THEN Fail
       ELSE /\ Settle(ItemsWith(t, {"keep"}))
            /\ passed' = passed \cup ItemsWith(t, {"pass"})
            /\ pending' = pending \o InOrder(ItemsWith(t, {"correct"}))
            /\ SetTask(t, NoTask)
            /\ UNCHANGED <<callVars, kind, stage, round, text>>

\* validate_correction compares with the text the round started from.
Valid(i, new) == new # "broken" /\ (i \in Copied => new # "stored") /\ new # text[i]

\* resolve_correction_chunk: what the last round leaves unsettled is settled as
\* it is; before, it goes to the next round with its newest text.  The mutant
\* forgets what was left out of the answer.
JoinCorrection_Forget(t) ==
    /\ stage = "correct" /\ Joinable(t)
    /\ IF task[t].pc = "error"
       THEN Fail
       ELSE LET valid   == {i \in ItemsWith(t, Texts) : Valid(i, task[t].found[i])}
                invalid == ItemsWith(t, Texts) \ valid
            IN  /\ Settle(IF round = Rounds THEN Range(task[t].chunk) ELSE valid)
                /\ pending' = IF round = Rounds THEN pending ELSE pending \o InOrder(invalid)
                /\ text' = [i \in Items |-> IF i \in invalid THEN task[t].found[i] ELSE text[i]]
                /\ SetTask(t, NoTask)
                /\ UNCHANGED <<callVars, kind, stage, round, passed>>

JoinCorrection(t) ==
    /\ stage = "correct" /\ Joinable(t)
    /\ IF task[t].pc = "error"
       THEN Fail
       ELSE LET valid   == {i \in ItemsWith(t, Texts) : Valid(i, task[t].found[i])}
                invalid == ItemsWith(t, Texts) \ valid
            IN  /\ Settle(IF round = Rounds THEN Range(task[t].chunk) ELSE valid)
                /\ pending' = IF round = Rounds THEN pending
                              ELSE pending \o InOrder(invalid) \o InOrder(ItemsWith(t, {"none"}))
                /\ text' = [i \in Items |-> IF i \in invalid THEN task[t].found[i] ELSE text[i]]
                /\ SetTask(t, NoTask)
                /\ UNCHANGED <<callVars, kind, stage, round, passed>>

BeginRound ==
    /\ kind = "double_check" /\ stage \notin Ended /\ AllJoined
    /\ round < Rounds /\ pending # <<>>
    /\ IF signal = "stopped"
       THEN Fail
       ELSE /\ stage' = "correct" /\ round' = round + 1
            /\ task' = TasksFor(pending) /\ pending' = <<>>
            /\ UNCHANGED <<callVars, kind, text, records, passed>>

\* Without corrections every issue ends as a record.
EndPass ==
    /\ stage \notin Ended /\ AllJoined
    /\ kind = "double_check" => round = Rounds \/ pending = <<>>
    /\ IF kind = "double_check" /\ signal = "stopped"
       THEN Fail
       ELSE /\ stage' = "done"
            /\ Settle(Range(pending))
            /\ UNCHANGED <<callVars, kind, round, task, pending, text, passed>>

PassStep ==
    /\ \/ \E t \in Callers : JoinReview(t) \/ JoinAudit(t) \/ JoinCorrection(t)
       \/ BeginRound \/ EndPass
    /\ UNCHANGED signalVars

\* The control file, through the poller or the watcher.
Pause   == signal = "running" /\ pauses < MaxPauses /\ signal' = "paused" /\ pauses' = pauses + 1
Resume  == signal = "paused" /\ signal' = "running" /\ UNCHANGED pauses
Stop    == signal # "stopped" /\ signal' = "stopped" /\ UNCHANGED pauses
Control == stage \notin Ended /\ (Pause \/ Resume \/ Stop) /\ UNCHANGED <<callVars, passVars>>

Work ==
    \/ \E t \in Callers : TaskStep(t) \/ (CallStep(t) /\ UNCHANGED <<passVars, signalVars>>)
    \/ PassStep

QualityNext ==
    \/ Work \/ Control
    \/ stage \notin Ended /\ CtrlC /\ UNCHANGED <<passVars, signalVars>>

\* The runtime polls the tasks, and every request ends: it has a timeout.
QualitySpec == PassInit /\ [][QualityNext]_qualityVars /\ WF_qualityVars(Work)

-----------------------------------------------------------------------------
(* Properties.                                                             *)

\* A pass that ends well has settled every item once: the items the audit let
\* pass have no record, all others have exactly one, whatever the provider left
\* out, answered in the wrong shape or broke, over splits and rounds
\* (run_audit_chunk_resilient, resolve_correction_chunk, qa_batch).
EveryItemIsSettled ==
    stage = "done" => \A i \in Items : records[i] = IF i \in passed THEN 0 ELSE 1

\* A pass comes to its end, however calls fail and fall back, unless it stays
\* paused: retries, splits and rounds are bounded.
PassEnds == <>[](signal = "paused") \/ <>(stage \in Ended)

\* What a task at work has still to do: the items it may ask for together, the way
\* to an answer for the first of its chunks, the posts of that call, the fallback.
AtWork(t)   == task[t].pc \in {"waiting", "working", "asking"}
Together(t) == {p \in Items \X Items :
                   \E k \in DOMAIN task[t].queue : {p[1], p[2]} \subseteq Range(task[t].queue[k])}

Left(t) ==
    <<Cardinality(Together(t)),
      IF task[t].pc = "waiting" THEN 3 ELSE IF task[t].pc = "working" THEN 2
      ELSE IF call[t].pc \in Results THEN 0 ELSE 1,
      MaxAttempts - call[t].attempt,
      IF call[t].tried THEN 0 ELSE 1,
      CASE call[t].pc = "built" -> 2 [] call[t].pc = "delay" -> 1 [] OTHER -> 0>>

Below(r, q) == \E n \in 1 .. 5 : r[n] < q[n] /\ \A m \in 1 .. n - 1 : r[m] = q[m]

\* Tasks run out of work, which is why a pass ends: every step of a task, and of
\* its call, leaves it less to do, no step of anyone leaves it more, and it gets
\* new work in a new round only (Retry, Misshapen, BadRequest, BeginRound).
TasksRunOut ==
    [][/\ round' = round \/ (round < Rounds /\ round' = round + 1)
       /\ \A t \in Callers : AtWork(t)' =>
             IF AtWork(t)
             THEN /\ Left(t)' = Left(t) \/ Below(Left(t)', Left(t))
                  /\ TaskStep(t) \/ (CallStep(t) /\ UNCHANGED passVars) => Below(Left(t)', Left(t))
             ELSE round' = round + 1]_qualityVars

\* A correction that is applied changes the text that was rejected (comment at
\* double_check.rs:887).
AppliedTextIsNew ==
    [][\A t \in Callers : JoinCorrection(t) =>
          \A i \in ItemsWith(t, Texts) : Valid(i, task[t].found[i]) => task[t].found[i] # "stored"]_qualityVars
=============================================================================
