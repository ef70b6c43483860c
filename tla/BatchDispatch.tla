--------------------------- MODULE BatchDispatch ---------------------------
(***************************************************************************)
(* Batch translation (translate_batches_with_control in                    *)
(* bookforge-llm/src/batch/execution.rs): one driver fills its slots with  *)
(* tasks from a queue of batches, joins the tasks one at a time, and puts  *)
(* back, splits, escalates or gives up a batch by how its request ended;   *)
(* then it asks once more for single items that were rejected, and hands   *)
(* what is left to the checkpoint writer.  Tasks await their context, the  *)
(* pause signal and a permit, and the user pauses, resumes, stops or       *)
(* reconfigures the run at any time.                                       *)
(*                                                                         *)
(* Faults are not counted: a request may end in any way its setup lists;   *)
(* only the code's own limits bound the retries.  An output allowance is   *)
(* a level from 1 to Ceiling.  Sleeps between retries are left out.        *)
(***************************************************************************)
EXTENDS ContextRegistry

CONSTANTS
    Setups,          \* what a run may be given: strict context or not, a reasoning
                     \* model (its thinking shares the allowance) or not, the slots and
                     \* item limits it may start with or switch to, how its requests
                     \* may end besides well, and what its users may do
    LatencyCap,      \* the largest batch that can be answered in time
    MaxAttempts,     \* scheduler.max_attempts
    ConnectAttempts, \* CONNECT_ERROR_MIN_ATTEMPTS
    CompactRetries,  \* compact retries of a truncated item
    SizingPolicy,    \* the target language has a built-in sizing policy
    Ceiling,         \* the highest allowance level
    Adaptive,        \* outcomes adjust the batch size
    RepairLimit,     \* items in a repair batch
    MaxRevision      \* bound: reconfigurations

Transients == {"status", "connect", "transport", "empty"}
Bisected   == {"transport", "empty"}
Errors     == Transients \cup {"too_large", "truncated", "invalid", "fatal"}

ASSUME DispatchAssumption ==
    /\ Setups \subseteq [strict : BOOLEAN, reasoning : BOOLEAN,
                        slots : SUBSET (Nat \ {0}), limits : SUBSET (Nat \ {0}),
                        outcomes : SUBSET (Errors \cup {"reject", "echo"}),
                        users : SUBSET {"pause", "stop", "reconfigure"}]
    /\ LatencyCap \in Nat
    /\ MaxAttempts \in Nat /\ ConnectAttempts \in Nat /\ CompactRetries \in Nat
    /\ SizingPolicy \in BOOLEAN /\ Adaptive \in BOOLEAN
    /\ Ceiling \in Nat \ {0} /\ RepairLimit \in Nat \ {0} /\ MaxRevision \in Nat

VARIABLES
    signal,      \* PauseSignal
    setup,       \* what this run was given
    settings,    \* the live settings: [revision, slots, limit]
    calm,        \* history: the run was neither paused nor stopped
    phase,       \* where the driver is
    stopping,    \* stop_dispatch
    queue,       \* pending_queue
    tasks,       \* the tasks in the JoinSet
    sizer,       \* the sizer in effect: [revision, limit]
    allowance,   \* escalated_output_tokens_by_item; 0 when absent
    tries,       \* transient, invalid and compact attempts of each item
    blocks,      \* items translated
    failures,    \* <<item, cause>> of the items given up or rejected
    verdict,     \* segment_translations: status of each segment, or none
    repairs,     \* repair batches not dispatched
    retried,     \* repair batches asked for twice
    finalized,   \* incrementally_finalized_segment_ids
    sent         \* what reached the checkpoint writer, per segment

envVars    == <<signal, setup, settings, calm>>
ledger     == <<allowance, tries>>
harvest    == <<blocks, failures, completed, finalized, sent>>
repairVars == <<verdict, repairs, retried>>
batchVars  == <<signal, setup, settings, calm, phase, stopping, queue, tasks, sizer, allowance, tries,
                blocks, failures, completed, verdict, repairs, retried, finalized, sent>>

-----------------------------------------------------------------------------
Ways    == {"transient", "invalid", "compact"}
Causes  == {"soft", "hard", "interrupted"}    \* soft: repairable_batch_failure
Kinds   == Errors \cup {"none", "ok", "stopped", "interrupted"}
Answers == [kind : Kinds, rejected : SUBSET Items, echoed : SUBSET Items]
Tasks   == [batch : Seq(Items),
            pc : {"subscribe", "check", "looked", "asleep", "gate", "repair_gate", "permit",
                  "request", "answered"},
            level : 1 .. Ceiling, escalated : BOOLEAN, woken : BOOLEAN, answer : Answers]

BatchTypeOK ==
    /\ RegistryTypeOK
    /\ signal \in {"running", "paused", "stopped"}
    /\ setup \in Setups
    /\ settings \in [revision : 0 .. MaxRevision, slots : setup.slots, limit : setup.limits]
    /\ calm \in BOOLEAN
    /\ phase \in {"fill", "join", "repair", "repair_join", "finish", "done"}
    /\ stopping \in BOOLEAN
    /\ queue \in Seq(Seq(Items) \ {<<>>})
    /\ IsFiniteSet(tasks) /\ \A t \in tasks : t \in Tasks /\ t.batch # <<>>
    /\ sizer.revision \in 0 .. MaxRevision /\ sizer.limit \in [Modes -> Nat \ {0}]
    /\ allowance \in [Items -> 0 .. Ceiling]
    /\ tries \in [Ways -> [Items -> Nat]]
    /\ blocks \subseteq Items /\ failures \subseteq Items \X Causes
    /\ verdict \in [Segments -> {"none", "succeeded", "needs_review"}]
    /\ repairs \in Seq(Seq(Items) \ {<<>>}) /\ retried \subseteq Seq(Items)
    /\ finalized \subseteq Segments
    /\ sent \in [Segments -> Seq({"succeeded", "needs_review"})]

NoAnswer == [kind |-> "none", rejected |-> {}, echoed |-> {}]

BatchInit ==
    /\ RegistryInit
    /\ signal = "running" /\ calm = TRUE
    /\ setup \in Setups
    /\ \E k \in setup.slots, n \in setup.limits :
          /\ settings = [revision |-> 0, slots |-> k, limit |-> n]
          /\ sizer = [revision |-> 0, limit |-> [m \in Modes |-> n]]
          /\ queue = Plan(n)
    /\ phase = "fill" /\ stopping = FALSE /\ tasks = {}
    /\ allowance = [i \in Items |-> 0]
    /\ tries = [w \in Ways |-> [i \in Items |-> 0]]
    /\ blocks = {} /\ failures = {}
    /\ verdict = [s \in Segments |-> "none"]
    /\ repairs = <<>> /\ retried = {}
    /\ finalized = {} /\ sent = [s \in Segments |-> <<>>]

-----------------------------------------------------------------------------
(* The user: PauseSignal, which a stop closes for good, and the live       *)
(* settings the watcher publishes.                                         *)

Signal(from, to) ==
    /\ signal \in from /\ phase # "done"
    /\ signal' = to
    /\ calm' = (calm /\ to = "running")
    /\ UNCHANGED <<setup, settings, phase, stopping, queue, tasks, sizer, ledger, harvest,
                   repairVars>>

Pause  == "pause" \in setup.users /\ Signal({"running"}, "paused")
Resume == Signal({"paused"}, "running")
Stop   == "stop" \in setup.users /\ Signal({"running", "paused"}, "stopped")

Reconfigure ==
    /\ "reconfigure" \in setup.users /\ settings.revision < MaxRevision /\ phase # "done"
    /\ \E k \in setup.slots, n \in setup.limits :
          settings' = [revision |-> settings.revision + 1, slots |-> k, limit |-> n]
    /\ UNCHANGED <<signal, setup, calm, phase, stopping, queue, tasks, sizer, ledger, harvest,
                   repairVars>>

-----------------------------------------------------------------------------
(* The driver fills its slots.                                             *)

MaxOver(f, b) == CHOOSE n \in {f[i] : i \in Covers(b)} : \A i \in Covers(b) : f[i] <= n
SetOver(f, b, n) == [i \in Items |-> IF i \in Covers(b) THEN n ELSE f[i]]

\* New settings replace the sizer and repartition what is queued.
Stale        == settings.revision # sizer.revision
CurrentSizer == IF Stale
                THEN [revision |-> settings.revision, limit |-> [m \in Modes |-> settings.limit]]
                ELSE sizer
CurrentQueue == IF Stale THEN Repartition(queue, CurrentSizer.limit) ELSE queue

Filling == phase = "fill" /\ queue # <<>> /\ ~stopping

FillPaused ==
    /\ Filling /\ signal = "paused"
    /\ phase' = "join"
    /\ UNCHANGED <<envVars, stopping, queue, tasks, sizer, ledger, harvest, repairVars>>

FillStopped ==
    /\ Filling /\ signal = "stopped"
    /\ stopping' = TRUE /\ phase' = "join"
    /\ UNCHANGED <<envVars, queue, tasks, sizer, ledger, harvest, repairVars>>

FillFull ==
    /\ Filling /\ signal = "running" /\ Cardinality(tasks) >= settings.slots
    /\ phase' = "join"
    /\ sizer' = CurrentSizer /\ queue' = CurrentQueue
    /\ UNCHANGED <<envVars, stopping, tasks, ledger, harvest, repairVars>>

FillEmpty ==
    /\ phase = "fill" /\ (queue = <<>> \/ stopping) /\ tasks # {}
    /\ phase' = "join"
    /\ UNCHANGED <<envVars, stopping, queue, tasks, sizer, ledger, harvest, repairVars>>

\* The head is packed again under the current limit and keeps its allowance; a
\* head too slow to answer is halved in place, any other becomes a task.
NewTask(b, level) ==
    [batch |-> b, pc |-> IF setup.strict THEN "subscribe" ELSE "gate",
     level |-> IF level = 0 THEN 1 ELSE level, escalated |-> level # 0,
     woken |-> FALSE, answer |-> NoAnswer]

Dispatch ==
    /\ Filling /\ signal = "running" /\ Cardinality(tasks) < settings.slots
    /\ sizer' = CurrentSizer
    /\ \E pending \in {CurrentQueue} :
          LET head  == Head(pending)
              level == MaxOver(allowance, head)
              parts == Chunk(head, CurrentSizer.limit[ModeOfBatch(head)])
              first == Head(parts)
              slow  == level = 0 /\ Len(first) > 1 /\ Len(first) > LatencyCap
          IN
          /\ queue' = (IF slow THEN Split(first) ELSE <<>>) \o Tail(parts) \o Tail(pending)
          /\ tasks' = IF slow THEN tasks ELSE tasks \cup {NewTask(first, level)}
          /\ allowance' = SetOver(SetOver(allowance, head, level), first, 0)
    /\ UNCHANGED <<envVars, phase, stopping, tries, harvest, repairVars>>

\* With no task the driver goes round again, or waits out a pause.
JoinNone ==
    /\ phase = "join" /\ tasks = {} /\ (stopping \/ signal # "paused")
    /\ phase' = "fill" /\ stopping' = (stopping \/ signal = "stopped")
    /\ UNCHANGED <<envVars, queue, tasks, sizer, ledger, harvest, repairVars>>

-----------------------------------------------------------------------------
(* A task.  A strict one awaits its context before it holds a permit:      *)
(* await_context_for subscribes to the registry, looks, and sleeps until a *)
(* publication after its subscription.                                     *)

Step(t, pc) == tasks' = (tasks \ {t}) \cup {[t EXCEPT !.pc = pc]}
OnlyTasks   == UNCHANGED <<envVars, phase, stopping, queue, sizer, ledger, harvest, repairVars>>

Subscribe(t) ==
    /\ t.pc = "subscribe"
    /\ tasks' = (tasks \ {t}) \cup {[t EXCEPT !.pc = "check", !.woken = FALSE]}
    /\ OnlyTasks

CheckContext(t) ==
    /\ t.pc = "check"
    /\ Step(t, IF ContextReady(t.batch) THEN "gate" ELSE "looked")
    /\ OnlyTasks

\* The mutant subscribes only now.
Sleep_Subscribing(t) ==
    /\ t.pc = "looked"
    /\ tasks' = (tasks \ {t}) \cup {[t EXCEPT !.pc = "asleep", !.woken = FALSE]}
    /\ OnlyTasks

Sleep(t) == t.pc = "looked" /\ Step(t, "asleep") /\ OnlyTasks

Wake(t) == t.pc = "asleep" /\ t.woken /\ Step(t, "subscribe") /\ OnlyTasks

\* The permits in use: a translation gives its permit back when it is joined,
\* a repair when it ends.
Held == {t \in tasks : \/ t.pc = "request"
                       \/ t.pc = "answered" /\ t.answer.kind # "stopped" /\ phase \in {"fill", "join"}}

Answered(t, answer) ==
    tasks' = (tasks \ {t}) \cup {[t EXCEPT !.pc = "answered", !.answer = answer]}

GateOpens(t) ==
    /\ \/ t.pc = "gate" /\ signal = "running" /\ Cardinality(Held) < settings.slots
             /\ Step(t, "request")
       \/ t.pc = "repair_gate" /\ signal = "running" /\ Step(t, "permit")
       \/ t.pc = "permit" /\ Cardinality(Held) < settings.slots /\ Step(t, "request")
    /\ OnlyTasks

GateStops(t) ==
    /\ t.pc \in {"gate", "repair_gate"} /\ signal = "stopped"
    /\ Answered(t, [NoAnswer EXCEPT !.kind = "stopped"])
    /\ OnlyTasks

\* translate_one_batch: a good answer covers every item; some may be rejected
\* by validation and one may come twice.  A stop may cut any request short.
Endings(t) ==
    {[kind |-> "ok", rejected |-> R, echoed |-> E] :
        R \in IF "reject" \in setup.outcomes THEN SUBSET Covers(t.batch) ELSE {{}},
        E \in {{}} \cup (IF "echo" \in setup.outcomes THEN {{i} : i \in Covers(t.batch)} ELSE {})}
    \cup {[NoAnswer EXCEPT !.kind = k] : k \in
             (setup.outcomes \cap Errors) \cup (IF signal = "stopped" THEN {"interrupted"} ELSE {})}

Answer(t) ==
    /\ t.pc = "request"
    /\ \E answer \in Endings(t) : Answered(t, answer)
    /\ OnlyTasks

TaskStep(t) ==
    \/ Subscribe(t) \/ CheckContext(t) \/ Sleep(t) \/ Wake(t)
    \/ GateOpens(t) \/ GateStops(t) \/ Answer(t)

-----------------------------------------------------------------------------
(* The driver joins one task and decides what becomes of its batch.        *)

Multi(t)     == Len(t.batch) > 1
Joinable(t)  == phase = "join" /\ t \in tasks /\ t.pc = "answered"
Ended(t, K)  == Joinable(t) /\ t.answer.kind \in K

\* The registry wakes every task that subscribed before it published.
Others(t, publishes) ==
    {[u EXCEPT !.woken = u.woken \/ (publishes /\ u.pc \in {"check", "looked", "asleep"})] :
        u \in tasks \ {t}}

Joined(t, publishes) ==
    /\ tasks' = Others(t, publishes)
    /\ phase' = "fill"
    /\ stopping' = (stopping \/ signal = "stopped" \/ t.answer.kind = "stopped")
    /\ UNCHANGED <<envVars, repairVars>>

PutBack(batches) == queue' = queue \o batches /\ UNCHANGED harvest

\* The sizer after an outcome: cut to a percentage of its limit, grown by a step
\* (a success, up to the whole book), or as its intervals leave it.
SizerAfter(b, percent, step) ==
    LET m    == ModeOfBatch(b)
        n    == sizer.limit[m]
        cut  == (n * percent) \div 100
        next == {n, IF cut < 1 THEN 1 ELSE cut} \cup ({n + step} \cap Items)
    IN  IF Adaptive THEN \E k \in next : sizer' = [sizer EXCEPT !.limit[m] = k]
                    ELSE UNCHANGED sizer

\* A batch given up: its items fail, and the fence opens for its segments.  The
\* mutants record no failure, and leave the fence closed.
GiveUp_Unrecorded(b, cause) ==
    /\ Publish(SegmentsOf(Covers(b)), "failed")
    /\ UNCHANGED <<queue, blocks, failures, finalized, sent>>

GiveUp_FenceShut(b, cause) ==
    /\ failures' = failures \cup (Covers(b) \X {cause})
    /\ UNCHANGED <<queue, blocks, completed, finalized, sent>>

GiveUp(b, cause) ==
    /\ failures' = failures \cup (Covers(b) \X {cause})
    /\ Publish(SegmentsOf(Covers(b)), "failed")
    /\ UNCHANGED <<queue, blocks, finalized, sent>>

\* A task the stop reached before its request: nothing is recorded.
JoinStopped(t) ==
    /\ Ended(t, {"stopped"}) /\ Joined(t, TRUE)
    /\ Publish(SegmentsOf(Covers(t.batch)), "failed")
    /\ UNCHANGED <<queue, sizer, ledger, blocks, failures, finalized, sent>>

HandOver(S, status) ==
    /\ sent' = [s \in Segments |-> IF s \in S THEN Append(sent[s], status) ELSE sent[s]]
    /\ finalized' = finalized \cup S

\* An answer: accepted items arrive, segments they complete are published and
\* handed over at once, and rejected items open the fence for theirs.
JoinOk(t) ==
    LET good  == Covers(t.batch) \ t.answer.rejected
        whole == {s \in SegmentsOf(good) : ItemsOf(s) \subseteq blocks \cup good}
    IN
    /\ Ended(t, {"ok"}) /\ Joined(t, whole # {} \/ t.answer.rejected # {})
    /\ blocks' = blocks \cup good
    /\ failures' = failures \cup ((t.answer.rejected \cup t.answer.echoed) \X {"soft"})
    /\ completed' = [s \in Segments |-> IF s \in whole THEN "succeeded"
                                        ELSE IF s \in SegmentsOf(t.answer.rejected) THEN "failed"
                                        ELSE completed[s]]
    /\ HandOver(whole, "succeeded")
    /\ tries' = [tries EXCEPT !["compact"] = SetOver(@, t.batch, 0)]
    /\ SizerAfter(t.batch, 85, 1)
    /\ UNCHANGED <<queue, allowance>>

Tried(t, way) == MaxOver(tries[way], t.batch) + 1
Count(t, way, n) == tries' = [tries EXCEPT ![way] = SetOver(@, t.batch, n)]

\* transient_batch_attempt_limit.
AttemptLimit(kind) ==
    LET least == IF kind = "connect" THEN ConnectAttempts ELSE IF kind \in Bisected THEN 2 ELSE 1
    IN  IF MaxAttempts < least THEN least ELSE MaxAttempts

\* is_transient: the batch goes back whole (the mutant forgets that it was
\* tried), then in halves, then is given up.
JoinTransientRetry_Uncounted(t) ==
    /\ Ended(t, Transients) /\ Joined(t, FALSE)
    /\ Tried(t, "transient") < AttemptLimit(t.answer.kind)
    /\ PutBack(<<t.batch>>)
    /\ UNCHANGED <<sizer, allowance, tries>>

JoinTransientRetry(t) ==
    /\ Ended(t, Transients) /\ Joined(t, FALSE)
    /\ Tried(t, "transient") < AttemptLimit(t.answer.kind)
    /\ Count(t, "transient", Tried(t, "transient"))
    /\ PutBack(<<t.batch>>)
    /\ UNCHANGED <<sizer, allowance>>

JoinTransientSplit(t) ==
    /\ Ended(t, Bisected) /\ Multi(t) /\ Joined(t, FALSE)
    /\ Tried(t, "transient") >= AttemptLimit(t.answer.kind)
    /\ Count(t, "transient", 0)
    /\ PutBack(Split(t.batch)) /\ SizerAfter(t.batch, 85, 0)
    /\ UNCHANGED allowance

JoinTransientFail(t) ==
    /\ Ended(t, Transients) /\ ~(Multi(t) /\ t.answer.kind \in Bisected) /\ Joined(t, TRUE)
    /\ Tried(t, "transient") >= AttemptLimit(t.answer.kind)
    /\ Count(t, "transient", Tried(t, "transient"))
    /\ GiveUp(t.batch, IF t.answer.kind = "empty" THEN "soft" ELSE "hard")
    /\ UNCHANGED <<sizer, allowance>>

JoinTooLargeSplit(t) ==
    /\ Ended(t, {"too_large"}) /\ Multi(t) /\ Joined(t, FALSE)
    /\ PutBack(Split(t.batch))
    /\ UNCHANGED <<sizer, ledger>>

\* A truncated answer: a higher allowance once (a reasoning model's single item
\* up to the ceiling), compact retries for a single item, halves for the others.
NextLevel(t) ==
    IF t.level < Ceiling /\ (~t.escalated \/ (~Multi(t) /\ setup.reasoning)) THEN t.level + 1 ELSE 0

CompactAgain(t) ==
    /\ ~Multi(t) /\ (~setup.reasoning \/ NextLevel(t) = 0)
    /\ MaxOver(tries["compact"], t.batch) < CompactRetries

JoinCompactRetry(t) ==
    /\ Ended(t, {"truncated"}) /\ CompactAgain(t) /\ Joined(t, FALSE)
    /\ Count(t, "compact", Tried(t, "compact"))
    /\ allowance' = SetOver(allowance, t.batch, t.level)
    /\ PutBack(<<t.batch>>)
    /\ UNCHANGED sizer

JoinEscalate(t) ==
    /\ Ended(t, {"truncated"}) /\ ~CompactAgain(t) /\ NextLevel(t) # 0 /\ Joined(t, FALSE)
    /\ allowance' = SetOver(allowance, t.batch, NextLevel(t))
    /\ PutBack(<<t.batch>>)
    /\ UNCHANGED <<sizer, tries>>

JoinTruncatedSingle(t) ==
    /\ Ended(t, {"truncated"}) /\ ~Multi(t) /\ ~CompactAgain(t) /\ NextLevel(t) = 0
    /\ Joined(t, TRUE)
    /\ GiveUp(t.batch, "soft") /\ SizerAfter(t.batch, 75, 0)
    /\ UNCHANGED ledger

SingleLimit == IF SizingPolicy THEN 4 ELSE IF MaxAttempts < 2 THEN 2 ELSE MaxAttempts

JoinInvalidRetry(t) ==
    LET n == Tried(t, "invalid") IN
    /\ Ended(t, {"invalid"}) /\ ~Multi(t) /\ n < SingleLimit /\ Joined(t, FALSE)
    /\ tries' = [tries EXCEPT !["invalid"] = SetOver(@, t.batch, n),
                              !["compact"] = SetOver(@, t.batch, IF n < 3 THEN n ELSE 3)]
    /\ allowance' = SetOver(allowance, t.batch, t.level)
    /\ PutBack(<<t.batch>>)
    /\ UNCHANGED sizer

JoinInvalidSingle(t) ==
    /\ Ended(t, {"invalid"}) /\ ~Multi(t) /\ Tried(t, "invalid") >= SingleLimit /\ Joined(t, TRUE)
    /\ Count(t, "invalid", Tried(t, "invalid"))
    /\ GiveUp(t.batch, "soft")
    /\ UNCHANGED <<sizer, allowance>>

JoinInvalidSplit(t) ==
    /\ Multi(t) /\ Ended(t, {"invalid", "truncated"})
    /\ t.answer.kind = "truncated" => NextLevel(t) = 0
    /\ Joined(t, FALSE)
    /\ PutBack(Split(t.batch))
    /\ SizerAfter(t.batch, IF t.answer.kind = "invalid" THEN 85 ELSE 75, 0)
    /\ UNCHANGED ledger

\* Every other error is final, the one a stop makes of a request included.
JoinFatal(t) ==
    /\ Ended(t, {"fatal", "interrupted", "too_large"})
    /\ t.answer.kind = "too_large" => ~Multi(t)
    /\ Joined(t, TRUE)
    /\ GiveUp(t.batch, CASE t.answer.kind = "too_large" -> "soft"
                         [] t.answer.kind = "interrupted" -> "interrupted"
                         [] OTHER -> "hard")
    /\ UNCHANGED <<sizer, ledger>>

Join(t) ==
    \/ JoinStopped(t) \/ JoinOk(t)
    \/ JoinTransientRetry(t) \/ JoinTransientSplit(t) \/ JoinTransientFail(t)
    \/ JoinTooLargeSplit(t) \/ JoinFatal(t)
    \/ JoinCompactRetry(t) \/ JoinEscalate(t) \/ JoinTruncatedSingle(t)
    \/ JoinInvalidRetry(t) \/ JoinInvalidSingle(t) \/ JoinInvalidSplit(t)

-----------------------------------------------------------------------------
(* The results are aggregated and rejected items are asked for once more.  *)

Failed(s) == \E f \in failures : SegOf[f[1]] = s

Aggregate ==
    LET again == {i \in Items : <<i, "soft">> \in failures} IN
    /\ phase = "fill" /\ (queue = <<>> \/ stopping) /\ tasks = {}
    /\ verdict' = [s \in Segments |-> IF Failed(s) THEN "needs_review"
                                      ELSE IF ItemsOf(s) \cap blocks # {} THEN "succeeded"
                                      ELSE "none"]
    /\ repairs' = Chunk(InOrder(again), RepairLimit)
    /\ phase' = IF again = {} THEN "finish" ELSE "repair"
    /\ UNCHANGED <<envVars, stopping, queue, tasks, sizer, ledger, harvest, retried>>

Repairing == phase = "repair" /\ (repairs # <<>> \/ tasks # {})

\* A stop abandons the repairs under way.
RepairStopped ==
    /\ Repairing /\ signal = "stopped"
    /\ tasks' = {} /\ phase' = "finish"
    /\ UNCHANGED <<envVars, stopping, queue, sizer, ledger, harvest, repairVars>>

RepairPaused ==
    /\ Repairing /\ signal = "paused" /\ tasks # {}
    /\ phase' = "repair_join"
    /\ UNCHANGED <<envVars, stopping, queue, tasks, sizer, ledger, harvest, repairVars>>

RepairTask(b) == [NewTask(b, 0) EXCEPT !.pc = "repair_gate"]

RepairDispatch ==
    LET room == settings.slots - Cardinality(tasks)
        n    == IF room < 0 THEN 0 ELSE IF room < Len(repairs) THEN room ELSE Len(repairs)
    IN
    /\ Repairing /\ signal = "running"
    /\ tasks' = tasks \cup {RepairTask(repairs[k]) : k \in 1 .. n}
    /\ repairs' = SubSeq(repairs, n + 1, Len(repairs))
    /\ phase' = "repair_join"
    /\ UNCHANGED <<envVars, stopping, queue, sizer, ledger, harvest, verdict, retried>>

RepairJoinable(t) == phase = "repair_join" /\ t \in tasks /\ t.pc = "answered"
RepairJoined(t) ==
    /\ tasks' = tasks \ {t} /\ phase' = "repair"
    /\ UNCHANGED <<envVars, stopping, queue, sizer, ledger, failures, completed>>

\* A repaired item makes its segment succeed (the mutant leaves the verdict);
\* a segment it completes is handed over with that verdict.
RepairOk_KeepVerdict(t) ==
    LET good  == Covers(t.batch) \ t.answer.rejected
        whole == {s \in SegmentsOf(good) : ItemsOf(s) \subseteq blocks \cup good} \ finalized
    IN
    /\ RepairJoinable(t) /\ t.answer.kind = "ok" /\ RepairJoined(t)
    /\ blocks' = blocks \cup good
    /\ sent' = [s \in Segments |-> IF s \in whole THEN Append(sent[s], verdict[s]) ELSE sent[s]]
    /\ finalized' = finalized \cup whole
    /\ UNCHANGED <<verdict, repairs, retried>>

RepairOk(t) ==
    LET good  == Covers(t.batch) \ t.answer.rejected
        whole == {s \in SegmentsOf(good) : ItemsOf(s) \subseteq blocks \cup good} \ finalized
    IN
    /\ RepairJoinable(t) /\ t.answer.kind = "ok" /\ RepairJoined(t)
    /\ blocks' = blocks \cup good
    /\ verdict' = [s \in Segments |-> IF s \in SegmentsOf(good) THEN "succeeded" ELSE verdict[s]]
    /\ HandOver(whole, "succeeded")
    /\ UNCHANGED <<repairs, retried>>

\* An invalid response is asked for again once; anything else leaves its items
\* as they are.
Unusable == {"empty", "truncated", "invalid"}

RepairAgain(t) ==
    /\ RepairJoinable(t) /\ t.answer.kind \in Unusable /\ t.batch \notin retried /\ RepairJoined(t)
    /\ repairs' = Append(repairs, t.batch) /\ retried' = retried \cup {t.batch}
    /\ UNCHANGED <<verdict, blocks, finalized, sent>>

RepairFails(t) ==
    /\ RepairJoinable(t) /\ RepairJoined(t)
    /\ t.answer.kind # "ok" /\ (t.answer.kind \in Unusable => t.batch \in retried)
    /\ UNCHANGED <<repairVars, blocks, finalized, sent>>

RepairJoin(t) == RepairOk(t) \/ RepairAgain(t) \/ RepairFails(t)

RepairEnds ==
    /\ phase = "repair" /\ repairs = <<>> /\ tasks = {}
    /\ phase' = "finish"
    /\ UNCHANGED <<envVars, stopping, queue, tasks, sizer, ledger, harvest, repairVars>>

\* The segments not handed over yet are; one with a block missing needs review.
\* The mutant hands over the finalized ones again.
Report(s) ==
    IF ItemsOf(s) \subseteq blocks THEN verdict[s]
    ELSE IF verdict[s] = "succeeded" \/ ItemsOf(s) \cap blocks # {} THEN "needs_review"
    ELSE verdict[s]

Finish_All ==
    /\ phase = "finish"
    /\ sent' = [s \in Segments |-> IF verdict[s] # "none" THEN Append(sent[s], Report(s)) ELSE sent[s]]
    /\ phase' = "done"
    /\ UNCHANGED <<envVars, stopping, queue, tasks, sizer, ledger, blocks, failures, completed,
                   finalized, repairVars>>

Finish ==
    /\ phase = "finish"
    /\ sent' = [s \in Segments |-> IF verdict[s] # "none" /\ s \notin finalized
                                   THEN Append(sent[s], Report(s)) ELSE sent[s]]
    /\ phase' = "done"
    /\ UNCHANGED <<envVars, stopping, queue, tasks, sizer, ledger, blocks, failures, completed,
                   finalized, repairVars>>

-----------------------------------------------------------------------------
Fill   == FillPaused \/ FillStopped \/ FillFull \/ FillEmpty \/ Dispatch
Repair == RepairStopped \/ RepairPaused \/ RepairDispatch \/ RepairEnds \/ Finish
Driver == Fill \/ JoinNone \/ Aggregate \/ Repair \/ \E t \in tasks : Join(t) \/ RepairJoin(t)
Work   == \E t \in tasks : TaskStep(t)
User   == Pause \/ Resume \/ Stop \/ Reconfigure

BatchNext == Driver \/ Work \/ User

BatchSpec == BatchInit /\ [][BatchNext]_batchVars

\* The driver and the tasks run on the runtime's threads and every request
\* comes to an end; the user owes nothing.
FairBatchSpec == BatchSpec /\ WF_batchVars(Driver) /\ WF_batchVars(Work)

-----------------------------------------------------------------------------
(* Properties.                                                             *)

\* Splitting, repacking, repartitioning and putting back never lose or double
\* an item: until the requests are over each one is in the queue, in a task,
\* or settled, once (a task the stop reached is dropped).
ItemsConserved ==
    LET Copies(i) == Cardinality({k \in DOMAIN queue : i \in Covers(queue[k])})
                     + Cardinality({t \in tasks : i \in Covers(t.batch)})
                     + (IF i \in blocks \cup {f[1] : f \in failures} THEN 1 ELSE 0)
    IN  phase \in {"fill", "join"} =>
            \A i \in Items : Copies(i) <= 1 /\ (~stopping => Copies(i) = 1)

\* What the writer is told of each segment follows BatchDelivery: a whole one
\* succeeded, at once or after its repair, an incomplete one needs review, at
\* the end only, and no report is ever taken back.
Reports  == [s \in Segments |-> IF sent[s] = <<>> THEN "none" ELSE sent[s][1]]
Delivery == INSTANCE BatchDelivery WITH arrived <- blocks, report <- Reports

DeliversSegments == Delivery!DeliverySpec

\* No segment is handed over twice, however its blocks came: incremental
\* finalization, the repairs and the end do not overlap.
SentOnce == \A s \in Segments : Len(sent[s]) <= 1

\* A run nobody stopped reports every segment of the book.
EndReportsAll ==
    phase = "done" /\ signal # "stopped" => \A s \in Segments : sent[s] # <<>>

\* The fence opens: a segment with no item queued or in flight is published,
\* succeeded or not, so that no one waits for it.
FenceFollows ==
    phase \in {"fill", "join"} =>
        \A s \in Segments :
            \/ completed[s] # "none"
            \/ \E k \in DOMAIN queue : s \in SegmentsOf(Covers(queue[k]))
            \/ \E t \in tasks : s \in SegmentsOf(Covers(t.batch))

Stranded == phase = "join" /\ tasks # {} /\ \A t \in tasks : t.pc = "asleep" /\ ~t.woken

\* Context waiters never strand the batch they wait for (comments in
\* translate_batches_with_control and context_pairs_for_batch).
NeverStranded == ~Stranded

\* They do not when there is a slot for every item and the run is left alone.
SlotForAll == \A k \in setup.slots : k >= ItemCount

NotStranded == SlotForAll /\ calm => ~Stranded

\* However its requests end, a run that does not stay paused ends: retries,
\* splits and escalations are bounded by the code's own limits.  With strict
\* context only a run left alone does.
DispatchEnds ==
    <>[](signal # "paused") /\ (setup.strict => SlotForAll /\ []calm) => <>(phase = "done")

\* What may still be asked of an item that waits or is in flight: new settings,
\* requests it shares with fewer others, attempts, compact retries, allowances.
Batches   == {queue[k] : k \in DOMAIN queue} \cup {t.batch : t \in tasks}
Open      == {i \in Items : phase \in {"fill", "join"} /\ \E b \in Batches : i \in Covers(b)}
Peers(i)  == {j \in Items : \E b \in Batches : {i, j} \subseteq Covers(b)}
Raises(i) == {n \in 1 .. Ceiling :
                 /\ allowance[i] < n
                 /\ \A t \in tasks : i \in Covers(t.batch) /\ t.escalated => t.level < n}

Larger(m, n)   == IF m < n THEN n ELSE m
TransientLimit == Larger(Larger(MaxAttempts, ConnectAttempts), 2)
CompactLimit   == Larger(CompactRetries, 3)

Rank(i) ==
    <<MaxRevision - sizer.revision,
      Cardinality(Peers(i)),
      (TransientLimit - tries["transient"][i]) + (SingleLimit - tries["invalid"][i]),
      CompactLimit - tries["compact"][i],
      Cardinality(Raises(i))>>

Below(r, q) == \E n \in 1 .. 5 : r[n] < q[n] /\ \A m \in 1 .. n - 1 : r[m] = q[m]

\* Requests run out, which is why dispatch ends: every request that comes to an
\* end without settling its items lowers what may still be asked of each, and
\* nothing (a split, a repartition, a raised allowance, a reset count) raises it.
RequestsRunOut ==
    [][\A i \in Open \cap Open' :
          /\ Rank(i)' = Rank(i) \/ Below(Rank(i)', Rank(i))
          /\ (\E t \in tasks : i \in Covers(t.batch) /\ Join(t)) => Below(Rank(i)', Rank(i))]_batchVars

\* A stopped run reports for review only what the provider or the validation
\* rejected; what the stop cut off stays resumable (docs/ROADMAP.md, checkpoint.rs).
StopKeepsResumable ==
    phase = "done" /\ signal = "stopped" =>
        \A s \in Segments : sent[s] = <<"needs_review">> =>
            \E f \in failures : SegOf[f[1]] = s /\ f[2] # "interrupted"
=============================================================================
