-------------------------- MODULE ReconfigureProofs --------------------------
(***************************************************************************)
(* Settings accepted by a writer stand, for any number of writers,         *)
(* settings and values, and work never goes back to older settings as long *)
(* as nobody spoils the document.                                          *)
(***************************************************************************)
EXTENDS Reconfigure, TLAPS

\* Who merges holds the lock, and has read everything accepted so far.
MergersAreCurrent ==
    \A w \in Writers :
        edit[w].pc = "merging" =>
            /\ lock = w
            /\ \A f \in Fields : accepted[f] # Unset => edit[w].found.set[f] = accepted[f]

SettingsInvariant ==
    SettingsTypeOK /\ accepted \in Overrides /\ MergersAreCurrent /\ AcceptedSettingsStand

LEMMA MergeIsOverrides ==
    ASSUME NEW new \in Overrides, NEW old \in Overrides
    PROVE  Merge(new, old) \in Overrides
BY DEF Merge, Overrides

\* The steps of the worker, its watcher and the users leave the settings alone.
LEMMA SettingsKept ==
    ASSUME SettingsInvariant, UNCHANGED <<settingsVars, accepted>>
    PROVE  SettingsInvariant'
BY DEF SettingsInvariant, SettingsTypeOK, MergersAreCurrent, AcceptedSettingsStand, settingsVars

\* A document that goes takes the promises made of it along.
LEMMA SettingsVoided ==
    ASSUME SettingsInvariant, UNCHANGED <<lock, edit>>, accepted' = Nothing,
           document' \in [is : {"missing", "garbled"}, rev : {0}, set : {Nothing}]
    PROVE  SettingsInvariant'
<1>1. Nothing \in Overrides /\ \A f \in Fields : Nothing[f] = Unset
  BY DEF Nothing, Overrides
<1>2. 0 \in 0 .. MaxRevision
  BY SettingsAssumption
<1> QED
  BY <1>1, <1>2 DEF SettingsInvariant, SettingsTypeOK, MergersAreCurrent, AcceptedSettingsStand

LEMMA SettingsInitHold == ReconfInit => SettingsInvariant
<1> SUFFICES ASSUME ReconfInit PROVE SettingsInvariant
  OBVIOUS
<1>1. Nothing \in Overrides /\ \A f \in Fields : Nothing[f] = Unset
  BY DEF Nothing, Overrides
<1>2. 0 \in 0 .. MaxRevision
  BY SettingsAssumption
<1> QED
  BY <1>1, <1>2
  DEF ReconfInit, SettingsInvariant, SettingsTypeOK, MergersAreCurrent, AcceptedSettingsStand,
      Missing, Idle, Blank, Revised

LEMMA WriterKeepsSettings ==
    ASSUME SettingsInvariant, NEW w \in Writers, WriterStep(w)
    PROVE  SettingsInvariant'
<1> USE DEF SettingsInvariant, SettingsTypeOK
<1>0. /\ Nothing \in Overrides /\ 0 \in 0 .. MaxRevision /\ Blank \in Revised
      /\ Idle \in [pc : {"away", "waiting", "merging"}, want : Overrides, found : Revised]
      /\ Idle.pc = "away" /\ NoWriter \notin Writers
  BY SettingsAssumption DEF Nothing, Overrides, Blank, Revised, Idle
<1>1. CASE Ask(w)
  <2>1. PICK want \in Overrides \ {Nothing} : Edit(w, [Idle EXCEPT !.pc = "waiting", !.want = want])
    BY <1>1 DEF Ask
  <2> DEFINE asked == [Idle EXCEPT !.pc = "waiting", !.want = want]
  <2>2. asked \in [pc : {"away", "waiting", "merging"}, want : Overrides, found : Revised]
    BY <1>0
  <2>3. asked.pc = "waiting"
    BY DEF Idle
  <2>4. edit' = [edit EXCEPT ![w] = asked]
    BY <2>1 DEF Edit
  <2> HIDE DEF asked
  <2> QED
    BY <1>1, <2>2, <2>3, <2>4 DEF Ask, MergersAreCurrent, AcceptedSettingsStand, historyVars
<1>2. CASE ReadDocument(w)
  <2>1. Existing \in Revised
    BY <1>0 DEF Existing, Revised
  <2>2. \A f \in Fields : accepted[f] # Unset => Existing.set[f] = accepted[f]
    BY DEF Existing, AcceptedSettingsStand
  <2> QED
    BY <1>0, <1>2, <2>1, <2>2
    DEF ReadDocument, Edit, MergersAreCurrent, AcceptedSettingsStand, historyVars
<1>3. CASE WriteDocument(w)
  <2>1. /\ edit[w].found.rev + 1 \in 0 .. MaxRevision
        /\ Merge(edit[w].want, edit[w].found.set) \in Overrides
        /\ Merge(edit[w].want, accepted) \in Overrides
    BY <1>3, MergeIsOverrides, SettingsAssumption DEF WriteDocument, Revised
  <2>2. AcceptedSettingsStand'
    BY <1>3 DEF WriteDocument, MergersAreCurrent, AcceptedSettingsStand, Merge
  <2>3. \A v \in Writers : edit'[v].pc # "merging"
    BY <1>0, <1>3 DEF WriteDocument, Edit, MergersAreCurrent
  <2> QED
    BY <1>0, <1>3, <2>1, <2>2, <2>3 DEF WriteDocument, Edit, MergersAreCurrent
<1>4. CASE GiveUp(w)
  BY <1>0, <1>4 DEF GiveUp, Edit, MergersAreCurrent, AcceptedSettingsStand, historyVars
<1> QED
  BY <1>1, <1>2, <1>3, <1>4 DEF WriterStep

LEMMA SettingsStepHolds ==
    SettingsInvariant /\ [ReconfNext \/ Spoil]_reconfVars => SettingsInvariant'
<1> SUFFICES ASSUME SettingsInvariant, [ReconfNext \/ Spoil]_reconfVars PROVE SettingsInvariant'
  OBVIOUS
<1>1. ASSUME NEW w \in Writers, WriterStep(w) PROVE SettingsInvariant'
  BY <1>1, WriterKeepsSettings
<1>2. CASE WatcherStep
  BY <1>2, SettingsKept DEF WatcherStep, Load, Send, WatcherPoll, settingsVars, historyVars
<1>3. CASE WorkerStep
  <2>1. CASE Clear
    BY <2>1, SettingsVoided DEF Clear, Missing
  <2>2. CASE Own \/ SpawnWatcher \/ Start \/ BoundaryPoll
    BY <2>2, SettingsKept DEF Own, SpawnWatcher, Start, BoundaryPoll, settingsVars, historyVars
  <2>3. CASE Dispatch \/ Boundary \/ Finish \/ Leave
    BY <2>3, SettingsKept DEF Dispatch, Boundary, Finish, Leave, Down, settingsVars, historyVars
  <2> QED
    BY <1>3, <2>1, <2>2, <2>3 DEF WorkerStep
<1>4. CASE Launch \/ Crash \/ UserCommand
  BY <1>4, SettingsKept DEF Launch, Crash, Down, UserCommand, settingsVars, historyVars
<1>5. CASE Spoil
  BY <1>5, SettingsVoided DEF Spoil, Missing
<1>6. CASE UNCHANGED reconfVars
  BY <1>6, SettingsKept DEF reconfVars, settingsVars, historyVars
<1> QED
  BY <1>1, <1>2, <1>3, <1>4, <1>5, <1>6 DEF ReconfNext

\* No accepted setting is lost to another writer, a failure or a crash, for any
\* number of writers (write_merged_overrides_at_path).
THEOREM AcceptedSettingsAlwaysStand == ReconfSpec => []AcceptedSettingsStand
<1>1. SettingsInvariant => AcceptedSettingsStand
  BY DEF SettingsInvariant
<1>2. SettingsInvariant /\ [ReconfNext]_reconfVars => SettingsInvariant'
  BY SettingsStepHolds
<1> QED
  BY <1>1, <1>2, SettingsInitHold, PTL DEF ReconfSpec

\* Not even when the document may be spoilt: what is accepted after that stands.
THEOREM SettingsStandAfterSpoil == SpoiltSpec => []AcceptedSettingsStand
<1>1. SettingsInvariant => AcceptedSettingsStand
  BY DEF SettingsInvariant
<1> QED
  BY <1>1, SettingsInitHold, SettingsStepHolds, PTL DEF SpoiltSpec

-----------------------------------------------------------------------------
(* Types.                                                                  *)

\* What a poller or the worker does to the job row keeps the store's types.
LEMMA RowKeepsTypes ==
    ASSUME TypeOK,
           \/ UNCHANGED vars
           \/ \E status \in JobStatus : MarkJob(status)
           \/ MarkJobRunningForResume
           \/ MarkJobStopped
    PROVE  TypeOK'
<1> USE DEF TypeOK, KeepOutput
<1>1. CASE UNCHANGED vars
  BY <1>1 DEF vars
<1>2. CASE \E status \in JobStatus : MarkJob(status)
  BY <1>2 DEF MarkJob, TouchUnless
<1>3. CASE MarkJobRunningForResume
  BY <1>3 DEF MarkJobRunningForResume, JobStatus
<1>4. CASE MarkJobStopped
  BY <1>4 DEF MarkJobStopped, JobStatus, TouchUnless
<1> QED
  BY <1>1, <1>2, <1>3, <1>4

\* So does a poll, and it keeps those of the control state.
LEMMA PollKeepsTypes ==
    ASSUME TypeOK, ControlTypeOK, NEW p \in Pollers, NEW hasToken \in BOOLEAN,
           Poll(p, hasToken) \/ RecordPoll(p)
    PROVE  TypeOK' /\ ControlTypeOK'
<1> USE DEF ControlTypeOK
<1>0. Rest(p) \in PollSteps /\ \A s \in {"mark_paused", "mark_running", "mark_stopped"} : s \in PollSteps
  BY DEF Rest, PollSteps
<1>1. CASE Poll(p, hasToken)
  <2>1. TypeOK'
    BY <1>1, RowKeepsTypes DEF Poll
  <2>2. CASE PollPause(p)
    BY <1>0, <1>1, <2>1, <2>2 DEF Poll, PollPause, PollTo, ObeyStoppedRow
  <2>3. CASE PollResume(p)
    BY <1>0, <1>1, <2>1, <2>3 DEF Poll, PollResume, PollTo, ObeyStoppedRow
  <2>4. CASE PollStop(p, hasToken)
    BY <1>0, <1>1, <2>1, <2>4 DEF Poll, PollStop, PollTo
  <2> QED
    BY <1>1, <2>1, <2>2, <2>3, <2>4 DEF Poll
<1>2. CASE RecordPoll(p)
  <2>1. TypeOK'
    BY <1>2, RowKeepsTypes DEF RecordPoll, JobStatus
  <2> QED
    BY <1>0, <1>2, <2>1 DEF RecordPoll, PollTo
<1> QED
  BY <1>1, <1>2

\* The worker keeps the types of the row, the control state and its own.
LEMMA WorkerKeepsTypes ==
    ASSUME ReconfTypeOK, WorkerStep \/ WatcherStep \/ Launch \/ Crash
    PROVE  TypeOK' /\ ControlTypeOK' /\ WorkerTypeOK'
<1> USE DEF ReconfTypeOK, WorkerTypeOK
<1>0. /\ Nothing \in Overrides /\ 0 \in 0 .. MaxRevision /\ Blank \in Revised
      /\ Gone \in [pc : {"down", "own", "spawn", "start", "dispatch", "finish", "clear", "leave"},
                   launch : JobStatus, base : Overrides, seen : {-1} \cup 0 .. MaxRevision,
                   runtime : Revised, engine : Revised]
      /\ Pollers = {"worker", "watcher"} /\ {"off", "idle", "polled"} \subseteq PollSteps
  BY SettingsAssumption DEF Nothing, Overrides, Blank, Revised, Gone, JobStatus, Pollers, PollSteps
<1>1. /\ Baseline \in Revised /\ document.rev \in 0 .. MaxRevision
      /\ Effective \in Revised
  BY <1>0, MergeIsOverrides DEF Baseline, Effective, Revised, SettingsTypeOK
<1>2. UNCHANGED vars => TypeOK'
  BY RowKeepsTypes
<1>3. CASE Own
  BY <1>0, <1>3, RowKeepsTypes DEF Own, ControlTypeOK, JobStatus
<1>4. CASE SpawnWatcher
  BY <1>0, <1>1, <1>2, <1>4 DEF SpawnWatcher, ControlTypeOK
<1>5. CASE Start
  BY <1>5, RowKeepsTypes DEF Start, controlVars, ControlTypeOK, JobStatus
<1>6. CASE BoundaryPoll
  BY <1>0, <1>6, PollKeepsTypes DEF BoundaryPoll
<1>7. CASE Dispatch
  BY <1>0, <1>2, <1>7 DEF Dispatch, ControlTypeOK, PollTo
<1>8. CASE Boundary
  BY <1>0, <1>2, <1>8 DEF Boundary, ControlTypeOK, PollTo
<1>9. CASE Finish
  BY <1>9, RowKeepsTypes DEF Finish, controlVars, ControlTypeOK, JobStatus
<1>10. CASE Clear
  BY <1>2, <1>10 DEF Clear, controlVars, ControlTypeOK
<1>11. CASE Leave \/ Crash
  <2>1. TypeOK'
    BY <1>11, RowKeepsTypes DEF Leave, Crash, JobStatus
  <2> QED
    BY <1>0, <1>11, <2>1 DEF Leave, Crash, Down, ControlTypeOK
<1>12. CASE Load \/ Send
  BY <1>1, <1>2, <1>12 DEF Load, Send, controlVars, ControlTypeOK
<1>13. CASE WatcherPoll
  BY <1>0, <1>13, PollKeepsTypes DEF WatcherPoll
<1>14. CASE Launch
  <2>1. job \in JobStatus /\ document.set \in Overrides
    BY <1>14 DEF Launch, JobExists, TypeOK, SettingsTypeOK
  <2> QED
    BY <1>0, <1>2, <1>14, <2>1 DEF Launch, ControlTypeOK
<1> QED
  BY <1>3, <1>4, <1>5, <1>6, <1>7, <1>8, <1>9, <1>10, <1>11, <1>12, <1>13, <1>14
  DEF WorkerStep, WatcherStep

\* Every step keeps the types, of the history too.
LEMMA TypesStepHolds ==
    ReconfTypeOK /\ SettingsInvariant /\ [ReconfNext]_reconfVars => ReconfTypeOK'
<1> SUFFICES ASSUME ReconfTypeOK, SettingsInvariant, [ReconfNext]_reconfVars PROVE ReconfTypeOK'
  OBVIOUS
<1>1. SettingsTypeOK' /\ accepted' \in Overrides
  BY SettingsStepHolds DEF SettingsInvariant
<1>2. /\ 0 \in 0 .. MaxRevision /\ document.rev \in 0 .. MaxRevision
      /\ worker.engine.rev \in 0 .. MaxRevision
  BY SettingsAssumption DEF ReconfTypeOK, SettingsTypeOK, WorkerTypeOK, Revised
<1>3. UNCHANGED <<vars, controlVars, worker, watch>> => TypeOK' /\ ControlTypeOK' /\ WorkerTypeOK'
  BY RowKeepsTypes DEF ReconfTypeOK, controlVars, ControlTypeOK, WorkerTypeOK
<1>4. ASSUME NEW w \in Writers, WriterStep(w) PROVE ReconfTypeOK'
  BY <1>1, <1>3, <1>4
  DEF WriterStep, Ask, ReadDocument, WriteDocument, GiveUp, ReconfTypeOK, historyVars, controlVars
<1>5. CASE WatcherStep \/ WorkerStep \/ Launch \/ Crash
  <2>1. /\ promised' \in 0 .. MaxRevision /\ spent' \in 0 .. MaxRevision
    BY <1>2, <1>5
    DEF WatcherStep, Load, Send, WatcherPoll, WorkerStep, Own, SpawnWatcher, Start, BoundaryPoll,
        Dispatch, Boundary, Finish, Clear, Leave, Launch, Crash, Down, ReconfTypeOK, historyVars
  <2> QED
    BY <1>1, <1>5, <2>1, WorkerKeepsTypes DEF ReconfTypeOK
<1>6. CASE UserCommand
  <2>1. ControlTypeOK'
    BY <1>6, CommandsAssumption DEF UserCommand, Command, ReconfTypeOK, ControlTypeOK
  <2> QED
    BY <1>1, <1>2, <1>6, <2>1, RowKeepsTypes
    DEF UserCommand, Command, ReconfTypeOK, WorkerTypeOK
<1>7. CASE UNCHANGED reconfVars
  BY <1>1, <1>3, <1>7 DEF reconfVars, ReconfTypeOK, historyVars
<1> QED
  BY <1>4, <1>5, <1>6, <1>7, <1>7 DEF ReconfNext

LEMMA TypesInitHold == ReconfInit => ReconfTypeOK
<1> SUFFICES ASSUME ReconfInit PROVE ReconfTypeOK
  OBVIOUS
<1>1. TypeOK /\ ControlTypeOK
  BY NoTextAssumption DEF ReconfInit, Init, ControlInit, TypeOK, ControlTypeOK, JobStatus, SegStatus,
     Debts, PollSteps
<1>2. SettingsTypeOK /\ accepted \in Overrides
  BY SettingsInitHold DEF SettingsInvariant
<1>3. 0 \in 0 .. MaxRevision /\ Nothing \in Overrides
  BY SettingsAssumption DEF Nothing, Overrides
<1> QED
  BY <1>1, <1>2, <1>3 DEF ReconfInit, ReconfTypeOK, WorkerTypeOK, Gone, Blank, Revised, JobStatus

-----------------------------------------------------------------------------
(* Revisions.                                                              *)

Engaged == worker.pc \in {"start", "dispatch", "finish"}

\* Nobody has spoilt the document, so its revision is never below one that
\* work was dispatched under, and the channels of a worker at work lie between.
RevisionsInvariant ==
    /\ document.is # "garbled"
    /\ spent =< document.rev
    /\ \A w \in Writers : edit[w].pc = "merging" => document.rev =< edit[w].found.rev
    /\ Engaged => /\ spent =< worker.engine.rev
                  /\ worker.engine.rev =< worker.runtime.rev
                  /\ worker.runtime.rev =< document.rev

UnspoiltInvariant == ReconfTypeOK /\ SettingsInvariant /\ RevisionsInvariant

LEMMA RevisionsInitHold == ReconfInit => RevisionsInvariant
<1> SUFFICES ASSUME ReconfInit PROVE RevisionsInvariant
  OBVIOUS
<1> QED
  BY DEF ReconfInit, RevisionsInvariant, Engaged, Gone, Missing, Idle

\* A step that moves only the worker and its channels.
LEMMA RevisionsKept ==
    ASSUME RevisionsInvariant, UNCHANGED <<settingsVars, spent>>,
           Engaged' => \/ UNCHANGED <<Engaged, worker.engine, worker.runtime>>
                       \/ /\ spent =< worker'.engine.rev
                          /\ worker'.engine.rev =< worker'.runtime.rev
                          /\ worker'.runtime.rev =< document.rev
    PROVE  RevisionsInvariant'
BY DEF RevisionsInvariant, settingsVars

LEMMA RevisionsStepHold ==
    ASSUME UnspoiltInvariant, [ReconfNext]_reconfVars
    PROVE  RevisionsInvariant'
<1> USE DEF UnspoiltInvariant, RevisionsInvariant, Engaged
<1>0. /\ document.rev \in Nat /\ spent \in Nat
      /\ worker.engine.rev \in Nat /\ worker.runtime.rev \in Nat
      /\ worker \in [pc : {"down", "own", "spawn", "start", "dispatch", "finish", "clear", "leave"},
                   launch : JobStatus, base : Overrides, seen : {-1} \cup 0 .. MaxRevision,
                   runtime : Revised, engine : Revised]
      /\ \A w \in Writers : edit[w].found.rev \in Nat
      /\ document.is # "present" => document.rev = 0
  BY SettingsAssumption DEF ReconfTypeOK, SettingsTypeOK, WorkerTypeOK, Revised
<1>1. ASSUME NEW w \in Writers, WriterStep(w) PROVE RevisionsInvariant'
  <2> USE <1>0 DEF SettingsTypeOK, SettingsInvariant
  <2>1. CASE Ask(w)
    <3>1. PICK want \in Overrides : Edit(w, [Idle EXCEPT !.pc = "waiting", !.want = want])
      BY <2>1 DEF Ask
    <3>2. \A v \in Writers : edit'[v].pc = "merging" => edit'[v] = edit[v]
      BY <3>1 DEF Edit, Idle
    <3> QED
      BY <2>1, <3>2 DEF Ask, historyVars
  <2>2. CASE ReadDocument(w)
    BY <2>2 DEF ReadDocument, Edit, Existing, Blank, historyVars
  <2>3. CASE WriteDocument(w)
    <3>1. \A v \in Writers : edit'[v].pc # "merging"
      BY <2>3, SettingsAssumption DEF WriteDocument, Edit, MergersAreCurrent, Idle
    <3> QED
      BY <2>3, <3>1 DEF WriteDocument
  <2>4. CASE GiveUp(w)
    BY <2>4 DEF GiveUp, Edit, Idle, historyVars
  <2> QED
    BY <1>1, <2>1, <2>2, <2>3, <2>4 DEF WriterStep
<1>2. CASE WatcherStep
  <2>1. CASE Load
    <3>1. \/ UNCHANGED worker
          \/ worker' = [worker EXCEPT !.seen = document.rev, !.runtime = Effective]
      BY <2>1 DEF Load
    <3>2. /\ worker'.pc = worker.pc /\ worker'.engine = worker.engine
          /\ worker'.runtime = worker.runtime \/ worker'.runtime = Effective
      BY <1>0, <3>1
    <3>3. Effective.rev = document.rev
      BY DEF Effective
    <3> QED
      BY <1>0, <2>1, <3>2, <3>3, RevisionsKept DEF Load, historyVars
  <2>2. CASE Send
    <3>1. worker'.pc = worker.pc /\ worker'.engine = worker.runtime /\ worker'.runtime = worker.runtime
      BY <1>0, <2>2 DEF Send
    <3> QED
      BY <1>0, <2>2, <3>1, RevisionsKept DEF Send, historyVars
  <2>3. CASE WatcherPoll
    BY <2>3, RevisionsKept DEF WatcherPoll, historyVars
  <2> QED
    BY <1>2, <2>1, <2>2, <2>3 DEF WatcherStep
<1>3. CASE WorkerStep
  <2>1. CASE Own \/ Leave
    <3>1. CASE Own
      BY <1>0, <3>1, RevisionsKept DEF Own, historyVars
    <3>2. CASE Leave
      <4>1. worker'.pc = "down"
        BY <3>2 DEF Leave, Down, Gone
      <4> QED
        BY <3>2, <4>1, RevisionsKept DEF Leave, Down, historyVars
    <3> QED
      BY <2>1, <3>1, <3>2
  <2>2. CASE SpawnWatcher
    <3>1. worker'.engine.rev = document.rev /\ worker'.runtime.rev = document.rev
      BY <1>0, <2>2 DEF SpawnWatcher, Effective, Baseline
    <3> QED
      BY <1>0, <2>2, <3>1, RevisionsKept DEF SpawnWatcher, historyVars
  <2>3. CASE Start \/ Boundary \/ Finish
    <3>1. /\ Engaged
          /\ worker'.engine = worker.engine /\ worker'.runtime = worker.runtime
      BY <1>0, <2>3 DEF Start, Boundary, Finish, At
    <3> QED
      BY <2>3, <3>1, RevisionsKept DEF Start, Boundary, Finish, historyVars
  <2>4. CASE BoundaryPoll
    BY <2>4, RevisionsKept DEF BoundaryPoll, historyVars
  <2>5. CASE Dispatch
    BY <1>0, <2>5 DEF Dispatch, At, settingsVars
  <2>6. CASE Clear
    <3>1. ~Engaged'
      BY <1>0, <2>6 DEF Clear
    <3> QED
      BY <1>0, <2>6, <3>1 DEF Clear, Missing
  <2> QED
    BY <1>3, <2>1, <2>2, <2>3, <2>4, <2>5, <2>6 DEF WorkerStep
<1>4. CASE Launch \/ Crash
  <2>1. CASE Launch
    <3>1. worker'.pc = "own"
      BY <2>1 DEF Launch, Gone
    <3> QED
      BY <2>1, <3>1, RevisionsKept DEF Launch
  <2>2. CASE Crash
    <3>1. worker'.pc = "down"
      BY <2>2 DEF Crash, Down, Gone
    <3> QED
      BY <2>2, <3>1, RevisionsKept DEF Crash, Down, historyVars
  <2> QED
    BY <1>4, <2>1, <2>2
<1>5. CASE UserCommand
  BY <1>5 DEF UserCommand, settingsVars
<1>6. CASE UNCHANGED reconfVars
  BY <1>6 DEF reconfVars, settingsVars, historyVars
<1> QED
  BY <1>1, <1>2, <1>3, <1>4, <1>5, <1>6 DEF ReconfNext

\* Work never goes back to older settings, over any number of pauses, crashes
\* and relaunches (spawn_inner, the watcher's loop), as long as nobody spoils
\* the document.
THEOREM WorkAlwaysFollowsRevisions ==
    ReconfSpec => []WorkFollowsRevisions
<1>1. ReconfInit => UnspoiltInvariant
  BY TypesInitHold, SettingsInitHold, RevisionsInitHold DEF UnspoiltInvariant
<1>2. ASSUME UnspoiltInvariant, [ReconfNext]_reconfVars PROVE UnspoiltInvariant'
  <2>1. ReconfTypeOK' /\ SettingsInvariant'
    BY <1>2, TypesStepHolds, SettingsStepHolds DEF UnspoiltInvariant
  <2>2. RevisionsInvariant'
    BY <1>2, RevisionsStepHold
  <2> QED
    BY <2>1, <2>2 DEF UnspoiltInvariant
<1>3. UnspoiltInvariant => WorkFollowsRevisions
  BY DEF UnspoiltInvariant, RevisionsInvariant, Engaged, At, WorkFollowsRevisions
<1> QED
  BY <1>1, <1>2, <1>3, PTL DEF ReconfSpec

\* The state keeps its types under every action.
THEOREM ReconfTypesHold == ReconfSpec => []ReconfTypeOK
<1>1. ReconfInit => ReconfTypeOK /\ SettingsInvariant
  BY TypesInitHold, SettingsInitHold
<1>2. ReconfTypeOK /\ SettingsInvariant /\ [ReconfNext]_reconfVars
         => (ReconfTypeOK /\ SettingsInvariant)'
  BY TypesStepHolds, SettingsStepHolds
<1> QED
  BY <1>1, <1>2, PTL DEF ReconfSpec
=============================================================================
