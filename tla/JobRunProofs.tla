---------------------------- MODULE JobRunProofs ----------------------------
(***************************************************************************)
(* Proofs about JobRun: every step of the worker, its writer, its watcher, *)
(* the reviewers and the other commands is at most one transaction of the  *)
(* store, so what CorrectionDeskProofs says of the store and of the book   *)
(* holds of the whole system, for every number of segments, requests in    *)
(* flight, commands, crashes and reviewers.  Then what needs the worker    *)
(* alone: a job only its worker writes is honest about its success, is     *)
(* paid for once and loses no answer; and a pause holds the dispatch       *)
(* whoever else is there.                                                  *)
(***************************************************************************)
EXTENDS JobRun, CorrectionDeskProofs, WellFoundedInduction

\* What a step of the worker needs to know of its memory: its types, that a
\* loop over store calls only holds provider texts, and that the dispatch loop
\* is only entered with something to dispatch.
WorkerTyped ==
    /\ run \in RunMemory
    /\ run.pc \in {"cache", "check_save"} => run.work \subseteq Segments \X ModelTexts
    /\ run.pc \in {"dispatch", "spawn"} => run.pending # {}
    /\ signal \in {"running", "paused", "stopped"}

RunIInv == IInv /\ DeskTyped /\ WorkerTyped

-----------------------------------------------------------------------------
(* The worker's memory keeps its types.                                    *)

\* The order of dispatch names one of the pending segments.
LEMMA NextSegmentIsPending ==
    ASSUME run.pending \subseteq Segments, run.pending # {}
    PROVE  NextSegment \in run.pending
<1>1. run.pending \subseteq Nat
  BY RunAssumption
<1>2. PICK s \in run.pending : \A r \in run.pending : ~(<<r, s>> \in OpToRel(<, Nat))
  BY <1>1, NatLessThanWellFounded, WFMin
<1>3. ASSUME NEW r \in run.pending PROVE s <= r
  <2>1. r \in Nat /\ s \in Nat
    BY <1>1
  <2>2. ~(r < s)
    BY <1>2, <2>1 DEF OpToRel
  <2>3. QED
    BY <2>1, <2>2
<1>4. QED
  BY <1>2, <1>3 DEF NextSegment

\* A worker that is down remembers nothing.
LEMMA DownIsTyped == Down \in RunMemory
BY DEF Down, RunMemory, PCs, Gates, JobStatus, Empty, Books, Results

\* The statements whose entry asks something of the rest of the memory.
Loops == {"cache", "check_save", "dispatch", "spawn"}

\* The statements the worker goes to by itself are statements of it.
LEMMA QuietStatements ==
    /\ {"own", "revalidate", "start", "join", "halt", "error_touch", "error_mark", "drain",
        "load", "checking", "gate_fallback", "gate_check", "gate_rebuild", "gate_finish",
        "rebuild", "validate", "complete", "review", "finished", "leave", "settle",
        "settle_error", "settle_interrupt", "fallback", "check", "finish"} \subseteq PCs \ Loops
    /\ Loops \subseteq PCs
BY DEF PCs, Gates, Loops

\* Going to another statement, with or without an error, keeps the memory typed.
LEMMA GoesOn ==
    ASSUME WorkerTyped, UNCHANGED signal, NEW pc \in PCs,
           \/ run' = [run EXCEPT !.pc = pc]
           \/ \E ok \in BOOLEAN : run' = [run EXCEPT !.pc = pc, !.ok = ok]
    PROVE  /\ run' \in RunMemory /\ run'.pc = pc
           /\ pc \notin Loops => WorkerTyped'
<1>1. CASE run' = [run EXCEPT !.pc = pc]
  <2>1. run' \in RunMemory /\ run'.pc = pc
    BY <1>1 DEF WorkerTyped, RunMemory
  <2> QED
    BY <2>1 DEF WorkerTyped, Loops
<1>2. ASSUME NEW ok \in BOOLEAN, run' = [run EXCEPT !.pc = pc, !.ok = ok]
      PROVE  /\ run' \in RunMemory /\ run'.pc = pc
             /\ pc \notin Loops => WorkerTyped'
  <2>1. run' \in RunMemory /\ run'.pc = pc
    BY <1>2 DEF WorkerTyped, RunMemory
  <2> QED
    BY <2>1 DEF WorkerTyped, Loops
<1> QED
  BY <1>1, <1>2

\* The steps in which the worker only works on its memory.
LEMMA ThinkingKeepsTypes ==
    ASSUME RunIInv, WorkerThinks
    PROVE  WorkerTyped'
<1> USE DEF RunIInv, WorkerTyped, At
<1>0. UNCHANGED signal
  BY DEF WorkerThinks, controlVars
<1>1. CASE Preflight
  <2>1. ToResume \in SUBSET Segments
    BY DEF ToResume
  <2>2. CASE run' = [run EXCEPT !.pc = "own", !.pending = ToResume]
    <3>1. run' \in RunMemory /\ run'.pc = "own"
      BY <2>1, <2>2, QuietStatements DEF RunMemory
    <3> QED
      BY <1>0, <3>1
  <2>3. CASE run' = [run EXCEPT !.pc = "leave", !.ok = FALSE]
    BY <1>0, <2>3, GoesOn, QuietStatements
  <2>4. QED
    BY <1>1, <2>2, <2>3 DEF Preflight
<1>2. CASE Reread
  <2>1. ToResume \in SUBSET Segments
    BY DEF ToResume
  <2>2. run' \in RunMemory /\ run'.pc = "start"
    BY <1>2, <2>1, QuietStatements DEF Reread, RunMemory
  <2> QED
    BY <1>0, <2>2
<1>3. CASE Spawn
  <2>1. CASE run' = [run EXCEPT !.pc = "join"]
    BY <1>0, <2>1, GoesOn, QuietStatements
  <2>2. CASE run' = [run EXCEPT
                !.pc = Backlog(run.pending \ {NextSegment}),
                !.pending = @ \ {NextSegment},
                !.inFlight = @ \cup {NextSegment},
                !.late = IF signal = "paused" THEN @ + 1 ELSE @]
    <3>1. NextSegment \in Segments
      BY <1>3, NextSegmentIsPending DEF Spawn, RunMemory
    <3>2. run.pending \ {NextSegment} \in SUBSET Segments
          /\ run.inFlight \cup {NextSegment} \in SUBSET Segments
          /\ (IF signal = "paused" THEN run.late + 1 ELSE run.late) \in Nat
          /\ Backlog(run.pending \ {NextSegment}) \in PCs
      BY <3>1 DEF RunMemory, Backlog, PCs
    <3>3. run'.pc \in {"join", "dispatch"}
          /\ (run'.pc = "dispatch" => run'.pending # {})
      BY <2>2 DEF Backlog, RunMemory
    <3>4. run' \in RunMemory
      BY <2>2, <3>2 DEF RunMemory
    <3>5. QED
      BY <1>0, <3>3, <3>4
  <2>3. QED
    BY <1>3, <2>1, <2>2 DEF Spawn
<1>4. CASE Join
  <2>1. PICK s \in run.inFlight, e \in Endings, t \in ModelTexts \ SourceCopies :
          run' = [run EXCEPT
              !.pc = IF @ = "halt" THEN @ ELSE Backlog(run.pending),
              !.inFlight = @ \ {s},
              !.queue = Append(@, [segment |-> s, outcome |-> e, text |-> t]),
              !.mem = IF run.stage = "fallback" /\ e # "failed" THEN [@ EXCEPT ![s] = t]
                      ELSE @,
              !.bad = IF run.stage = "primary" THEN @
                      ELSE IF e \in {"failed", "needs_review"} THEN @ \cup {s} ELSE @ \ {s},
              !.answered = IF e = "succeeded" THEN @ \cup {s} ELSE @]
    BY <1>4 DEF Join
  <2> DEFINE pc       == IF run.pc = "halt" THEN run.pc ELSE Backlog(run.pending)
             queue    == Append(run.queue, [segment |-> s, outcome |-> e, text |-> t])
             mem      == IF run.stage = "fallback" /\ e # "failed" THEN [run.mem EXCEPT ![s] = t]
                         ELSE run.mem
             bad      == IF run.stage = "primary" THEN run.bad
                         ELSE IF e \in {"failed", "needs_review"} THEN run.bad \cup {s}
                         ELSE run.bad \ {s}
             answered == IF e = "succeeded" THEN run.answered \cup {s} ELSE run.answered
             inFlight == run.inFlight \ {s}
  <2>2. s \in Segments
    BY DEF RunMemory
  <2>3. [segment |-> s, outcome |-> e, text |-> t] \in Results
    BY <2>2, RunAssumption DEF Results, Endings, SegStatus
  <2>4. queue \in Seq(Results)
    BY <2>3 DEF RunMemory
  <2>5. mem \in Books
    BY <2>2 DEF RunMemory, Books, Texts
  <2>6. pc \in PCs /\ pc \in {"halt", "join", "dispatch"} /\ (pc = "dispatch" => run.pending # {})
    BY <1>4, QuietStatements DEF Join, Backlog, Loops
  <2>7. bad \in SUBSET Segments /\ answered \in SUBSET Segments /\ inFlight \in SUBSET Segments
    BY <2>2 DEF RunMemory
  <2>8. run' = [run EXCEPT !.pc = pc, !.inFlight = inFlight, !.queue = queue, !.mem = mem,
                           !.bad = bad, !.answered = answered]
    BY <2>1
  <2> HIDE DEF pc, queue, mem, bad, answered, inFlight
  <2>9. run' \in RunMemory
    BY <2>4, <2>5, <2>6, <2>7, <2>8 DEF RunMemory
  <2>10. run'.pc = pc /\ run'.pending = run.pending
    BY <2>8 DEF RunMemory
  <2> QED
    BY <1>0, <2>6, <2>9, <2>10
<1>5. CASE JoinNone
  <2>1. CASE run' = [run EXCEPT !.pc = "drain"]
    BY <1>0, <2>1, GoesOn, QuietStatements
  <2>2. CASE run' = [run EXCEPT !.pc = "dispatch"] /\ run.pending # {}
    <3>1. run' \in RunMemory /\ run'.pc = "dispatch" /\ run'.pending = run.pending
      BY <2>2, QuietStatements DEF RunMemory, Loops
    <3> QED
      BY <1>0, <2>2, <3>1
  <2> QED
    BY <1>5, <2>1, <2>2 DEF JoinNone
<1>6. CASE Drain
  <2>1. PICK pc \in {"leave", "load", "gate_check"} : run' = [run EXCEPT !.pc = pc]
    BY <1>6 DEF Drain
  <2> QED
    BY <1>0, <2>1, GoesOn, QuietStatements
<1>7. CASE DropResult
  <2>1. Tail(run.queue) \in Seq(Results)
    BY <1>7 DEF DropResult, RunMemory
  <2>2. QED
    BY <1>0, <1>7, <2>1 DEF DropResult, RunMemory
<1>8. CASE Load
  <2> DEFINE bad == {s \in Segments : seg[s] \in {"failed", "needs_review"}}
  <2>1. blocks \in Books /\ bad \in SUBSET Segments
    BY DEF Books, IInv, TypeOK
  <2>2. run' = [run EXCEPT !.pc = "gate_fallback", !.mem = blocks, !.bad = bad]
    BY <1>8 DEF Load
  <2> HIDE DEF bad
  <2>3. run' \in RunMemory /\ run'.pc = "gate_fallback"
    BY <2>1, <2>2, QuietStatements DEF RunMemory
  <2> QED
    BY <1>0, <2>3
<1>9. CASE GateError
  BY <1>0, <1>9, GoesOn, QuietStatements DEF GateError
<1>10. CASE StartFallback
  <2>1. CASE run' = [run EXCEPT !.pc = "gate_check"]
    BY <1>0, <2>1, GoesOn, QuietStatements
  <2>2. ASSUME NEW candidates \in SUBSET Segments, candidates # {},
               run' = [run EXCEPT !.pc = "dispatch", !.stage = "fallback",
                                  !.assigned = candidates, !.pending = candidates]
        PROVE  WorkerTyped'
    <3>1. run' \in RunMemory
      <4>1. "dispatch" \in PCs /\ "fallback" \in {"primary", "fallback"}
        BY QuietStatements DEF Loops
      <4>2. [run EXCEPT !.pc = "dispatch", !.stage = "fallback"] \in RunMemory
        BY <4>1 DEF RunMemory
      <4>3. [[run EXCEPT !.pc = "dispatch", !.stage = "fallback"]
                 EXCEPT !.assigned = candidates, !.pending = candidates] \in RunMemory
        BY <2>2, <4>2 DEF RunMemory
      <4> QED
        BY <2>2, <4>3
    <3>2. run'.pc = "dispatch" /\ run'.pending = candidates
      BY <2>2 DEF RunMemory
    <3> QED
      BY <1>0, <2>2, <3>1, <3>2
  <2> DEFINE known == {s \in Segments : run.mem[s] # NoText} \cup run.bad
             found == run.bad \cup {s \in Segments \ known : seg[s] \in {"failed", "needs_review"}}
  <2>3. found \in SUBSET Segments
    BY DEF RunMemory
  <2>4. \/ run' = [run EXCEPT !.pc = "gate_check"]
        \/ /\ found # {}
           /\ run' = [run EXCEPT !.pc = "dispatch", !.stage = "fallback",
                                 !.assigned = found, !.pending = found]
    BY <1>10 DEF StartFallback
  <2> HIDE DEF found
  <2>5. QED
    BY <2>1, <2>2, <2>3, <2>4
<1>11. CASE StartCheck
  <2>1. CASE run' = [run EXCEPT !.pc = "rebuild"]
    BY <1>0, <2>1, GoesOn, QuietStatements
  <2>2. CASE run' = [run EXCEPT !.pc = "checking", !.frozen = {s \in Segments : human[s]}]
    <3>1. run' \in RunMemory /\ run'.pc = "checking"
      BY <2>2, QuietStatements DEF RunMemory
    <3> QED
      BY <1>0, <3>1
  <2> QED
    BY <1>11, <2>1, <2>2 DEF StartCheck
<1>12. CASE CheckAnswered
  <2>1. CASE run' = [run EXCEPT !.pc = "leave", !.ok = signal = "stopped"]
    BY <1>0, <2>1, GoesOn, QuietStatements
  <2>2. ASSUME NEW changed \in SUBSET {s \in Segments \ (run.bad \cup run.frozen) :
                                          run.mem[s] # NoText},
               NEW t \in ModelTexts \ SourceCopies,
               run' = [run EXCEPT !.pc = "check_save",
                   !.mem = [s \in Segments |-> IF s \in changed THEN t ELSE @[s]],
                   !.work = {<<s, t>> : s \in {x \in changed : run.mem[x] # t}}]
        PROVE  WorkerTyped'
    <3> DEFINE mem  == [s \in Segments |-> IF s \in changed THEN t ELSE run.mem[s]]
               work == {<<s, t>> : s \in {x \in changed : run.mem[x] # t}}
    <3>1. mem \in Books
      BY DEF RunMemory, Books, Texts
    <3>2. work \in SUBSET (Segments \X ModelTexts)
      OBVIOUS
    <3>3. work \in SUBSET (Segments \X Texts)
      BY <3>2 DEF Texts
    <3>4. run' = [run EXCEPT !.pc = "check_save", !.mem = mem, !.work = work]
      BY <2>2 DEF RunMemory
    <3> HIDE DEF mem, work
    <3>5. run' \in RunMemory /\ run'.pc = "check_save" /\ run'.work = work
      BY <3>1, <3>3, <3>4, QuietStatements DEF RunMemory, Loops
    <3> QED
      BY <1>0, <3>2, <3>5
  <2>3. QED
    BY <1>12, <2>1, <2>2 DEF CheckAnswered
<1>13. CASE Finish
  <2>1. PICK pc \in {"leave", "gate_finish", "complete", "review"} : run' = [run EXCEPT !.pc = pc]
    BY <1>13 DEF Finish
  <2> QED
    BY <1>0, <2>1, GoesOn, QuietStatements
<1>14. CASE Finished
  <2>1. PICK pc \in {"leave", "gate_finish"} : run' = [run EXCEPT !.pc = pc]
    BY <1>14 DEF Finished
  <2> QED
    BY <1>0, <2>1, GoesOn, QuietStatements
<1>15. QED
  BY <1>0, <1>1, <1>2, <1>3, <1>4, <1>5, <1>6, <1>7, <1>8, <1>9, <1>10, <1>11, <1>12, <1>13, <1>14
     DEF WorkerThinks

-----------------------------------------------------------------------------
(* The worker calls the store.                                             *)

\* A checkpoint of a segment is a transaction of the store (checkpoint.rs).
LEMMA CheckpointIsStep ==
    ASSUME NEW s \in Segments, NEW t \in ModelTexts,
           \/ SaveTranslation(s, t) \/ SaveNeedsReview(s, t)
           \/ SaveRetryPending(s, t) \/ SaveCached(s, t)
           \/ MarkSegmentFailedIfUnfinished(s)
    PROVE  Next
BY DEF Next, SegmentCheckpoint

\* So is a mark of the job row.
LEMMA MarkIsStep ==
    ASSUME NEW status \in {"succeeded", "running", "paused", "needs_review",
                           "interrupted", "failed"}, MarkJob(status)
    PROVE  Next
BY DEF Next, JobTouch, MarkableStatus

\* The steps in which the worker writes to the store.
LEMMA StoringIsSound ==
    ASSUME RunIInv, WorkerStores
    PROVE  WorkerTyped' /\ [Next]_vars
<1> USE DEF RunIInv, WorkerTyped, At
<1>0. UNCHANGED signal
  BY DEF WorkerStores, controlVars
<1>1. CASE Revalidate
  <2>1. PICK call \in run.work : /\ MarkStoredForReview(call[1], call[2])
                                 /\ run' = [run EXCEPT !.work = @ \ {call}]
    BY <1>1 DEF Revalidate
  <2>2. call \in Segments \X Texts
    BY DEF RunMemory
  <2>3. Next
    BY <2>1, <2>2 DEF Next, SegmentCheckpoint
  <2>4. WorkerTyped'
    <3>1. run' \in RunMemory /\ run'.pc = run.pc /\ run'.work = run.work \ {call}
          /\ run'.pending = run.pending
      BY <2>1 DEF RunMemory
    <3> QED
      BY <1>0, <3>1
  <2>5. QED
    BY <2>3, <2>4
<1>2. CASE ApplyCache
  <2>1. PICK call \in run.work : /\ SaveCached(call[1], call[2])
                                 /\ run' = [run EXCEPT !.work = @ \ {call}]
    BY <1>2 DEF ApplyCache
  <2>2. call \in Segments \X ModelTexts
    BY <1>2 DEF ApplyCache
  <2>3. Next
    BY <2>1, <2>2, CheckpointIsStep
  <2>4. WorkerTyped'
    <3>1. run' \in RunMemory /\ run'.pc = run.pc /\ run'.work = run.work \ {call}
          /\ run'.pending = run.pending
      BY <2>1 DEF RunMemory
    <3> QED
      BY <1>0, <3>1
  <2>5. QED
    BY <2>3, <2>4
<1>3. CASE CheckSave
  <2>1. PICK call \in run.work : /\ SaveTranslation(call[1], call[2])
                                 /\ run' = [run EXCEPT !.work = @ \ {call}]
    BY <1>3 DEF CheckSave
  <2>2. call \in Segments \X ModelTexts
    BY <1>3 DEF CheckSave
  <2>3. Next
    BY <2>1, <2>2, CheckpointIsStep
  <2>4. WorkerTyped'
    <3>1. run' \in RunMemory /\ run'.pc = run.pc /\ run'.work = run.work \ {call}
          /\ run'.pending = run.pending
      BY <2>1 DEF RunMemory
    <3> QED
      BY <1>0, <3>1
  <2>5. QED
    BY <2>3, <2>4
<1>4. CASE Start
  <2>1. WorkerTyped'
    <3>1. CASE run' = [run EXCEPT !.pc = "drain"]
      BY <1>0, <3>1, GoesOn, QuietStatements
    <3>2. CASE run' = [run EXCEPT !.pc = "dispatch"] /\ run.pending # {}
      <4>1. run' \in RunMemory /\ run'.pc = "dispatch" /\ run'.pending = run.pending
        BY <3>2, QuietStatements DEF RunMemory, Loops
      <4> QED
        BY <1>0, <3>2, <4>1
    <3> QED
      BY <1>4, <3>1, <3>2 DEF Start
  <2>2. QED
    BY <1>4, <2>1, MarkIsStep DEF Start
<1>5. CASE DispatchError
  <2>1. WorkerTyped'
    <3>1. \/ run' = [run EXCEPT !.pc = "drain", !.inFlight = {}]
          \/ run' = [run EXCEPT !.pc = "error_touch", !.inFlight = {}, !.ok = FALSE]
      BY <1>5 DEF DispatchError
    <3>2. CASE run' = [run EXCEPT !.pc = "drain", !.inFlight = {}]
      <4>1. run' \in RunMemory /\ run'.pc = "drain"
        BY <3>2, QuietStatements DEF RunMemory
      <4> QED
        BY <1>0, <4>1
    <3>3. CASE run' = [run EXCEPT !.pc = "error_touch", !.inFlight = {}, !.ok = FALSE]
      <4>1. run' \in RunMemory /\ run'.pc = "error_touch"
        BY <3>3, QuietStatements DEF RunMemory
      <4> QED
        BY <1>0, <4>1
    <3>4. QED
      BY <3>1, <3>2, <3>3
  <2>2. ASSUME MarkUnfinishedSegmentsFailed(Worker, run.assigned)
        PROVE  Next
    BY <2>2, RunAssumption DEF Next, ClientCall, RunMemory
  <2>3. QED
    BY <1>5, <2>1, <2>2 DEF DispatchError
<1>6. CASE ErrorTouch
  <2>1. WorkerTyped'
    BY <1>0, <1>6, GoesOn, QuietStatements DEF ErrorTouch
  <2>2. ASSUME PayDebt(Worker)
        PROVE  Next
    BY <2>2, RunAssumption DEF Next, ClientCall
  <2>3. QED
    BY <1>6, <2>1, <2>2 DEF ErrorTouch
<1>7. CASE ErrorMark
  <2>1. WorkerTyped'
    BY <1>0, <1>7, GoesOn, QuietStatements DEF ErrorMark
  <2>2. QED
    BY <1>7, <2>1, MarkIsStep DEF ErrorMark
<1>8. CASE Validate
  <2>1. WorkerTyped'
    <3>1. \/ run' = [run EXCEPT !.pc = "gate_finish"]
          \/ run' = [run EXCEPT !.pc = "leave", !.ok = FALSE]
      BY <1>8 DEF Validate
    <3>2. CASE run' = [run EXCEPT !.pc = "gate_finish"]
      BY <1>0, <3>2, GoesOn, QuietStatements
    <3>3. CASE run' = [run EXCEPT !.pc = "leave", !.ok = FALSE]
      BY <1>0, <3>3, GoesOn, QuietStatements
    <3>4. QED
      BY <3>1, <3>2, <3>3
  <2>2. QED
    BY <1>8, <2>1, MarkIsStep DEF Validate
<1>9. CASE FinishMark
  <2>1. WorkerTyped'
    BY <1>0, <1>9, GoesOn, QuietStatements DEF FinishMark
  <2>2. QED
    BY <1>9, <2>1, MarkIsStep DEF FinishMark
<1>10. CASE Settle
  <2>1. WorkerTyped'
    BY <1>0, <1>10, GoesOn, QuietStatements DEF Settle
  <2>2. QED
    BY <1>10, <2>1, MarkIsStep DEF Settle
<1>11. CASE SettleError
  <2>1. WorkerTyped'
    BY <1>0, <1>11, GoesOn, QuietStatements DEF SettleError
  <2>2. QED
    BY <1>11, <2>1, MarkIsStep DEF SettleError
<1>12. CASE SettleInterrupt
  <2>1. WorkerTyped'
    BY <1>0, <1>12, DownIsTyped DEF SettleInterrupt, Down
  <2>2. QED
    BY <1>12, <2>1, MarkIsStep DEF SettleInterrupt
<1>13. QED
  BY <1>1, <1>2, <1>3, <1>4, <1>5, <1>6, <1>7, <1>8, <1>9, <1>10, <1>11, <1>12
     DEF WorkerStores

\* The checkpoint writer persists one result at a time.
LEMMA WritingIsSound ==
    ASSUME RunIInv, WriterStep
    PROVE  WorkerTyped' /\ [Next]_vars
<1> USE DEF RunIInv, WorkerTyped
<1>1. /\ run.queue # <<>> /\ ApplyResult(Head(run.queue))
      /\ run' = [run EXCEPT !.queue = Tail(@)]
      /\ UNCHANGED signal
  BY DEF WriterStep, Persist, controlVars
<1>2. Head(run.queue) \in Results /\ Tail(run.queue) \in Seq(Results)
  BY <1>1 DEF RunMemory
<1>3. Next
  <2> DEFINE r == Head(run.queue)
  <2>1. r.segment \in Segments /\ r.text \in ModelTexts
    BY <1>2 DEF Results
  <2>2. QED
    BY <1>1, <2>1, CheckpointIsStep DEF ApplyResult
<1>4. WorkerTyped'
  BY <1>1, <1>2 DEF RunMemory
<1>5. QED
  BY <1>3, <1>4

-----------------------------------------------------------------------------
(* The control channel.                                                    *)

\* A poll changes the signal and nothing the worker remembers.
LEMMA PollKeepsSignalTyped ==
    ASSUME WorkerTyped, NEW p, NEW hasToken, Poll(p, hasToken) \/ RecordPoll(p)
    PROVE  signal' \in {"running", "paused", "stopped"}
BY DEF WorkerTyped, Poll, PollPause, PollResume, PollStop, ObeyStoppedRow, RecordPoll

\* A poll writes the job row at most once (ControlFilePoller::poll).
LEMMA PollIsStep ==
    ASSUME NEW p, NEW hasToken, Poll(p, hasToken) \/ RecordPoll(p)
    PROVE  [Next]_vars
<1>1. CASE Poll(p, hasToken)
  BY <1>1 DEF Poll
<1>2. CASE RecordPoll(p)
  <2>1. CASE MarkJobStopped
    BY <2>1 DEF Next, JobTouch
  <2>2. QED
    BY <1>2, <2>1, MarkIsStep DEF RecordPoll
<1>3. QED
  BY <1>1, <1>2

\* The steps in which the worker acts on the signal.
LEMMA ControllingKeepsTypes ==
    ASSUME RunIInv, WorkerControls
    PROVE  WorkerTyped'
<1> USE DEF RunIInv, WorkerTyped, At
<1>1. CASE StartWatcher
  <2> DEFINE work == {<<s, Cached[s]>> : s \in
              {x \in run.pending : /\ seg[x] # "retry_pending"
                                   /\ Cached[x] \notin SourceCopies \cup {NoText}}}
  <2>1. work \in SUBSET (Segments \X ModelTexts) /\ work \in SUBSET (Segments \X Texts)
    <3>1. run.pending \subseteq Segments
      BY DEF RunMemory
    <3>2. ASSUME NEW x \in run.pending, Cached[x] \notin SourceCopies \cup {NoText}
          PROVE  <<x, Cached[x]>> \in Segments \X ModelTexts
      BY <3>1, <3>2, RunAssumption
    <3>3. work \subseteq Segments \X ModelTexts
      BY <3>2
    <3>4. QED
      BY <3>3 DEF Texts
  <2>2. run' = [run EXCEPT !.pc = "cache", !.work = work] /\ UNCHANGED signal
    BY <1>1 DEF StartWatcher
  <2> HIDE DEF work
  <2>3. run' \in RunMemory /\ run'.pc = "cache" /\ run'.work = work
    BY <2>1, <2>2, QuietStatements DEF RunMemory, Loops
  <2> QED
    BY <2>1, <2>2, <2>3
<1>2. CASE Dispatch
  <2> DEFINE next == CASE signal = "running" -> "spawn"
                       [] signal = "stopped" -> "halt"
                       [] signal = "paused"  -> IF run.inFlight = {} THEN "dispatch" ELSE "join"
             late == IF signal = "running" THEN 0 ELSE run.late
  <2>1. next \in {"spawn", "halt", "dispatch", "join"} /\ late \in Nat
    BY DEF RunMemory
  <2>2. run' = [run EXCEPT !.pc = next, !.late = late] /\ UNCHANGED signal
    BY <1>2 DEF Dispatch
  <2>3. run.pending # {}
    BY <1>2 DEF Dispatch, PolledAt
  <2> HIDE DEF next, late
  <2>4. run' \in RunMemory /\ run'.pc = next /\ run'.pending = run.pending
    BY <2>1, <2>2, QuietStatements DEF RunMemory, Loops
  <2> QED
    BY <2>1, <2>2, <2>3, <2>4
<1>3. CASE Gate
  <2> DEFINE next == CASE signal = "running" -> Behind(run.pc)
                       [] signal = "stopped" -> "leave"
                       [] signal = "paused"  -> run.pc
  <2>1. next \in {"fallback", "check", "rebuild", "finish", "leave"} \cup Gates
    BY <1>3 DEF Gate, Behind, Gates
  <2>2. run' = [run EXCEPT !.pc = next] /\ UNCHANGED signal
    BY <1>3 DEF Gate
  <2> HIDE DEF next
  <2>3. next \in PCs \ Loops
    BY <2>1, QuietStatements DEF Gates
  <2> QED
    BY <2>2, <2>3, GoesOn
<1>4. CASE Leave
  BY <1>4, GoesOn, QuietStatements DEF Leave
<1>5. QED
  BY <1>1, <1>2, <1>3, <1>4 DEF WorkerControls

\* The steps that touch the book, the snapshot or the ownership of the job.
LEMMA PublishingIsSound ==
    ASSUME RunIInv, WorkerPublishes
    PROVE  WorkerTyped' /\ [Next]_vars /\ book' \in Books
<1> USE DEF RunIInv, WorkerTyped, At
<1>1. CASE CheckDone /\ UNCHANGED <<vars, controlVars, book>>
  <2> DEFINE mem == [s \in Segments |-> IF run.mem[s] = NoText THEN blocks[s] ELSE run.mem[s]]
  <2>1. mem \in Books
    BY DEF RunMemory, Books, IInv, TypeOK
  <2>2. run' = [run EXCEPT !.pc = "gate_rebuild", !.mem = mem]
    BY <1>1 DEF CheckDone, RunMemory
  <2> HIDE DEF mem
  <2>3. WorkerTyped'
    <3>1. run' \in RunMemory /\ run'.pc = "gate_rebuild"
      BY <2>1, <2>2, QuietStatements DEF RunMemory
    <3> QED
      BY <1>1, <3>1 DEF controlVars
  <2>4. QED
    BY <1>1, <2>3 DEF DeskTyped
<1>2. CASE Rebuild /\ UNCHANGED <<vars, controlVars, checked>>
  <2>1. WorkerTyped'
    BY <1>2, GoesOn, QuietStatements DEF Rebuild, controlVars
  <2>2. QED
    BY <1>2, <2>1 DEF Rebuild, RunMemory
<1>3. CASE Own /\ UNCHANGED <<book, checked>>
  <2> DEFINE work == {<<s, text[s]>> : s \in
              {x \in Segments : seg[x] \in Resolved /\ ~human[x] /\ text[x] \in SourceCopies}}
  <2>1. work \in SUBSET (Segments \X Texts)
    BY RunAssumption DEF Texts
  <2>2. run' = [run EXCEPT !.pc = "revalidate", !.owned = TRUE, !.work = work]
        /\ UNCHANGED signal
    BY <1>3 DEF Own
  <2>3. [Next]_vars
    BY <1>3 DEF Own, Next, JobTouch
  <2> HIDE DEF work
  <2>4. WorkerTyped'
    <3>1. run' \in RunMemory /\ run'.pc = "revalidate"
      BY <2>1, <2>2, QuietStatements DEF RunMemory
    <3> QED
      BY <2>2, <3>1
  <2>5. QED
    BY <1>3, <2>3, <2>4 DEF DeskTyped
<1>4. QED
  BY <1>1, <1>2, <1>3 DEF WorkerPublishes

-----------------------------------------------------------------------------
(* The world around the worker.                                            *)

\* Launches, Ctrl+C, crashes, user commands and the commands of other
\* processes (ingest-flags, retry) are at most one transaction each.
LEMMA WorldIsSound ==
    ASSUME RunIInv, WorldStep
    PROVE  WorkerTyped' /\ [Next]_vars /\ UNCHANGED deskVars
<1> USE DEF RunIInv, WorkerTyped
<1>1. CASE Launch /\ UNCHANGED deskLocal
  <2>1. job \in JobStatus
    BY <1>1 DEF Launch, JobExists, IInv, TypeOK
  <2>2. run' = [Down EXCEPT !.pc = "preflight", !.launch = job] /\ "preflight" \in PCs
    BY <1>1 DEF Launch, PCs
  <2>3. run' \in RunMemory
    BY <2>1, <2>2, DownIsTyped DEF RunMemory
  <2>4. run'.pc = "preflight"
    BY <2>2, DownIsTyped DEF RunMemory
  <2>5. QED
    BY <1>1, <2>3, <2>4 DEF Launch, deskVars
<1>2. CASE Interrupt /\ UNCHANGED deskLocal
  BY <1>2 DEF Interrupt, deskVars
<1>3. CASE Crash /\ UNCHANGED deskLocal
  <2>1. WorkerTyped'
    BY <1>3, DownIsTyped DEF Crash, Down
  <2>2. Worker \in Clients /\ owed \in [Clients -> Debts]
    BY RunAssumption DEF IInv, TypeOK
  <2>3. CASE owed[Worker] = "nothing"
    BY <1>3, <2>1, <2>2, <2>3 DEF Crash, storeVars, vars, deskVars
  <2>4. CASE owed[Worker] # "nothing"
    <3>1. ClientDies(Worker)
      BY <1>3, <2>4 DEF Crash, ClientDies, KeepOutput, storeVars
    <3>2. Next
      BY <2>2, <3>1 DEF Next, ClientCall
    <3>3. QED
      BY <1>3, <2>1, <3>2 DEF Crash, deskVars
  <2>5. QED
    BY <2>3, <2>4
<1>4. CASE UserCommand /\ UNCHANGED deskLocal
  BY <1>4 DEF UserCommand, Command, deskVars
<1>5. CASE Meddle /\ UNCHANGED <<deskVars, controlVars, runVars>>
  <2>1. ASSUME NEW c \in Shells, NEW s \in Segments, MarkSegmentsNeedsReview(c, {s})
        PROVE  Next
    BY <2>1, ClientsAssumption DEF Next, ClientCall
  <2>2. ASSUME NEW c \in Shells, PayDebt(c)
        PROVE  Next
    BY <2>2, ClientsAssumption DEF Next, ClientCall
  <2>3. ASSUME NEW scope \in RetryScopes, RetrySegments(scope)
        PROVE  Next
    BY <2>3 DEF Next
  <2>4. Next
    BY <1>5, <2>1, <2>2, <2>3 DEF Meddle
  <2>5. QED
    BY <1>5, <2>4 DEF runVars, controlVars
<1>6. QED
  BY <1>1, <1>2, <1>3, <1>4, <1>5 DEF WorldStep

-----------------------------------------------------------------------------
(* The whole system.                                                       *)

\* A step of the worker, whichever statement it stands before.
LEMMA WorkerIsSound ==
    ASSUME RunIInv, WorkerStep
    PROVE  WorkerTyped' /\ DeskTyped' /\ [Next]_vars
<1> USE DEF RunIInv
<1>0. UNCHANGED <<ask, step, view>>
  BY DEF WorkerStep, deskLocal
<1>1. CASE WorkerThinks
  BY <1>0, <1>1, ThinkingKeepsTypes DEF WorkerThinks, DeskTyped
<1>2. CASE WorkerStores
  BY <1>0, <1>2, StoringIsSound DEF WorkerStores, DeskTyped
<1>3. CASE WorkerControls
  BY <1>0, <1>3, ControllingKeepsTypes DEF WorkerControls, DeskTyped
<1>4. CASE WorkerPolls
  <2>1. PICK hasToken : Poll("worker", hasToken) \/ RecordPoll("worker")
    BY <1>4 DEF WorkerPolls, BoundaryPoll
  <2>2. signal' \in {"running", "paused", "stopped"} /\ [Next]_vars
    BY <2>1, PollKeepsSignalTyped, PollIsStep
  <2>3. run' = run /\ book' = book
    BY <1>4 DEF WorkerPolls
  <2>4. QED
    BY <1>0, <2>2, <2>3 DEF WorkerTyped, DeskTyped
<1>5. CASE WorkerPublishes
  BY <1>0, <1>5, PublishingIsSound DEF DeskTyped
<1>6. QED
  BY <1>1, <1>2, <1>3, <1>4, <1>5 DEF WorkerStep

\* Every step of the system is at most one transaction of the store, and keeps
\* the invariant.
LEMMA RunStepHolds ==
    RunIInv /\ [RunNext]_sysVars => RunIInv' /\ [Next]_vars
<1> SUFFICES ASSUME RunIInv, [RunNext]_sysVars
             PROVE  WorkerTyped' /\ DeskTyped' /\ [Next]_vars
  BY StepHolds DEF RunIInv
<1>1. CASE WorkerStep
  BY <1>1, WorkerIsSound
<1>2. CASE WriterStep
  BY <1>2, WritingIsSound DEF WriterStep, RunIInv, DeskTyped, deskVars, deskLocal
<1>3. CASE WatcherStep
  <2>1. PICK hasToken : Poll("watcher", hasToken) \/ RecordPoll("watcher")
    BY <1>3 DEF WatcherStep, WatcherPolls
  <2>2. signal' \in {"running", "paused", "stopped"} /\ [Next]_vars
    BY <2>1, PollKeepsSignalTyped, PollIsStep DEF RunIInv
  <2>3. QED
    BY <1>3, <2>2
       DEF WatcherStep, RunIInv, WorkerTyped, DeskTyped, deskVars, deskLocal, runVars
<1>4. CASE DeskStep
  <2>1. PICK c \in Clients : Correct(c)
    BY <1>4, ClientsAssumption DEF DeskStep, Correct
  <2>2. DeskTyped' /\ [Next]_vars
    BY <2>1, CorrectCallsStore, CorrectKeepsTypes DEF RunIInv, IInv
  <2>3. QED
    BY <1>4, <2>2 DEF DeskStep, RunIInv, WorkerTyped, controlVars, runVars
<1>5. CASE WorldStep
  BY <1>5, WorldIsSound DEF RunIInv, DeskTyped, deskVars, deskLocal
<1>6. CASE UNCHANGED sysVars
  BY <1>6 DEF sysVars, allVars, runVars, controlVars, deskVars, deskLocal, RunIInv, DeskTyped,
     WorkerTyped
<1>7. QED
  BY <1>1, <1>2, <1>3, <1>4, <1>5, <1>6 DEF RunNext

\* A job just created, or one an older build left, satisfies the invariant.
LEMMA RunInitHolds == RunInit => RunIInv
<1> SUFFICES ASSUME RunInit PROVE RunIInv
  OBVIOUS
<1>1. PICK old \in [Segments -> SourceCopies \cup {NoText}] :
        /\ text = old /\ blocks = old
        /\ seg = [s \in Segments |-> IF old[s] = NoText THEN "queued" ELSE "succeeded"]
  BY DEF RunInit
<1>2. old \in [Segments -> Texts \cup {NoText}]
  BY RunAssumption DEF Texts
<1>3. IInv
  BY <1>1, <1>2, NoTextAssumption
     DEF RunInit, IInv, TypeOK, CorrectionStands, ResolvedIsRebuildable,
         JobStatus, SegStatus, Debts, Resolved
<1>4. DeskTyped
  BY NoAskIsAsk DEF RunInit, DeskTyped, Steps, Books, Empty
<1>5. WorkerTyped
  BY DownIsTyped DEF RunInit, WorkerTyped, ControlInit, Down
<1>6. QED
  BY <1>3, <1>4, <1>5 DEF RunIInv

\* The invariant of the composition.
THEOREM RunInvariantHolds == RunSpec => []RunIInv
<1>1. RunIInv /\ [RunNext]_sysVars => RunIInv'
  BY RunStepHolds
<1>2. QED
  BY <1>1, RunInitHolds, PTL DEF RunSpec

\* Whatever worker, writer, watcher, reviewers and other commands do together
\* reaches the database as one transaction of the store at a time.
THEOREM RunIsTransactional == RunSpec => StepsAreTransactions
<1>1. RunIInv /\ [RunNext]_sysVars => [Next]_vars
  BY RunStepHolds
<1>2. QED
  BY <1>1, RunInvariantHolds, PTL DEF RunSpec, StepsAreTransactions

\* No run, relaunch, late result or double-check pass takes a reviewer's
\* committed correction back.
THEOREM RunCorrectionsStand == RunSpec => []CorrectionStands
<1>1. RunIInv => CorrectionStands
  BY DEF RunIInv, IInv
<1>2. QED
  BY <1>1, RunInvariantHolds, PTL

\* Whenever a run dies, every segment it left resolved can be rebuilt from the
\* stored blocks.
THEOREM RunResolvedRebuildable == RunSpec => []ResolvedIsRebuildable
<1>1. RunIInv => ResolvedIsRebuildable
  BY DEF RunIInv, IInv
<1>2. QED
  BY <1>1, RunInvariantHolds, PTL

\* No late failure report and no dispatch that dies, of whichever launch, turns
\* a segment that has a translation into a failed one.
THEOREM RunKeepsWork == RunSpec => LateFailureKeepsWork
<1>1. RunIInv /\ [RunNext]_sysVars =>
          [\A s \in Segments :
              seg[s] \in TerminalWithTranslation => seg'[s] # "failed"]_vars
  BY RunStepHolds, StepKeepsWork DEF RunIInv
<1>2. QED
  BY <1>1, RunInvariantHolds, PTL DEF RunSpec, LateFailureKeepsWork

\* A stopped job is not moved by anything its worker, writer or watcher still
\* had in flight, only by a resume, a reviewer's verdict or pruning.
THEOREM RunStopHolds == RunSpec => StopHolds
<1>1. RunIInv /\ [RunNext]_sysVars =>
          [job = "stopped" /\ job' # "stopped" =>
              \/ MarkJobRunningForResume
              \/ \E c \in Clients : owed[c] \in Verdict /\ PayDebt(c)
              \/ Prune]_vars
  BY RunStepHolds, StepKeepsStop
<1>2. QED
  BY <1>1, RunInvariantHolds, PTL DEF RunSpec, StopHolds

-----------------------------------------------------------------------------
(* The book the run rebuilds.                                              *)

\* The worker rebuilds the book from its memory, so its memory must not hold a
\* reviewer's text that is not committed either.
RunBooksAreCommitted == BooksAreCommitted /\ Committed(run.mem)

\* A reviewer's text only enters the worker's memory from the stored blocks
\* (load_block_translations): everything else it takes in a provider wrote.
LEMMA MemoryIsRead ==
    ASSUME RunIInv, [RunNext]_sysVars
    PROVE  \A s \in Segments :
              run'.mem[s] \in ModelTexts \cup {NoText, run.mem[s], blocks[s]}
<1> DEFINE Goal == \A s \in Segments :
              run'.mem[s] \in ModelTexts \cup {NoText, run.mem[s], blocks[s]}
<1> USE DEF RunIInv, WorkerTyped, RunMemory
<1>1. ASSUME run'.mem = run.mem
      PROVE  Goal
  BY <1>1
<1>2. ASSUME run'.mem = Empty
      PROVE  Goal
  BY <1>2 DEF Empty
<1>3. CASE WorkerStep
  <2>1. CASE WorkerThinks
    <3>1. CASE Join
      BY <3>1 DEF Join, Books
    <3>2. CASE Load
      BY <3>2 DEF Load
    <3>3. CASE CheckAnswered
      <4>1. CASE run' = [run EXCEPT !.pc = "leave", !.ok = signal = "stopped"]
        BY <1>1, <4>1
      <4>2. ASSUME NEW changed \in SUBSET Segments, NEW t \in ModelTexts,
                   run'.mem = [s \in Segments |-> IF s \in changed THEN t ELSE run.mem[s]]
            PROVE  Goal
        BY <4>2
      <4>3. ASSUME NEW changed \in SUBSET {s \in Segments \ (run.bad \cup run.frozen) :
                                               run.mem[s] # NoText},
                   NEW t \in ModelTexts \ SourceCopies,
                   run' = [run EXCEPT !.pc = "check_save",
                       !.mem = [s \in Segments |-> IF s \in changed THEN t ELSE @[s]],
                       !.work = {<<s, t>> : s \in {x \in changed : run.mem[x] # t}}]
            PROVE  Goal
        <5>1. run'.mem = [s \in Segments |-> IF s \in changed THEN t ELSE run.mem[s]]
          BY <4>3
        <5>2. changed \in SUBSET Segments /\ t \in ModelTexts
          OBVIOUS
        <5> HIDE DEF Goal
        <5>3. QED
          BY <4>2, <5>1, <5>2
      <4>4. QED
        BY <3>3, <4>1, <4>3 DEF CheckAnswered
    <3>4. CASE Preflight \/ Reread \/ Spawn \/ JoinNone \/ Drain \/ DropResult
               \/ GateError \/ StartFallback \/ StartCheck \/ Finish \/ Finished
      BY <1>1, <3>4 DEF Preflight, Reread, Spawn, JoinNone, Drain, DropResult, GateError,
         StartFallback, StartCheck, Finish, Finished
    <3>5. QED
      BY <2>1, <3>1, <3>2, <3>3, <3>4 DEF WorkerThinks
  <2>2. CASE WorkerStores
    <3>1. CASE Revalidate \/ ApplyCache \/ CheckSave
      BY <1>1, <3>1 DEF Revalidate, ApplyCache, CheckSave
    <3>2. CASE Start \/ DispatchError \/ ErrorTouch \/ ErrorMark
      BY <1>1, <3>2 DEF Start, DispatchError, ErrorTouch, ErrorMark
    <3>3. CASE Validate \/ FinishMark \/ Settle \/ SettleError
      BY <1>1, <3>3 DEF Validate, FinishMark, Settle, SettleError
    <3>4. CASE SettleInterrupt
      BY <1>2, <3>4 DEF SettleInterrupt, Down
    <3>5. QED
      BY <2>2, <3>1, <3>2, <3>3, <3>4 DEF WorkerStores
  <2>3. CASE WorkerControls
    BY <1>1, <2>3 DEF WorkerControls, StartWatcher, Dispatch, Gate, Leave
  <2>4. CASE WorkerPolls
    BY <1>1, <2>4 DEF WorkerPolls
  <2>5. CASE WorkerPublishes
    <3>1. CASE CheckDone
      BY <3>1 DEF CheckDone
    <3>2. CASE Rebuild \/ Own
      BY <1>1, <3>2 DEF Rebuild, Own
    <3>3. QED
      BY <2>5, <3>1, <3>2 DEF WorkerPublishes
  <2>6. QED
    BY <1>3, <2>1, <2>2, <2>3, <2>4, <2>5 DEF WorkerStep
<1>4. CASE WriterStep
  BY <1>1, <1>4 DEF WriterStep, Persist
<1>5. CASE WatcherStep \/ DeskStep \/ UNCHANGED sysVars
  BY <1>1, <1>5 DEF WatcherStep, DeskStep, sysVars, runVars
<1>6. CASE WorldStep
  <2>1. CASE Launch
    BY <1>2, <2>1 DEF Launch, Down
  <2>2. CASE Crash
    BY <1>2, <2>2 DEF Crash, Down
  <2>3. CASE Interrupt \/ UserCommand \/ UNCHANGED run
    BY <1>1, <2>3 DEF Interrupt, UserCommand
  <2>4. QED
    BY <1>6, <2>1, <2>2, <2>3 DEF WorldStep, runVars
<1>7. QED
  BY <1>3, <1>4, <1>5, <1>6 DEF RunNext

\* Every step of the system keeps the book and the memory behind the store.
LEMMA RunKeepsBooks ==
    ASSUME RunIInv, RunBooksAreCommitted, [RunNext]_sysVars
    PROVE  RunBooksAreCommitted'
<1> USE DEF RunBooksAreCommitted
<1>0. IInv /\ DeskTyped /\ [Next]_vars
  BY RunStepHolds DEF RunIInv
<1>1. /\ \A s \in Segments : committed[s] \subseteq committed'[s]
      /\ Committed(blocks)'
  BY <1>0, StoreKeepsCommitted DEF BooksAreCommitted
<1>2. Committed(run.mem)'
  BY <1>1, MemoryIsRead DEF BooksAreCommitted, Committed
<1>3. CASE UNCHANGED <<book, step, ask, view>>
  BY <1>0, <1>2, <1>3, StoreKeepsBooks
<1>4. CASE DeskStep
  <2>1. PICK c \in Clients : Correct(c)
    BY <1>4, ClientsAssumption DEF DeskStep, Correct
  <2>2. BooksAreCommitted'
    BY <1>0, <2>1, CorrectKeepsBooks
  <2>3. QED
    BY <1>2, <2>2
<1>5. CASE Rebuild /\ UNCHANGED <<vars, deskLocal>>
  BY <1>2, <1>5 DEF Rebuild, BooksAreCommitted, Committed, vars, deskLocal
<1>6. CASE WorkerStep
  BY <1>3, <1>5, <1>6 DEF WorkerStep, WorkerThinks, WorkerStores, WorkerControls, WorkerPolls,
     WorkerPublishes, deskLocal
<1>7. CASE WriterStep \/ WatcherStep \/ WorldStep \/ UNCHANGED sysVars
  BY <1>3, <1>7 DEF WriterStep, WatcherStep, WorldStep, Launch, Interrupt, Crash, UserCommand,
     sysVars, allVars, deskVars, deskLocal
<1>8. QED
  BY <1>4, <1>6, <1>7 DEF RunNext

\* The published book stays behind the store in the whole system: a book the
\* run rebuilds from memory races every reviewer's correction.
THEOREM RunBookStaysBehind == RunSpec => []BookNeverAheadOfStore
<1>1. RunInit => RunBooksAreCommitted
  BY RunAssumption, NoTextAssumption
     DEF RunInit, RunBooksAreCommitted, BooksAreCommitted, Committed, Empty, Down
<1>2. RunIInv /\ RunBooksAreCommitted /\ [RunNext]_sysVars => RunBooksAreCommitted'
  BY RunKeepsBooks
<1>3. RunBooksAreCommitted => BookNeverAheadOfStore
  BY DEF RunBooksAreCommitted, BooksAreCommitted, Committed, BookNeverAheadOfStore
<1>4. QED
  BY <1>1, <1>2, <1>3, RunInvariantHolds, PTL DEF RunSpec

-----------------------------------------------------------------------------
(* A job that only its worker writes.                                      *)

\* Nobody corrects, retries or flags a segment while the job runs: no
\* reviewer, no shell and no other command.  Users still pause, resume, stop
\* and kill the worker as they like.
Alone == Tabs = {} /\ Shells = {} /\ Meddlers = {}

\* The statements of the launch, of a dispatch, and those up to the end of its
\* writer; those behind which the translations in memory matter, and those
\* behind which the rebuilt book does.
Launching   == {"preflight", "own", "revalidate", "cache", "reread", "start"}
Dispatching == {"dispatch", "spawn", "join", "halt"}
Draining    == Dispatching \cup {"error_touch", "error_mark", "drain"}
Loaded      == {"gate_fallback", "fallback"}
Checked     == Loaded \cup {"gate_check", "check", "checking", "gate_rebuild", "rebuild"}
Published   == {"validate", "gate_finish", "finish", "complete", "review", "finished"}
Outside     == {"down", "preflight", "own", "revalidate", "cache", "start",
                "finished", "leave", "settle", "settle_error", "settle_interrupt"}

\* The results on their way, and that no two of them are of one segment.
Queued(q) == {q[i] : i \in DOMAIN q}
Apart(q)  == \A i, j \in DOMAIN q : q[i].segment = q[j].segment => i = j

\* No human text, and no debt but that of a dispatch that failed.
Untouched ==
    /\ \A s \in Segments : ~human[s]
    /\ owed[Worker] \in {"nothing", "failed"}

\* A segment is pending, in flight or on its way to the writer, never two of
\* these; nothing is in flight outside a dispatch, nothing on its way once the
\* writer is done.
SegmentsApart ==
    /\ Apart(run.queue)
    /\ \A r \in Queued(run.queue) : r.segment \notin run.pending \cup run.inFlight
    /\ run.pending \cap run.inFlight = {}
    /\ run.queue # <<>> => run.pc \in Draining
    /\ run.inFlight # {} => run.pc \in Dispatching

\* What is dispatched is unresolved until the writer resolves it.
WorkIsOpen ==
    /\ \A s \in run.inFlight : seg[s] \notin Resolved
    /\ \A r \in Queued(run.queue) : seg[r.segment] \notin Resolved
    /\ run.pc \in Dispatching \cup {"start"} => \A s \in run.pending : seg[s] \notin Resolved
    /\ run.pc \in Loaded => \A s \in run.bad : seg[s] \notin Resolved

\* An answer is in the store or on its way there.
AnswersAreKept ==
    /\ run.pc \in Launching => run.answered = {} /\ run.stage = "primary"
    /\ \A s \in run.answered :
          \/ seg[s] \in Resolved
          \/ \E r \in Queued(run.queue) : r.segment = s /\ r.outcome = "succeeded"

\* For a resolved segment the memory of the finalize stages holds the stored
\* blocks, or the double check has still to save what it holds.
MemoryMatters == run.pc \in Checked \/ (run.pc \in Draining /\ run.stage = "fallback")

MemoryIsCurrent ==
    /\ MemoryMatters => \A s \in Segments : seg[s] \in Resolved => run.mem[s] = blocks[s]
    /\ run.stage = "fallback" =>
          \A r \in Queued(run.queue) : r.outcome = "succeeded" => run.mem[r.segment] = r.text
    /\ run.pc = "check_save" =>
          /\ \A call \in run.work : run.mem[call[1]] = call[2]
          /\ \A s \in Segments : seg[s] \in Resolved =>
                 run.mem[s] = blocks[s] \/ <<s, run.mem[s]>> \in run.work

\* So does the rebuilt book, and success is only recorded of such a book.
BookIsCurrent ==
    /\ run.pc \in Published => \A s \in Segments : seg[s] \in Resolved => book[s] = blocks[s]
    /\ run.pc = "complete" => \A s \in Segments : seg[s] \in Resolved
    /\ job = "succeeded" => /\ run.pc \in Outside
                            /\ \A s \in Segments : seg[s] \in Resolved /\ book[s] = blocks[s]

AloneInv ==
    Untouched /\ SegmentsApart /\ WorkIsOpen /\ AnswersAreKept /\ MemoryIsCurrent /\ BookIsCurrent

\* Taking the first result off the queue.
LEMMA TailOfQueue ==
    ASSUME NEW q \in Seq(Results), q # <<>>, Apart(q)
    PROVE  /\ Head(q) \in Queued(q) /\ Apart(Tail(q))
           /\ Queued(q) = Queued(Tail(q)) \cup {Head(q)}
           /\ \A r \in Queued(Tail(q)) : r.segment # Head(q).segment
<1>1. /\ Len(q) \in Nat /\ Len(q) # 0 /\ DOMAIN q = 1 .. Len(q)
      /\ Head(q) = q[1] /\ DOMAIN Tail(q) = 1 .. (Len(q) - 1)
      /\ \A i \in 1 .. (Len(q) - 1) : Tail(q)[i] = q[i + 1]
  OBVIOUS
<1>2. \A i \in DOMAIN Tail(q) : i + 1 \in DOMAIN q /\ i + 1 # 1 /\ Tail(q)[i] = q[i + 1]
  BY <1>1
<1>3. \A j \in DOMAIN q : j = 1 \/ (j - 1 \in DOMAIN Tail(q) /\ Tail(q)[j - 1] = q[j])
  BY <1>1
<1>4. 1 \in DOMAIN q
  BY <1>1
<1>5. Apart(Tail(q))
  <2> SUFFICES ASSUME NEW i \in DOMAIN Tail(q), NEW j \in DOMAIN Tail(q),
                      Tail(q)[i].segment = Tail(q)[j].segment
               PROVE  i = j
    BY DEF Apart
  <2>1. i + 1 = j + 1 /\ i \in Nat /\ j \in Nat
    BY <1>1, <1>2 DEF Apart
  <2> QED
    BY <2>1
<1>6. \A r \in Queued(Tail(q)) : r.segment # Head(q).segment
  BY <1>1, <1>2, <1>4 DEF Queued, Apart
<1>7. Queued(q) = Queued(Tail(q)) \cup {Head(q)}
  BY <1>1, <1>2, <1>3, <1>4 DEF Queued
<1> QED
  BY <1>5, <1>6, <1>7

\* Putting a result of another segment at its end.
LEMMA EndOfQueue ==
    ASSUME NEW q \in Seq(Results), NEW r \in Results, Apart(q),
           \A x \in Queued(q) : x.segment # r.segment
    PROVE  Apart(Append(q, r)) /\ Queued(Append(q, r)) = Queued(q) \cup {r}
<1>1. /\ Len(q) \in Nat /\ DOMAIN q = 1 .. Len(q)
      /\ DOMAIN Append(q, r) = 1 .. (Len(q) + 1)
      /\ \A i \in 1 .. Len(q) : Append(q, r)[i] = q[i]
      /\ Append(q, r)[Len(q) + 1] = r
  OBVIOUS
<1>2. \A i \in DOMAIN Append(q, r) : \/ i \in DOMAIN q /\ Append(q, r)[i] = q[i]
                                     \/ i = Len(q) + 1 /\ Append(q, r)[i] = r
  BY <1>1
<1>3. \A i \in DOMAIN q : i \in DOMAIN Append(q, r) /\ q[i] \in Queued(q)
  BY <1>1 DEF Queued
<1>4. Len(q) + 1 \in DOMAIN Append(q, r)
  BY <1>1
<1>5. Apart(Append(q, r))
  BY <1>2, <1>3 DEF Apart
<1>6. Queued(Append(q, r)) = Queued(q) \cup {r}
  BY <1>1, <1>2, <1>3, <1>4 DEF Queued
<1> QED
  BY <1>5, <1>6

\* A result is a result of a segment.
LEMMA QueueIsTyped ==
    ASSUME RunIInv
    PROVE  run.queue \in Seq(Results) /\ \A r \in Queued(run.queue) : r \in Results
BY DEF RunIInv, WorkerTyped, RunMemory, Queued

\* What the memory keeps when only the statement changes, or what the pipeline
\* returns, or the launch it belongs to.
SameWork ==
    /\ run'.stage = run.stage /\ run'.pending = run.pending /\ run'.inFlight = run.inFlight
    /\ run'.queue = run.queue /\ run'.mem = run.mem /\ run'.bad = run.bad
    /\ run'.answered = run.answered

LEMMA GoesKeepsWork ==
    ASSUME RunIInv, NEW pc,
           \/ run' = [run EXCEPT !.pc = pc]
           \/ \E ok : run' = [run EXCEPT !.pc = pc, !.ok = ok]
           \/ \E late : run' = [run EXCEPT !.pc = pc, !.late = late]
           \/ \E work : run' = [run EXCEPT !.pc = pc, !.work = work]
           \/ \E work : run' = [run EXCEPT !.pc = pc, !.owned = TRUE, !.work = work]
           \/ \E frozen : run' = [run EXCEPT !.pc = pc, !.frozen = frozen]
    PROVE  run'.pc = pc /\ SameWork
BY ZenonT(30) DEF RunIInv, WorkerTyped, RunMemory, SameWork

\* Going on to another statement keeps the invariant when it enters no part of
\* the run that the invariant says something of.
GoesOnward ==
    /\ run.queue # <<>> => run'.pc \in Draining
    /\ run.inFlight # {} => run'.pc \in Dispatching
    /\ run'.pc \in Dispatching \cup {"start"} => run.pc \in Dispatching \cup {"start"}
    /\ run'.pc \in Loaded => run.pc \in Loaded
    /\ run'.pc \in Launching => run.pc \in Launching
    /\ run'.pc \in Checked => run.pc \in Checked \/ (run.pc \in Draining /\ run.stage = "fallback")
    /\ run'.pc \in Draining /\ run.stage = "fallback" => MemoryMatters
    /\ run'.pc # "check_save"
    /\ run'.pc \in Published => run.pc \in Published
    /\ run'.pc = "complete" => \A s \in Segments : seg[s] \in Resolved
    /\ job' = "succeeded" =>
           /\ run'.pc \in Outside
           /\ \/ job = "succeeded"
              \/ run.pc = "complete"

LEMMA OnwardKeeps ==
    ASSUME AloneInv, SameWork, GoesOnward, UNCHANGED <<seg, human, blocks, book>>,
           owed'[Worker] \in {"nothing", "failed"}
    PROVE  AloneInv'
<1> USE DEF AloneInv, SameWork, GoesOnward
<1>1. Untouched'
  BY DEF Untouched
<1>2. SegmentsApart'
  BY DEF SegmentsApart
<1>3. WorkIsOpen'
  BY DEF WorkIsOpen
<1>4. AnswersAreKept'
  BY DEF AnswersAreKept
<1>5. MemoryIsCurrent'
  BY DEF MemoryIsCurrent, MemoryMatters
<1>6. BookIsCurrent'
  <2>1. run'.pc \in Published => \A s \in Segments : seg'[s] \in Resolved => book'[s] = blocks'[s]
    BY DEF BookIsCurrent
  <2>2. run'.pc = "complete" => \A s \in Segments : seg'[s] \in Resolved
    BY DEF BookIsCurrent
  <2>3. ASSUME job' = "succeeded"
        PROVE  \A s \in Segments : seg[s] \in Resolved /\ book[s] = blocks[s]
    BY <2>3 DEF BookIsCurrent, Published
  <2> QED
    BY <2>1, <2>2, <2>3 DEF BookIsCurrent
<1> QED
  BY <1>1, <1>2, <1>3, <1>4, <1>5, <1>6

\* The steps on the worker's memory that only go on to another statement.
LEMMA ThinkingOnward ==
    ASSUME RunIInv, AloneInv, WorkerThinks,
           JoinNone \/ Drain \/ GateError \/ StartCheck \/ Finish \/ Finished
    PROVE  AloneInv'
<1> USE DEF At
<1>0. UNCHANGED <<seg, human, blocks, book, job, owed>>
  BY DEF WorkerThinks, vars
<1>1. owed'[Worker] \in {"nothing", "failed"}
  BY <1>0 DEF AloneInv, Untouched
<1>2. /\ run.queue # <<>> => run.pc \in Draining
      /\ run.inFlight # {} => run.pc \in Dispatching
      /\ job = "succeeded" => run.pc \in Outside
  BY DEF AloneInv, SegmentsApart, BookIsCurrent
<1> USE DEF Launching, Dispatching, Draining, Loaded, Checked, Published, Outside
<1>3. CASE JoinNone
  <2>1. PICK pc \in {"drain", "dispatch"} : run' = [run EXCEPT !.pc = pc]
    BY <1>3 DEF JoinNone
  <2>2. run'.pc = pc /\ SameWork
    BY <2>1, GoesKeepsWork
  <2>3. GoesOnward
    BY <1>0, <1>2, <1>3, <2>2 DEF JoinNone, GoesOnward, MemoryMatters
  <2> QED
    BY <1>0, <1>1, <2>2, <2>3, OnwardKeeps
<1>4. CASE Drain
  <2>1. PICK pc \in {"leave", "load", "gate_check"} :
            run' = [run EXCEPT !.pc = pc] /\ (pc = "gate_check" => run.stage # "primary")
    BY <1>4 DEF Drain
  <2>2. run'.pc = pc /\ SameWork /\ run.stage \in {"primary", "fallback"}
    BY <2>1, GoesKeepsWork DEF RunIInv, WorkerTyped, RunMemory
  <2>3. GoesOnward
    BY <1>0, <1>2, <1>4, <2>1, <2>2 DEF Drain, GoesOnward
  <2> QED
    BY <1>0, <1>1, <2>2, <2>3, OnwardKeeps
<1>5. CASE GateError
  <2>1. run' = [run EXCEPT !.pc = "leave", !.ok = FALSE] /\ run.pc \in Gates
    BY <1>5 DEF GateError
  <2>2. run'.pc = "leave" /\ SameWork
    BY <2>1, GoesKeepsWork
  <2>3. GoesOnward
    BY <1>0, <1>2, <2>1, <2>2 DEF Gates, GoesOnward
  <2> QED
    BY <1>0, <1>1, <2>2, <2>3, OnwardKeeps
<1>6. CASE StartCheck
  <2>1. PICK pc \in {"checking", "rebuild"} :
            \/ run' = [run EXCEPT !.pc = pc]
            \/ \E frozen : run' = [run EXCEPT !.pc = pc, !.frozen = frozen]
    BY <1>6 DEF StartCheck
  <2>2. run'.pc = pc /\ SameWork
    BY <2>1, GoesKeepsWork
  <2>3. GoesOnward
    BY <1>0, <1>2, <1>6, <2>2 DEF StartCheck, GoesOnward
  <2> QED
    BY <1>0, <1>1, <2>2, <2>3, OnwardKeeps
<1>7. CASE Finish
  <2>1. PICK pc \in {"leave", "gate_finish", "complete", "review"} :
            /\ run' = [run EXCEPT !.pc = pc]
            /\ pc = "complete" => \A s \in Segments : seg[s] \in Resolved
    BY <1>7 DEF Finish
  <2>2. run'.pc = pc /\ SameWork
    BY <2>1, GoesKeepsWork
  <2>3. GoesOnward
    BY <1>0, <1>2, <1>7, <2>1, <2>2 DEF Finish, GoesOnward
  <2> QED
    BY <1>0, <1>1, <2>2, <2>3, OnwardKeeps
<1>8. CASE Finished
  <2>1. PICK pc \in {"leave", "gate_finish"} :
            run' = [run EXCEPT !.pc = pc] /\ (pc = "gate_finish" => job = "paused")
    BY <1>8 DEF Finished
  <2>2. run'.pc = pc /\ SameWork
    BY <2>1, GoesKeepsWork
  <2>3. GoesOnward
    BY <1>0, <1>2, <1>8, <2>1, <2>2 DEF Finished, GoesOnward
  <2> QED
    BY <1>0, <1>1, <2>2, <2>3, OnwardKeeps
<1> QED
  BY <1>3, <1>4, <1>5, <1>6, <1>7, <1>8

\* The steps on the control file and the signal only go on as well.
LEMMA ControllingOnward ==
    ASSUME RunIInv, AloneInv, WorkerControls
    PROVE  AloneInv'
<1> USE DEF At
<1>0. UNCHANGED <<seg, human, blocks, book, job, owed>>
  BY DEF WorkerControls, vars
<1>1. owed'[Worker] \in {"nothing", "failed"}
  BY <1>0 DEF AloneInv, Untouched
<1>2. /\ run.queue # <<>> => run.pc \in Draining
      /\ run.inFlight # {} => run.pc \in Dispatching
      /\ job = "succeeded" => run.pc \in Outside
  BY DEF AloneInv, SegmentsApart, BookIsCurrent
<1> USE DEF Launching, Dispatching, Draining, Loaded, Checked, Published, Outside
<1>3. CASE StartWatcher
  <2>1. \E work : run' = [run EXCEPT !.pc = "cache", !.work = work]
    BY <1>3 DEF StartWatcher
  <2>2. run'.pc = "cache" /\ SameWork
    BY <2>1, GoesKeepsWork
  <2>3. GoesOnward
    BY <1>0, <1>2, <1>3, <2>2 DEF StartWatcher, GoesOnward
  <2> QED
    BY <1>0, <1>1, <2>2, <2>3, OnwardKeeps
<1>4. CASE Dispatch
  <2>1. PICK pc \in {"spawn", "halt", "dispatch", "join"} :
            \E late : run' = [run EXCEPT !.pc = pc, !.late = late]
    <3>1. signal \in {"running", "paused", "stopped"}
      BY DEF RunIInv, WorkerTyped
    <3> QED
      BY <1>4, <3>1 DEF Dispatch
  <2>2. run'.pc = pc /\ SameWork
    BY <2>1, GoesKeepsWork
  <2>3. GoesOnward
    BY <1>0, <1>2, <1>4, <2>2 DEF Dispatch, PolledAt, GoesOnward, MemoryMatters
  <2> QED
    BY <1>0, <1>1, <2>2, <2>3, OnwardKeeps, SMTT(30)
<1>5. CASE Gate
  <2>0. signal \in {"running", "paused", "stopped"}
    BY DEF RunIInv, WorkerTyped
  <2>1. /\ run.pc \in Gates
        /\ \E pc \in {Behind(run.pc), "leave", run.pc} : run' = [run EXCEPT !.pc = pc]
    BY <1>5, <2>0 DEF Gate
  <2>2. run'.pc \in {Behind(run.pc), "leave", run.pc} /\ SameWork
    BY <2>1, GoesKeepsWork
  <2>3. /\ run.pc = "gate_fallback" => Behind(run.pc) = "fallback"
        /\ run.pc = "gate_check"    => Behind(run.pc) = "check"
        /\ run.pc = "gate_rebuild"  => Behind(run.pc) = "rebuild"
        /\ run.pc = "gate_finish"   => Behind(run.pc) = "finish"
    BY DEF Behind
  <2>4. GoesOnward
    BY <1>0, <1>2, <2>1, <2>2, <2>3 DEF Gates, GoesOnward
  <2> QED
    BY <1>0, <1>1, <2>2, <2>4, OnwardKeeps
<1>6. CASE Leave
  <2>1. run' = [run EXCEPT !.pc = "settle"]
    BY <1>6 DEF Leave
  <2>2. run'.pc = "settle" /\ SameWork
    BY <2>1, GoesKeepsWork
  <2>3. GoesOnward
    BY <1>0, <1>2, <1>6, <2>2 DEF Leave, GoesOnward
  <2> QED
    BY <1>0, <1>1, <2>2, <2>3, OnwardKeeps
<1> QED
  BY <1>3, <1>4, <1>5, <1>6 DEF WorkerControls

\* A step that leaves the worker's memory and the segments alone and does not
\* claim success.
LEMMA ElsewhereKeeps ==
    ASSUME AloneInv, UNCHANGED <<run, seg, human, blocks, book>>,
           owed'[Worker] \in {"nothing", "failed"},
           job' = "succeeded" => job = "succeeded"
    PROVE  AloneInv'
<1> USE DEF AloneInv
<1>1. Untouched'
  BY DEF Untouched
<1>2. SegmentsApart' /\ WorkIsOpen' /\ AnswersAreKept'
  BY DEF SegmentsApart, WorkIsOpen, AnswersAreKept
<1>3. MemoryIsCurrent'
  BY DEF MemoryIsCurrent, MemoryMatters
<1>4. BookIsCurrent'
  BY DEF BookIsCurrent
<1> QED
  BY <1>1, <1>2, <1>3, <1>4

\* The marks of the job row that the worker makes leave the segments alone.
LEMMA StoringOnward ==
    ASSUME RunIInv, AloneInv, WorkerStores,
           \/ Start \/ ErrorTouch \/ ErrorMark \/ Validate \/ FinishMark
           \/ Settle \/ SettleError
    PROVE  AloneInv'
<1> USE DEF At
<1>0. UNCHANGED book
  BY DEF WorkerStores
<1>1. owed[Worker] \in {"nothing", "failed"}
  BY DEF AloneInv, Untouched
<1>2. /\ run.queue # <<>> => run.pc \in Draining
      /\ run.inFlight # {} => run.pc \in Dispatching
      /\ job = "succeeded" => run.pc \in Outside
      /\ run.pc \in Launching => run.stage = "primary"
  BY DEF AloneInv, SegmentsApart, BookIsCurrent, AnswersAreKept
<1>3. \A status : MarkJob(status) => /\ UNCHANGED <<seg, human, blocks, owed>>
                                     /\ job' \in {job, status}
  BY DEF MarkJob, TouchUnless, KeepOutput
<1>4. UNCHANGED vars => UNCHANGED <<seg, human, blocks, owed, job>>
  BY DEF vars
<1> USE DEF Launching, Dispatching, Draining, Loaded, Checked, Published, Outside
<1>5. CASE Start
  <2>1. PICK pc \in {"drain", "dispatch"} : run' = [run EXCEPT !.pc = pc]
    BY <1>5 DEF Start
  <2>2. run'.pc = pc /\ SameWork
    BY <2>1, GoesKeepsWork
  <2>3. UNCHANGED <<seg, human, blocks, owed>> /\ job' \in {job, "running"}
    BY <1>3, <1>5 DEF Start
  <2>4. GoesOnward
    <3>1. run.pc = "start" /\ run.stage = "primary" /\ run.queue = <<>> /\ run.inFlight = {}
      BY <1>2, <1>5 DEF Start
    <3>2. job' # "succeeded"
      <4>1. \A status : MarkJob(status) /\ job # "stopped" => job' = status
        BY DEF MarkJob, TouchUnless
      <4> QED
        BY <1>5, <2>3, <4>1 DEF Start
    <3> QED
      BY <2>2, <3>1, <3>2 DEF GoesOnward
  <2> QED
    BY <1>0, <1>1, <2>2, <2>3, <2>4, OnwardKeeps
<1>6. CASE ErrorTouch
  <2>1. run' = [run EXCEPT !.pc = "error_mark"] /\ run.pc = "error_touch"
    BY <1>6 DEF ErrorTouch
  <2>2. run'.pc = "error_mark" /\ SameWork
    BY <2>1, GoesKeepsWork
  <2>3. /\ UNCHANGED <<seg, human, blocks>> /\ job' \in {job, "failed"}
        /\ owed'[Worker] \in {"nothing", "failed"}
    <3>1. CASE owed[Worker] = "nothing"
      BY <1>4, <1>6, <3>1 DEF ErrorTouch
    <3>2. CASE owed[Worker] = "failed"
      <4>1. PayDebt(Worker)
        BY <1>6, <3>2 DEF ErrorTouch
      <4>2. owed'[Worker] \in {"nothing", "failed"}
        <5>1. Worker \in Clients /\ owed \in [Clients -> Debts]
          BY RunAssumption DEF RunIInv, IInv, TypeOK
        <5> QED
          BY <4>1, <5>1 DEF PayDebt
      <4> QED
        BY <3>2, <4>1, <4>2 DEF PayDebt, TouchUnless, KeepOutput, Verdict
    <3> QED
      BY <1>1, <3>1, <3>2
  <2>4. GoesOnward
    BY <1>2, <2>1, <2>2, <2>3 DEF GoesOnward, MemoryMatters
  <2> QED
    BY <1>0, <2>2, <2>3, <2>4, OnwardKeeps
<1>7. CASE ErrorMark
  <2>1. run' = [run EXCEPT !.pc = "drain"] /\ run.pc = "error_mark"
    BY <1>7 DEF ErrorMark
  <2>2. run'.pc = "drain" /\ SameWork
    BY <2>1, GoesKeepsWork
  <2>3. UNCHANGED <<seg, human, blocks, owed>> /\ job' \in {job, "failed"}
    BY <1>3, <1>7 DEF ErrorMark
  <2>4. GoesOnward
    BY <1>2, <2>1, <2>2, <2>3 DEF GoesOnward, MemoryMatters
  <2> QED
    BY <1>0, <1>1, <2>2, <2>3, <2>4, OnwardKeeps
<1>8. CASE Validate
  <2>1. /\ run.pc = "validate"
        /\ UNCHANGED <<seg, human, blocks, owed>> /\ job' \in {job, "failed"}
    BY <1>3, <1>4, <1>8 DEF Validate
  <2>2. PICK pc \in {"gate_finish", "leave"} :
            \/ run' = [run EXCEPT !.pc = pc]
            \/ \E ok : run' = [run EXCEPT !.pc = pc, !.ok = ok]
    BY <1>8 DEF Validate
  <2>3. run'.pc = pc /\ SameWork
    BY <2>2, GoesKeepsWork
  <2>4. GoesOnward
    BY <1>2, <2>1, <2>3 DEF GoesOnward
  <2> QED
    BY <1>0, <1>1, <2>1, <2>3, <2>4, OnwardKeeps
<1>9. CASE FinishMark
  <2>1. run' = [run EXCEPT !.pc = "finished"]
    BY <1>9 DEF FinishMark
  <2>2. run'.pc = "finished" /\ SameWork
    BY <2>1, GoesKeepsWork
  <2>3. /\ UNCHANGED <<seg, human, blocks, owed>>
        /\ \/ run.pc = "complete"
           \/ run.pc = "review" /\ job' \in {job, "needs_review"}
    BY <1>3, <1>9 DEF FinishMark
  <2>4. GoesOnward
    BY <1>2, <2>2, <2>3 DEF GoesOnward
  <2> QED
    BY <1>0, <1>1, <2>2, <2>3, <2>4, OnwardKeeps
<1>10. CASE Settle
  <2>1. run' = [run EXCEPT !.pc = "settle_error"] /\ run.pc = "settle"
    BY <1>10 DEF Settle
  <2>2. run'.pc = "settle_error" /\ SameWork
    BY <2>1, GoesKeepsWork
  <2>3. UNCHANGED <<seg, human, blocks, owed>> /\ job' \in {job, "interrupted"}
    BY <1>3, <1>4, <1>10 DEF Settle
  <2>4. GoesOnward
    BY <1>2, <2>1, <2>2, <2>3 DEF GoesOnward
  <2> QED
    BY <1>0, <1>1, <2>2, <2>3, <2>4, OnwardKeeps
<1>11. CASE SettleError
  <2>1. run' = [run EXCEPT !.pc = "settle_interrupt"] /\ run.pc = "settle_error"
    BY <1>11 DEF SettleError
  <2>2. run'.pc = "settle_interrupt" /\ SameWork
    BY <2>1, GoesKeepsWork
  <2>3. UNCHANGED <<seg, human, blocks, owed>> /\ job' \in {job, "failed"}
    BY <1>3, <1>4, <1>11 DEF SettleError
  <2>4. GoesOnward
    BY <1>2, <2>1, <2>2, <2>3 DEF GoesOnward
  <2> QED
    BY <1>0, <1>1, <2>2, <2>3, <2>4, OnwardKeeps
<1> QED
  BY <1>5, <1>6, <1>7, <1>8, <1>9, <1>10, <1>11

\* Taking over the job row.
LEMMA OwningOnward ==
    ASSUME RunIInv, AloneInv, Own, UNCHANGED book
    PROVE  AloneInv'
<1> USE DEF At
<1>1. owed[Worker] \in {"nothing", "failed"}
  BY DEF AloneInv, Untouched
<1>2. run.queue = <<>> /\ run.inFlight = {} /\ run.pc = "own"
  BY DEF AloneInv, SegmentsApart, Own, Draining, Dispatching
<1>3. UNCHANGED <<seg, human, blocks, owed>> /\ job' \in {job, "running"}
  BY DEF Own, MarkJobRunningForResume, KeepOutput, vars
<1>4. \E work : run' = [run EXCEPT !.pc = "revalidate", !.owned = TRUE, !.work = work]
  BY DEF Own
<1>5. run'.pc = "revalidate" /\ SameWork
  BY <1>4, GoesKeepsWork
<1>6. GoesOnward
  BY <1>2, <1>3, <1>5
     DEF GoesOnward, Launching, Dispatching, Draining, Loaded, Checked, Published, Outside
<1> QED
  BY <1>1, <1>3, <1>5, <1>6, OnwardKeeps

\* A poll, a command of a user and Ctrl+C leave the worker's memory alone.
LEMMA SignalsKeepApart ==
    ASSUME AloneInv, UNCHANGED <<run, book>>,
           \/ \E p, hasToken : Poll(p, hasToken)
           \/ \E p : RecordPoll(p)
           \/ \E c : Command(c)
           \/ Interrupt
    PROVE  AloneInv'
<1>1. /\ UNCHANGED <<seg, human, blocks, owed>>
      /\ job' \in {job, "paused", "running", "stopped"}
  <2>1. ASSUME NEW p, RecordPoll(p)
        PROVE  /\ UNCHANGED <<seg, human, blocks, owed>>
               /\ job' \in {job, "paused", "running", "stopped"}
    BY <2>1 DEF RecordPoll, MarkJob, MarkJobStopped, TouchUnless, KeepOutput
  <2>2. \/ UNCHANGED vars
        \/ \E p : RecordPoll(p)
    BY DEF Poll, Command, Interrupt
  <2> QED
    BY <2>1, <2>2 DEF vars
<1>2. owed[Worker] \in {"nothing", "failed"}
  BY DEF AloneInv, Untouched
<1> QED
  BY <1>1, <1>2, ElsewhereKeeps

\* Outside a dispatch nothing is in flight or on its way, and every answer is
\* in the store.
LEMMA IdleOutsideDispatch ==
    ASSUME AloneInv, run.pc \notin Draining
    PROVE  /\ run.queue = <<>> /\ run.inFlight = {}
           /\ \A s \in run.answered : seg[s] \in Resolved
BY DEF AloneInv, SegmentsApart, AnswersAreKept, Draining, Queued

\* A step that leaves the rows alone while nothing is in flight or on its way
\* keeps the invariant if what it puts in memory and in the book is current.
LEMMA IdleKeeps ==
    ASSUME AloneInv, UNCHANGED <<seg, human, blocks, job>>,
           owed'[Worker] \in {"nothing", "failed"},
           run.queue = <<>>, run'.queue = <<>>, run'.inFlight = {},
           run'.answered = run.answered,
           run'.pc \in Launching => run.pc \in Launching /\ run'.stage = run.stage,
           run'.pc \in Dispatching \cup {"start"} =>
               \A s \in run'.pending : seg[s] \notin Resolved,
           run'.pc \in Loaded => \A s \in run'.bad : seg[s] \notin Resolved,
           MemoryMatters' => \A s \in Segments : seg[s] \in Resolved => run'.mem[s] = blocks[s],
           run'.pc = "check_save" =>
               /\ \A call \in run'.work : run'.mem[call[1]] = call[2]
               /\ \A s \in Segments : seg[s] \in Resolved =>
                      run'.mem[s] = blocks[s] \/ <<s, run'.mem[s]>> \in run'.work,
           run'.pc \in Published =>
               \A s \in Segments : seg[s] \in Resolved => book'[s] = blocks[s],
           run'.pc # "complete",
           job = "succeeded" => run'.pc \in Outside /\ UNCHANGED book
    PROVE  AloneInv'
<1> USE DEF AloneInv
<1>0. Queued(run.queue) = {} /\ Queued(run'.queue) = {}
  BY DEF Queued
<1>1. Untouched'
  BY DEF Untouched
<1>2. SegmentsApart'
  BY <1>0 DEF SegmentsApart, Apart
<1>3. WorkIsOpen'
  BY <1>0 DEF WorkIsOpen
<1>4. AnswersAreKept'
  BY <1>0 DEF AnswersAreKept
<1>5. MemoryIsCurrent'
  BY <1>0 DEF MemoryIsCurrent
<1>6. BookIsCurrent'
  BY DEF BookIsCurrent
<1> QED
  BY <1>1, <1>2, <1>3, <1>4, <1>5, <1>6

\* The reads of the launch and of the finalize stages: what is read is what is
\* in the store.
LEMMA ReadingKeeps ==
    ASSUME RunIInv, AloneInv, WorkerThinks,
           Preflight \/ Reread \/ Load \/ StartFallback
    PROVE  AloneInv'
<1> USE DEF At
<1>0. UNCHANGED <<seg, human, blocks, book, job, owed>>
  BY DEF WorkerThinks, vars
<1>1. owed'[Worker] \in {"nothing", "failed"}
  BY <1>0 DEF AloneInv, Untouched
<1>2. run.pc \notin Draining
  BY DEF Preflight, Reread, Load, StartFallback, Draining, Dispatching
<1>3. run.queue = <<>> /\ run.inFlight = {}
  BY <1>2, IdleOutsideDispatch
<1>4. job = "succeeded" => run.pc \in Outside
  BY DEF AloneInv, BookIsCurrent
<1>5. \A s \in ToResume : seg[s] \notin Resolved
  BY DEF ToResume, Resumable, Resolved
<1> USE DEF Launching, Dispatching, Draining, Loaded, Checked, Published, Outside
<1>6. CASE Preflight
  <2>1. CASE run' = [run EXCEPT !.pc = "own", !.pending = ToResume]
    <3>1. /\ run'.pc = "own" /\ run'.queue = run.queue /\ run'.inFlight = run.inFlight
          /\ run'.answered = run.answered /\ run'.stage = run.stage
      BY <2>1 DEF RunIInv, WorkerTyped, RunMemory
    <3>2. ~MemoryMatters'
      BY <3>1 DEF MemoryMatters
    <3>3. run.pc = "preflight"
      BY <1>6 DEF Preflight
    <3> QED
      BY <1>0, <1>1, <1>3, <3>1, <3>2, <3>3, IdleKeeps
  <2>2. CASE run' = [run EXCEPT !.pc = "leave", !.ok = FALSE]
    <3>1. run'.pc = "leave" /\ SameWork
      BY <2>2, GoesKeepsWork
    <3>2. GoesOnward
      BY <1>0, <1>3, <1>4, <3>1 DEF GoesOnward
    <3> QED
      BY <1>0, <1>1, <3>1, <3>2, OnwardKeeps
  <2> QED
    BY <1>6, <2>1, <2>2 DEF Preflight
<1>7. CASE Reread
  <2>1. /\ run'.pc = "start" /\ run'.queue = run.queue /\ run'.inFlight = run.inFlight
        /\ run'.answered = run.answered /\ run'.stage = run.stage
        /\ run'.pending = ToResume
    BY <1>7 DEF Reread, RunIInv, WorkerTyped, RunMemory
  <2>2. run.pc = "cache" /\ run.stage = "primary"
    BY <1>7 DEF Reread, AloneInv, AnswersAreKept
  <2>3. ~MemoryMatters'
    BY <2>1, <2>2 DEF MemoryMatters
  <2> QED
    BY <1>0, <1>1, <1>3, <1>5, <2>1, <2>2, <2>3, IdleKeeps
<1>8. CASE Load
  <2> DEFINE bad == {s \in Segments : seg[s] \in {"failed", "needs_review"}}
  <2>1. run' = [run EXCEPT !.pc = "gate_fallback", !.mem = blocks, !.bad = bad]
        /\ run.pc = "load"
    BY <1>8 DEF Load
  <2>2. \A s \in bad : seg[s] \notin Resolved
    BY DEF Resolved
  <2> HIDE DEF bad
  <2>3. /\ run'.pc = "gate_fallback" /\ run'.queue = run.queue /\ run'.inFlight = run.inFlight
        /\ run'.answered = run.answered /\ run'.mem = blocks /\ run'.bad = bad
    BY <2>1 DEF RunIInv, WorkerTyped, RunMemory
  <2>4. job # "succeeded"
    BY <1>4, <2>1
  <2> QED
    BY <1>0, <1>1, <1>3, <2>2, <2>3, <2>4, IdleKeeps
<1>9. CASE StartFallback
  <2>0. run.pc = "fallback" /\ job # "succeeded"
    BY <1>4, <1>9 DEF StartFallback
  <2>1. /\ \A s \in Segments : seg[s] \in Resolved => run.mem[s] = blocks[s]
        /\ \A s \in run.bad : seg[s] \notin Resolved
    BY <2>0 DEF AloneInv, MemoryIsCurrent, MemoryMatters, WorkIsOpen
  <2>2. CASE run' = [run EXCEPT !.pc = "gate_check"]
    <3>1. run'.pc = "gate_check" /\ SameWork
      BY <2>2, GoesKeepsWork
    <3>2. GoesOnward
      BY <1>0, <1>3, <2>0, <3>1 DEF GoesOnward
    <3> QED
      BY <1>0, <1>1, <3>1, <3>2, OnwardKeeps
  <2>3. ASSUME NEW candidates, \A s \in candidates : seg[s] \notin Resolved,
               run' = [run EXCEPT !.pc = "dispatch", !.stage = "fallback",
                                  !.assigned = candidates, !.pending = candidates]
        PROVE  AloneInv'
    <3>1. /\ run'.pc = "dispatch" /\ run'.queue = run.queue /\ run'.inFlight = run.inFlight
          /\ run'.answered = run.answered /\ run'.mem = run.mem /\ run'.pending = candidates
      BY <2>3 DEF RunIInv, WorkerTyped, RunMemory
    <3> QED
      BY <1>0, <1>1, <1>3, <2>0, <2>1, <2>3, <3>1, IdleKeeps
  <2> DEFINE known == {s \in Segments : run.mem[s] # NoText} \cup run.bad
             found == run.bad \cup {s \in Segments \ known : seg[s] \in {"failed", "needs_review"}}
  <2>4. \A s \in found : seg[s] \notin Resolved
    BY <2>1 DEF Resolved
  <2>5. \/ run' = [run EXCEPT !.pc = "gate_check"]
        \/ run' = [run EXCEPT !.pc = "dispatch", !.stage = "fallback",
                              !.assigned = found, !.pending = found]
    BY <1>9 DEF StartFallback
  <2> HIDE DEF found
  <2> QED
    BY <2>2, <2>3, <2>4, <2>5
<1> QED
  BY <1>6, <1>7, <1>8, <1>9

\* The double check changes the memory and notes what it has to save.
LEMMA CheckingKeeps ==
    ASSUME RunIInv, AloneInv, WorkerThinks, CheckAnswered
    PROVE  AloneInv'
<1>0. UNCHANGED <<seg, human, blocks, book, job, owed>>
  BY DEF WorkerThinks, vars
<1>1. owed'[Worker] \in {"nothing", "failed"}
  BY <1>0 DEF AloneInv, Untouched
<1>2. run.pc = "checking"
  BY DEF CheckAnswered, At
<1>3. run.queue = <<>> /\ run.inFlight = {} /\ job # "succeeded"
  BY <1>2, IdleOutsideDispatch DEF Draining, Dispatching, AloneInv, BookIsCurrent, Outside
<1>4. \A s \in Segments : seg[s] \in Resolved => run.mem[s] = blocks[s]
  BY <1>2 DEF AloneInv, MemoryIsCurrent, MemoryMatters, Checked
<1> USE DEF Launching, Dispatching, Draining, Loaded, Checked, Published, Outside
<1>5. CASE run' = [run EXCEPT !.pc = "leave", !.ok = signal = "stopped"]
  <2>1. run'.pc = "leave" /\ SameWork
    BY <1>5, GoesKeepsWork
  <2>2. GoesOnward
    BY <1>0, <1>3, <2>1 DEF GoesOnward
  <2> QED
    BY <1>0, <1>1, <2>1, <2>2, OnwardKeeps
<1>6. ASSUME NEW changed \in SUBSET {s \in Segments \ (run.bad \cup run.frozen) :
                                        run.mem[s] # NoText},
             NEW t \in ModelTexts \ SourceCopies,
             run' = [run EXCEPT !.pc = "check_save",
                 !.mem = [s \in Segments |-> IF s \in changed THEN t ELSE @[s]],
                 !.work = {<<s, t>> : s \in {x \in changed : run.mem[x] # t}}]
      PROVE  AloneInv'
  <2> DEFINE mem  == [s \in Segments |-> IF s \in changed THEN t ELSE run.mem[s]]
             work == {<<s, t>> : s \in {x \in changed : run.mem[x] # t}}
  <2>1. run' = [run EXCEPT !.pc = "check_save", !.mem = mem, !.work = work]
    BY <1>6 DEF RunIInv, WorkerTyped, RunMemory
  <2>2. \A call \in work : mem[call[1]] = call[2]
    OBVIOUS
  <2>3. ASSUME NEW s \in Segments, seg[s] \in Resolved
        PROVE  mem[s] = blocks[s] \/ <<s, mem[s]>> \in work
    <3>1. CASE s \in changed /\ run.mem[s] # t
      BY <3>1
    <3>2. CASE ~(s \in changed /\ run.mem[s] # t)
      BY <1>4, <2>3, <3>2
    <3> QED
      BY <3>1, <3>2
  <2> HIDE DEF mem, work
  <2>4. /\ run'.pc = "check_save" /\ run'.mem = mem /\ run'.work = work
        /\ run'.queue = run.queue /\ run'.inFlight = run.inFlight
        /\ run'.answered = run.answered
    BY <2>1 DEF RunIInv, WorkerTyped, RunMemory
  <2>5. ~MemoryMatters'
    BY <2>4 DEF MemoryMatters
  <2> QED
    BY <1>0, <1>1, <1>3, <2>2, <2>3, <2>4, <2>5, IdleKeeps
<1> QED
  BY <1>5, <1>6 DEF CheckAnswered

\* What is in memory when the double check is done, and what goes in the book.
LEMMA PublishingKeeps ==
    ASSUME RunIInv, AloneInv, WorkerPublishes
    PROVE  AloneInv'
<1> USE DEF At
<1>1. owed[Worker] \in {"nothing", "failed"}
  BY DEF AloneInv, Untouched
<1>2. CASE CheckDone /\ UNCHANGED <<vars, controlVars, book>>
  <2>1. UNCHANGED <<seg, human, blocks, book, job, owed>>
    BY <1>2 DEF vars
  <2>2. run.pc = "check_save" /\ run.work = {}
    BY <1>2 DEF CheckDone
  <2>3. run.queue = <<>> /\ run.inFlight = {} /\ job # "succeeded"
    BY <2>2, IdleOutsideDispatch DEF Draining, Dispatching, AloneInv, BookIsCurrent, Outside
  <2>4. \A s \in Segments : seg[s] \in Resolved => run.mem[s] = blocks[s]
    BY <2>2 DEF AloneInv, MemoryIsCurrent
  <2> DEFINE mem == [s \in Segments |-> IF run.mem[s] = NoText THEN blocks[s] ELSE run.mem[s]]
  <2>5. \A s \in Segments : seg[s] \in Resolved => mem[s] = blocks[s]
    BY <2>4
  <2>6. run' = [run EXCEPT !.pc = "gate_rebuild", !.mem = mem]
    BY <1>2 DEF CheckDone, RunIInv, WorkerTyped, RunMemory
  <2> HIDE DEF mem
  <2>7. /\ run'.pc = "gate_rebuild" /\ run'.mem = mem /\ run'.queue = run.queue
        /\ run'.inFlight = run.inFlight /\ run'.answered = run.answered
    BY <2>6 DEF RunIInv, WorkerTyped, RunMemory
  <2> QED
    BY <1>1, <2>1, <2>3, <2>5, <2>7, IdleKeeps
       DEF Launching, Dispatching, Loaded, Published
<1>3. CASE Rebuild /\ UNCHANGED <<vars, controlVars, checked>>
  <2>1. UNCHANGED <<seg, human, blocks, job, owed>>
    BY <1>3 DEF vars
  <2>2. run.pc = "rebuild" /\ run' = [run EXCEPT !.pc = "validate"] /\ book' = run.mem
    BY <1>3 DEF Rebuild
  <2>3. run.queue = <<>> /\ run.inFlight = {} /\ job # "succeeded"
    BY <2>2, IdleOutsideDispatch DEF Draining, Dispatching, AloneInv, BookIsCurrent, Outside
  <2>4. \A s \in Segments : seg[s] \in Resolved => run.mem[s] = blocks[s]
    BY <2>2 DEF AloneInv, MemoryIsCurrent, MemoryMatters, Checked
  <2>5. run'.pc = "validate" /\ SameWork
    BY <2>2, GoesKeepsWork
  <2>6. ~MemoryMatters'
    BY <2>5 DEF MemoryMatters, Checked, Loaded, Draining, Dispatching
  <2> QED
    BY <1>1, <2>1, <2>2, <2>3, <2>4, <2>5, <2>6, IdleKeeps
       DEF SameWork, Launching, Dispatching, Loaded
<1>4. CASE Own /\ UNCHANGED <<book, checked>>
  BY <1>4, OwningOnward
<1> QED
  BY <1>2, <1>3, <1>4 DEF WorkerPublishes

\* A segment goes from the pending ones to those in flight, from these to the
\* queue, and a result that is dropped takes its answer with it.
LEMMA DispatchingKeeps ==
    ASSUME RunIInv, AloneInv, WorkerThinks, Spawn \/ Join \/ DropResult
    PROVE  AloneInv'
<1> USE DEF At
<1>0. UNCHANGED <<seg, human, blocks, book, job, owed>>
  BY DEF WorkerThinks, vars
<1>1. Untouched'
  BY <1>0 DEF AloneInv, Untouched
<1>2. run \in RunMemory
  BY DEF RunIInv, WorkerTyped
<1>3. CASE Spawn
  <2>0. run.pc = "spawn"
    BY <1>3 DEF Spawn
  <2>1. CASE run' = [run EXCEPT !.pc = "join"]
    <3>1. run'.pc = "join" /\ SameWork
      BY <2>1, GoesKeepsWork
    <3>2. run.queue = <<>> \/ run.queue # <<>>
      OBVIOUS
    <3>3. GoesOnward
      BY <1>0, <2>0, <3>1
         DEF GoesOnward, MemoryMatters, Launching, Dispatching, Draining, Loaded, Checked,
             Published, Outside, AloneInv, BookIsCurrent
    <3>4. owed'[Worker] \in {"nothing", "failed"}
      BY <1>1 DEF Untouched
    <3> QED
      BY <1>0, <3>1, <3>3, <3>4, OnwardKeeps
  <2>2. CASE run' = [run EXCEPT
                !.pc = Backlog(run.pending \ {NextSegment}),
                !.pending = @ \ {NextSegment},
                !.inFlight = @ \cup {NextSegment},
                !.late = IF signal = "paused" THEN @ + 1 ELSE @]
    <3>1. NextSegment \in run.pending
      BY <2>0, NextSegmentIsPending DEF RunIInv, WorkerTyped, RunMemory
    <3>2. /\ run'.pc \in {"join", "dispatch"}
          /\ run'.pending = run.pending \ {NextSegment}
          /\ run'.inFlight = run.inFlight \cup {NextSegment}
          /\ run'.queue = run.queue /\ run'.mem = run.mem
          /\ run'.stage = run.stage /\ run'.answered = run.answered
      BY <1>2, <2>2 DEF RunMemory, Backlog
    <3> HIDE DEF At
    <3>3. SegmentsApart'
      <4>1. \A r \in Queued(run.queue) : r.segment \notin run'.pending \cup run'.inFlight
        BY <3>1, <3>2 DEF AloneInv, SegmentsApart
      <4> QED
        BY <2>0, <3>2, <4>1 DEF AloneInv, SegmentsApart, Draining, Dispatching
    <3>4. WorkIsOpen'
      BY <1>0, <2>0, <3>1, <3>2 DEF AloneInv, WorkIsOpen, Dispatching, Loaded
    <3>5. AnswersAreKept'
      BY <1>0, <2>0, <3>2 DEF AloneInv, AnswersAreKept, Launching
    <3>6. MemoryIsCurrent'
      <4>1. MemoryMatters' => MemoryMatters
        BY <2>0, <3>2 DEF MemoryMatters, Checked, Loaded, Draining, Dispatching
      <4> QED
        BY <1>0, <3>2, <4>1 DEF AloneInv, MemoryIsCurrent
    <3>7. BookIsCurrent'
      BY <1>0, <2>0, <3>2 DEF AloneInv, BookIsCurrent, Published, Outside
    <3> QED
      BY <1>1, <3>3, <3>4, <3>5, <3>6, <3>7 DEF AloneInv
  <2> QED
    BY <1>3, <2>1, <2>2 DEF Spawn
<1>4. CASE Join
  <2>1. PICK s \in run.inFlight, e \in Endings, t \in ModelTexts \ SourceCopies :
          run' = [run EXCEPT
              !.pc = IF @ = "halt" THEN @ ELSE Backlog(run.pending),
              !.inFlight = @ \ {s},
              !.queue = Append(@, [segment |-> s, outcome |-> e, text |-> t]),
              !.mem = IF run.stage = "fallback" /\ e # "failed" THEN [@ EXCEPT ![s] = t]
                      ELSE @,
              !.bad = IF run.stage = "primary" THEN @
                      ELSE IF e \in {"failed", "needs_review"} THEN @ \cup {s} ELSE @ \ {s},
              !.answered = IF e = "succeeded" THEN @ \cup {s} ELSE @]
    BY <1>4 DEF Join
  <2> DEFINE r == [segment |-> s, outcome |-> e, text |-> t]
             mem == IF run.stage = "fallback" /\ e # "failed" THEN [run.mem EXCEPT ![s] = t]
                    ELSE run.mem
  <2>2. s \in Segments /\ run.mem \in Books /\ run.queue \in Seq(Results)
    BY <1>2 DEF RunMemory
  <2>3. r \in Results
    BY <2>2, RunAssumption, Zenon DEF Results, Endings, SegStatus
  <2>4. r.segment = s /\ r.outcome = e /\ r.text = t
    OBVIOUS
  <2>5. /\ run'.pc = (IF run.pc = "halt" THEN run.pc ELSE Backlog(run.pending))
        /\ run'.inFlight = run.inFlight \ {s} /\ run'.queue = Append(run.queue, r)
        /\ run'.mem = mem /\ run'.pending = run.pending /\ run'.stage = run.stage
        /\ run'.answered = IF e = "succeeded" THEN run.answered \cup {s} ELSE run.answered
    BY <1>2, <2>1 DEF RunMemory
  <2>6. \A x \in Segments : x # s => mem[x] = run.mem[x]
    BY <2>2 DEF Books
  <2>7. e = "succeeded" /\ run.stage = "fallback" => mem[s] = t
    BY <2>2, SMTT(30) DEF Books
  <2> HIDE DEF r, mem
  <2>8. run.pc \in {"join", "halt"} /\ run'.pc \in {"halt", "join", "dispatch"}
    BY <1>4, <2>5 DEF Join, Backlog
  <2>9. /\ \A x \in Queued(run.queue) : x.segment # s
        /\ seg[s] \notin Resolved
    BY DEF AloneInv, SegmentsApart, WorkIsOpen
  <2>10. /\ Apart(run'.queue) /\ Queued(run'.queue) = Queued(run.queue) \cup {r}
    BY <2>2, <2>3, <2>4, <2>5, <2>9, EndOfQueue DEF AloneInv, SegmentsApart
  <2>11. SegmentsApart'
    <3>1. s \notin run.pending
      BY DEF AloneInv, SegmentsApart
    <3>2. \A x \in Queued(run'.queue) : x.segment \notin run'.pending \cup run'.inFlight
      BY <2>4, <2>5, <2>10, <3>1 DEF AloneInv, SegmentsApart
    <3>3. run'.pending \cap run'.inFlight = {}
      BY <2>5 DEF AloneInv, SegmentsApart
    <3> QED
      BY <2>8, <2>10, <3>2, <3>3 DEF SegmentsApart, Draining, Dispatching
  <2>12. WorkIsOpen'
    <3>1. \A x \in Queued(run'.queue) : seg[x.segment] \notin Resolved
      BY <2>4, <2>9, <2>10 DEF AloneInv, WorkIsOpen
    <3> QED
      BY <1>0, <2>5, <2>8, <3>1 DEF AloneInv, WorkIsOpen, Dispatching, Loaded
  <2>13. AnswersAreKept'
    <3>1. ASSUME NEW x \in run'.answered
          PROVE  \/ seg[x] \in Resolved
                 \/ \E y \in Queued(run'.queue) : y.segment = x /\ y.outcome = "succeeded"
      <4>1. CASE x \in run.answered
        BY <2>10, <4>1 DEF AloneInv, AnswersAreKept
      <4>2. CASE x = s /\ e = "succeeded"
        BY <2>4, <2>10, <4>2
      <4> QED
        BY <2>5, <3>1, <4>1, <4>2
    <3> QED
      BY <1>0, <2>8, <3>1 DEF AnswersAreKept, Launching
  <2>14. MemoryIsCurrent'
    <3>1. MemoryMatters' => MemoryMatters
      BY <2>5, <2>8 DEF MemoryMatters, Checked, Loaded, Draining, Dispatching
    <3>2. ASSUME MemoryMatters', NEW x \in Segments, seg[x] \in Resolved
          PROVE  run'.mem[x] = blocks[x]
      BY <2>5, <2>6, <2>9, <3>1, <3>2 DEF AloneInv, MemoryIsCurrent
    <3>3. ASSUME run'.stage = "fallback", NEW x \in Queued(run'.queue), x.outcome = "succeeded"
          PROVE  run'.mem[x.segment] = x.text
      <4>1. CASE x \in Queued(run.queue)
        <5>1. x.segment \in Segments /\ x.segment # s
          BY <2>9, <4>1, QueueIsTyped DEF Results
        <5>2. run.mem[x.segment] = x.text
          BY <2>5, <3>3, <4>1 DEF AloneInv, MemoryIsCurrent
        <5> QED
          BY <2>5, <2>6, <5>1, <5>2
      <4>2. CASE x = r
        BY <2>4, <2>5, <2>7, <3>3, <4>2
      <4> QED
        BY <2>10, <3>3, <4>1, <4>2
    <3> QED
      BY <1>0, <2>8, <3>2, <3>3 DEF MemoryIsCurrent
  <2>15. BookIsCurrent'
    BY <1>0, <2>8 DEF AloneInv, BookIsCurrent, Published, Outside
  <2> QED
    BY <1>1, <2>11, <2>12, <2>13, <2>14, <2>15 DEF AloneInv
<1>5. CASE DropResult
  <2> DEFINE r == Head(run.queue)
  <2>1. run.queue \in Seq(Results) /\ run.queue # <<>> /\ Apart(run.queue)
    BY <1>2, <1>5 DEF DropResult, RunMemory, AloneInv, SegmentsApart
  <2>2. /\ run'.pc = run.pc /\ run'.inFlight = run.inFlight /\ run'.queue = Tail(run.queue)
        /\ run'.mem = run.mem /\ run'.pending = run.pending /\ run'.stage = run.stage
        /\ run'.answered = run.answered \ {r.segment} /\ run'.bad = run.bad
    BY <1>2, <1>5 DEF DropResult, RunMemory
  <2>3. run'.work = run.work
    BY <1>2, <1>5 DEF DropResult, RunMemory
  <2> HIDE DEF r
  <2>4. /\ r \in Queued(run.queue) /\ Apart(run'.queue)
        /\ Queued(run.queue) = Queued(run'.queue) \cup {r}
        /\ \A x \in Queued(run'.queue) : x.segment # r.segment
    BY <2>1, <2>2, TailOfQueue DEF r
  <2>5. SegmentsApart'
    BY <2>1, <2>2, <2>4 DEF AloneInv, SegmentsApart
  <2>6. WorkIsOpen'
    BY <1>0, <2>2, <2>4 DEF AloneInv, WorkIsOpen
  <2>7. AnswersAreKept'
    BY <1>0, <2>2, <2>4 DEF AloneInv, AnswersAreKept
  <2>8. MemoryIsCurrent'
    BY <1>0, <2>2, <2>3, <2>4 DEF AloneInv, MemoryIsCurrent, MemoryMatters
  <2>9. BookIsCurrent'
    BY <1>0, <2>2 DEF AloneInv, BookIsCurrent
  <2> QED
    BY <1>1, <2>5, <2>6, <2>7, <2>8, <2>9 DEF AloneInv
<1> QED
  BY <1>3, <1>4, <1>5

\* The store calls of the launch: nothing is in memory yet that they could
\* leave stale, and none of them claims success.
LEMMA LaunchKeeps ==
    ASSUME AloneInv, run.pc \in {"revalidate", "cache"}, run'.pc = run.pc, SameWork,
           UNCHANGED <<human, owed, book>>,
           job' # "succeeded" \/ UNCHANGED <<job, seg, blocks>>
    PROVE  AloneInv'
<1>1. run.queue = <<>> /\ run.inFlight = {} /\ run.answered = {} /\ run.stage = "primary"
  BY IdleOutsideDispatch DEF AloneInv, AnswersAreKept, Launching, Draining, Dispatching
<1>2. Queued(run.queue) = {}
  BY <1>1 DEF Queued
<1> USE <1>1, <1>2 DEF AloneInv, SameWork
<1>3. Untouched' /\ SegmentsApart'
  BY DEF Untouched, SegmentsApart
<1>4. WorkIsOpen' /\ AnswersAreKept'
  BY DEF WorkIsOpen, AnswersAreKept, Dispatching, Loaded
<1>5. MemoryIsCurrent'
  BY DEF MemoryIsCurrent, MemoryMatters, Checked, Loaded
<1>6. BookIsCurrent'
  BY DEF BookIsCurrent, Published, Outside
<1> QED
  BY <1>3, <1>4, <1>5, <1>6

\* What a model's write does to a segment nobody has corrected.
LEMMA CheckpointEffect ==
    ASSUME RunIInv, NEW s \in Segments, ~human[s], NEW t, NEW status, NEW jobStatus,
           ModelCheckpoint(s, t, status, jobStatus)
    PROVE  /\ seg' = [seg EXCEPT ![s] = status] /\ seg'[s] = status
           /\ \A x \in Segments : x # s => seg'[x] = seg[x] /\ blocks'[x] = blocks[x]
           /\ blocks'[s] = t
           /\ UNCHANGED <<human, owed>>
           /\ job' = jobStatus \/ (job' = job /\ job \in Held)
<1>1. seg \in [Segments -> SegStatus \cup {"deleted"}] /\ blocks \in [Segments -> Texts \cup {NoText}]
  BY DEF RunIInv, IInv, TypeOK
<1>2. /\ seg' = [seg EXCEPT ![s] = status] /\ blocks' = [blocks EXCEPT ![s] = t]
      /\ UNCHANGED <<human, owed>> /\ TouchUnless(jobStatus, Held)
  BY DEF ModelCheckpoint, YieldToCorrection, WriteModelOutput, SetSegment
<1> QED
  BY <1>1, <1>2 DEF TouchUnless

\* Revalidation and the cache scan.
LEMMA PreparingKeeps ==
    ASSUME RunIInv, AloneInv, WorkerStores, Revalidate \/ ApplyCache
    PROVE  AloneInv'
<1>0. UNCHANGED book
  BY DEF WorkerStores
<1>1. \A s \in Segments : ~human[s]
  BY DEF AloneInv, Untouched
<1>2. run.pc \in {"revalidate", "cache"}
  BY DEF Revalidate, ApplyCache, At
<1>3. run.work \subseteq Segments \X Texts
  BY DEF RunIInv, WorkerTyped, RunMemory
<1>4. run'.pc = run.pc /\ SameWork
  BY DEF Revalidate, ApplyCache, RunIInv, WorkerTyped, RunMemory, SameWork
<1>5. CASE Revalidate
  <2>1. PICK call \in run.work : MarkStoredForReview(call[1], call[2])
    BY <1>5 DEF Revalidate
  <2>2. /\ UNCHANGED <<human, owed>>
        /\ job' # "succeeded" \/ UNCHANGED <<job, seg, blocks>>
    BY <2>1 DEF MarkStoredForReview, TouchUnless, KeepOutput, Held, vars
  <2> QED
    BY <1>0, <1>2, <1>4, <2>2, LaunchKeeps
<1>6. CASE ApplyCache
  <2>1. PICK call \in run.work : SaveCached(call[1], call[2])
    BY <1>6 DEF ApplyCache
  <2>2. call[1] \in Segments
    BY <1>3
  <2>3. UNCHANGED <<human, owed>> /\ job' # "succeeded"
    BY <1>1, <2>1, <2>2, CheckpointEffect DEF SaveCached, Held
  <2> QED
    BY <1>0, <1>2, <1>4, <2>3, LaunchKeeps
<1> QED
  BY <1>5, <1>6

\* The double check saves what it changed in memory, one segment at a time.
LEMMA CheckSaveKeeps ==
    ASSUME RunIInv, AloneInv, WorkerStores, CheckSave
    PROVE  AloneInv'
<1>0. UNCHANGED book
  BY DEF WorkerStores
<1>1. PICK call \in run.work : /\ SaveTranslation(call[1], call[2])
                               /\ run' = [run EXCEPT !.work = @ \ {call}]
  BY DEF CheckSave
<1> DEFINE s == call[1]
           t == call[2]
<1>2. run.pc = "check_save"
  BY DEF CheckSave, At
<1>3. s \in Segments /\ call = <<s, t>>
  BY DEF RunIInv, WorkerTyped, RunMemory
<1>4. run.mem[s] = t
  BY <1>2 DEF AloneInv, MemoryIsCurrent
<1> HIDE DEF s, t
<1>5. SaveTranslation(s, t)
  BY <1>1 DEF s, t
<1>6. ~human[s]
  BY <1>3 DEF AloneInv, Untouched
<1>7. /\ seg'[s] = "succeeded" /\ blocks'[s] = t
      /\ \A x \in Segments : x # s => seg'[x] = seg[x] /\ blocks'[x] = blocks[x]
      /\ UNCHANGED <<human, owed>> /\ job' # "succeeded"
  BY <1>3, <1>5, <1>6, CheckpointEffect DEF SaveTranslation, Held
<1>8. run'.pc = run.pc /\ SameWork /\ run'.work = run.work \ {<<s, t>>}
  BY <1>1, <1>3 DEF RunIInv, WorkerTyped, RunMemory, SameWork
<1>9. /\ run.queue = <<>> /\ run.inFlight = {} /\ run.answered \subseteq Segments
      /\ \A x \in run.answered : seg[x] \in Resolved
  BY <1>2, IdleOutsideDispatch DEF Draining, Dispatching, RunIInv, WorkerTyped, RunMemory
<1>10. Queued(run.queue) = {}
  BY <1>9 DEF Queued
<1>11. Untouched' /\ SegmentsApart'
  BY <1>7, <1>8 DEF AloneInv, Untouched, SegmentsApart, SameWork
<1>12. WorkIsOpen'
  BY <1>2, <1>8, <1>9, <1>10 DEF WorkIsOpen, SameWork, Dispatching, Loaded
<1>13. AnswersAreKept'
  BY <1>2, <1>7, <1>8, <1>9 DEF AnswersAreKept, SameWork, Launching, Resolved
<1>14. MemoryIsCurrent'
  <2>1. ~MemoryMatters'
    BY <1>2, <1>8 DEF MemoryMatters, Checked, Loaded, Draining, Dispatching
  <2>2. \A c \in run'.work : run'.mem[c[1]] = c[2]
    BY <1>2, <1>8 DEF AloneInv, MemoryIsCurrent, SameWork
  <2>3. ASSUME NEW x \in Segments, seg'[x] \in Resolved
        PROVE  run'.mem[x] = blocks'[x] \/ <<x, run'.mem[x]>> \in run'.work
    <3>1. CASE x = s
      BY <1>4, <1>7, <1>8, <3>1 DEF SameWork
    <3>2. CASE x # s
      <4>1. run.mem[x] = blocks[x] \/ <<x, run.mem[x]>> \in run.work
        BY <1>2, <1>7, <2>3, <3>2 DEF AloneInv, MemoryIsCurrent
      <4>2. <<x, run.mem[x]>> # <<s, t>>
        BY <3>2
      <4> QED
        BY <1>7, <1>8, <3>2, <4>1, <4>2 DEF SameWork
    <3> QED
      BY <3>1, <3>2
  <2> QED
    BY <1>8, <1>10, <2>1, <2>2, <2>3 DEF MemoryIsCurrent, SameWork
<1>15. BookIsCurrent'
  BY <1>2, <1>7, <1>8 DEF BookIsCurrent, Published
<1> QED
  BY <1>11, <1>12, <1>13, <1>14, <1>15 DEF AloneInv

\* A dispatch that fails only fails segments that were not resolved.
LEMMA DispatchErrorKeeps ==
    ASSUME RunIInv, AloneInv, WorkerStores, DispatchError
    PROVE  AloneInv'
<1>0. UNCHANGED book
  BY DEF WorkerStores
<1>1. run.pc = "dispatch" /\ job # "succeeded"
  BY DEF DispatchError, At, AloneInv, BookIsCurrent, Outside
<1>2. /\ UNCHANGED <<human, blocks, job>>
      /\ owed'[Worker] \in {"nothing", "failed"}
      /\ \A s \in Segments : seg'[s] \in Resolved <=> seg[s] \in Resolved
  <2>1. CASE UNCHANGED vars
    BY <2>1 DEF vars, AloneInv, Untouched
  <2>2. CASE MarkUnfinishedSegmentsFailed(Worker, run.assigned)
    <3>1. UNCHANGED <<human, blocks, job>>
      BY <2>2 DEF MarkUnfinishedSegmentsFailed, KeepOutput
    <3>2. owed'[Worker] \in {"nothing", "failed"}
      <4>1. \E debt \in {"nothing", "failed"} : owed' = [owed EXCEPT ![Worker] = debt]
        BY <2>2 DEF MarkUnfinishedSegmentsFailed, Owe
      <4>2. owed \in [Clients -> Debts] /\ Worker \in Clients
        BY RunAssumption DEF RunIInv, IInv, TypeOK
      <4> QED
        BY <4>1, <4>2
    <3>3. \A s \in Segments :
              \/ seg'[s] = seg[s]
              \/ seg'[s] = "failed" /\ seg[s] \notin TerminalWithTranslation
      BY <2>2 DEF MarkUnfinishedSegmentsFailed
    <3> QED
      BY <3>1, <3>2, <3>3 DEF Resolved, TerminalWithTranslation
  <2> QED
    BY <2>1, <2>2 DEF DispatchError
<1>3. /\ run'.pc \in {"drain", "error_touch"} /\ run'.inFlight = {}
      /\ run'.queue = run.queue /\ run'.pending = run.pending /\ run'.stage = run.stage
      /\ run'.mem = run.mem /\ run'.answered = run.answered
  BY DEF DispatchError, RunIInv, WorkerTyped, RunMemory
<1>4. /\ run.answered \subseteq Segments
      /\ \A r \in Queued(run.queue) : r.segment \in Segments
  BY QueueIsTyped DEF RunIInv, WorkerTyped, RunMemory, Results
<1>5. Untouched'
  BY <1>2 DEF AloneInv, Untouched
<1>6. SegmentsApart'
  BY <1>3 DEF AloneInv, SegmentsApart, Draining, Dispatching
<1>7. WorkIsOpen'
  BY <1>2, <1>3, <1>4 DEF AloneInv, WorkIsOpen, Dispatching, Loaded
<1>8. AnswersAreKept'
  BY <1>2, <1>3, <1>4 DEF AloneInv, AnswersAreKept, Launching
<1>9. MemoryIsCurrent'
  <2>1. MemoryMatters' => MemoryMatters
    BY <1>1, <1>3 DEF MemoryMatters, Checked, Loaded, Draining, Dispatching
  <2> QED
    BY <1>2, <1>3, <2>1 DEF AloneInv, MemoryIsCurrent
<1>10. BookIsCurrent'
  BY <1>1, <1>2, <1>3 DEF BookIsCurrent, Published
<1> QED
  BY <1>5, <1>6, <1>7, <1>8, <1>9, <1>10 DEF AloneInv

\* The writer persists the first result on its way: its segment is the only
\* one that changes, and is resolved exactly if the answer was a success.
LEMMA PersistKeeps ==
    ASSUME RunIInv, AloneInv, WriterStep
    PROVE  AloneInv'
<1> DEFINE r == Head(run.queue)
           s == r.segment
<1>0. UNCHANGED book /\ ApplyResult(r) /\ run.queue # <<>>
  BY DEF WriterStep, deskVars, Persist
<1>1. /\ run'.pc = run.pc /\ run'.inFlight = run.inFlight /\ run'.queue = Tail(run.queue)
      /\ run'.mem = run.mem /\ run'.pending = run.pending /\ run'.stage = run.stage
      /\ run'.answered = run.answered
  BY DEF WriterStep, Persist, RunIInv, WorkerTyped, RunMemory
<1> HIDE DEF r
<1>2. run.queue \in Seq(Results) /\ Apart(run.queue) /\ run.pc \in Draining
  BY <1>0 DEF RunIInv, WorkerTyped, RunMemory, AloneInv, SegmentsApart
<1>3. /\ r \in Queued(run.queue) /\ Apart(run'.queue)
      /\ Queued(run.queue) = Queued(run'.queue) \cup {r}
      /\ \A x \in Queued(run'.queue) : x.segment # s
  BY <1>0, <1>1, <1>2, TailOfQueue DEF r
<1>4. s \in Segments /\ \A x \in Queued(run.queue) : x.segment \in Segments
  BY <1>3, QueueIsTyped DEF Results
<1>5. ~human[s] /\ seg[s] \notin Resolved
  BY <1>3, <1>4 DEF AloneInv, Untouched, WorkIsOpen
<1>6. /\ UNCHANGED <<human, owed>> /\ job' # "succeeded"
      /\ \A x \in Segments : x # s => seg'[x] = seg[x] /\ blocks'[x] = blocks[x]
      /\ seg'[s] \in Resolved => r.outcome = "succeeded" /\ blocks'[s] = r.text
      /\ r.outcome = "succeeded" => seg'[s] \in Resolved
  <2>1. job # "succeeded"
    BY <1>2 DEF AloneInv, BookIsCurrent, Draining, Dispatching, Outside
  <2>2. CASE r.outcome = "succeeded" /\ SaveTranslation(s, r.text)
    BY <1>4, <1>5, <2>1, <2>2, CheckpointEffect DEF SaveTranslation, Resolved
  <2>3. CASE r.outcome = "needs_review" /\ SaveNeedsReview(s, r.text)
    BY <1>4, <1>5, <2>1, <2>3, CheckpointEffect DEF SaveNeedsReview, Resolved
  <2>4. CASE r.outcome = "retry_pending" /\ SaveRetryPending(s, r.text)
    BY <1>4, <1>5, <2>1, <2>4, CheckpointEffect DEF SaveRetryPending, Resolved
  <2>5. CASE r.outcome = "failed" /\ MarkSegmentFailedIfUnfinished(s)
    <3>1. /\ seg' = [seg EXCEPT ![s] = IF @ \in TerminalWithTranslation THEN @ ELSE "failed"]
          /\ job' \in {job, "failed"} /\ UNCHANGED <<human, blocks, owed>>
      BY <1>5, <2>5 DEF MarkSegmentFailedIfUnfinished, YieldToCorrection, TouchUnless, KeepOutput
    <3>2. seg \in [Segments -> SegStatus \cup {"deleted"}]
      BY DEF RunIInv, IInv, TypeOK
    <3>3. seg'[s] = seg[s] \/ seg'[s] = "failed"
      BY <1>4, <3>1, <3>2
    <3> QED
      BY <1>4, <1>5, <2>1, <2>5, <3>1, <3>2, <3>3 DEF Resolved
  <2> QED
    BY <1>0, <2>2, <2>3, <2>4, <2>5 DEF ApplyResult
<1> HIDE DEF s
<1>7. Untouched'
  BY <1>6 DEF AloneInv, Untouched
<1>8. SegmentsApart'
  BY <1>1, <1>2, <1>3 DEF AloneInv, SegmentsApart
<1>9. WorkIsOpen'
  <2>1. run.inFlight \subseteq Segments /\ run.pending \subseteq Segments
    BY DEF RunIInv, WorkerTyped, RunMemory
  <2>2. s \notin run.inFlight /\ s \notin run.pending
    BY <1>3 DEF AloneInv, SegmentsApart, s
  <2>3. \A x \in run'.inFlight : seg'[x] \notin Resolved
    BY <1>1, <1>6, <2>1, <2>2 DEF AloneInv, WorkIsOpen
  <2>4. \A x \in Queued(run'.queue) : seg'[x.segment] \notin Resolved
    BY <1>3, <1>4, <1>6 DEF AloneInv, WorkIsOpen
  <2>5. run.pc \in Dispatching \cup {"start"} => \A x \in run.pending : seg'[x] \notin Resolved
    BY <1>6, <2>1, <2>2 DEF AloneInv, WorkIsOpen
  <2> QED
    BY <1>1, <1>2, <2>3, <2>4, <2>5 DEF WorkIsOpen, Draining, Dispatching, Loaded
<1>10. AnswersAreKept'
  <2>1. ASSUME NEW x \in run.answered
        PROVE  \/ seg'[x] \in Resolved
               \/ \E y \in Queued(run'.queue) : y.segment = x /\ y.outcome = "succeeded"
    <3>0. x \in Segments
      BY DEF RunIInv, WorkerTyped, RunMemory
    <3>1. CASE seg[x] \in Resolved
      BY <1>5, <1>6, <3>0, <3>1
    <3>2. ASSUME NEW y \in Queued(run.queue), y.segment = x, y.outcome = "succeeded"
          PROVE  \/ seg'[x] \in Resolved
                 \/ \E z \in Queued(run'.queue) : z.segment = x /\ z.outcome = "succeeded"
      BY <1>3, <1>6, <3>2 DEF s
    <3> QED
      BY <3>1, <3>2 DEF AloneInv, AnswersAreKept
  <2> QED
    BY <1>1, <1>2, <2>1 DEF AnswersAreKept, Draining, Dispatching, Launching
<1>11. MemoryIsCurrent'
  <2>1. run.stage = "fallback" => \A x \in Queued(run.queue) :
            x.outcome = "succeeded" => run.mem[x.segment] = x.text
    BY DEF AloneInv, MemoryIsCurrent
  <2>2. ASSUME MemoryMatters', NEW x \in Segments, seg'[x] \in Resolved
        PROVE  run'.mem[x] = blocks'[x]
    <3>1. MemoryMatters
      BY <1>1, <2>2 DEF MemoryMatters
    <3>2. CASE x = s
      <4>1. run.stage = "fallback"
        BY <1>2, <3>1 DEF MemoryMatters, Checked, Loaded, Draining, Dispatching
      <4> QED
        BY <1>1, <1>3, <1>6, <2>1, <2>2, <3>2, <4>1 DEF s
    <3>3. CASE x # s
      BY <1>1, <1>6, <2>2, <3>1, <3>3 DEF AloneInv, MemoryIsCurrent
    <3> QED
      BY <3>2, <3>3
  <2> QED
    BY <1>1, <1>2, <1>3, <2>1, <2>2 DEF MemoryIsCurrent, Draining, Dispatching
<1>12. BookIsCurrent'
  BY <1>1, <1>2, <1>6 DEF BookIsCurrent, Published, Draining, Dispatching
<1> QED
  BY <1>7, <1>8, <1>9, <1>10, <1>11, <1>12 DEF AloneInv

\* A worker that ends, dies or is launched remembers nothing of a run.
LEMMA FreshMemoryKeeps ==
    ASSUME AloneInv, UNCHANGED <<seg, human, blocks, book>>,
           owed'[Worker] \in {"nothing", "failed"},
           job' = "succeeded" => job = "succeeded",
           run'.pc \in {"down", "preflight"}, run'.stage = "primary",
           run'.queue = <<>>, run'.inFlight = {}, run'.answered = {}
    PROVE  AloneInv'
<1>1. run'.pc \notin Draining /\ run'.pc \notin Dispatching \cup {"start"}
  BY DEF Draining, Dispatching
<1>2. Queued(run'.queue) = {}
  BY DEF Queued
<1>3. Untouched'
  BY DEF AloneInv, Untouched
<1>4. SegmentsApart'
  BY <1>1, <1>2 DEF SegmentsApart, Apart
<1>5. WorkIsOpen' /\ AnswersAreKept'
  BY <1>1, <1>2 DEF WorkIsOpen, AnswersAreKept, Loaded
<1>6. MemoryIsCurrent'
  BY <1>1, <1>2 DEF MemoryIsCurrent, MemoryMatters, Checked, Loaded
<1>7. BookIsCurrent'
  BY DEF AloneInv, BookIsCurrent, Published, Outside
<1> QED
  BY <1>3, <1>4, <1>5, <1>6, <1>7 DEF AloneInv

\* With nobody else at the rows of the job, every step of the system keeps the
\* invariant.
LEMMA AloneStep ==
    ASSUME Alone, RunIInv, AloneInv, [RunNext]_sysVars
    PROVE  AloneInv'
<1>0. owed[Worker] \in {"nothing", "failed"}
  BY DEF AloneInv, Untouched
<1>1. CASE WorkerThinks
  BY <1>1, ThinkingOnward, ReadingKeeps, CheckingKeeps, DispatchingKeeps DEF WorkerThinks
<1>2. CASE WorkerStores
  <2>1. CASE SettleInterrupt
    <3>1. /\ UNCHANGED <<seg, human, blocks, book, owed>> /\ run' = Down
          /\ job' \in {job, "interrupted"}
      BY <1>2, <2>1 DEF WorkerStores, SettleInterrupt, MarkJob, TouchUnless, KeepOutput, vars
    <3>2. /\ run'.pc = "down" /\ run'.stage = "primary"
          /\ run'.queue = <<>> /\ run'.inFlight = {} /\ run'.answered = {}
      BY <3>1 DEF Down
    <3> QED
      BY <1>0, <3>1, <3>2, FreshMemoryKeeps
  <2> QED
    BY <1>2, <2>1, PreparingKeeps, CheckSaveKeeps, DispatchErrorKeeps, StoringOnward
       DEF WorkerStores
<1>3. CASE WorkerControls
  BY <1>3, ControllingOnward
<1>4. CASE WorkerPolls
  BY <1>4, SignalsKeepApart DEF WorkerPolls, BoundaryPoll
<1>5. CASE WorkerPublishes
  BY <1>5, PublishingKeeps
<1>6. CASE WriterStep
  BY <1>6, PersistKeeps
<1>7. CASE WatcherStep
  BY <1>7, SignalsKeepApart DEF WatcherStep, WatcherPolls, deskVars, runVars
<1>8. CASE DeskStep
  BY <1>8 DEF DeskStep, Alone
<1>9. CASE WorldStep
  <2>1. CASE Launch
    <3>1. /\ UNCHANGED <<seg, human, blocks, book, owed, job>>
          /\ run' = [Down EXCEPT !.pc = "preflight", !.launch = job]
      BY <2>1 DEF Launch, vars
    <3>2. /\ run'.pc = "preflight" /\ run'.stage = "primary"
          /\ run'.queue = <<>> /\ run'.inFlight = {} /\ run'.answered = {}
      BY <3>1 DEF Down
    <3> QED
      BY <1>0, <3>1, <3>2, FreshMemoryKeeps
  <2>2. CASE Crash
    <3>1. /\ UNCHANGED <<seg, human, blocks, book, job>> /\ run' = Down
          /\ owed' = [owed EXCEPT ![Worker] = "nothing"]
      BY <2>2 DEF Crash, storeVars
    <3>2. owed'[Worker] \in {"nothing", "failed"}
      BY <3>1, RunAssumption DEF RunIInv, IInv, TypeOK
    <3>3. /\ run'.pc = "down" /\ run'.stage = "primary"
          /\ run'.queue = <<>> /\ run'.inFlight = {} /\ run'.answered = {}
      BY <3>1 DEF Down
    <3> QED
      BY <3>1, <3>2, <3>3, FreshMemoryKeeps
  <2>3. CASE Interrupt
    BY <2>3, SignalsKeepApart DEF Interrupt
  <2>4. CASE UserCommand
    BY <2>4, SignalsKeepApart DEF UserCommand
  <2>5. ~Meddle
    BY DEF Meddle, Alone
  <2> QED
    BY <1>9, <2>1, <2>2, <2>3, <2>4, <2>5 DEF WorldStep
<1>10. CASE UNCHANGED sysVars
  BY <1>0, <1>10, ElsewhereKeeps DEF sysVars, allVars, vars, deskVars, runVars
<1> QED
  BY <1>1, <1>2, <1>3, <1>4, <1>5, <1>6, <1>7, <1>8, <1>9, <1>10 DEF RunNext, WorkerStep

\* A job is created, or inherited from an older build, with nothing underway.
LEMMA AloneInit == RunInit => AloneInv
<1> SUFFICES ASSUME RunInit PROVE AloneInv
  OBVIOUS
<1>1. /\ run.pc = "down" /\ run.stage = "primary" /\ run.queue = <<>>
      /\ run.inFlight = {} /\ run.answered = {} /\ job = "running"
  BY DEF RunInit, Down
<1>2. Queued(run.queue) = {}
  BY <1>1 DEF Queued
<1>3. Untouched
  BY RunAssumption DEF RunInit, Untouched
<1>4. SegmentsApart
  BY <1>1, <1>2 DEF SegmentsApart, Apart
<1>5. WorkIsOpen /\ AnswersAreKept
  BY <1>1, <1>2 DEF WorkIsOpen, AnswersAreKept, Dispatching, Loaded, Launching
<1>6. MemoryIsCurrent
  BY <1>1, <1>2 DEF MemoryIsCurrent, MemoryMatters, Checked, Loaded, Draining, Dispatching
<1>7. BookIsCurrent
  BY <1>1 DEF BookIsCurrent, Published
<1> QED
  BY <1>3, <1>4, <1>5, <1>6, <1>7 DEF AloneInv

\* The invariant of a job that only its worker writes.
THEOREM AloneInvariantHolds ==
    ASSUME Alone
    PROVE  RunSpec => []AloneInv
<1>1. RunIInv /\ AloneInv /\ [RunNext]_sysVars => AloneInv'
  BY AloneStep
<1>2. QED
  BY <1>1, AloneInit, RunInvariantHolds, PTL DEF RunSpec

\* A job that claims success has every segment resolved and a published EPUB
\* with exactly the stored translations, whatever failed, was dropped, crashed,
\* was stopped or was relaunched before (mark_job_finished).
THEOREM SuccessClaimIsHonest ==
    ASSUME Alone
    PROVE  RunSpec => []SuccessIsHonest
<1>1. ASSUME RunIInv, AloneInv, job = "succeeded"
      PROVE  (\A s \in Segments : seg[s] \in Resolved) /\ book = blocks
  <2>1. \A s \in Segments : seg[s] \in Resolved /\ book[s] = blocks[s]
    BY <1>1 DEF AloneInv, BookIsCurrent
  <2>2. book \in Books /\ blocks \in Books
    BY <1>1 DEF RunIInv, IInv, TypeOK, DeskTyped, Books
  <2> QED
    BY <2>1, <2>2 DEF Books
<1>2. RunIInv /\ AloneInv => SuccessIsHonest
  BY <1>1 DEF SuccessIsHonest
<1>3. QED
  BY <1>2, AloneInvariantHolds, RunInvariantHolds, PTL

\* No provider request runs for a segment that is resolved, however stale the
\* list of the preflight was (the second read in run_pipeline).
THEOREM NothingIsPaidTwice ==
    ASSUME Alone
    PROVE  RunSpec => []NothingPaidTwice
<1>1. AloneInv => NothingPaidTwice
  BY DEF AloneInv, WorkIsOpen, NothingPaidTwice
<1>2. QED
  BY <1>1, AloneInvariantHolds, PTL

\* When a launch has ended, every translation a provider returned to it is in
\* the store: the writer's queue was drained (finalize_writer).
THEOREM AnswersReachTheStore ==
    ASSUME Alone
    PROVE  RunSpec => []AnswersReachStore
<1>1. AloneInv => AnswersReachStore
  BY IdleOutsideDispatch DEF AnswersReachStore, Draining, Dispatching
<1>2. QED
  BY <1>1, AloneInvariantHolds, PTL

-----------------------------------------------------------------------------
(* A pause holds the dispatch.                                             *)

\* A request is only started by a statement that a poll of a running signal
\* leads to, and there the count of late requests starts again.
LateInv == run.late \in {0, 1} /\ (run.pc = "spawn" => run.late = 0)

LEMMA LateStep ==
    ASSUME RunIInv, LateInv, [RunNext]_sysVars
    PROVE  LateInv'
<1> USE DEF LateInv, At
<1>0. run \in RunMemory
  BY DEF RunIInv, WorkerTyped
<1>1. ASSUME run' = Down
      PROVE  LateInv'
  BY <1>1 DEF Down
<1>2. CASE Spawn
  <2>1. CASE run' = [run EXCEPT !.pc = "join"]
    BY <1>0, <2>1 DEF RunMemory
  <2>2. CASE run' = [run EXCEPT
                !.pc = Backlog(run.pending \ {NextSegment}),
                !.pending = @ \ {NextSegment},
                !.inFlight = @ \cup {NextSegment},
                !.late = IF signal = "paused" THEN @ + 1 ELSE @]
    <3>1. run.late = 0
      BY <1>2 DEF Spawn
    <3>2. run'.pc \in {"join", "dispatch"} /\ run'.late \in {0, 0 + 1}
      BY <1>0, <2>2, <3>1 DEF RunMemory, Backlog
    <3> QED
      BY <3>2
  <2> QED
    BY <1>2, <2>1, <2>2 DEF Spawn
<1>3. CASE Dispatch
  <2>1. run'.late = 0 \/ (run'.late = run.late /\ run'.pc # "spawn")
    <3>1. signal \in {"running", "paused", "stopped"}
      BY DEF RunIInv, WorkerTyped
    <3>2. CASE signal = "running"
      BY <1>0, <1>3, <3>2 DEF Dispatch, RunMemory
    <3>3. CASE signal # "running"
      BY <1>0, <1>3, <3>1, <3>3 DEF Dispatch, RunMemory
    <3> QED
      BY <3>2, <3>3
  <2> QED
    BY <2>1
<1>4. CASE Join
  <2>1. run'.late = run.late /\ run'.pc \in {"halt", "join", "dispatch"}
    BY <1>0, <1>4 DEF Join, RunMemory, Backlog
  <2> QED
    BY <2>1
<1>5. CASE Preflight \/ Reread \/ JoinNone \/ Drain \/ Load \/ GateError
           \/ StartFallback \/ StartCheck \/ CheckAnswered \/ Finish \/ Finished
  <2>1. run'.late = run.late /\ run'.pc # "spawn"
    BY <1>0, <1>5 DEF Preflight, Reread, JoinNone, Drain, Load, GateError,
       StartFallback, StartCheck, CheckAnswered, Finish, Finished, RunMemory
  <2> QED
    BY <2>1
<1>6. CASE DropResult \/ Persist
  <2>1. run'.late = run.late /\ run'.pc = run.pc
    BY <1>0, <1>6 DEF DropResult, Persist, RunMemory
  <2> QED
    BY <2>1
<1>7. CASE WorkerStores
  <2>1. \/ run' = Down
        \/ run'.late = run.late /\ (run'.pc # "spawn" \/ run'.pc = run.pc)
    BY <1>0, <1>7 DEF WorkerStores, Revalidate, ApplyCache, Start, DispatchError,
       ErrorTouch, ErrorMark, CheckSave, Validate, FinishMark, Settle, SettleError,
       SettleInterrupt, RunMemory
  <2> QED
    BY <1>1, <2>1
<1>8. CASE StartWatcher \/ Leave \/ CheckDone \/ Rebuild \/ Own
  <2>1. run'.late = run.late /\ run'.pc # "spawn"
    BY <1>0, <1>8 DEF StartWatcher, Leave, CheckDone, Rebuild, Own, RunMemory
  <2> QED
    BY <2>1
<1>9. CASE Gate
  <2>1. run'.late = run.late /\ run'.pc # "spawn"
    <3>1. run.pc \in Gates /\ signal \in {"running", "paused", "stopped"}
      BY <1>9 DEF Gate, RunIInv, WorkerTyped
    <3> QED
      BY <1>0, <1>9, <3>1 DEF Gate, Gates, Behind, RunMemory
  <2> QED
    BY <2>1
<1>10. CASE Launch
  BY <1>10 DEF Launch, Down
<1>11. CASE Crash
  BY <1>1, <1>11 DEF Crash
<1>12. CASE UNCHANGED run
  BY <1>12
<1>13. WatcherStep \/ DeskStep \/ WorkerPolls \/ Interrupt \/ UserCommand \/ UNCHANGED sysVars
          => UNCHANGED run
  BY DEF WatcherStep, DeskStep, WorkerPolls, Interrupt, UserCommand, sysVars, runVars
<1>14. Meddle /\ UNCHANGED <<deskVars, controlVars, runVars>> => UNCHANGED run
  BY DEF runVars
<1>15. WorkerThinks \/ WorkerControls \/ WorkerPublishes => LateInv'
  BY <1>2, <1>3, <1>4, <1>5, <1>6, <1>8, <1>9 DEF WorkerThinks, WorkerControls, WorkerPublishes
<1>16. QED
  BY <1>6, <1>7, <1>10, <1>11, <1>12, <1>13, <1>14, <1>15
     DEF RunNext, WorkerStep, WriterStep, WorldStep

\* After a pause has reached the signal at most one more request starts,
\* however many the dispatch could run at once
\* (translate_segments_with_control).
THEOREM PauseHoldsTheDispatch == RunSpec => []PauseHoldsDispatch
<1>1. RunInit => LateInv
  BY DEF RunInit, Down, LateInv
<1>2. RunIInv /\ LateInv /\ [RunNext]_sysVars => LateInv'
  BY LateStep
<1>3. LateInv => PauseHoldsDispatch
  BY DEF LateInv, PauseHoldsDispatch
<1>4. QED
  BY <1>1, <1>2, <1>3, RunInvariantHolds, PTL DEF RunSpec
=============================================================================
