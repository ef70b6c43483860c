-------------------------- MODULE AudioOutputProofs -------------------------
(***************************************************************************)
(* The safety of the audiobook operations, for any number of chunks,       *)
(* requests, shell runs and restarts of the dashboard.  OneOwner is        *)
(* inductive as it stands.  LiveRunOnRecord is not: it needs to know whose *)
(* nonce the record holds while a handler goes through the handoff         *)
(* (RecordFollows), what process.json says between the publication and the *)
(* adoption (StateFollows), and that a child which may still adopt the     *)
(* lock is on record (WaitingIsOnRecord).  What the manifest says of the   *)
(* files, and what is paid for, follows from the tasks of the one run that *)
(* builds (ManifestInv), so it rests on OneOwner.                          *)
(***************************************************************************)
EXTENDS AudioOutput, TLAPS

\* Enough of the types for the functions the actions update.
Domains ==
    /\ phase \in [Runs -> Phases]
    /\ handler \in [Children -> {"idle", "over"} \cup Holding]
    /\ watcher \in [Children -> {"none", "watching", "cancelling", "settled", "unwritten", "done"}
                                \cup Verdicts]

Busy == {"waiting"} \cup Live

OnRecord(r) == process.pid = r /\ process.status \in {"running", "cancelled"}

RecordFollows ==
    \A r \in Children :
        /\ handler[r] \in {"locked", "prepared"} => record = NoRun
        /\ handler[r] \in {"spawned", "published", "registered"} => record = r

StateFollows ==
    \A r \in Children : handler[r] \in {"published", "registered"} => OnRecord(r)

\* A run that has the lock, or may still get it, and is watched.
WaitingIsOnRecord ==
    \A r \in Children :
        /\ watcher[r] \in {"watching", "cancelling"}
        /\ phase[r] \in Live \/ (phase[r] = "waiting" /\ record = r)
        => OnRecord(r)

\* No child is watched before it is published, and none is spawned twice.
HandlerFollows ==
    \A r \in Children :
        /\ handler[r] \in {"idle", "locked", "prepared", "spawned", "published"} => watcher[r] = "none"
        /\ handler[r] \in {"idle", "locked", "prepared"} => phase[r] = "none"
        /\ watcher[r] \in Verdicts \cup {"settled", "unwritten", "done"} => phase[r] \in Gone

OwnerInv  == Domains /\ OneOwner
RecordInv == OwnerInv /\ RecordFollows /\ StateFollows /\ WaitingIsOnRecord /\ HandlerFollows

-----------------------------------------------------------------------------
(* What a run does to the lock, whatever else it does.                     *)

Quiet == UNCHANGED <<lock, record, phase>>

Moves(b) ==
    /\ phase[b] \in Live /\ UNCHANGED <<lock, record>>
    /\ \E p \in Live : phase' = [phase EXCEPT ![b] = p]

Exits(b) ==
    /\ phase[b] \in Busy /\ UNCHANGED record
    /\ \E p \in Gone : phase' = [phase EXCEPT ![b] = p]
    /\ lock' = IF phase[b] \in Live THEN "nobody" ELSE lock

Enters(b) ==
    /\ lock = "nobody" /\ lock' = "run"
    /\ phase' = [phase EXCEPT ![b] = "preflight"]
    /\ \/ phase[b] = "waiting" /\ record = b /\ record' = b
       \/ phase[b] = "none" /\ b \in Direct /\ record' = NoRun

\* Every step of a run is one of these.
LEMMA RunSteps ==
    ASSUME NEW b \in Runs, Process(b) \/ Shell(b) \/ Die(b) \/ Stop(b)
    PROVE  Quiet \/ Moves(b) \/ Exits(b) \/ Enters(b)
<1> USE DEF Gone, Live, Busy
<1>1. CASE Adopt(b)
  BY <1>1 DEF Adopt, Claim, Enters, Exits
<1>2. CASE GiveUpWaiting(b)
  BY <1>2 DEF GiveUpWaiting, Exits
<1>3. CASE Begin(b)
  BY <1>3 DEF Begin, Moves
<1>4. CASE Decline(b)
  BY <1>4 DEF Decline, Leave, Exits
<1>5. CASE \E c \in Chunks : Ask(b, c) \/ Reuse(b, c) \/ Refuse(b, c) \/ Answer(b, c) \/ SeeStop(b, c)
  BY <1>5 DEF Ask, Reuse, Refuse, Answer, SeeStop, Starts, Quiet
<1>6. CASE Join(b)
  BY <1>6 DEF Join, Quiet
<1>7. CASE Abort(b)
  BY <1>7 DEF Abort, Leave, Exits
<1>8. CASE Finish(b)
  BY <1>8 DEF Finish, Leave, Exits, Moves
<1>9. CASE Stitch(b)
  BY <1>9 DEF Stitch, Leave, Exits
<1>10. CASE TakeDirectly(b)
  BY <1>10 DEF TakeDirectly, Claim, Enters
<1>11. CASE Stop(b)
  BY <1>11 DEF Stop, Quiet
<1>12. CASE Die(b)
  BY <1>12 DEF Die, Leave, Exits
<1> QED
  BY <1>1, <1>2, <1>3, <1>4, <1>5, <1>6, <1>7, <1>8, <1>9, <1>10, <1>11, <1>12
     DEF Process, Shell, Interrupt

\* The same, for the whole system: a step of a run leaves the dashboard alone.
RunStep == \E b \in Runs : (Quiet \/ Moves(b) \/ Exits(b) \/ Enters(b)) /\ UNCHANGED deskVars

LEMMA NextSteps ==
    ASSUME AudioNext
    PROVE  \/ RunStep
           \/ \E r \in Children : Request(r)
           \/ \E r \in Children : Watching(r)
           \/ Cancel \/ CancelLook \/ CancelSettle \/ ClerkLock \/ Clerking \/ Restart
<1>1. CASE \E b \in Runs : (Process(b) \/ Shell(b) \/ Die(b)) /\ UNCHANGED deskVars
  BY <1>1, RunSteps DEF RunStep
<1>2. CASE \E b \in Runs : SeeMarker(b)
  BY <1>2, RunSteps DEF SeeMarker, RunStep
<1> QED
  BY <1>1, <1>2 DEF AudioNext

-----------------------------------------------------------------------------
(* OneOwner.                                                               *)

LEMMA OwnerInit == AudioInit => OwnerInv
BY DEF AudioInit, BuildInit, OwnerInv, Domains, OneOwner, Phases, Live, Gone, Holding

LEMMA OwnerStep ==
    ASSUME OwnerInv, [AudioNext]_audioVars
    PROVE  OwnerInv'
<1> USE DEF OwnerInv, Domains, OneOwner
<1>1. CASE UNCHANGED audioVars
  BY <1>1 DEF audioVars
<1>2. CASE RunStep
  <2> PICK b \in Runs : (Quiet \/ Moves(b) \/ Exits(b) \/ Enters(b)) /\ UNCHANGED deskVars
    BY <1>2 DEF RunStep
  <2>1. CASE Quiet
    BY <2>1 DEF Quiet, deskVars
  <2>2. CASE Moves(b)
    BY <2>2 DEF Moves, deskVars, Phases, Live, Gone
  <2>3. CASE Exits(b)
    BY <2>3 DEF Exits, deskVars, Phases, Live, Gone, Busy
  <2>4. CASE Enters(b)
    BY <2>4 DEF Enters, deskVars, Phases, Live, Gone
  <2> QED
    BY <2>1, <2>2, <2>3, <2>4
<1>3. ASSUME NEW r \in Children, Request(r)
      PROVE  OwnerInv'
  <2> USE DEF Holding, Step
  <2>1. CASE Lock(r)
    BY <2>1 DEF Lock, Claim
  <2>2. CASE Prepare(r)
    BY <2>2 DEF Prepare, buildVars
  <2>3. CASE RefuseRequest(r)
    BY <2>3 DEF RefuseRequest
  <2>4. CASE HandOff(r)
    BY <2>4 DEF HandOff, Runs, Phases, Live, Gone
  <2>5. CASE Publish(r)
    BY <2>5 DEF Publish, buildVars
  <2>6. CASE FailToPublish(r)
    BY <2>6 DEF FailToPublish, Runs, Phases, Live, Gone
  <2>7. CASE Register(r)
    BY <2>7 DEF Register, buildVars
  <2>8. CASE Unlock(r)
    BY <2>8 DEF Unlock
  <2> QED
    BY <1>3, <2>1, <2>2, <2>3, <2>4, <2>5, <2>6, <2>7, <2>8 DEF Request
<1>4. ASSUME NEW r \in Children, Watching(r)
      PROVE  OwnerInv'
  <2> USE DEF Watch, buildVars, deskVars, Verdicts
  <2>1. CASE ForceStop(r)
    BY <2>1 DEF ForceStop, Die, Leave, Runs, Phases, Live, Gone
  <2>2. CASE \/ SeeExit(r) \/ SeeCancel(r) \/ SeeCancelled(r)
             \/ Settle(r) \/ SettleFails(r) \/ Unregister(r)
    BY <2>2 DEF SeeExit, SeeCancel, SeeCancelled, Settle, SettleFails, Unregister
  <2> QED
    BY <1>4, <2>1, <2>2 DEF Watching
<1>5. CASE Cancel \/ CancelLook \/ CancelSettle
  BY <1>5 DEF Cancel, CancelLook, CancelSettle, buildVars
<1>6. CASE ClerkLock
  BY <1>6 DEF ClerkLock, Claim
<1>7. CASE Clerking
  BY <1>7 DEF Clerking, ClerkScan, ClerkLeave, buildVars
<1>8. CASE Restart
  BY <1>8 DEF Restart, Holding
<1> QED
  BY <1>1, <1>2, <1>3, <1>4, <1>5, <1>6, <1>7, <1>8, NextSteps

\* The output directory has one owner at a time: a run, the handler that hands
\* it over, or a prune (lock.rs, serve/audio.rs).
THEOREM OneOwnerAtATime == AudioSpec => []OneOwner
<1>1. AudioInit => OwnerInv
  BY OwnerInit
<1>2. OwnerInv /\ [AudioNext]_audioVars => OwnerInv'
  BY OwnerStep
<1>3. OwnerInv => OneOwner
  BY DEF OwnerInv
<1> QED
  BY <1>1, <1>2, <1>3, PTL DEF AudioSpec

-----------------------------------------------------------------------------
(* LiveRunOnRecord.                                                        *)

LEMMA RecordInit == AudioInit => RecordInv
<1> SUFFICES ASSUME AudioInit PROVE RecordInv
  OBVIOUS
<1>1. OwnerInv
  BY OwnerInit
<1>2. RecordFollows /\ StateFollows /\ WaitingIsOnRecord /\ HandlerFollows
  BY DEF AudioInit, BuildInit, RecordFollows, StateFollows, WaitingIsOnRecord, HandlerFollows,
         Verdicts, Runs
<1> QED
  BY <1>1, <1>2 DEF RecordInv

LEMMA RecordStep ==
    ASSUME RecordInv, [AudioNext]_audioVars
    PROVE  RecordInv'
<1>0. OwnerInv'
  BY OwnerStep DEF RecordInv
<1> SUFFICES (RecordFollows /\ StateFollows /\ WaitingIsOnRecord /\ HandlerFollows)'
  BY <1>0 DEF RecordInv
<1> USE AudioAssumption DEF RecordInv, OwnerInv, Domains, OneOwner, RecordFollows, StateFollows,
        WaitingIsOnRecord, HandlerFollows, OnRecord, Holding, Verdicts, Live, Gone
<1>1. CASE UNCHANGED audioVars
  BY <1>1 DEF audioVars
<1>2. CASE RunStep
  <2> PICK b \in Runs : (Quiet \/ Moves(b) \/ Exits(b) \/ Enters(b)) /\ UNCHANGED deskVars
    BY <1>2 DEF RunStep
  <2>1. CASE Quiet
    BY <2>1 DEF Quiet, deskVars
  <2>2. CASE Moves(b)
    BY <2>2 DEF Moves, deskVars, Runs
  <2>3. CASE Exits(b)
    BY <2>3 DEF Exits, deskVars, Busy, Runs
  <2>4. CASE Enters(b)
    BY <2>4 DEF Enters, deskVars, Runs
  <2> QED
    BY <2>1, <2>2, <2>3, <2>4
<1>3. ASSUME NEW r \in Children, Request(r)
      PROVE  (RecordFollows /\ StateFollows /\ WaitingIsOnRecord /\ HandlerFollows)'
  <2> USE DEF Step, Runs
  <2>1. CASE Lock(r)
    BY <2>1 DEF Lock, Claim
  <2>2. CASE Prepare(r)
    BY <2>2 DEF Prepare, buildVars
  <2>3. CASE RefuseRequest(r)
    BY <2>3 DEF RefuseRequest
  <2>4. CASE HandOff(r)
    BY <2>4 DEF HandOff
  <2>5. CASE Publish(r)
    BY <2>5 DEF Publish, buildVars
  <2>6. CASE FailToPublish(r)
    BY <2>6 DEF FailToPublish
  <2>7. CASE Register(r)
    BY <2>7 DEF Register, buildVars
  <2>8. CASE Unlock(r)
    BY <2>8 DEF Unlock
  <2> QED
    BY <1>3, <2>1, <2>2, <2>3, <2>4, <2>5, <2>6, <2>7, <2>8 DEF Request
<1>4. ASSUME NEW r \in Children, Watching(r)
      PROVE  (RecordFollows /\ StateFollows /\ WaitingIsOnRecord /\ HandlerFollows)'
  <2> USE DEF Watch, buildVars, deskVars, Runs
  <2>1. CASE ForceStop(r)
    BY <2>1 DEF ForceStop, Die, Leave
  <2>2. CASE SeeExit(r)
    BY <2>2 DEF SeeExit
  <2>3. CASE SeeCancel(r)
    BY <2>3 DEF SeeCancel
  <2>4. CASE SeeCancelled(r)
    BY <2>4 DEF SeeCancelled
  <2>5. CASE Settle(r)
    BY <2>5 DEF Settle, Addressed
  <2>6. CASE SettleFails(r)
    BY <2>6 DEF SettleFails
  <2>7. CASE Unregister(r)
    BY <2>7 DEF Unregister
  <2> QED
    BY <1>4, <2>1, <2>2, <2>3, <2>4, <2>5, <2>6, <2>7 DEF Watching
<1>5. CASE Cancel \/ CancelLook \/ CancelSettle
  <2>1. CASE Cancel
    BY <2>1 DEF Cancel, buildVars
  <2>2. CASE CancelLook
    BY <2>2 DEF CancelLook, buildVars
  <2>3. CASE CancelSettle
    <3>1. CASE lock = "nobody" /\ process.pid = canceller
      BY <2>3, <3>1 DEF CancelSettle, buildVars
    <3>2. CASE ~(lock = "nobody" /\ process.pid = canceller)
      BY <2>3, <3>2 DEF CancelSettle, buildVars
    <3> QED
      BY <3>1, <3>2
  <2> QED
    BY <1>5, <2>1, <2>2, <2>3
<1>6. CASE ClerkLock
  BY <1>6 DEF ClerkLock, Claim
<1>7. CASE Clerking
  BY <1>7 DEF Clerking, ClerkScan, ClerkLeave, buildVars
<1>8. CASE Restart
  BY <1>8 DEF Restart
<1> QED
  BY <1>1, <1>2, <1>3, <1>4, <1>5, <1>6, <1>7, <1>8, NextSteps

\* As long as its dashboard lives, process.json tells of the live run and not
\* that it has ended (register_audio_cancellation, retry_failed_chunks).
THEOREM LiveRunsAreOnRecord == AudioSpec => []LiveRunOnRecord
<1>1. AudioInit => RecordInv
  BY RecordInit
<1>2. RecordInv /\ [AudioNext]_audioVars => RecordInv'
  BY RecordStep
<1>3. RecordInv => LiveRunOnRecord
  BY DEF RecordInv, WaitingIsOnRecord, OnRecord, LiveRunOnRecord
<1> QED
  BY <1>1, <1>2, <1>3, PTL DEF AudioSpec

-----------------------------------------------------------------------------
(* The manifest and the files.                                             *)

BuildRecord ==
    [previous : [Chunks -> Statuses], task : [Chunks -> Tasks], outcomes : Seq(Chunks),
     joined : SUBSET Chunks, unsaved : Nat, stopping : BOOLEAN]

BuildTyped ==
    /\ manifest \in [Chunks -> Statuses] /\ files \in SUBSET Chunks /\ aborted \in BOOLEAN
    /\ build \in [Runs -> BuildRecord]

\* The chunks whose tasks have ended and are not joined yet.
Unjoined(q) == {q[i] : i \in DOMAIN q}

\* A joined chunk is done or failed, one that waits may also be cancelled, and
\* what is done has its audio stored.
Ordered(m, stored) ==
    /\ \A c \in Unjoined(m.outcomes) : m.task[c] \in {"done", "failed", "cancelled"}
    /\ \A c \in m.joined : m.task[c] \in {"done", "failed"}
    /\ \A c \in Chunks : m.task[c] = "done" => c \in stored

\* A chunk that is asked for, or has failed, has no audio; one nobody has
\* looked at has it exactly if the previous manifest says so.
Follows(m, stored) ==
    \A c \in Chunks :
        /\ c \in stored => m.task[c] \notin {"asked", "failed"}
        /\ m.task[c] = "todo" => (c \in stored <=> m.previous[c] = "done")

IdleOutsideBuild == \A b \in Runs : phase[b] # "building" => build[b] = Idle

BuildsAreOrdered == \A b \in Runs : Ordered(build[b], files)

FilesFollow ==
    /\ (\A b \in Runs : phase[b] # "building") => files \subseteq DoneIn(manifest)
    /\ \A b \in Runs : phase[b] = "building" => Follows(build[b], files)

ManifestInv ==
    /\ BuildTyped /\ IdleOutsideBuild /\ BuildsAreOrdered
    /\ DoneIn(manifest) \subseteq files
    /\ ~aborted => FilesFollow

\* Taking a chunk off the queue of ended tasks, and putting one on it.
LEMMA UnjoinedChunks ==
    ASSUME NEW q \in Seq(Chunks)
    PROVE  /\ \A c \in Chunks : /\ Append(q, c) \in Seq(Chunks)
                                /\ Unjoined(Append(q, c)) \subseteq Unjoined(q) \cup {c}
           /\ Unjoined(q) \subseteq Chunks
           /\ q # <<>> => /\ Head(q) \in Unjoined(q) /\ Tail(q) \in Seq(Chunks)
                          /\ Unjoined(Tail(q)) \subseteq Unjoined(q)
<1>1. ASSUME NEW c \in Chunks
      PROVE  Append(q, c) \in Seq(Chunks) /\ Unjoined(Append(q, c)) \subseteq Unjoined(q) \cup {c}
  <2>1. \A i \in DOMAIN Append(q, c) : Append(q, c)[i] = c
            \/ (i \in DOMAIN q /\ Append(q, c)[i] = q[i])
    OBVIOUS
  <2> QED
    BY <2>1 DEF Unjoined
<1>2. ASSUME q # <<>>
      PROVE  /\ Head(q) \in Unjoined(q) /\ Tail(q) \in Seq(Chunks)
             /\ Unjoined(Tail(q)) \subseteq Unjoined(q)
  <2>1. Head(q) = q[1] /\ 1 \in DOMAIN q
    BY <1>2
  <2>2. \A i \in DOMAIN Tail(q) : i + 1 \in DOMAIN q /\ Tail(q)[i] = q[i + 1]
    BY <1>2
  <2> QED
    BY <1>2, <2>1, <2>2 DEF Unjoined
<1>3. Unjoined(q) \subseteq Chunks
  BY DEF Unjoined
<1> QED
  BY <1>1, <1>2, <1>3

\* A run that does not build holds nothing that could be wrong.
LEMMA IdleIsOrdered ==
    /\ Idle \in BuildRecord
    /\ \A stored : Ordered(Idle, stored)
    /\ \A c \in Chunks : Idle.task[c] = "todo"
<1>1. Unjoined(<<>>) = {}
  BY DEF Unjoined
<1> QED
  BY <1>1 DEF Idle, Fresh, NoManifest, BuildRecord, Ordered, Statuses, Tasks

\* Only one run builds.
LEMMA OneBuilder ==
    ASSUME OwnerInv, NEW b \in Runs, phase[b] = "building"
    PROVE  \A a \in Runs : phase[a] = "building" => a = b
BY DEF OwnerInv, OneOwner, Live

\* A step that changes neither what is stored nor what is built.
LEMMA ManifestElsewhere ==
    ASSUME ManifestInv, UNCHANGED <<manifest, files, build, aborted>>,
           \A b \in Runs : phase'[b] = "building" <=> phase[b] = "building"
    PROVE  ManifestInv'
<1> USE DEF ManifestInv
<1>1. BuildTyped'
  BY DEF BuildTyped
<1>2. IdleOutsideBuild' /\ BuildsAreOrdered'
  BY DEF IdleOutsideBuild, BuildsAreOrdered
<1>3. (DoneIn(manifest) \subseteq files)'
  BY DEF DoneIn
<1>4. (~aborted => FilesFollow)'
  BY DEF FilesFollow, DoneIn
<1> QED
  BY <1>1, <1>2, <1>3, <1>4

\* A step of the run that builds, in its memory and on what is stored.
LEMMA BuildingKeeps ==
    ASSUME OwnerInv, ManifestInv, NEW b \in Runs, phase[b] = "building",
           UNCHANGED <<phase, aborted>>,
           NEW m \in BuildRecord, build' = [build EXCEPT ![b] = m],
           manifest' \in [Chunks -> Statuses], files' \in SUBSET Chunks,
           Ordered(m, files'), DoneIn(manifest') \subseteq files',
           ~aborted => Follows(m, files')
    PROVE  ManifestInv'
<1> USE DEF ManifestInv
<1>1. BuildTyped'
  BY DEF BuildTyped
<1>2. \A a \in Runs : build'[a] = IF a = b THEN m ELSE Idle
  BY OneBuilder DEF BuildTyped, IdleOutsideBuild
<1>3. IdleOutsideBuild'
  BY <1>2 DEF IdleOutsideBuild
<1>4. BuildsAreOrdered'
  BY <1>2, IdleIsOrdered DEF BuildsAreOrdered
<1>5. (DoneIn(manifest) \subseteq files)'
  BY DEF DoneIn
<1>6. (~aborted => FilesFollow)'
  BY <1>2, OneBuilder DEF FilesFollow
<1> QED
  BY <1>1, <1>3, <1>4, <1>5, <1>6

\* The end of a build leaves what the run held behind.
LEMMA BuildEnds ==
    ASSUME OwnerInv, ManifestInv, NEW b \in Runs, phase[b] = "building",
           NEW p \in Phases \ {"building"}, phase' = [phase EXCEPT ![b] = p],
           build' = [build EXCEPT ![b] = Idle], UNCHANGED files,
           manifest' \in [Chunks -> Statuses], DoneIn(manifest') \subseteq files,
           \/ aborted' = TRUE
           \/ UNCHANGED aborted /\ (~aborted => files \subseteq DoneIn(manifest'))
    PROVE  ManifestInv'
<1> USE DEF ManifestInv
<1>0. phase \in [Runs -> Phases]
  BY DEF OwnerInv, Domains
<1>1. BuildTyped'
  BY IdleIsOrdered DEF BuildTyped
<1>2. \A a \in Runs : build'[a] = Idle /\ phase'[a] # "building"
  BY <1>0, OneBuilder DEF BuildTyped, IdleOutsideBuild
<1>3. IdleOutsideBuild'
  BY <1>2 DEF IdleOutsideBuild
<1>4. BuildsAreOrdered'
  BY <1>2, IdleIsOrdered DEF BuildsAreOrdered
<1>5. (DoneIn(manifest) \subseteq files)'
  BY DEF DoneIn
<1>6. (~aborted => FilesFollow)'
  BY <1>2 DEF FilesFollow, DoneIn
<1> QED
  BY <1>1, <1>3, <1>4, <1>5, <1>6

\* A run that leaves without having built changes nothing.
LEMMA LeavingIdle ==
    ASSUME ManifestInv, NEW b \in Runs, phase[b] # "building", NEW verdict, Leave(b, verdict)
    PROVE  UNCHANGED build
<1>1. build[b] = Idle /\ build \in [Runs -> BuildRecord]
  BY DEF ManifestInv, IdleOutsideBuild, BuildTyped
<1> QED
  BY <1>1 DEF Leave

LEMMA ManifestInit == AudioInit => ManifestInv
<1> SUFFICES ASSUME AudioInit PROVE ManifestInv
  OBVIOUS
<1>1. /\ phase = [b \in Runs |-> "none"] /\ manifest = NoManifest /\ files = {}
      /\ build = [b \in Runs |-> Idle] /\ aborted = FALSE
  BY DEF AudioInit, BuildInit
<1>2. BuildTyped
  BY <1>1, IdleIsOrdered DEF BuildTyped, NoManifest, Statuses
<1>3. IdleOutsideBuild /\ BuildsAreOrdered
  BY <1>1, IdleIsOrdered DEF IdleOutsideBuild, BuildsAreOrdered
<1>4. DoneIn(manifest) = {}
  BY <1>1 DEF DoneIn, NoManifest
<1>5. FilesFollow
  BY <1>1 DEF FilesFollow
<1> QED
  BY <1>2, <1>3, <1>4, <1>5 DEF ManifestInv

\* A run takes its plan from what the manifest records and the files there are.
LEMMA BeginKeeps ==
    ASSUME OwnerInv, ManifestInv, NEW b \in Runs, Begin(b)
    PROVE  ManifestInv'
<1>0. phase \in [Runs -> Phases] /\ manifest \in [Chunks -> Statuses] /\ build \in [Runs -> BuildRecord]
  BY DEF OwnerInv, Domains, ManifestInv, BuildTyped
<1>1. \A a \in Runs : phase[a] # "building"
  BY DEF Begin, OwnerInv, OneOwner, Live
<1> DEFINE m == Fresh(manifest)
<1>2. m \in BuildRecord /\ m.previous = manifest /\ Ordered(m, files)
      /\ \A c \in Chunks : m.task[c] = "todo"
  <2>1. Unjoined(<<>>) = {}
    BY DEF Unjoined
  <2> QED
    BY <1>0, <2>1 DEF Fresh, BuildRecord, Ordered, Tasks
<1> HIDE DEF m
<1>3. \A a \in Runs : build'[a] = (IF a = b THEN m ELSE Idle)
                      /\ (phase'[a] = "building" <=> a = b)
  BY <1>0, <1>1 DEF Begin, ManifestInv, IdleOutsideBuild, m
<1>4. BuildTyped'
  BY <1>0, <1>2 DEF Begin, BuildTyped, Statuses, ManifestInv, m
<1>5. IdleOutsideBuild' /\ BuildsAreOrdered'
  BY <1>2, <1>3, IdleIsOrdered DEF Begin, IdleOutsideBuild, BuildsAreOrdered
<1>6. (DoneIn(manifest) \subseteq files)'
  BY DEF Begin, DoneIn
<1>7. (~aborted => FilesFollow)'
  <2>1. ~aborted => \A c \in Chunks : c \in files <=> manifest[c] = "done"
    BY <1>1 DEF ManifestInv, FilesFollow, DoneIn, BuildTyped
  <2>2. ~aborted => Follows(m, files)
    BY <1>2, <2>1 DEF Follows
  <2> QED
    BY <1>3, <2>2 DEF Begin, FilesFollow
<1> QED
  BY <1>4, <1>5, <1>6, <1>7 DEF ManifestInv

\* A task that starts, ends or is cancelled.
LEMMA TaskKeeps ==
    ASSUME OwnerInv, ManifestInv, NEW b \in Runs, NEW c \in Chunks,
           Ask(b, c) \/ Reuse(b, c) \/ Refuse(b, c) \/ Answer(b, c) \/ SeeStop(b, c)
    PROVE  ManifestInv'
<1> USE DEF Starts
<1>0. /\ phase[b] = "building" /\ UNCHANGED <<phase, manifest, aborted>>
      /\ manifest \in [Chunks -> Statuses] /\ files \in SUBSET Chunks
      /\ build \in [Runs -> BuildRecord] /\ DoneIn(manifest) \subseteq files
      /\ build[b] \in BuildRecord
  BY DEF Ask, Reuse, Refuse, Answer, SeeStop, ManifestInv, BuildTyped
<1> DEFINE m == build[b]
<1>1. Ordered(m, files) /\ (~aborted => Follows(m, files))
  BY <1>0 DEF ManifestInv, BuildsAreOrdered, FilesFollow
<1>2. ~aborted => (c \in files => m.task[c] # "asked")
                  /\ (m.task[c] = "todo" => (c \in files <=> m.previous[c] = "done"))
  BY <1>1 DEF Follows
<1> HIDE DEF m
<1>3. ASSUME NEW outcome \in {"done", "failed", "cancelled"},
             Ends(b, c, outcome), m.task[c] \in {"todo", "asked"},
             files' = files \/ (files' = files \cup {c} /\ outcome = "done"),
             outcome = "done" => c \in files',
             ~aborted /\ outcome = "failed" => c \notin files
      PROVE  ManifestInv'
  <2> DEFINE n == [m EXCEPT !.task = [@ EXCEPT ![c] = outcome],
                            !.outcomes = Append(@, c)]
  <2>1. build' = [build EXCEPT ![b] = n]
    BY <1>3 DEF Ends, m
  <2>2. /\ n \in BuildRecord /\ n.joined = m.joined /\ n.previous = m.previous
        /\ n.task = [m.task EXCEPT ![c] = outcome] /\ n.outcomes = Append(m.outcomes, c)
    BY <1>0, <1>3, UnjoinedChunks DEF BuildRecord, Tasks, m
  <2>3. m.task \in [Chunks -> Tasks] /\ m.outcomes \in Seq(Chunks) /\ m.joined \subseteq Chunks
    BY <1>0 DEF BuildRecord, m
  <2> HIDE DEF n
  <2>4. n.task[c] = outcome /\ \A d \in Chunks : d # c => n.task[d] = m.task[d]
    BY <2>2, <2>3
  <2>5. Ordered(n, files')
    <3>1. \A d \in Unjoined(n.outcomes) : d = c \/ (d \in Chunks /\ d \in Unjoined(m.outcomes))
      BY <2>2, <2>3, UnjoinedChunks
    <3>2. \A d \in Unjoined(n.outcomes) : n.task[d] \in {"done", "failed", "cancelled"}
      BY <1>1, <2>4, <3>1 DEF Ordered
    <3>3. \A d \in n.joined : n.task[d] \in {"done", "failed"}
      BY <1>1, <1>3, <2>2, <2>3, <2>4 DEF Ordered
    <3>4. \A d \in Chunks : n.task[d] = "done" => d \in files'
      BY <1>1, <1>3, <2>4 DEF Ordered
    <3> QED
      BY <3>2, <3>3, <3>4 DEF Ordered
  <2>6. ~aborted => Follows(n, files')
    BY <1>1, <1>3, <2>2, <2>4 DEF Follows
  <2>7. files' \in SUBSET Chunks /\ DoneIn(manifest') \subseteq files'
    BY <1>0, <1>3
  <2> QED
    BY <1>0, <2>1, <2>2, <2>5, <2>6, <2>7, BuildingKeeps
<1>4. CASE Ask(b, c)
  <2> DEFINE n == [m EXCEPT !.task = [@ EXCEPT ![c] = "asked"]]
  <2>0. m.task[c] = "todo" /\ UNCHANGED files /\ MayAsk(b, c)
    BY <1>4 DEF Ask, m
  <2>1. build' = [build EXCEPT ![b] = n]
    BY <1>4 DEF Ask, m
  <2>2. /\ n \in BuildRecord /\ n.joined = m.joined /\ n.previous = m.previous
        /\ n.task = [m.task EXCEPT ![c] = "asked"] /\ n.outcomes = m.outcomes
    BY <1>0 DEF BuildRecord, Tasks, m
  <2>3. m.task \in [Chunks -> Tasks] /\ m.outcomes \in Seq(Chunks) /\ m.joined \subseteq Chunks
    BY <1>0 DEF BuildRecord, m
  <2> HIDE DEF n
  <2>4. n.task[c] = "asked" /\ \A d \in Chunks : d # c => n.task[d] = m.task[d]
    BY <2>2, <2>3
  <2>5. Ordered(n, files)
    BY <1>1, <2>0, <2>2, <2>3, <2>4, UnjoinedChunks DEF Ordered
  <2>6. ~aborted => c \notin files
    <3>1. b \in Retries => m.previous[c] = "failed"
      BY <2>0 DEF MayAsk, m
    <3>2. b \notin Retries => c \notin files
      BY <2>0 DEF MayAsk
    <3> QED
      BY <1>2, <2>0, <3>1, <3>2
  <2>7. ~aborted => Follows(n, files)
    BY <1>1, <2>2, <2>4, <2>6 DEF Follows
  <2> QED
    BY <1>0, <2>0, <2>1, <2>2, <2>5, <2>7, BuildingKeeps
<1>5. CASE Reuse(b, c)
  BY <1>3, <1>5 DEF Reuse, MayReuse, m
<1>6. CASE Refuse(b, c)
  <2>1. m.task[c] = "todo" /\ UNCHANGED files /\ Ends(b, c, "failed")
    BY <1>6 DEF Refuse, m
  <2>2. ~aborted => c \notin files
    BY <1>2, <1>6, <2>1 DEF Refuse, MayAsk, MayReuse, m
  <2> QED
    BY <1>3, <2>1, <2>2
<1>7. CASE Answer(b, c)
  BY <1>2, <1>3, <1>7 DEF Answer, m
<1>8. CASE SeeStop(b, c)
  BY <1>3, <1>8 DEF SeeStop, m
<1> QED
  BY <1>4, <1>5, <1>6, <1>7, <1>8

\* The runner joins a task; the manifest it writes names no chunk that is not
\* done.
LEMMA JoinKeeps ==
    ASSUME OwnerInv, ManifestInv, NEW b \in Runs, Join(b)
    PROVE  ManifestInv'
<1> DEFINE m == build[b]
           c == Head(m.outcomes)
           joined == m.joined \cup {c}
           unsaved == m.unsaved + 1
           save == m.task[c] = "failed" \/ unsaved >= CheckpointInterval
           n == [m EXCEPT !.outcomes = Tail(@), !.joined = joined,
                          !.unsaved = IF save THEN 0 ELSE unsaved]
<1>0. /\ phase[b] = "building" /\ UNCHANGED <<phase, files, aborted>>
      /\ manifest \in [Chunks -> Statuses] /\ files \in SUBSET Chunks
      /\ build \in [Runs -> BuildRecord] /\ m \in BuildRecord
      /\ DoneIn(manifest) \subseteq files
      /\ m.outcomes # <<>> /\ m.task[c] # "cancelled"
      /\ build' = [build EXCEPT ![b] = n]
      /\ manifest' = IF save THEN Records(b, joined) ELSE manifest
  BY DEF Join, ManifestInv, BuildTyped
<1>1. Ordered(m, files) /\ (~aborted => Follows(m, files))
  BY <1>0 DEF ManifestInv, BuildsAreOrdered, FilesFollow
<1>2. Records(b, joined) = [d \in Chunks |-> IF d \in joined THEN m.task[d] ELSE "pending"]
  BY DEF Records
<1> HIDE DEF m, n, save, unsaved, c
<1>3. /\ m.task \in [Chunks -> Tasks] /\ m.outcomes \in Seq(Chunks) /\ m.joined \subseteq Chunks
      /\ m.unsaved \in Nat
  BY <1>0 DEF BuildRecord
<1>4. /\ c \in Unjoined(m.outcomes) /\ c \in Chunks /\ Tail(m.outcomes) \in Seq(Chunks)
      /\ Unjoined(Tail(m.outcomes)) \subseteq Unjoined(m.outcomes)
  BY <1>0, <1>3, UnjoinedChunks DEF c
<1>5. \A d \in joined : d \in Chunks /\ m.task[d] \in {"done", "failed"}
  BY <1>0, <1>1, <1>3, <1>4 DEF Ordered
<1>6. /\ n \in BuildRecord /\ n.task = m.task /\ n.previous = m.previous
      /\ n.outcomes = Tail(m.outcomes) /\ n.joined = joined
  <2>1. unsaved \in Nat /\ (IF save THEN 0 ELSE unsaved) \in Nat
    BY <1>3 DEF unsaved
  <2>2. joined \in SUBSET Chunks
    BY <1>5
  <2> HIDE DEF joined
  <2> QED
    BY <1>0, <1>4, <2>1, <2>2 DEF n, BuildRecord
<1>7. Ordered(n, files)
  BY <1>1, <1>4, <1>5, <1>6 DEF Ordered
<1>8. ~aborted => Follows(n, files)
  BY <1>1, <1>6 DEF Follows
<1>9. manifest' \in [Chunks -> Statuses] /\ DoneIn(manifest') \subseteq files
  <2>1. CASE save
    <3>1. manifest' = [d \in Chunks |-> IF d \in joined THEN m.task[d] ELSE "pending"]
      BY <1>0, <1>2, <2>1
    <3>2. manifest' \in [Chunks -> Statuses]
      BY <1>5, <3>1 DEF Statuses
    <3>3. \A d \in Chunks : manifest'[d] = "done" => d \in files
      BY <1>1, <3>1 DEF Ordered
    <3> QED
      BY <3>2, <3>3 DEF DoneIn
  <2>2. CASE ~save
    BY <1>0, <2>2
  <2> QED
    BY <2>1, <2>2
<1> QED
  BY <1>0, <1>6, <1>7, <1>8, <1>9, BuildingKeeps

\* A cancelled build records what it had joined.
LEMMA AbortKeeps ==
    ASSUME OwnerInv, ManifestInv, NEW b \in Runs, Abort(b)
    PROVE  ManifestInv'
<1> DEFINE m == build[b]
<1>0. /\ phase[b] = "building" /\ UNCHANGED files /\ aborted' = TRUE
      /\ phase' = [phase EXCEPT ![b] = "failed"] /\ build' = [build EXCEPT ![b] = Idle]
      /\ manifest' = [d \in Chunks |-> IF d \in m.joined THEN m.task[d] ELSE "pending"]
  BY DEF Abort, Leave, Records
<1>1. Ordered(m, files)
  BY DEF ManifestInv, BuildsAreOrdered
<1> HIDE DEF m
<1>2. manifest' \in [Chunks -> Statuses] /\ DoneIn(manifest') \subseteq files
  <2>1. \A d \in Chunks : manifest'[d] \in Statuses /\ (manifest'[d] = "done" => d \in files)
    BY <1>0, <1>1 DEF Ordered, Statuses
  <2> QED
    BY <1>0, <2>1 DEF DoneIn
<1>3. "failed" \in Phases \ {"building"}
  BY DEF Phases, Gone
<1> QED
  BY <1>0, <1>2, <1>3, BuildEnds

\* A finished build records every chunk, and exactly those that are done have
\* audio.
LEMMA FinishKeeps ==
    ASSUME OwnerInv, ManifestInv, NEW b \in Runs, Finish(b)
    PROVE  ManifestInv'
<1> DEFINE m == build[b]
<1>0. /\ phase[b] = "building" /\ m.joined = Chunks /\ UNCHANGED <<files, aborted>>
      /\ manifest' = [d \in Chunks |-> IF d \in Chunks THEN m.task[d] ELSE "pending"]
      /\ build' = [build EXCEPT ![b] = Idle]
  BY DEF Finish, Leave, Records
<1>1. PICK p \in {"failed", "stitching"} : phase' = [phase EXCEPT ![b] = p]
  BY DEF Finish, Leave
<1>2. Ordered(m, files) /\ (~aborted => Follows(m, files)) /\ files \subseteq Chunks
  BY <1>0 DEF ManifestInv, BuildsAreOrdered, FilesFollow, BuildTyped
<1> HIDE DEF m
<1>3. \A d \in Chunks : manifest'[d] = m.task[d] /\ m.task[d] \in {"done", "failed"}
  BY <1>0, <1>2 DEF Ordered
<1>4. manifest' \in [Chunks -> Statuses]
  BY <1>0, <1>3 DEF Statuses
<1>5. DoneIn(manifest') \subseteq files
  BY <1>2, <1>3 DEF DoneIn, Ordered
<1>6. ~aborted => files \subseteq DoneIn(manifest')
  BY <1>2, <1>3 DEF DoneIn, Follows
<1>7. p \in Phases \ {"building"}
  BY DEF Phases, Gone, Live
<1> QED
  BY <1>0, <1>1, <1>4, <1>5, <1>6, <1>7, BuildEnds

\* A request to stop.
LEMMA StopKeeps ==
    ASSUME OwnerInv, ManifestInv, NEW b \in Runs, Stop(b)
    PROVE  ManifestInv'
<1> DEFINE n == [build[b] EXCEPT !.stopping = TRUE]
<1>0. /\ phase[b] = "building" /\ UNCHANGED <<phase, manifest, files, aborted>>
      /\ build' = [build EXCEPT ![b] = n]
      /\ manifest \in [Chunks -> Statuses] /\ files \in SUBSET Chunks
      /\ build[b] \in BuildRecord /\ DoneIn(manifest) \subseteq files
  BY DEF Stop, ManifestInv, BuildTyped
<1>1. Ordered(build[b], files) /\ (~aborted => Follows(build[b], files))
  BY <1>0 DEF ManifestInv, BuildsAreOrdered, FilesFollow
<1>2. /\ n \in BuildRecord /\ n.task = build[b].task /\ n.outcomes = build[b].outcomes
      /\ n.joined = build[b].joined /\ n.previous = build[b].previous
  BY <1>0 DEF BuildRecord
<1> HIDE DEF n
<1>3. Ordered(n, files) /\ (~aborted => Follows(n, files))
  BY <1>1, <1>2 DEF Ordered, Follows
<1> QED
  BY <1>0, <1>2, <1>3, BuildingKeeps

\* A kill or a crash.
LEMMA DieKeeps ==
    ASSUME OwnerInv, ManifestInv, NEW b \in Runs, Die(b)
    PROVE  ManifestInv'
<1>0. phase \in [Runs -> Phases]
  BY DEF OwnerInv, Domains
<1>1. CASE phase[b] = "building"
  <2>1. /\ phase' = [phase EXCEPT ![b] = "failed"] /\ build' = [build EXCEPT ![b] = Idle]
        /\ aborted' = TRUE /\ UNCHANGED <<manifest, files>>
    BY <1>1 DEF Die, Leave, ManifestInv, BuildTyped
  <2>2. "failed" \in Phases \ {"building"} /\ manifest \in [Chunks -> Statuses]
        /\ DoneIn(manifest) \subseteq files
    BY DEF Phases, Gone, ManifestInv, BuildTyped
  <2> QED
    BY <1>1, <2>1, <2>2, BuildEnds
<1>2. CASE phase[b] # "building"
  <2>1. UNCHANGED <<manifest, files, build, aborted>>
    BY <1>2, LeavingIdle DEF Die, ManifestInv, BuildTyped
  <2>2. \A a \in Runs : phase'[a] = "building" <=> phase[a] = "building"
    BY <1>0, <1>2 DEF Die, Leave
  <2> QED
    BY <2>1, <2>2, ManifestElsewhere
<1> QED
  BY <1>1, <1>2

\* Every step of a run.
LEMMA RunKeepsManifest ==
    ASSUME OwnerInv, ManifestInv, NEW b \in Runs, Process(b) \/ Shell(b) \/ Die(b) \/ Stop(b)
    PROVE  ManifestInv'
<1>0. phase \in [Runs -> Phases]
  BY DEF OwnerInv, Domains
<1>1. CASE Adopt(b) \/ GiveUpWaiting(b) \/ TakeDirectly(b)
  <2>1. UNCHANGED <<manifest, files, build, aborted>>
    BY <1>1 DEF Adopt, GiveUpWaiting, TakeDirectly
  <2>2. \A a \in Runs : phase'[a] = "building" <=> phase[a] = "building"
    BY <1>0, <1>1 DEF Adopt, GiveUpWaiting, TakeDirectly
  <2> QED
    BY <2>1, <2>2, ManifestElsewhere
<1>2. CASE Decline(b) \/ Stitch(b)
  <2>0. PICK verdict \in Gone : Leave(b, verdict)
    BY <1>2 DEF Decline, Stitch, Gone
  <2>1. phase[b] # "building" /\ UNCHANGED <<manifest, files, aborted>>
    BY <1>2 DEF Decline, Stitch
  <2>2. UNCHANGED build
    BY <2>0, <2>1, LeavingIdle
  <2>3. \A a \in Runs : phase'[a] = "building" <=> phase[a] = "building"
    BY <1>0, <2>0, <2>1 DEF Leave, Gone
  <2> QED
    BY <2>1, <2>2, <2>3, ManifestElsewhere
<1>3. QED
  BY <1>1, <1>2, BeginKeeps, TaskKeeps, JoinKeeps, AbortKeeps, FinishKeeps, StopKeeps, DieKeeps
     DEF Process, Shell, Interrupt

LEMMA ManifestStep ==
    ASSUME OwnerInv, ManifestInv, [AudioNext]_audioVars
    PROVE  ManifestInv'
<1>0. phase \in [Runs -> Phases]
  BY DEF OwnerInv, Domains
<1>1. ASSUME UNCHANGED <<phase, manifest, files, build, aborted>>
      PROVE  ManifestInv'
  BY <1>1, ManifestElsewhere
<1>2. ASSUME NEW r \in Children, Request(r)
      PROVE  ManifestInv'
  <2>1. CASE HandOff(r) \/ FailToPublish(r)
    <3>1. phase[r] # "building"
      BY <2>1 DEF HandOff, FailToPublish, Step, OwnerInv, OneOwner, Holding, Live, Runs
    <3>2. UNCHANGED <<manifest, files, build, aborted>>
      BY <2>1 DEF HandOff, FailToPublish
    <3>3. \A a \in Runs : phase'[a] = "building" <=> phase[a] = "building"
      BY <1>0, <2>1, <3>1 DEF HandOff, FailToPublish, Runs
    <3> QED
      BY <3>2, <3>3, ManifestElsewhere
  <2>2. CASE \/ Lock(r) \/ Prepare(r) \/ RefuseRequest(r) \/ Publish(r) \/ Register(r) \/ Unlock(r)
    BY <1>1, <2>2 DEF Lock, Prepare, RefuseRequest, Publish, Register, Unlock, buildVars
  <2> QED
    BY <1>2, <2>1, <2>2 DEF Request
<1>3. ASSUME NEW r \in Children, Watching(r)
      PROVE  ManifestInv'
  <2>1. CASE ForceStop(r)
    BY <2>1, DieKeeps DEF ForceStop, Runs
  <2>2. CASE \/ SeeExit(r) \/ SeeCancel(r) \/ SeeCancelled(r)
             \/ Settle(r) \/ SettleFails(r) \/ Unregister(r)
    BY <1>1, <2>2 DEF SeeExit, SeeCancel, SeeCancelled, Settle, SettleFails, Unregister, buildVars
  <2> QED
    BY <1>3, <2>1, <2>2 DEF Watching
<1>4. CASE Cancel \/ CancelLook \/ CancelSettle \/ ClerkLock \/ Clerking \/ Restart
  BY <1>1, <1>4 DEF Cancel, CancelLook, CancelSettle, ClerkLock, Clerking, ClerkScan, ClerkLeave,
     Restart, buildVars
<1>5. CASE UNCHANGED audioVars
  BY <1>1, <1>5 DEF audioVars
<1>6. CASE \E b \in Runs : (Process(b) \/ Shell(b) \/ Die(b)) /\ UNCHANGED deskVars
  BY <1>6, RunKeepsManifest
<1>7. CASE \E b \in Runs : SeeMarker(b)
  BY <1>7, RunKeepsManifest DEF SeeMarker
<1> QED
  BY <1>2, <1>3, <1>4, <1>5, <1>6, <1>7 DEF AudioNext

\* The invariant of the manifest, the files and the builds.
THEOREM ManifestInvariantHolds == AudioSpec => [](OwnerInv /\ ManifestInv)
<1>1. AudioInit => OwnerInv /\ ManifestInv
  BY OwnerInit, ManifestInit
<1>2. OwnerInv /\ ManifestInv /\ [AudioNext]_audioVars => (OwnerInv /\ ManifestInv)'
  BY OwnerStep, ManifestStep
<1> QED
  BY <1>1, <1>2, PTL DEF AudioSpec

\* Whenever no run is at work the manifest names no audio that is not there
\* and, unless a run was killed or cancelled, all that is (builder.rs).
THEOREM ManifestsAreExact == AudioSpec => []QuietManifestIsExact
<1>1. OwnerInv /\ ManifestInv => QuietManifestIsExact
  BY DEF ManifestInv, FilesFollow, QuietManifestIsExact
<1> QED
  BY <1>1, ManifestInvariantHolds, PTL

\* No retry and no rerun pays again for a chunk whose audio is there, unless a
\* run was killed or cancelled (builder.rs, audiobook.rs).
THEOREM NothingIsPaidAgain == AudioSpec => []NothingPaidAgain
<1>1. ASSUME ManifestInv, ~aborted, NEW b \in Runs, NEW c \in Chunks, build[b].task[c] = "asked"
      PROVE  c \notin files
  <2>1. phase[b] = "building"
    BY <1>1, IdleIsOrdered DEF ManifestInv, IdleOutsideBuild
  <2> QED
    BY <1>1, <2>1 DEF ManifestInv, FilesFollow, Follows
<1>2. OwnerInv /\ ManifestInv => NothingPaidAgain
  BY <1>1 DEF NothingPaidAgain
<1> QED
  BY <1>2, ManifestInvariantHolds, PTL

=============================================================================
