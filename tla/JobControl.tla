----------------------------- MODULE JobControl -----------------------------
(***************************************************************************)
(* Pause, resume and stop of one job: the control file that the CLI and    *)
(* the dashboard replace atomically, the PauseSignal shared by the tasks   *)
(* of a worker, the token that aborts its provider calls, and the two      *)
(* ControlFilePollers of a running worker (bookforge-cli/src/control.rs).  *)
(*                                                                         *)
(* The worker polls at its own boundaries and the watcher thread polls     *)
(* every 100 ms; both act on the same file, the same signal and the same   *)
(* job row.  A poll is two steps: it reads the file, checks the job row    *)
(* and swaps the signal; then, when the swap changed something, it records *)
(* the change in the job row.                                              *)
(***************************************************************************)
EXTENDS JobStore

CONSTANT Commands     \* commands the users of a run may give

ASSUME CommandsAssumption == Commands \subseteq {"pause", "resume", "stop"}

VARIABLES
    control,      \* the control file; "run" when there is none
    rewritten,    \* the file was replaced since the resume looked at it
    signal,       \* PauseSignal
    aborted,      \* stop_cancel_token is cancelled
    poll          \* where each poller is in its poll

controlVars == <<control, rewritten, signal, aborted, poll>>

Pollers   == {"worker", "watcher"}
PollSteps == {"off", "idle", "mark_paused", "mark_running", "mark_stopped", "polled"}

ControlTypeOK ==
    /\ control \in {"run", "pause", "resume", "stop"}
    /\ rewritten \in BOOLEAN
    /\ signal \in {"running", "paused", "stopped"}
    /\ aborted \in BOOLEAN
    /\ poll \in [Pollers -> PollSteps]

ControlInit ==
    /\ control = "run"
    /\ rewritten = FALSE
    /\ signal = "running"
    /\ aborted = FALSE
    /\ poll = [p \in Pollers |-> "off"]

-----------------------------------------------------------------------------
\* request_job_control: replace the file atomically.
Command(c) ==
    /\ c \in Commands
    /\ control' = c
    /\ rewritten' = TRUE
    /\ UNCHANGED <<vars, signal, aborted, poll>>

\* job_outcome_is_final: statuses a late pause or stop must not rewrite.
Final == {"succeeded", "needs_review", "failed"}

\* Where a finished poll leaves the poller: the worker goes on with its own
\* work, the watcher sleeps until its next tick.
Rest(p) == IF p = "worker" THEN "polled" ELSE "idle"

PollTo(p, s) == poll' = [poll EXCEPT ![p] = s]

\* A poll that finds the job stopped drags the signal along.
ObeyStoppedRow(p) ==
    /\ signal = "stopped" \/ job = "stopped"
    /\ signal' = "stopped"
    /\ PollTo(p, Rest(p)) /\ UNCHANGED aborted

PollPause(p) ==
    /\ control = "pause"
    /\ \/ /\ job \in Final
          /\ PollTo(p, Rest(p)) /\ UNCHANGED <<signal, aborted>>
       \/ job \notin Final /\ ObeyStoppedRow(p)
       \/ /\ job \notin Final \cup {"stopped"} /\ signal = "running"
          /\ signal' = "paused"
          /\ PollTo(p, "mark_paused") /\ UNCHANGED aborted
       \/ /\ job \notin Final \cup {"stopped"} /\ signal = "paused"
          /\ PollTo(p, Rest(p)) /\ UNCHANGED <<signal, aborted>>

PollResume(p) ==
    /\ control \in {"run", "resume"}
    /\ \/ ObeyStoppedRow(p)
       \/ /\ signal = "paused" /\ job # "stopped"
          /\ signal' = "running"
          /\ PollTo(p, "mark_running") /\ UNCHANGED aborted
       \/ /\ signal = "running" /\ job # "stopped"
          /\ PollTo(p, Rest(p)) /\ UNCHANGED <<signal, aborted>>

\* The boundary poller of a dispatch loop has no token to cancel (new); the
\* watcher and the finalize-stage poller have one (new_with_stop_cancel).  One
\* mutant lets a paused signal keep its state, the other does not record a stop.
PollStop_RunningOnly(p, hasToken) ==
    /\ control = "stop"
    /\ \/ /\ job \in Final \/ signal = "paused"
          /\ PollTo(p, Rest(p)) /\ UNCHANGED <<signal, aborted>>
       \/ /\ job \notin Final /\ signal # "paused"
          /\ aborted' = (aborted \/ hasToken)
          /\ signal' = "stopped"
          /\ PollTo(p, IF signal = "stopped" THEN Rest(p) ELSE "mark_stopped")

PollStop_SignalOnly(p, hasToken) ==
    /\ control = "stop"
    /\ aborted' = (aborted \/ hasToken)
    /\ signal' = "stopped"
    /\ PollTo(p, Rest(p))

PollStop(p, hasToken) ==
    /\ control = "stop"
    /\ \/ /\ job \in Final
          /\ PollTo(p, Rest(p)) /\ UNCHANGED <<signal, aborted>>
       \/ /\ job \notin Final
          /\ aborted' = (aborted \/ hasToken)
          /\ signal' = "stopped"
          /\ PollTo(p, IF signal = "stopped" THEN Rest(p) ELSE "mark_stopped")

Poll(p, hasToken) ==
    /\ poll[p] = "idle"
    /\ PollPause(p) \/ PollResume(p) \/ PollStop(p, hasToken)
    /\ UNCHANGED <<vars, control, rewritten>>

\* The row is written after the swap; another poller may act in between.
RecordPoll(p) ==
    /\ \/ poll[p] = "mark_paused"  /\ MarkJob("paused")
       \/ poll[p] = "mark_running" /\ MarkJob("running")
       \/ poll[p] = "mark_stopped" /\ MarkJobStopped
    /\ PollTo(p, Rest(p))
    /\ UNCHANGED <<control, rewritten, signal, aborted>>
=============================================================================
