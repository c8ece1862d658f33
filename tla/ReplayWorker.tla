---------------------------- MODULE ReplayWorker ----------------------------
(* The worker that drains a device's queue in the background: one run at a   *)
(* time, wake-ups that arrive while it runs, a delayed retry after a failure,*)
(* suspension and disposal.  An await is a step: between two of them anything*)
(* else may call in.                                                         *)

VARIABLES
    due,         \* a change was made that no run has looked at yet
    at,          \* where the run is; "idle" when pending is null
    again,       \* a wake-up arrived during the run
    timer,       \* a retry is scheduled (cancelRetry)
    paused, disposed

workerVars == <<due, at, again, timer, paused, disposed>>

WorkerTypeOK ==
    /\ due \in BOOLEAN /\ again \in BOOLEAN /\ timer \in BOOLEAN
    /\ paused \in BOOLEAN /\ disposed \in BOOLEAN
    /\ at \in {"idle", "replaying", "replayed", "settling", "ending"}
    /\ timer => ~again /\ at # "replaying"      \* no delay beside a run that looks

WorkerInit ==
    /\ due = FALSE /\ at = "idle" /\ again = FALSE /\ timer = FALSE
    /\ paused \in BOOLEAN /\ disposed = FALSE

-----------------------------------------------------------------------------
Barred == disposed \/ paused

(* wake: cancel the delay; run, or let the present run go round again.       *)
WakeBesideTimer ==
    /\ UNCHANGED timer
    /\ IF Barred THEN UNCHANGED <<at, again>>
       ELSE IF at = "idle" THEN at' = "replaying" /\ again' = FALSE
                           ELSE at' = at /\ again' = TRUE
WakeDelayed ==
    IF Barred
    THEN UNCHANGED <<at, again, timer>>
    ELSE IF at = "idle" THEN timer' = TRUE /\ UNCHANGED <<at, again>>
                        ELSE timer' = FALSE /\ at' = at /\ again' = TRUE
Wake ==
    IF Barred
    THEN UNCHANGED <<at, again, timer>>
    ELSE /\ timer' = FALSE
         /\ IF at = "idle" THEN at' = "replaying" /\ again' = FALSE
                           ELSE at' = at /\ again' = TRUE

(* The condition of the loop of run.                                         *)
LoopOrEnd(barred) ==
    IF again /\ ~barred THEN at' = "replaying" /\ again' = FALSE
                        ELSE at' = "ending" /\ again' = again

(* A command is queued, or a signal arrives that there may be work.          *)
Signal ==
    /\ due' = TRUE
    /\ Wake
    /\ UNCHANGED <<paused, disposed>>

(* The replay finds the queue empty.                                         *)
Replay ==
    /\ at = "replaying"
    /\ at' = "replayed" /\ due' = FALSE
    /\ UNCHANGED <<again, timer, paused, disposed>>

Replayed ==
    /\ at = "replayed"
    /\ IF ~Barred THEN at' = "settling" /\ again' = again ELSE LoopOrEnd(Barred)
    /\ UNCHANGED <<due, timer, paused, disposed>>

Settled ==
    /\ at = "settling"
    /\ LoopOrEnd(Barred)
    /\ UNCHANGED <<due, timer, paused, disposed>>

(* The replay or its settlement throws: a delayed retry, unless woken.       *)
Fails ==
    /\ at \in {"replaying", "settling"}
    /\ timer' = (timer \/ (~Barred /\ ~again))
    /\ LoopOrEnd(Barred)
    /\ UNCHANGED <<due, paused, disposed>>

(* TrackingReplaySuspended: the account may not replay at present.           *)
Suspended ==
    /\ at = "replaying"
    /\ paused' = TRUE /\ timer' = FALSE
    /\ LoopOrEnd(TRUE)
    /\ UNCHANGED <<due, disposed>>

(* The completion callback of the run.                                       *)
FinishForGood ==
    /\ at = "ending"
    /\ at' = "idle"
    /\ UNCHANGED <<due, again, timer, paused, disposed>>
Finish ==
    /\ at = "ending"
    /\ IF again /\ ~Barred
       THEN at' = "replaying" /\ again' = FALSE /\ timer' = FALSE
       ELSE at' = "idle" /\ UNCHANGED <<again, timer>>
    /\ UNCHANGED <<due, paused, disposed>>

RetryNow ==
    /\ timer
    /\ IF Barred
       THEN timer' = FALSE /\ UNCHANGED <<at, again>>
       ELSE Wake
    /\ UNCHANGED <<due, paused, disposed>>

Pause ==
    /\ ~paused
    /\ paused' = TRUE /\ timer' = FALSE
    /\ UNCHANGED <<due, at, again, disposed>>

(* setPaused(false) and the wake-up its callers add.                         *)
Resume ==
    /\ paused
    /\ paused' = FALSE
    /\ IF disposed
       THEN UNCHANGED <<at, again, timer>>
       ELSE /\ timer' = FALSE
            /\ IF at = "idle" THEN at' = "replaying" /\ again' = FALSE
                              ELSE at' = at /\ again' = TRUE
    /\ UNCHANGED <<due, disposed>>

Dispose ==
    /\ ~disposed
    /\ disposed' = TRUE /\ again' = FALSE /\ timer' = FALSE
    /\ UNCHANGED <<due, at, paused>>

-----------------------------------------------------------------------------
WorkerNext ==
    \/ Signal \/ Replay \/ Replayed \/ Settled \/ Fails \/ Suspended \/ Finish
    \/ RetryNow \/ Pause \/ Resume \/ Dispose

WorkerSpec == WorkerInit /\ [][WorkerNext]_workerVars

(* Promises settle, timers fire, the app comes to the foreground again, and  *)
(* not every replay fails.                                                   *)
WorkerFairness ==
    /\ WF_workerVars(Replayed \/ Settled \/ Finish) /\ WF_workerVars(RetryNow)
    /\ WF_workerVars(Resume) /\ SF_workerVars(Replay)
-----------------------------------------------------------------------------
(* A change is never left behind while the worker may run: a run will still  *)
(* look at the queue, or go round again, or a retry is scheduled; also for a *)
(* wake-up between the last look and the completion callback.                *)
NoLostWakeup ==
    due /\ ~Barred => at = "replaying" \/ (again /\ at # "idle") \/ timer

(* A disposed worker has nothing scheduled and starts nothing.               *)
DisposedStops ==
    [][disposed => ~timer' /\ (at' = "replaying" => at = "replaying")]_workerVars

(* With a replay that does not fail for ever, every change gets its replay.  *)
ChangesReplay == due ~> ~due \/ disposed
=============================================================================
