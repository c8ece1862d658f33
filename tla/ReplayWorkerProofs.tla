------------------------- MODULE ReplayWorkerProofs -------------------------
(* The safety of the background worker, for every interleaving of wake-ups,  *)
(* pauses, retries and disposal with the steps of a run.                     *)
EXTENDS ReplayWorker, TLAPS

(* A disposed worker has neither a retry nor a further round.                *)
Quiet == disposed => ~timer /\ ~again

WorkerInv == WorkerTypeOK /\ NoLostWakeup /\ Quiet

(* Initially nothing is due.                                                 *)
LEMMA WorkerInvInit == WorkerInit => WorkerInv
  BY DEF WorkerInit, WorkerInv, WorkerTypeOK, NoLostWakeup, Quiet

(* Every step, also one that does nothing, keeps the invariant: where a run  *)
(* stops looking, a round, a retry or a bar takes its place.                 *)
LEMMA WorkerInvStep == WorkerInv /\ [WorkerNext]_workerVars => WorkerInv'
  <1> SUFFICES ASSUME WorkerInv, [WorkerNext]_workerVars PROVE WorkerInv'
    OBVIOUS
  <1> USE DEF WorkerInv, WorkerTypeOK, NoLostWakeup, Quiet, Barred
  <1>1. CASE Signal
    BY <1>1 DEF Signal, Wake
  <1>2. CASE Replay
    BY <1>2 DEF Replay
  <1>3. CASE Replayed
    BY <1>3 DEF Replayed, LoopOrEnd
  <1>4. CASE Settled
    BY <1>4 DEF Settled, LoopOrEnd
  <1>5. CASE Fails
    BY <1>5 DEF Fails, LoopOrEnd
  <1>6. CASE Suspended
    BY <1>6 DEF Suspended, LoopOrEnd
  <1>7. CASE Finish
    BY <1>7 DEF Finish
  <1>8. CASE RetryNow
    BY <1>8 DEF RetryNow, Wake
  <1>9. CASE Pause
    BY <1>9 DEF Pause
  <1>10. CASE Resume
    BY <1>10 DEF Resume
  <1>11. CASE Dispose
    BY <1>11 DEF Dispose
  <1>12. CASE UNCHANGED workerVars
    BY <1>12 DEF workerVars
  <1>13. QED
    BY <1>1, <1>2, <1>3, <1>4, <1>5, <1>6, <1>7, <1>8, <1>9, <1>10, <1>11, <1>12 DEF WorkerNext

(* The invariant holds in every behaviour.                                   *)
LEMMA WorkerInvariant == WorkerSpec => []WorkerInv
  BY WorkerInvInit, WorkerInvStep, PTL DEF WorkerSpec

(* No change waits for a wake-up that was already used up.                   *)
THEOREM WorkerNeverLosesAWakeup == WorkerSpec => []NoLostWakeup
  BY WorkerInvariant, PTL DEF WorkerInv

(* A step of a disposed worker schedules and starts nothing.                 *)
LEMMA DisposedStep ==
    WorkerInv /\ [WorkerNext]_workerVars =>
        [disposed => ~timer' /\ (at' = "replaying" => at = "replaying")]_workerVars
  <1> SUFFICES ASSUME WorkerInv, WorkerNext, disposed
               PROVE ~timer' /\ (at' = "replaying" => at = "replaying")
    OBVIOUS
  <1> USE DEF WorkerInv, WorkerTypeOK, Quiet, Barred
  <1>1. CASE Signal \/ RetryNow
    BY <1>1 DEF Signal, RetryNow, Wake
  <1>2. CASE Replay
    BY <1>2 DEF Replay
  <1>5. CASE Settled
    BY <1>5 DEF Settled, LoopOrEnd
  <1>6. CASE Replayed
    BY <1>6 DEF Replayed, LoopOrEnd
  <1>3. CASE Fails \/ Suspended \/ Finish
    BY <1>3 DEF Fails, Suspended, Finish, LoopOrEnd
  <1>4. CASE Pause \/ Resume \/ Dispose
    BY <1>4 DEF Pause, Resume, Dispose
  <1>7. QED
    BY <1>1, <1>2, <1>3, <1>4, <1>5, <1>6 DEF WorkerNext

(* Disposal is final, whatever promise or timer settles after it.            *)
THEOREM WorkerStaysDisposed == WorkerSpec => DisposedStops
  BY WorkerInvariant, DisposedStep, PTL DEF WorkerSpec, DisposedStops
=============================================================================
