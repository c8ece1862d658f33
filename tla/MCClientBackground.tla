-------------------------- MODULE MCClientBackground --------------------------
(* Instances for TLC of what a client does in the background: ReplayWorker,  *)
(* NotificationHistory and the recovery of AccountDeletion on a native       *)
(* device.  They share no state: a behaviour plays one of them, its scene,   *)
(* and the others rest where nothing they are fair about is enabled.         *)
EXTENDS ReplayWorker, NotificationHistory, AccountDeletion

CONSTANTS v1, v2, d1, c1

VARIABLE scene

OneDevice == [c \in Clients |-> d1]

(* Two tabs that delete one notification ("tabs"), or one tab that deletes   *)
(* any ("list"), the older of which may be hidden.  Readings, and everything *)
(* hidden and shown again, are in MCOfflineTracking.                         *)
Mounted == {t \in Windows : own[t].active}
HistoryRest == HistoryInit /\ alive \cup coming = {} /\ Mounted = {}
Alone == Mounted = {v1} /\ alive \cup coming = Items
Both == Mounted = Windows /\ alive = {1} /\ coming \cup unread = {}
OlderHidden == hidden \subseteq {1}
NothingHides == hidden = {}

BackgroundInit ==
    \/ scene = "worker" /\ WorkerInit /\ HistoryRest /\ DeletionInit
    \/ scene = "list" /\ WorkerInit /\ ~paused /\ HistoryInit /\ Alone /\ DeletionInit
    \/ scene = "tabs" /\ WorkerInit /\ ~paused /\ HistoryInit /\ Both /\ DeletionInit
    \/ scene = "recovery" /\ WorkerInit /\ ~paused /\ HistoryRest /\ DeletionInit

BackgroundNext ==
    /\ UNCHANGED scene
    /\ \/ scene = "worker" /\ WorkerNext /\ UNCHANGED <<historyVars, deletionVars>>
       \/ /\ scene \in {"list", "tabs"} /\ HistoryNext
          /\ IF scene = "tabs" THEN NothingHides' ELSE OlderHidden'
          /\ UNCHANGED <<workerVars, deletionVars>>
       \/ scene = "recovery" /\ DeletionNext /\ UNCHANGED <<workerVars, historyVars>>

(* Each variable of the worker and of the notification history has its type. *)
BackgroundTypeOK == WorkerTypeOK /\ HistoryTypeOK

backgroundVars == <<scene, workerVars, historyVars, deletionVars>>

(* Where the deletion is played, the app is started again and its work goes  *)
(* on; what crashes and what a user begins is left to the premise of         *)
(* IntentClears.                                                             *)
BackgroundSpec ==
    /\ BackgroundInit /\ [][BackgroundNext]_backgroundVars
    /\ WorkerFairness /\ HistoryFairness
    /\ \A c \in Clients :
        /\ WF_deletionVars(scene = "recovery" /\ Work(c))
        /\ WF_deletionVars(scene = "recovery" /\ Begin(c, "prepare"))
=============================================================================
