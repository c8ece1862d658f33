------------------------- MODULE MCOfflineTracking -------------------------
(* Instances for TLC of what an account has on one device: OfflineTracking,  *)
(* and NotificationHistory in one tab.  They share no state: a behaviour     *)
(* plays one of them, its scene, and the other rests.                        *)
EXTENDS OfflineTracking, NotificationHistory, FiniteSets, TLC

CONSTANTS d1, t1, t2, q1, q2, s1, s2, s3, v1

VARIABLE scene

(* A session on each of two Paths, and one of another device on the first.   *)
OneDevice == [t \in Tabs |-> d1]
TwoPaths == [s \in TimerIds |-> IF s = s2 THEN q2 ELSE q1]
TwoLocal == [s \in TimerIds |-> IF s = s3 THEN None ELSE d1]
Starts == [s \in TimerIds |-> IF s = s1 THEN 0 ELSE 1]

AnyTab == Permutations(Tabs)

(* Of what tabs have received, an answer or a read, one is held at a time:   *)
(* any may come at any moment and is looked at when it is saved, so it can   *)
(* come just before.  Refreshes and history are played with one tab, the     *)
(* first Path and one rejection, tabs and corrections without them.          *)
HeldOnce ==
    LET answered == {t \in Tabs : drain[t] # None /\ drain[t].answer # None}
        read == {t \in Tabs : refresh[t] # None /\ refresh[t].reply # None}
    IN  \/ answered = {} /\ Cardinality(read) <= 1
        \/ read = {} /\ Cardinality(answered) <= 1
OneTab ==
    \E t \in Tabs : \A u \in Tabs \ {t} : drain[u] = None /\ refresh[u] = None
OneSession == s2 \notin begun /\ \A s \in TimerIds : tries[s] = 0
OneRejection == \A m, n \in store[d1].notices : m = n
OnePath ==
    \A t \in Tabs : refresh[t] # None /\ refresh[t].reply # None =>
      LET reply == refresh[t].reply
      IN  q2 \in reply.paths /\ reply.counted \cap reply.timers = {}
OneOfThem ==
    /\ HeldOnce
    /\ reads = 0 \/ (OneTab /\ OneSession /\ OneRejection /\ OnePath)

(* Only differences of revisions are read, and of the current range only. *)
Relative ==
    <<[d \in Devices |->
          LET st == store[d] IN
          [st EXCEPT !.revision = 0,
                     !.range = IF RevisionRange(st) = None THEN None
                               ELSE [after |-> st.revision - @.after, through |-> 0]]],
      [t \in Tabs |-> IF refresh[t] = None THEN None
                      ELSE [refresh[t] EXCEPT !.expected = store[DeviceOf[t]].revision - @]],
      drain, begun, tries, reads, scene, historyVars>>

Mounted == {t \in Windows : own[t].active}
HistoryRest == HistoryInit /\ alive \cup coming = {} /\ Mounted = {}
HistoryPlays == HistoryInit /\ alive \cup coming = Items /\ Mounted = Windows

AccountInit ==
    \/ scene = "tracking" /\ DeviceInit /\ HistoryRest
    \/ scene = "list" /\ DeviceInit /\ HistoryPlays

AccountNext ==
    /\ UNCHANGED scene
    /\ \/ scene = "tracking" /\ DeviceNext /\ UNCHANGED historyVars
       \/ scene = "list" /\ HistoryNext /\ UNCHANGED deviceVars

AccountSpec == AccountInit /\ [][AccountNext]_<<scene, deviceVars, historyVars>>
=============================================================================
