--------------------------- MODULE MCTrackingSync ---------------------------
(* Instances of TrackingSync for TLC. *)
EXTENDS TrackingSync, TLC

CONSTANTS d1, d2, t1, t2, q1, s1, s2

FirstDevice == [t \in Tabs |-> d1]
OwnDevice == [t \in Tabs |-> IF t = t1 THEN d1 ELSE d2]
OnePathOnly == [s \in TimerIds |-> q1]
OfFirst == [s \in TimerIds |-> d1]
OfEach == [s \in TimerIds |-> IF s = s1 THEN d1 ELSE d2]
Starts == [s \in TimerIds |-> IF s = s1 THEN 0 ELSE 1]
IdOrder == [s \in TimerIds |-> IF s = s1 THEN 1 ELSE 2]
Exact == {0}

Symmetric == Permutations(Activities)
=============================================================================
