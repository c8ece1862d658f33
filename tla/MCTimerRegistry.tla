-------------------------- MODULE MCTimerRegistry --------------------------
(* Instances of TimerRegistry for TLC. *)
EXTENDS TimerRegistry, TLC

CONSTANTS p1, o1, o2, n1, l1

OneOwner == [s \in Sessions |-> p1]
IdOrder ==
    [s \in Sessions |-> CASE s = o1 -> 2 [] s = n1 -> 3 [] s = l1 -> 1 [] OTHER -> 4]

Symmetric == Permutations(Activities)

(* The timer of an old release is used with the first device, up to the last *)
(* instant but one, or the two devices are used together while that timer    *)
(* rests, stopped without an entry.  Rank tells the devices apart only when  *)
(* their timers start together, so the second one starts no earlier.         *)
SecondDevice == Known(o2) \/ started[o2] # 0
OldRelease ==
    \/ Known(l1) \/ started[l1] # 0
    \/ stopRows[l1] # [end |-> 0, activity |-> None]

OneOfThem ==
    /\ SecondDevice => ~OldRelease /\ started[o1] <= started[o2]
    /\ OldRelease => now < MaxTime
=============================================================================
