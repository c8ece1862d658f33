--------------------------- MODULE SessionLedger ---------------------------
(***************************************************************************)
(* What timer synchronization promises for each session, whoever reports   *)
(* it, however often and in whatever order: it is settled once.            *)
(*                                                                         *)
(* An open session has no recorded time.  Archiving the Path may record a  *)
(* provisional entry, which the device's own stop may still correct or     *)
(* remove but not create.  Once settled, an entry can only disappear.      *)
(***************************************************************************)
EXTENDS Integers

CONSTANTS Sessions, Participants, Owner, Instants, None

VARIABLES verdict, entry

Intervals == [start : Instants, end : Instants]

LedgerTypeOK ==
    /\ verdict \in [Sessions -> {"open", "pending", "settled"}]
    /\ entry \in [Sessions -> Intervals \cup {None}]

Init ==
    /\ LedgerTypeOK
    /\ \A s \in Sessions : verdict[s] = "open" => entry[s] = None

(* Archival: a provisional verdict. *)
Pend(s) ==
    /\ verdict[s] = "open"
    /\ verdict'[s] = "pending"

(* The final verdict.  A pending session keeps an entry only if it has one.*)
Settle(s) ==
    /\ verdict[s] \in {"open", "pending"}
    /\ verdict'[s] = "settled"
    /\ verdict[s] = "pending" /\ entry[s] = None => entry'[s] = None

(* Deletion of the entry. *)
Drop(s) == verdict'[s] = verdict[s] /\ entry'[s] = None

Keep(s) == verdict'[s] = verdict[s] /\ entry'[s] = entry[s]

Advance == \A s \in Sessions : Keep(s) \/ Drop(s) \/ Pend(s) \/ Settle(s)

(* The data of one member goes, and with it what was known of sessions     *)
(* that only mutation records remembered.                                  *)
Erase(p) ==
    \A s \in Sessions :
      IF Owner[s] = p
      THEN entry'[s] = None /\ verdict'[s] \in {verdict[s], "open"}
      ELSE Keep(s)

Next == LedgerTypeOK' /\ (Advance \/ \E p \in Participants : Erase(p))

Spec == Init /\ [][Next]_<<verdict, entry>>
=============================================================================
