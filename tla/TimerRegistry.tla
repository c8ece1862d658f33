--------------------------- MODULE TimerRegistry ---------------------------
(***************************************************************************)
(* The server side of timer synchronization: one Path of HourPaths, its    *)
(* running timers, the durable registry of timer identities and the        *)
(* recorded activity they end in.                                          *)
(*                                                                         *)
(* Every action is one database transaction.  Transactions of one          *)
(* participant on one Path exclude each other (the account and Path locks  *)
(* of offline.go and path_state.go), and archival takes the Path row       *)
(* exclusively, so a transaction is one step.  What is left open is the    *)
(* order: commands of several devices arrive late, repeated and mixed with *)
(* online calls, archival, membership changes and deletion.                *)
(*                                                                         *)
(* A session is a timer identity: one occurrence, known to a device by its *)
(* client ID and to the server by its canonical ID.  Both IDs and the      *)
(* identity hash that binds them are one value here; an ID with another    *)
(* occurrence is an idempotency conflict and changes nothing.              *)
(*                                                                         *)
(* A command with a used idempotency key is a replay or a conflict, and    *)
(* writes nothing either.  So the commands below are those with a fresh    *)
(* key, and the registry must not rely on keys: a device may repeat any    *)
(* command under a new one.  TrackingSync adds the replay table.           *)
(***************************************************************************)
EXTENDS Integers, FiniteSets

CONSTANTS
    Participants,   \* accounts that may hold a role on the Path
    Offline,        \* sessions a device starts on its own
    Online,         \* sessions whose identity the server issues
    Legacy,         \* online sessions of releases that had no registry
    Owner,          \* the participant of each session
    Rank,           \* the order of timer IDs, which breaks equal starts
    Activities,     \* recorded activity IDs
    Lifecycle,      \* the lifecycle operations of an instance
    Second,         \* clock units in a second
    MaxTime,        \* bound of every instant
    None            \* SQL NULL, and a row that does not exist

Sessions == Offline \cup Online
Instants == 0..MaxTime

ASSUME SessionsAssumption ==
    /\ Offline \cap Online = {}
    /\ Legacy \subseteq Online
    /\ Owner \in [Sessions -> Participants]
    /\ Rank \in [Sessions -> Nat]
    /\ \A s, t \in Sessions : Rank[s] = Rank[t] => s = t

ASSUME LifecycleAssumption ==
    Lifecycle \subseteq {"archive", "delete", "leave", "roles"}

ASSUME ClockAssumption == Second \in Nat \ {0} /\ MaxTime \in Nat

Outcomes == {"none", "active", "stopped", "conflict", "archived",
             "archive_pending", "archive_waiting"}
TerminalOutcomes == {"stopped", "conflict", "archived"}

VARIABLES
    now,          \* the server's clock
    archivedAt,   \* path_models.archived_at
    role,         \* path_membership_models.role, an administrator counting as
                  \* a participant; "none" without a row
    joinedAt,     \* path_membership_models.joined_at
    started,      \* the original start of each identity; None when not issued
    running,      \* running_timer_models: the session of each participant
    registry,     \* offline_timer_state_models
    startRows,    \* sessions with a timer.start row in activity_mutation_models
    stopRows,     \* results of the timer.stop rows in activity_mutation_models
    entries,      \* recorded activity; a deleted one stays with live = FALSE
    notices,      \* timer-start notifications created for each session
    erased        \* history: sessions whose running row went with member data

pathVars == <<now, archivedAt, role, joinedAt>>
timerVars == <<started, running, registry, startRows, stopRows, entries,
               notices, erased>>
vars == <<pathVars, timerVars>>

----------------------------------------------------------------------------
(* Rows *)

RegistryRows == [outcome : Outcomes, activity : Activities \cup {None},
                 terminal : Instants \cup {None}]
StopRows == [end : Instants \cup {None}, activity : Activities \cup {None}]
Entries == [session : Sessions, start : Instants, end : Instants,
            live : BOOLEAN]

ASSUME NoneAssumption ==
    None \notin Sessions \cup Activities \cup Nat \cup StopRows \cup Entries
                 \cup [start : Instants, end : Instants]

RowSwapped(outcome, activity, terminal) ==
    [outcome |-> outcome, activity |-> terminal, terminal |-> activity]
Row(outcome, activity, terminal) ==
    [outcome |-> outcome, activity |-> activity, terminal |-> terminal]
NoRow == Row("none", None, None)
ActiveRow == Row("active", None, None)

Known(s) == registry[s].outcome # "none"
Runs(s) == running[Owner[s]] = s
TracksWithAnyRole(p) == role[p] # "none"
Tracks(p) == role[p] = "participant"

TypeOK ==
    /\ now \in Instants
    /\ archivedAt \in Instants \cup {None}
    /\ role \in [Participants -> {"participant", "supporter", "none"}]
    /\ joinedAt \in [Participants -> Instants]
    /\ started \in [Sessions -> Instants \cup {None}]
    /\ running \in [Participants -> Sessions \cup {None}]
    /\ registry \in [Sessions -> RegistryRows]
    /\ startRows \subseteq Online
    /\ stopRows \in [Online -> StopRows \cup {None}]
    /\ entries \in [Activities -> Entries \cup {None}]
    /\ notices \in [Sessions -> Nat]
    /\ erased \subseteq Sessions

----------------------------------------------------------------------------
(* Time and the rules of domain/activity *)

(* RunningTimer.Stop saves nothing below one whole second. *)
Saves(start, end) == end - start >= Second

(* OfflineTimerWinner: the later start, then the greater ID. *)
BeatsOrTies(s, t) == started[s] >= started[t]
Beats(s, t) ==
    \/ started[s] > started[t]
    \/ started[s] = started[t] /\ Rank[s] > Rank[t]

Cut(end, cutoff) == IF cutoff # None /\ end > cutoff THEN cutoff ELSE end

(* ResolveOfflineStop: nothing is left of a session from after the cutoff. *)
Refused(start, cutoff) == cutoff # None /\ start >= cutoff

NewEntry(s, start, end) ==
    [session |-> s, start |-> start, end |-> end, live |-> TRUE]

(* persistCompletedActivity, for a session that saves. *)
Persist(a, s, start, end) ==
    IF Saves(start, end)
    THEN /\ entries[a] = None
         /\ entries' = [entries EXCEPT ![a] = NewEntry(s, start, end)]
    ELSE UNCHANGED entries

SavedAs(a, start, end) == IF Saves(start, end) THEN a ELSE None

Removed(es, dead) ==
    [a \in Activities |-> IF a \in dead THEN [es[a] EXCEPT !.live = FALSE]
                                        ELSE es[a]]

(* activity_id REFERENCES recorded_activity_models ON DELETE SET NULL *)
UnlinkedByCascade(reg, dead) ==
    [s \in Sessions |-> IF reg[s].activity \in dead THEN NoRow ELSE reg[s]]
Unlinked(reg, dead) ==
    [s \in Sessions |-> IF reg[s].activity \in dead
                        THEN [reg[s] EXCEPT !.activity = None] ELSE reg[s]]

----------------------------------------------------------------------------
(* The identity a command works on *)

(* registerOnlineTimer keeps an existing row. *)
Registered(s) == IF Known(s) THEN registry[s] ELSE ActiveRow

(* adoptLegacyTerminalTimer: a start row without an active timer is over. *)
LegacyReopened(s) == ActiveRow
LegacyRow(s) ==
    IF stopRows[s] = None THEN Row("stopped", None, None)
    ELSE Row("stopped", stopRows[s].activity, stopRows[s].end)

(* Registration, load, adoption and, for a new identity, creation. *)
NewUnregistered(s) == ~Known(s)
New(s) == ~Known(s) /\ ~Runs(s) /\ s \notin startRows
Loaded(s) ==
    IF ~Known(s) /\ ~Runs(s) /\ s \in startRows THEN LegacyRow(s)
    ELSE Registered(s)

(* An identity that a command can still settle. *)
OpenPending(row) ==
    row.outcome \in {"active", "archive_waiting", "archive_pending"}
OpenConflict(row) == row.outcome \in {"active", "archive_waiting", "conflict"}
Open(row) == row.outcome \in {"active", "archive_waiting"}

(* The archive instant that cuts a session: the first one decided for it.  *)
CutoffOfPath(row) == archivedAt
Cutoff(row) ==
    IF row.outcome = "archive_waiting" THEN row.terminal ELSE archivedAt

----------------------------------------------------------------------------
(* Commands: what a device can send.  A start or a stop carries the        *)
(* original start; a correction carries a reviewed one.                    *)

Command(kind, s, start, end, notify) ==
    [kind |-> kind, session |-> s, start |-> start, end |-> end,
     notify |-> notify]

(* An online ID reaches a device once the server has shown its timer. *)
Visible(s) ==
    started[s] # None /\ (s \in Offline \cup Legacy \/ Known(s))

Commands ==
    LET seen == {s \in Sessions : Visible(s)}
    IN  {Command("start", s, started[s], None, n) : s \in seen, n \in BOOLEAN}
        \cup {Command("stop", s, started[s], e, FALSE) :
                s \in seen, e \in Instants}
        \cup {Command("correct", s, b, e, FALSE) :
                s \in seen, b \in Instants, e \in Instants}

(* The checks of Service and Repository before any write. *)
Timely(c) ==
    /\ c.start <= now
    /\ c.kind # "start" => c.end > c.start /\ c.end <= now
Authorized(c) ==
    Tracks(Owner[c.session]) /\ c.start >= joinedAt[Owner[c.session]]
Admitted(c) == Timely(c) /\ Authorized(c)

SetRow(s, row) == registry' = [registry EXCEPT ![s] = row]

----------------------------------------------------------------------------
(* SynchronizeTimer, one action for each way through applyOfflineTimer *)

Announce(c) ==
    notices' = IF c.kind = "start" /\ c.notify /\ New(c.session)
               THEN [notices EXCEPT ![c.session] = @ + 1] ELSE notices

(* A terminal session stays as it is.  So does an acknowledged one whose   *)
(* timer archival has stopped, until its stop arrives.                     *)
SyncSettled(c) ==
    LET row == Loaded(c.session)
    IN  /\ Admitted(c)
        /\ \/ row.outcome \in TerminalOutcomes
           \/ row.outcome = "archive_pending" /\ c.kind = "start"
        /\ SetRow(c.session, row)
        /\ UNCHANGED <<pathVars, started, running, startRows, stopRows,
                       entries, notices, erased>>

(* reconcileArchivedOfflineTimer: archival stopped the timer first; the    *)
(* stop now corrects that same entry, or removes it.                       *)
SyncReconcile(c) ==
    LET s == c.session
        row == Loaded(s)
        end == Cut(c.end, row.terminal)
        keeps == /\ row.activity # None
                 /\ ~Refused(c.start, row.terminal) /\ Saves(c.start, end)
    IN  /\ Admitted(c)
        /\ row.outcome = "archive_pending" /\ c.kind # "start"
        /\ SetRow(s, Row("stopped", IF keeps THEN row.activity ELSE None,
                         row.terminal))
        /\ entries' =
              IF row.activity = None THEN entries
              ELSE IF keeps
              THEN [entries EXCEPT ![row.activity] = NewEntry(s, c.start, end)]
              ELSE Removed(entries, {row.activity})
        /\ UNCHANGED <<pathVars, started, running, startRows, stopRows,
                       notices, erased>>

(* The session starts at or after the archive instant. *)
SyncRefused(c) ==
    LET row == Loaded(c.session)
    IN  /\ Admitted(c)
        /\ Open(row)
        /\ Refused(c.start, Cutoff(row))
        /\ SetRow(c.session, [row EXCEPT !.outcome = "archived"])
        /\ UNCHANGED <<pathVars, started, running, startRows, stopRows,
                       entries, notices, erased>>

(* A start from before the archive instant waits for the device's stop. *)
SyncStartWaits(c) ==
    LET row == Loaded(c.session)
    IN  /\ Admitted(c) /\ c.kind = "start"
        /\ Open(row)
        /\ Cutoff(row) # None /\ ~Refused(c.start, Cutoff(row))
        /\ SetRow(c.session, [row EXCEPT !.outcome = "archive_waiting",
                                         !.terminal = Cutoff(row)])
        /\ UNCHANGED <<pathVars, started, running, startRows, stopRows,
                       entries, notices, erased>>

(* A live start on an active Path. *)
StartsLive(c) ==
    /\ Admitted(c) /\ c.kind = "start"
    /\ Loaded(c.session).outcome = "active"
    /\ archivedAt = None

SyncStartRuns(c) ==
    LET s == c.session
    IN  /\ StartsLive(c)
        /\ running[Owner[s]] \in {None, s}
        /\ running' = [running EXCEPT ![Owner[s]] = s]
        /\ SetRow(s, Loaded(s))
        /\ Announce(c)
        /\ UNCHANGED <<pathVars, started, startRows, stopRows, entries, erased>>

SyncStartLoses(c) ==
    LET s == c.session
        current == running[Owner[s]]
    IN  /\ StartsLive(c)
        /\ current \notin {None, s} /\ ~Beats(s, current)
        /\ SetRow(s, [Loaded(s) EXCEPT !.outcome = "conflict"])
        /\ UNCHANGED <<pathVars, started, running, startRows, stopRows,
                       entries, notices, erased>>

SyncStartWins(c) ==
    LET s == c.session
        current == running[Owner[s]]
        loser == [Registered(current) EXCEPT !.outcome = "conflict"]
    IN  /\ StartsLive(c)
        /\ current \notin {None, s} /\ Beats(s, current)
        /\ running' = [running EXCEPT ![Owner[s]] = s]
        /\ registry' = [registry EXCEPT ![current] = loser, ![s] = Loaded(s)]
        /\ Announce(c)
        /\ UNCHANGED <<pathVars, started, startRows, stopRows, entries, erased>>

(* A stop or a correction of a session that is not settled.  It stops only *)
(* its own timer, whether or not the server has that timer running.        *)
SyncStop(c, a) ==
    LET s == c.session
        p == Owner[s]
        row == Loaded(s)
        cutoff == Cutoff(row)
        end == Cut(c.end, cutoff)
        saved == SavedAs(a, c.start, end)
    IN  /\ Admitted(c) /\ c.kind # "start"
        /\ Open(row)
        /\ ~Refused(c.start, cutoff)
        /\ Persist(a, s, c.start, end)
        /\ running' = [running EXCEPT ![p] = IF @ = s THEN None ELSE @]
        /\ SetRow(s, Row("stopped", IF saved = None THEN row.activity ELSE saved,
                         c.end))
        /\ UNCHANGED <<pathVars, started, startRows, stopRows, notices, erased>>

Synchronize(c, a) ==
    \/ SyncSettled(c) \/ SyncReconcile(c) \/ SyncRefused(c)
    \/ SyncStartWaits(c) \/ SyncStartRuns(c)
    \/ SyncStartLoses(c) \/ SyncStartWins(c)
    \/ SyncStop(c, a)

----------------------------------------------------------------------------
(* Online calls: the Path must be active and the caller a participant *)

Active(p) == archivedAt = None /\ Tracks(p)

(* The session is the request: its key is reserved together with its ID.   *)
FreshRequest(s) ==
    s \in Online \ Legacy /\ started[s] = None /\ s \notin startRows

StartTimer(s) ==
    /\ FreshRequest(s) /\ Active(Owner[s])
    /\ running[Owner[s]] = None
    /\ started' = [started EXCEPT ![s] = now]
    /\ running' = [running EXCEPT ![Owner[s]] = s]
    /\ registry' = [registry EXCEPT ![s] = Registered(s)]
    /\ startRows' = startRows \cup {s}
    /\ notices' = [notices EXCEPT ![s] = @ + 1]
    /\ UNCHANGED <<pathVars, stopRows, entries, erased>>

(* A timer is running already: the reservation stays, so that a delayed    *)
(* retry of this request starts nothing.                                   *)
StartTimerConflict(s) ==
    /\ FreshRequest(s) /\ Active(Owner[s])
    /\ running[Owner[s]] # None
    /\ startRows' = startRows \cup {s}
    /\ UNCHANGED <<pathVars, started, running, registry, stopRows,
                   entries, notices, erased>>

(* settleOfflineTimer *)
SettledUnlinked(s, outcome, saved, end) ==
    IF Registered(s).outcome = "active" THEN Row(outcome, None, end)
    ELSE Registered(s)
SettledNever(s, outcome, saved, end) == Registered(s)
SettledRow(s, outcome, saved, end) ==
    IF Registered(s).outcome = "active" THEN Row(outcome, saved, end)
    ELSE Registered(s)

(* The running timer of a participant ends now with its activity saved.    *)
EndRunning(p, a) ==
    LET s == running[p]
    IN  /\ s # None
        /\ started[s] <= now
        /\ Persist(a, s, started[s], now)
        /\ running' = [running EXCEPT ![p] = None]
        /\ registry' = [registry EXCEPT ![s] =
              SettledRow(s, "stopped", SavedAs(a, started[s], now), now)]

StopTimer(p, a) ==
    LET s == running[p]
    IN  /\ Active(p)
        /\ EndRunning(p, a)
        /\ stopRows' =
              IF s \in Online
              THEN [stopRows EXCEPT ![s] =
                     [end |-> now, activity |-> SavedAs(a, started[s], now)]]
              ELSE stopRows
        /\ UNCHANGED <<pathVars, started, startRows, notices, erased>>

(* The stop rows that name a deleted activity lose their result. *)
Scrubbed(rows, dead) ==
    [s \in Online |-> IF rows[s] # None /\ rows[s].activity \in dead
                      THEN [end |-> None, activity |-> None] ELSE rows[s]]

DeleteActivity(a) ==
    /\ entries[a] # None /\ entries[a].live
    /\ Active(Owner[entries[a].session])
    /\ entries' = Removed(entries, {a})
    /\ registry' = Unlinked(registry, {a})
    /\ stopRows' = Scrubbed(stopRows, {a})
    /\ UNCHANGED <<pathVars, started, running, startRows, notices,
                   erased>>

----------------------------------------------------------------------------
(* Path and membership lifecycle *)

(* StopPathTimersForArchive ends every running timer at one instant.  A    *)
(* timer that starts after that instant would abort the transaction.       *)
Archive(ids) ==
    LET stopping == {p \in Participants : running[p] # None}
        saving == {p \in stopping : Saves(started[running[p]], now)}
    IN  /\ archivedAt = None
        /\ \A p \in stopping : started[running[p]] <= now
        /\ \A p \in saving : entries[ids[p]] = None
        /\ \A p, q \in saving : ids[p] = ids[q] => p = q
        /\ archivedAt' = now
        /\ running' = [p \in Participants |-> None]
        /\ registry' = [s \in Sessions |->
              IF Runs(s)
              THEN SettledRow(s, "archive_pending",
                              SavedAs(ids[Owner[s]], started[s], now), now)
              ELSE registry[s]]
        /\ entries' = [a \in Activities |->
              IF \E p \in saving : ids[p] = a
              THEN LET s == running[CHOOSE p \in saving : ids[p] = a]
                   IN  NewEntry(s, started[s], now)
              ELSE entries[a]]
        /\ UNCHANGED <<now, role, joinedAt, started, startRows,
                       stopRows, notices, erased>>

Restore ==
    /\ archivedAt # None
    /\ archivedAt' = None
    /\ UNCHANGED <<now, role, joinedAt, timerVars>>

(* The database functions that delete a member's data on the Path: running *)
(* timer, mutation rows and recorded activity.  The offline registry and   *)
(* its replays are left as they are.                                       *)
EraseMemberData(p) ==
    LET dead == {a \in Activities : /\ entries[a] # None
                                    /\ Owner[entries[a].session] = p}
        mine == {s \in Sessions : Owner[s] = p}
    IN  /\ running' = [running EXCEPT ![p] = None]
        /\ entries' = Removed(entries, dead)
        /\ registry' = Unlinked(registry, dead)
        /\ startRows' = startRows \ mine
        /\ stopRows' = [s \in Online |-> IF s \in mine THEN None ELSE stopRows[s]]
        /\ erased' = erased \cup ({running[p]} \ {None})
        /\ UNCHANGED <<now, archivedAt, started, notices>>

LeaveRetaining(p, a) ==
    /\ Active(p)
    /\ IF running[p] = None THEN UNCHANGED <<running, registry, entries>>
       ELSE EndRunning(p, a)
    /\ role' = [role EXCEPT ![p] = "none"]
    /\ UNCHANGED <<now, archivedAt, joinedAt, started, startRows,
                   stopRows, notices, erased>>

(* Removal by a manager, leaving without the activity, and any leaving of  *)
(* a supporter.                                                            *)
RemoveMember(p) ==
    /\ archivedAt = None /\ role[p] # "none"
    /\ role' = [role EXCEPT ![p] = "none"]
    /\ IF Tracks(p) THEN EraseMemberData(p)
       ELSE UNCHANGED <<now, archivedAt, timerVars>>
    /\ UNCHANGED joinedAt

(* ChangeMemberRole keeps the membership and its joined_at. *)
Demote(p) ==
    /\ Active(p)
    /\ role' = [role EXCEPT ![p] = "supporter"]
    /\ EraseMemberData(p)
    /\ UNCHANGED joinedAt

Promote(p) ==
    /\ archivedAt = None /\ role[p] = "supporter"
    /\ role' = [role EXCEPT ![p] = "participant"]
    /\ UNCHANGED <<now, archivedAt, joinedAt, timerVars>>

(* A new invitation is accepted: a new membership in the offered role. *)
Join(p, offered) ==
    /\ archivedAt = None /\ role[p] = "none"
    /\ role' = [role EXCEPT ![p] = offered]
    /\ joinedAt' = [joinedAt EXCEPT ![p] = now]
    /\ UNCHANGED <<now, archivedAt, timerVars>>

Tick ==
    /\ now < MaxTime
    /\ now' = now + 1
    /\ UNCHANGED <<archivedAt, role, joinedAt, timerVars>>

----------------------------------------------------------------------------
(* Identities of releases before the registry: running, completed with or  *)
(* without an entry, or completed and deleted since.                       *)
OverOf(fate) == {s \in Legacy : fate[s] # "running"}
SavedOf(fate) == {s \in Legacy : fate[s] \in {"saved", "deleted"}}

LegacyStop(fate, id, end, s) ==
    CASE fate[s] = "deleted" -> [end |-> None, activity |-> None]
      [] fate[s] = "saved" -> [end |-> end[s], activity |-> id[s]]
      [] OTHER -> [end |-> end[s], activity |-> None]

LegacyEntry(fate, end, s) ==
    [NewEntry(s, started[s], end[s]) EXCEPT !.live = (fate[s] = "saved")]

LegacyState(fate, id, end) ==
    /\ \A s \in Legacy : started[s] \in 0..end[s] /\ end[s] <= now
    /\ \A s \in OverOf(fate) : s \in SavedOf(fate) <=> Saves(started[s], end[s])
    /\ \A s, t \in SavedOf(fate) : id[s] = id[t] => s = t
    /\ \A s, t \in Legacy \ OverOf(fate) : Owner[s] = Owner[t] => s = t
    /\ running = [p \in Participants |->
          IF \E s \in Legacy \ OverOf(fate) : Owner[s] = p
          THEN CHOOSE s \in Legacy \ OverOf(fate) : Owner[s] = p ELSE None]
    /\ startRows = Legacy
    /\ stopRows = [s \in Online |->
          IF s \in OverOf(fate) THEN LegacyStop(fate, id, end, s) ELSE None]
    /\ entries = [a \in Activities |->
          IF \E s \in SavedOf(fate) : id[s] = a
          THEN LegacyEntry(fate, end, CHOOSE s \in SavedOf(fate) : id[s] = a)
          ELSE None]

LegacyInit ==
    \E fate \in [Legacy -> {"running", "saved", "short", "deleted"}],
       id \in [Legacy -> Activities], end \in [Legacy -> Instants] :
      LegacyState(fate, id, end)

(* Device clocks are arbitrary, so the original start of an offline        *)
(* session is any instant.                                                 *)
Init ==
    /\ now \in Instants /\ (Legacy = {} => now = 0)
    /\ archivedAt = None
    /\ role = [p \in Participants |-> "participant"]
    /\ joinedAt = [p \in Participants |-> 0]
    /\ started \in [Sessions -> Instants \cup {None}]
    /\ \A s \in Sessions : started[s] = None <=> s \in Online \ Legacy
    /\ registry = [s \in Sessions |-> NoRow]
    /\ LegacyInit
    /\ notices = [s \in Sessions |-> IF s \in Legacy THEN 1 ELSE 0]
    /\ erased = {}

(* Whatever else happens at the server. *)
ServerStep ==
    \/ \E s \in Online : StartTimer(s) \/ StartTimerConflict(s)
    \/ \E p \in Participants, a \in Activities : StopTimer(p, a)
    \/ "delete" \in Lifecycle /\ \E a \in Activities : DeleteActivity(a)
    \/ /\ "archive" \in Lifecycle
       /\ Restore \/ \E ids \in [Participants -> Activities] : Archive(ids)
    \/ /\ "leave" \in Lifecycle
       /\ \E p \in Participants :
            \/ \E a \in Activities : LeaveRetaining(p, a)
            \/ RemoveMember(p)
            \/ \E offered \in {"participant", "supporter"} : Join(p, offered)
    \/ /\ "roles" \in Lifecycle
       /\ \E p \in Participants : Demote(p) \/ Promote(p)
    \/ Tick

Next ==
    \/ \E c \in Commands, a \in Activities : Synchronize(c, a)
    \/ ServerStep

Spec == Init /\ [][Next]_vars

----------------------------------------------------------------------------
(* Properties *)

Live(a) == entries[a] # None /\ entries[a].live
EntriesOf(s) == {a \in Activities : entries[a] # None /\ entries[a].session = s}

(* The running row and the registry agree: a running session is active (or *)
(* a legacy one nobody registered yet), and an active session runs unless  *)
(* its row went with a member's data.  Each is written by a different      *)
(* statement in offline.go, repository.go, path_archival.go, path_leave.go.*)
RunningIsActive ==
    /\ \A p \in Participants : running[p] # None =>
          /\ Owner[running[p]] = p
          /\ \/ registry[running[p]].outcome = "active"
             \/ running[p] \in Legacy /\ ~Known(running[p])
    /\ \A s \in Sessions :
          registry[s].outcome = "active" => Runs(s) \/ s \in erased

(* Nothing runs on an archived Path or for somebody who may not track. *)
RunningIsAllowed ==
    \A p \in Participants :
      running[p] # None => archivedAt = None /\ role[p] = "participant"

(* Whatever runs is known to the registry, and may run: every operation that *)
(* ends a membership, a role or an active Path settles the timers it ends.   *)
RunningFits == RunningIsActive /\ RunningIsAllowed

(* A session is recorded at most once, ever: not by a retry, not by a stop *)
(* that arrives after an online or archival stop, and not after its entry  *)
(* was deleted ("Never recreate it", offline.go).                          *)
RecordedOnce ==
    \A s \in Sessions \ Legacy : \A a, b \in EntriesOf(s) : a = b

(* The registry points at exactly the entry that exists: a delayed stop    *)
(* returns this entry (settleOfflineTimer), never one that is gone.        *)
RegistryNamesEntry ==
    \A s \in Sessions :
      /\ registry[s].activity # None =>
            Live(registry[s].activity) /\ registry[s].activity \in EntriesOf(s)
      /\ Known(s) => \A a \in EntriesOf(s) : Live(a) => registry[s].activity = a

(* A discarded session leaves no time behind: neither the loser of a timer *)
(* conflict nor a session refused by the archive instant has an entry.     *)
DiscardedHasNoEntry ==
    \A s \in Sessions :
      registry[s].outcome \in {"conflict", "archived", "archive_waiting"} =>
        \A a \in EntriesOf(s) : ~Live(a)

(* Whatever the order of arrival, each discarded session is beaten by one  *)
(* of its participant that was admitted and was not itself discarded.      *)
ConflictHasWinner ==
    \A s \in Sessions : registry[s].outcome = "conflict" =>
      \E t \in Sessions :
        /\ Owner[t] = Owner[s] /\ started[t] # None
        /\ \/ started[t] > started[s]
           \/ started[t] = started[s] /\ Rank[t] > Rank[s]
        /\ registry[t].outcome # "conflict"
        /\ Known(t) \/ t \in Legacy

(* One start notification for a session, whoever reports the start. *)
AnnouncedOnce == \A s \in Sessions : notices[s] <= 1

(* A settled session never opens again and never changes its verdict. *)
TerminalIsFinal ==
    [][\A s \in Sessions : registry[s].outcome \in TerminalOutcomes =>
          registry'[s].outcome = registry[s].outcome]_vars

(* A recorded entry is corrected only while archival left it pending, and  *)
(* never grows past the first archive instant decided for its session.     *)
CutoffIsKept ==
    [][\A s \in Sessions :
         /\ registry[s].outcome \in {"archive_pending", "archive_waiting"} =>
              /\ registry'[s].outcome # "active"
              /\ \A a \in EntriesOf(s)' : Live(a)' =>
                   entries'[a].end <= registry[s].terminal
         /\ registry[s].outcome \in TerminalOutcomes =>
              \A a \in EntriesOf(s) : Live(a)' => entries'[a] = entries[a]]_vars

(* The promise: every session settles once.  A session is settled when its *)
(* registry row is terminal, or when only mutation records know it as over.*)
Verdict ==
    [s \in Sessions |->
       IF Loaded(s).outcome \in TerminalOutcomes THEN "settled"
       ELSE IF Loaded(s).outcome = "archive_pending" THEN "pending" ELSE "open"]
LiveEntry ==
    [s \in Sessions |->
       LET live == {a \in EntriesOf(s) : Live(a)}
       IN  IF live = {} THEN None
           ELSE LET e == entries[CHOOSE a \in live : TRUE]
                IN  [start |-> e.start, end |-> e.end]]

Ledger == INSTANCE SessionLedger WITH verdict <- Verdict, entry <- LiveEntry

(* Every way through the registry is a step of the ledger, for online,     *)
(* offline and pre-registry sessions alike.                                *)
SettlesOnce == Ledger!Spec

(* specs/paths/membership.spec.md:220: a role change to supporter "must    *)
(* stop it and discard its elapsed time rather than save a final activity  *)
(* entry".  Expected to fail: the registry keeps the session active.       *)
DiscardedByRoleChange == \A s \in erased : EntriesOf(s) = {}
=============================================================================
