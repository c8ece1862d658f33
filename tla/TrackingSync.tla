---------------------------- MODULE TrackingSync ----------------------------
(***************************************************************************)
(* The devices of one account (OfflineTracking) and the server's timers of *)
(* one Path (TimerRegistry), over a network that delays, repeats and loses *)
(* requests and loses answers.  A device's request carries its operation   *)
(* ID as the idempotency key; the server keeps the outcome of each key.    *)
(*                                                                         *)
(* A request that was sent may arrive at any later time, also after its    *)
(* tab gave up on it or was closed; one that was answered before answers   *)
(* from the replay table and the present row of its timer.                 *)
(***************************************************************************)
EXTENDS OfflineTracking, FiniteSets

CONSTANTS
    Account,       \* the participant
    Activities,    \* recorded activity IDs
    Rank,          \* the order of timer IDs
    Lifecycle,     \* the lifecycle operations of an instance
    Skews          \* device clock minus server clock

VARIABLES
    now, archivedAt, role, joinedAt, started, running, registry, startRows,
    stopRows, entries, notices, erased,
    sent,          \* requests on their way that no arrival has settled
    keys           \* offline_timer_replay_models

R == INSTANCE TimerRegistry WITH
        Participants <- {Account}, Offline <- TimerIds, Online <- {},
        Legacy <- {}, Owner <- [s \in TimerIds |-> Account]

serverVars == <<now, archivedAt, role, joinedAt, started, running, registry,
                startRows, stopRows, entries, notices, erased>>
syncVars == <<deviceVars, serverVars, sent, keys>>

ASSUME OnePath == \E p \in Paths : Paths = {p}

(* What TimerRegistry assumes of its constants, and that None, the absence   *)
(* of a command, a timer or a result, is none of the values beside it.       *)
ASSUME SyncAssumption ==
    /\ Rank \in [TimerIds -> Nat]
    /\ \A s, t \in TimerIds : Rank[s] = Rank[t] => s = t
    /\ Lifecycle \subseteq {"archive", "delete", "leave", "roles"}
    /\ Second # 0
    /\ None \notin Reasons \cup TimerIds \cup Activities \cup Nat \cup R!StopRows \cup R!Entries
                    \cup [start : Instants, end : Instants]

----------------------------------------------------------------------------
(* SynchronizeTimer, from request to answer *)

Request(op, live) == [op |-> op, live |-> live]

CommandOf(m) ==
    R!Command(m.op.kind, m.op.session,
              IF m.op.kind = "correct" THEN m.op.start
              ELSE StartedAt[m.op.session],
              m.op.end, m.live)

Used(op) == \E k \in keys : k.op = op
Kept(op) == (CHOOSE k \in keys : k.op = op).outcome

(* applyOfflineTimer's outcome of a fresh command: a stop that the archive *)
(* instant cuts is archived, a settled session answers accepted.           *)
Outcome(c) ==
    LET row == R!Loaded(c.session)
        pending == row.outcome = "archive_pending"
        cutoff == IF pending THEN row.terminal ELSE R!Cutoff(row)
        cut == /\ c.kind # "start"
               /\ pending \/ R!Open(row)
               /\ cutoff # None /\ c.end > cutoff
    IN  IF cut THEN "archived" ELSE "accepted"

(* offlineCurrentResult, as apiTrackingSync passes it on. *)
AnswerOf(outcome, row) ==
    LET verdict == IF row.outcome \in {"conflict", "archived"} THEN row.outcome
                   ELSE outcome
        accepted == verdict = "accepted"
    IN  Answer(IF accepted THEN None ELSE verdict,
               row.activity # None /\ verdict # "conflict",
               accepted /\ row.outcome \in R!TerminalOutcomes,
               accepted /\ row.outcome \in {"archive_pending", "archive_waiting"})

(* A fresh key: the command is applied and its outcome kept. *)
Apply(m) ==
    LET c == CommandOf(m)
    IN  /\ ~Used(m.op)
        /\ \E a \in Activities : R!Synchronize(c, a)
        /\ keys' = keys \cup {[op |-> m.op, outcome |-> Outcome(c)]}
        /\ sent' = {n \in sent : n.op # m.op}

(* Refused before anything is written, in the order of the checks. *)
Refusal(c) ==
    IF R!Tracks(Account) /\ ~R!Timely(c) THEN "validation" ELSE "membership"

AnswerRefused(t, m) ==
    /\ ~R!Admitted(CommandOf(m))
    /\ Receive(t, Answer(Refusal(CommandOf(m)), FALSE, FALSE, FALSE))
    /\ UNCHANGED <<serverVars, sent, keys>>

AnswerAgain(t, m) ==
    /\ R!Admitted(CommandOf(m)) /\ Used(m.op)
    /\ Receive(t, AnswerOf(Kept(m.op), registry[m.op.session]))
    /\ UNCHANGED <<serverVars, sent, keys>>

AnswerFresh(t, m) ==
    /\ Apply(m)
    /\ Receive(t, AnswerOf(Outcome(CommandOf(m)), registry'[m.op.session]))

Deliver(t) ==
    /\ drain[t] # None
    /\ LET m == Request(drain[t].op, drain[t].running)
       IN  AnswerRefused(t, m) \/ AnswerAgain(t, m) \/ AnswerFresh(t, m)

(* The request arrives, but its answer reaches nobody. *)
DeliverUnheard ==
    /\ \E m \in sent : Apply(m)
    /\ UNCHANGED deviceVars

----------------------------------------------------------------------------
(* Devices *)

DeviceClock(e) == e - now \in Skews

Send(t) ==
    /\ Pick(t)
    /\ sent' = IF Used(drain'[t].op) THEN sent
               ELSE sent \cup {Request(drain'[t].op, drain'[t].running)}
    /\ UNCHANGED <<serverVars, keys>>

(* Active Paths of the participant, their totals and running timers. *)
Home ==
    LET shown == archivedAt = None /\ R!Tracks(Account)
        Recorded(s) == \E a \in R!EntriesOf(s) : R!Live(a)
    IN  [paths |-> IF shown THEN Paths ELSE {},
         counted |-> {s \in TimerIds : shown /\ Recorded(s)},
         timers |-> {s \in TimerIds : shown /\ R!Runs(s)}]

Command(t) ==
    \E s \in TimerIds :
      \/ DeviceClock(StartedAt[s]) /\ StartTimer(t, s)
      \/ \E e \in Instants : DeviceClock(e) /\ StopTimer(t, s, e)
      \/ \E b, e, clock \in Instants :
           DeviceClock(clock) /\ e <= clock /\ Correct(t, s, b, e)

Answered(t) == \E e \in Instants : DeviceClock(e) /\ Settle(t, e)

LocalStep(t) ==
    /\ \/ Command(t) \/ Answered(t) \/ GiveUp(t)
       \/ BeginRefresh(t) \/ ReadHome(t, Home) \/ RetainHome(t) \/ DropRefresh(t)
    /\ UNCHANGED <<serverVars, sent, keys>>

----------------------------------------------------------------------------
SyncInit ==
    /\ DeviceInit
    /\ started = StartedAt
    /\ R!Init
    /\ sent = {}
    /\ keys = {}

SyncNext ==
    \/ \E t \in Tabs : LocalStep(t) \/ Send(t) \/ Deliver(t)
    \/ DeliverUnheard
    \/ R!ServerStep /\ UNCHANGED <<deviceVars, sent, keys>>

SyncSpec == SyncInit /\ [][SyncNext]_syncVars

(* The replay worker tries again after every failure and connectivity      *)
(* returns again and again; the user and the server owe nothing.           *)
Replaying(t) ==
    /\ WF_syncVars(Send(t))
    /\ SF_syncVars(Deliver(t))
    /\ SF_syncVars(Answered(t) /\ UNCHANGED <<serverVars, sent, keys>>)

FairSync == SyncSpec /\ \A t \in Tabs : Replaying(t)

----------------------------------------------------------------------------
(* Properties *)

(* What the device adds to the server's totals is never in them already:   *)
(* neither a queued interval nor an acknowledged entry, whatever answers   *)
(* were lost and whichever refresh was adopted between ("a server read can *)
(* include a lost acknowledgement and double-count the local interval",    *)
(* offline-tracking.ts:288).                                               *)
CountedOnce ==
    \A d \in Devices :
      LET st == store[d]
      IN  st.counted \cap (st.unreflected \cup Pending(st) \cup st.timers) = {}

(* offline-tracking.test.ts:194: totals "include pending time exactly once *)
(* before and after acknowledgement and refresh".  Expected to fail: a     *)
(* replayed start brings the entry that archival recorded, and the stop it *)
(* orders is counted beside that entry.                                    *)
PendingOnce == \A d \in Devices : Pending(store[d]) \cap store[d].unreflected = {}

(* A session that its device no longer holds is settled at the server, or  *)
(* the device was told why not, or its data went with the membership.      *)
Told(s) ==
    LET st == store[Origin[s]]
    IN  \/ \E n \in st.notices : n.session = s
        \/ \E n \in st.notices :
             n.reason = "membership" /\ PathOf[n.session] = PathOf[s]
Accounted ==
    \A s \in begun : ~Held(store[Origin[s]], s) =>
      \/ registry[s].outcome \in R!TerminalOutcomes \cup {"archive_pending"}
      \/ s \in erased
      \/ Told(s)

(* The queue of every device drains, whatever the server does meanwhile:   *)
(* only sessions that wait for their user may stay.                        *)
Drained(d) ==
    \A op \in Queued(store[d]) : op.session \in store[d].corrections
QueueDrains == \A d \in Devices : []<>Drained(d)

(* specs/sync/offline.spec.md:167: the device "must plainly tell the user  *)
(* that a timer conflict was resolved", also when the loser was            *)
(* acknowledged before.  Expected to fail: a refresh drops the loser.      *)
ConflictIsTold ==
    \A s \in begun :
      registry[s].outcome = "conflict" /\ ~Held(store[Origin[s]], s) => Told(s)
=============================================================================
