-------------------------- MODULE OfflineTracking --------------------------
(***************************************************************************)
(* The durable tracking of packages/client-core on the devices of one      *)
(* account: the snapshot kept in the device's store, the commands of the   *)
(* user, the replay of queued operations and the refreshes of what the     *)
(* server knows.                                                           *)
(*                                                                         *)
(* A tab is one OfflineTracking object: an open page or application.  Tabs *)
(* of one device share its store.  Each change of the store compares and   *)
(* sets its revision and is applied to a fresh snapshot, so it is one      *)
(* step; what a tab read before a network call may be stale when it comes  *)
(* back.  The server is open here: it may give any answer and any read     *)
(* that the client's adapter admits.  TrackingSync puts the server in.     *)
(*                                                                         *)
(* A session is one timer occurrence; its client and server IDs and the    *)
(* activity it ends in are one value.  Retained history and the commands   *)
(* on recorded activity are left out, except that a saved history moves    *)
(* the revision.                                                           *)
(***************************************************************************)
EXTENDS Integers, Sequences

CONSTANTS
    Devices, Tabs,
    DeviceOf,      \* the device of each tab
    Paths,
    TimerIds,      \* the identity of each session
    PathOf,        \* the Path of each session
    Origin,        \* the device a session begins on; None for another client
    StartedAt,     \* the instant the device's clock shows at its start
    Second,        \* clock units in a second
    MaxTime,       \* bound of every instant
    MaxTries,      \* bound of the corrections of one session
    MaxReads,      \* bound of the refreshes and history writes
    None

Instants == 0..MaxTime

ASSUME TrackingAssumption ==
    /\ DeviceOf \in [Tabs -> Devices]
    /\ PathOf \in [TimerIds -> Paths]
    /\ Origin \in [TimerIds -> Devices \cup {None}]
    /\ StartedAt \in [TimerIds -> Instants]
    /\ {Second, MaxTime, MaxTries, MaxReads} \subseteq Nat
    /\ None \notin Devices \cup [after : Nat, through : Nat]

VARIABLES
    store,         \* the durable snapshot of each device
    drain,         \* the operation each tab is replaying, and its answer
    refresh,       \* the Home refresh of each tab
    begun,         \* history: sessions started on a device
    tries,         \* history: corrections made of each session
    reads          \* history: refreshes and history writes

deviceVars == <<store, drain, refresh, begun, tries, reads>>

----------------------------------------------------------------------------
(* The snapshot *)

(* A start has neither instant, a stop no start.  The operation ID is the  *)
(* record: only a correction can be made twice.                            *)
Operation(kind, s, start, end, try) ==
    [kind |-> kind, session |-> s, start |-> start, end |-> end, try |-> try]

Operations ==
    {Operation("start", s, None, None, 0) : s \in TimerIds}
    \cup {Operation("stop", s, None, e, 0) : s \in TimerIds, e \in Instants}
    \cup {Operation("correct", s, b, e, n) :
            s \in TimerIds, b \in Instants, e \in Instants, n \in 1..MaxTries}

Reasons == {"membership", "conflict", "archived", "validation"}
Notices == [session : TimerIds, reason : Reasons]

NewSnapshot ==
    [revision |-> 0, range |-> None, paths |-> Paths, unavailable |-> {},
     timers |-> {}, operations |-> <<>>, corrections |-> {}, notices |-> {},
     unreflected |-> {}, counted |-> {}]

On(p, sessions) == {s \in sessions : PathOf[s] = p}
Queued(st) == {st.operations[i] : i \in 1..Len(st.operations)}
QueuedFor(st, s) == {op \in Queued(st) : op.session = s}

(* The queue without some operations, in its order. *)
Without(st, gone) ==
    LET ops == st.operations
        kept[i \in 0..Len(ops)] ==
            IF i = 0 THEN <<>>
            ELSE IF ops[i] \in gone THEN kept[i - 1] ELSE Append(kept[i - 1], ops[i])
    IN  kept[Len(ops)]

(* What still counts on a Path besides its summary: acknowledged entries   *)
(* the summary lacks, and queued intervals.                                *)
Pending(st) == {op.session : op \in {o \in Queued(st) : o.kind # "start"}}

BusyUncorrected(st, p) == \E op \in Queued(st) : PathOf[op.session] = p
Busy(st, p) ==
    \/ \E op \in Queued(st) : PathOf[op.session] = p
    \/ On(p, st.corrections) # {}

----------------------------------------------------------------------------
(* Revisions.  A refresh in flight remembers, as history, whether anything *)
(* but downloaded history was written since it began.                      *)

RevisionRangeStale(st) == st.range
RevisionRange(st) ==
    IF st.range # None /\ st.range.through = st.revision THEN st.range ELSE None

Commit(d, st) ==
    /\ store' = [store EXCEPT ![d] = [st EXCEPT !.revision = st.revision + 1]]
    /\ refresh' = [t \in Tabs |->
          IF DeviceOf[t] = d /\ refresh[t] # None
          THEN [refresh[t] EXCEPT !.clean = FALSE] ELSE refresh[t]]

(* retainHistory and retainActivity: advanceHistoryRevision. *)
SaveHistory(t) ==
    LET d == DeviceOf[t]
        st == store[d]
        range == RevisionRange(st)
        after == IF range = None THEN st.revision ELSE range.after
    IN  /\ reads < MaxReads
        /\ reads' = reads + 1
        /\ store' = [store EXCEPT ![d] =
              [st EXCEPT !.revision = st.revision + 1,
                         !.range = [after |-> after, through |-> st.revision + 1]]]
        /\ UNCHANGED <<drain, refresh, begun, tries>>

----------------------------------------------------------------------------
(* Commands of the user *)

MayStartBeside(st, p) == p \in st.paths \ st.unavailable
MayStart(st, p) ==
    p \in st.paths \ st.unavailable /\ On(p, st.timers) = {}

StartTimer(t, s) ==
    LET d == DeviceOf[t]
        st == store[d]
    IN  /\ Origin[s] = d /\ s \notin begun
        /\ MayStart(st, PathOf[s])
        /\ begun' = begun \cup {s}
        /\ Commit(d, [st EXCEPT !.timers = @ \cup {s},
              !.operations = Append(@, Operation("start", s, None, None, 0))])
        /\ UNCHANGED <<drain, tries, reads>>

(* stopTrackingTimer: an end at or before the start, after the clock went  *)
(* back, waits for a correction.                                           *)
QueueStopRunning(st, s, end) ==
    [st EXCEPT !.operations = Append(@, Operation("stop", s, None, end, 0))]
QueueStop(st, s, end) ==
    IF end <= StartedAt[s]
    THEN [st EXCEPT !.timers = @ \ {s}, !.corrections = @ \cup {s}]
    ELSE [st EXCEPT !.timers = @ \ {s},
            !.operations = Append(@, Operation("stop", s, None, end, 0))]

StopTimer(t, s, end) ==
    LET d == DeviceOf[t]
    IN  /\ s \in store[d].timers
        /\ Commit(d, QueueStop(store[d], s, end))
        /\ UNCHANGED <<drain, begun, tries, reads>>

(* A correction replaces whatever is queued for the session. *)
Correct(t, s, start, end) ==
    LET d == DeviceOf[t]
        st == store[d]
        op == Operation("correct", s, start, end, tries[s] + 1)
    IN  /\ s \in st.corrections /\ tries[s] < MaxTries
        /\ end - start >= Second
        /\ PathOf[s] \notin st.unavailable
        /\ tries' = [tries EXCEPT ![s] = @ + 1]
        /\ Commit(d, [st EXCEPT !.corrections = @ \ {s},
              !.operations = Append(Without(st, QueuedFor(st, s)), op)])
        /\ UNCHANGED <<drain, begun, reads>>

----------------------------------------------------------------------------
(* Replay *)

NextOperationInLine(st) ==
    IF Queued(st) = {} \/ Head(st.operations).session \in st.corrections
    THEN None ELSE Head(st.operations)
NextOperation(st) ==
    LET ready == Without(st, {op \in Queued(st) : op.session \in st.corrections})
    IN  IF ready = <<>> THEN None ELSE Head(ready)

Pick(t) ==
    LET st == store[DeviceOf[t]]
        op == NextOperation(st)
    IN  /\ drain[t] = None
        /\ op # None
        /\ drain' = [drain EXCEPT ![t] =
              [op |-> op, answer |-> None,
               running |-> op.kind = "start" /\ op.session \in st.timers]]
        /\ UNCHANGED <<store, refresh, begun, tries, reads>>

(* What apiTrackingSync lets through. *)
Answer(reason, activity, terminal, mustStop) ==
    [reason |-> reason, activity |-> activity,
     terminal |-> terminal, mustStop |-> mustStop]
Answers ==
    {Answer(None, a, FALSE, FALSE) : a \in BOOLEAN}
    \cup {Answer(None, a, TRUE, FALSE) : a \in BOOLEAN}
    \cup {Answer(None, a, FALSE, TRUE) : a \in BOOLEAN}
    \cup {Answer(r, a, FALSE, FALSE) : r \in {"conflict", "archived"}, a \in BOOLEAN}
    \cup {Answer(r, FALSE, FALSE, FALSE) : r \in {"membership", "validation"}}

Receive(t, answer) ==
    /\ drain[t] # None /\ drain[t].answer = None
    /\ drain' = [drain EXCEPT ![t].answer = answer]
    /\ UNCHANGED <<store, refresh, begun, tries, reads>>

(* A lost answer, a failure, or the tab is closed. *)
GiveUp(t) ==
    /\ drain[t] # None
    /\ drain' = [drain EXCEPT ![t] = None]
    /\ UNCHANGED <<store, refresh, begun, tries, reads>>

Learned(st, s, answer) ==
    IF answer.activity THEN [st EXCEPT !.unreflected = @ \cup {s}] ELSE st

(* The archive stopped the timer; the device ends it at its own clock.     *)
AcceptedWhole(st, op, answer, end) ==
    [st EXCEPT !.operations = Without(st, QueuedFor(st, op.session))]
Accepted(st, op, answer, end) ==
    LET s == op.session
        rest == Without(st, IF answer.terminal THEN QueuedFor(st, s) ELSE {op})
        kept == IF answer.terminal THEN st.timers \ {s} ELSE st.timers
        settled == [st EXCEPT !.operations = rest, !.timers = kept]
    IN  IF answer.mustStop /\ s \in kept THEN QueueStop(settled, s, end)
        ELSE settled

(* The session is over, or with its membership everything on its Path.     *)
RejectedQuietly(st, op, answer) ==
    [st EXCEPT !.operations = Without(st, QueuedFor(st, op.session)),
               !.timers = @ \ {op.session}]
RejectedEverywhere(st, op, answer) ==
    [st EXCEPT !.operations = <<>>, !.timers = {},
       !.notices = @ \cup {[session |-> op.session, reason |-> answer.reason]}]
Rejected(st, op, answer) ==
    LET s == op.session
        lost == answer.reason = "membership"
        Over(r) == r = s \/ (lost /\ PathOf[r] = PathOf[s])
        review == op.kind = "correct" /\ answer.reason = "validation"
    IN  [st EXCEPT
           !.operations = Without(st, {o \in Queued(st) : Over(o.session)}),
           !.timers = {r \in @ : ~Over(r)},
           !.corrections = {r \in @ : ~Over(r)} \cup (IF review THEN {s} ELSE {}),
           !.unavailable = IF lost THEN @ \cup {PathOf[s]} ELSE @,
           !.notices = @ \cup {[session |-> s, reason |-> answer.reason]}]

SettledUnchecked(st, op, answer, end) ==
    IF answer.reason = None
    THEN Accepted(Learned(st, op.session, answer), op, answer, end)
    ELSE Rejected(Learned(st, op.session, answer), op, answer)
Settled(st, op, answer, end) ==
    IF op \notin Queued(st) THEN st
    ELSE SettledUnchecked(st, op, answer, end)

Settle(t, end) ==
    LET d == DeviceOf[t]
    IN  /\ drain[t] # None /\ drain[t].answer # None
        /\ Commit(d, Settled(store[d], drain[t].op, drain[t].answer, end))
        /\ drain' = [drain EXCEPT ![t] = None]
        /\ UNCHANGED <<begun, tries, reads>>

----------------------------------------------------------------------------
(* Refreshes of Home.  The revision is captured before the network reads.  *)

BeginRefresh(t) ==
    /\ refresh[t] = None
    /\ reads < MaxReads
    /\ reads' = reads + 1
    /\ refresh' = [refresh EXCEPT ![t] =
          [expected |-> store[DeviceOf[t]].revision, clean |-> TRUE,
           reply |-> None]]
    /\ UNCHANGED <<store, drain, begun, tries>>

(* A session that has not begun here is unknown to the server, unless it   *)
(* is another client's.                                                    *)
Replies ==
    {r \in [paths : SUBSET Paths, counted : SUBSET TimerIds,
            timers : SUBSET TimerIds] :
       /\ \A s \in r.counted \cup r.timers :
             PathOf[s] \in r.paths /\ (s \in begun \/ Origin[s] = None)
       /\ \A a, b \in r.timers : PathOf[a] = PathOf[b] => a = b}

ReadHome(t, reply) ==
    /\ refresh[t] # None /\ refresh[t].reply = None
    /\ refresh' = [refresh EXCEPT ![t].reply = reply]
    /\ UNCHANGED <<store, drain, begun, tries, reads>>

FreshExactly(st, expected) == st.revision = expected
Fresh(st, expected) ==
    \/ st.revision = expected
    \/ /\ RevisionRange(st) # None
       /\ RevisionRange(st).after <= expected /\ expected <= st.revision

(* New totals hold the acknowledged entries of their Paths. *)
UnreflectedStill(st, refreshed) == st.unreflected
Unreflected(st, refreshed) == {s \in st.unreflected : PathOf[s] \notin refreshed}

(* applyTracking for each Path of the reply that has nothing pending.      *)
Refreshed(st, reply) ==
    LET free == {p \in reply.paths : ~Busy(st, p)}
        Stale(s) == PathOf[s] \in free
        New(sessions) == {s \in sessions : PathOf[s] \in free}
    IN  [st EXCEPT
           !.counted = {s \in @ : ~Stale(s)} \cup New(reply.counted),
           !.unreflected = Unreflected(st, free),
           !.timers = {s \in @ : ~Stale(s)} \cup New(reply.timers)]

RetainHome(t) ==
    LET d == DeviceOf[t]
        st == store[d]
        reply == refresh[t].reply
    IN  /\ refresh[t] # None /\ reply # None
        /\ Fresh(st, refresh[t].expected)
        /\ store' = [store EXCEPT ![d] =
              [Refreshed(st, reply) EXCEPT !.revision = st.revision + 1,
                 !.paths = reply.paths,
                 !.unavailable = st.unavailable \ reply.paths]]
        /\ refresh' = [u \in Tabs |->
              IF u = t THEN None
              ELSE IF DeviceOf[u] = d /\ refresh[u] # None
              THEN [refresh[u] EXCEPT !.clean = FALSE] ELSE refresh[u]]
        /\ UNCHANGED <<drain, begun, tries, reads>>

(* The refresh failed, was refused or its tab is closed. *)
DropRefresh(t) ==
    /\ refresh[t] # None
    /\ refresh' = [refresh EXCEPT ![t] = None]
    /\ UNCHANGED <<store, drain, begun, tries, reads>>

----------------------------------------------------------------------------
DeviceInit ==
    /\ store = [d \in Devices |-> NewSnapshot]
    /\ drain = [t \in Tabs |-> None]
    /\ refresh = [t \in Tabs |-> None]
    /\ begun = {}
    /\ tries = [s \in TimerIds |-> 0]
    /\ reads = 0

UserStep(t) ==
    \E s \in TimerIds :
      \/ StartTimer(t, s)
      \/ \E e \in Instants : StopTimer(t, s, e)
      \/ \E b, e \in Instants : Correct(t, s, b, e)

DeviceStep(t) ==
    \/ UserStep(t)
    \/ Pick(t) \/ GiveUp(t)
    \/ \E e \in Instants : Settle(t, e)
    \/ SaveHistory(t) \/ BeginRefresh(t) \/ RetainHome(t) \/ DropRefresh(t)

DeviceNext ==
    \E t \in Tabs :
      \/ DeviceStep(t)
      \/ \E answer \in Answers : Receive(t, answer)
      \/ \E reply \in Replies : ReadHome(t, reply)

DeviceSpec == DeviceInit /\ [][DeviceNext]_deviceVars

----------------------------------------------------------------------------
(* Properties *)

Held(st, s) == s \in st.timers \cup st.corrections \/ QueuedFor(st, s) # {}

DeviceTypeOK ==
    /\ \A d \in Devices :
          LET st == store[d]
          IN  /\ st.revision \in Nat
              /\ st.range = None \/ st.range.after < st.range.through
              /\ Queued(st) \subseteq Operations
              /\ st.timers \cup st.corrections \cup st.unreflected \cup st.counted
                    \subseteq TimerIds
              /\ st.timers \cap st.corrections = {}
              /\ st.paths \cup st.unavailable \subseteq Paths
              /\ st.notices \subseteq Notices
              /\ \A a, b \in st.timers : PathOf[a] = PathOf[b] => a = b
    /\ \A t \in Tabs : drain[t] # None =>
          drain[t].op \in Operations /\ drain[t].answer \in Answers \cup {None}
    /\ begun \subseteq TimerIds

(* Each session is replayed in causal order: its start first, then one end *)
(* at most, and no end while it still runs (offline.spec.md:125).  The     *)
(* start may be in flight, its answer may order a stop, and a correction   *)
(* may replace both.                                                       *)
CausalOrder ==
    \A d \in Devices :
      LET ops == store[d].operations
      IN  /\ \A i, j \in 1..Len(ops) :
                i < j /\ ops[i].session = ops[j].session =>
                  ops[i].kind = "start" /\ ops[j].kind # "start"
          /\ \A i \in 1..Len(ops) : ops[i].session \in store[d].timers =>
                ops[i].kind = "start"

(* An answer settles its own session, and only while its command is still  *)
(* queued: one that comes after another tab settled it does not touch what *)
(* the user did since.  Only the loss of the membership reaches further,   *)
(* and never beyond its Path (offline.spec.md:207, 228).                   *)
AnswersStayHome ==
    [][\A t \in Tabs, s \in TimerIds :
         LET st == store[DeviceOf[t]]
             op == drain[t].op
             lost == drain[t].answer.reason = "membership"
             reached == \/ s = op.session
                        \/ lost /\ PathOf[s] = PathOf[op.session]
         IN  /\ drain[t] # None /\ drain[t].answer # None /\ drain'[t] = None
             /\ Held(st, s)
             /\ ~(reached /\ op \in Queued(st))
             => /\ QueuedFor(store'[DeviceOf[t]], s) = QueuedFor(st, s)
                /\ s \in store'[DeviceOf[t]].timers <=> s \in st.timers
                /\ s \in store'[DeviceOf[t]].corrections <=> s \in st.corrections
      ]_deviceVars

(* A refresh is adopted exactly if no command, answer or other refresh was *)
(* saved since it began: downloaded history alone does not refuse it       *)
(* (offline-storage-sync.spec.md:362), and every older read is refused.    *)
StaleReadRefused ==
    \A t \in Tabs : refresh[t] # None =>
      (Fresh(store[DeviceOf[t]], refresh[t].expected) <=> refresh[t].clean)

(* A refresh keeps what is pending: it neither drops a local start nor     *)
(* runs a session again that waits for its stop or correction              *)
(* (offline-storage-sync.spec.md:55, 131).                                 *)
RefreshKeepsPending ==
    [][\A t \in Tabs, s \in TimerIds :
         LET st == store[DeviceOf[t]]
         IN  /\ RetainHome(t)
             /\ QueuedFor(st, s) # {} \/ s \in st.corrections
             => /\ s \in store'[DeviceOf[t]].timers <=> s \in st.timers
                /\ Held(store'[DeviceOf[t]], s)]_deviceVars
=============================================================================
