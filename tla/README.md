# HourPaths: specifications and proofs

TLA+ modules for the parts of HourPaths where order, repetition, loss of
messages and crashes decide whether recorded time, sessions, access and erased
data are right, checked by TLC on small instances and, where said, proved by
TLAPS for every instance.

## The system

HourPaths is a Go API over PostgreSQL and two clients, a mobile app and a web
app, that share `packages/client-core`. Members of a Path run timers; a stopped
timer becomes recorded activity. Devices may be offline: they keep commands in a
durable queue and send them later, so the server meets the same timer as an
online call, as a delayed command of a device, as the second report of a
command whose answer was lost, and as something that archival or a lost
membership ended in the meantime.

| component | state it keeps | operations | hard behaviour | correct when |
|---|---|---|---|---|
| Timer synchronization, server (`gormstore/activity`, `domain/activity`) | running timers, timer registry, mutation rows, recorded activity | online start and stop, `SynchronizeTimer`, archival, leaving, removal, role change, deletion | commands late, repeated, reordered, against lifecycle changes | each session settles once, with at most one entry, whoever reports it |
| Durable tracking on a device (`client-core/offline-tracking.ts`) | snapshot: timers, queue, corrections, notices, summaries, revision | start, stop, correct, replay, refresh of Home, history download | several tabs on one store, answers to an older snapshot, refreshes overtaken by commands | commands replay in causal order, answers reach only their session, no stale read is adopted |
| Recorded activity, server and device | entries, edit stamps, aliases | create, edit, delete, replay of these | concurrent edits of several devices, deletion | the last edit wins on every device, a deleted entry stays deleted |
| Replay scheduling (`tracking-replay-worker.ts`) | pending, again, paused, failures | wake, pause, dispose | wake-up during completion, back-off | no wake-up is lost |
| Device storage (SQLite, IndexedDB) | snapshot rows, native timer lease, deletion fence | compare-and-set, lease, fence | two processes, a widget and the app | one writer at a time, nothing after deletion |
| Push and live activity delivery | outbox rows with leases, tickets, receipts | claim, send, settle, remove an installation | crash between send and settle | delivered at least once, never to a removed installation |
| Authorization outbox and batches (SpiceDB) | outbox rows with leases, serializer, relationships | enqueue, claim, apply, complete, fail, requeue | requests and background passes on one resource, lost leases and answers, dead letters | relationships follow the database in order |
| Membership, invitations, ownership transfers | membership rows, invitations, offers | invite, accept, reject, offer, accept, leave | an answer to something withdrawn or expired | one owner; nobody enters on a withdrawn invitation |
| Sessions in the tabs of a browser (`session-controller.ts`, `session-record.ts`, `auth.ts`, `sessionauth`) | the origin's record, tickets, rotations, server tokens | sign in, renew, bind the owner, sign out, expire | late answers from other tabs, two tabs renewing one token | an ended session stays ended, a replacement survives, no live token is forgotten |
| Recovery, onboarding | challenges, activations | start, complete | a lost answer to a completion | completed once |
| Account deletion (`account-deletion.ts`, `deletionjournal/files.go`, `account_deletion.go`) | device journal, write fence, external records, account rows | confirm, resume, purge, remove, recover | crashes on either side, several tabs, a second account signing in | a device erases only on a wish and reports only what is proven; nobody else's account goes |
| Notification history on a device | pages, mutations in flight | refresh, mark read, delete | refreshes overlapping with mutations, notifications hidden and shown again | a refresh does not undo a mutation |
| Social, moderation, support, statistics, policies, audit, goals | single rows and projections | many | few | see PROJECT.json |

Components interact through the API (device queue to `SynchronizeTimer`, Home
reads back to the device, a deletion request to the external journal), through
the database (archival and membership changes end timers in the same
transactions), through stores that tabs share (the queue, the session record,
the deletion journal and its fence), and through outboxes read by workers
(push, authorization). PROJECT.json lists every component with its sources and
why it is or is not modelled.

## Modules

| module | what it is |
|---|---|
| `TimerRegistry` | the server side of one Path: its timers, registry, mutation rows and entries |
| `SessionLedger` | the promise: each session settles once |
| `OfflineTracking` | the devices of one account: snapshot, commands, replay, refresh |
| `TrackingSync` | both together: the devices, the server and the network between them |
| `BrowserSessions` | the web session in the tabs of one browser, with the server's tokens |
| `AccountDeletion` | the deletion of one account: devices, request, external journal, recovery pass |
| `AuthorizationOutbox` | the outbox of one resource, its workers and the relationship store |
| `ReplayWorker` | the background worker that drains a device's queue |
| `NotificationHistory` | the notification list of one account in its tabs |
| `MCTimerRegistry`, `MCTrackingSync`, `MCBrowserSessions` | instances for TLC |
| `MCOfflineTracking`, `MCDeletionOutbox`, `MCClientBackground` | instances for TLC of modules that share no state: a behaviour plays one of them, its *scene*, and the others rest |
| `TimerRegistryProofs` | theorems about `TimerRegistry`: what runs, what a row says of the recorded entries, cutoffs, the refinement of `SessionLedger`, winners, announcements |
| `OfflineTrackingProofs` | theorems about `OfflineTracking`: the queue, answers, refreshes |
| `TrackingSyncProofs` | theorems about `TrackingSync`: totals, accounted sessions, both refinements |
| `ReplayWorkerProofs`, `BrowserSessionsProofs`, `AccountDeletionProofs`, `AuthorizationOutboxProofs`, `NotificationHistoryProofs` | theorems about the module they are named for |

### TimerRegistry

Each action is one database transaction. Transactions of one participant on one
Path exclude each other through the account and Path locks (`offline.go:47-76`,
`path_state.go`), so a transaction is one step; the order of the transactions is
open.

| variable | table or code |
|---|---|
| `running` | `running_timer_models` |
| `registry` | `offline_timer_state_models` |
| `startRows`, `stopRows` | `activity_mutation_models` of kind `timer.start`, `timer.stop` |
| `entries` | `recorded_activity_models`; a deleted row stays with `live = FALSE` so that a second recording shows |
| `role`, `joinedAt`, `archivedAt` | membership and Path rows |
| `started` | the original start bound to an identity |
| `notices` | timer-start notifications, counted |
| `erased` | history only: sessions whose running row went with member data |

`SynchronizeTimer` is `Synchronize(c, a)`, with one action for each way through
`applyOfflineTimer`: `SyncSettled`, `SyncReconcile` (archival stopped the timer
first), `SyncRefused` (started after the archive instant), `SyncStartWaits`,
`SyncStartRuns`, `SyncStartLoses`, `SyncStartWins`, `SyncStop`. What they start
from is `Loaded(s)`: the registration of an online timer, the row, or the
adoption of an identity from before the registry. Online calls are `StartTimer`,
`StartTimerConflict` and `StopTimer`; lifecycle is `Archive`, `Restore`,
`LeaveRetaining`, `RemoveMember`, `Demote`, `Promote`, `Join`,
`DeleteActivity`. The database functions called by removal and role change are
read from the migrations.

A session stands for a timer occurrence with its client ID and canonical ID. A
used idempotency key answers from the stored result and writes nothing; commands
here have a fresh key, so a repeated command is a new one and the registry has to
recognize it by identity. Administrators count as participants: the code asks
only for the capability to track. Leaving with a role of supporter, leaving
without the activity and removal by a manager are one action, `RemoveMember`.

### OfflineTracking

`store[d]` is the durable snapshot of a device. Tabs of a device share it; each
change is a compare-and-set on `revision` with a retry on a fresh snapshot
(`offline-tracking.ts:182-193`), so it is one step. A replay is two: `Pick`
reads the snapshot and sends, `Settle` applies the answer to whatever the
snapshot is then. `GiveUp` is a failure, a lost answer or a closed tab. A
refresh is `BeginRefresh` (capture of the revision), `ReadHome` and `RetainHome`.
`SaveHistory` stands for the two writers that advance the revision without
invalidating a refresh in flight.

The server is open: `Receive` takes any answer that `apiTrackingSync` lets
through and `ReadHome` any complete Home. What holds here does not depend on the
server being right. The device's clock may go back: a stop or a correction
carries any instant.

`clean` in a refresh is history: nothing but downloaded history was written
since the refresh began. The code's range of revisions is compared with it.

Left out: retained history and totals, the commands on recorded activity, the
banner and the `subsecond` notice, and `adoptTimers`, which only tests call. The
limit of eight attempts of a contended change is left out as well.

### TrackingSync

`TrackingSync` EXTENDS `OfflineTracking` and instantiates `TimerRegistry` for one
account, all of whose sessions are offline ones, on one Path. The open server of
`OfflineTracking` is replaced: `Receive` takes the answer that `SynchronizeTimer`
gives, `ReadHome` the server's present state (`Home`).

| definition | what it is |
|---|---|
| `Send` | a tab picks an operation and its request goes out with the operation ID as key (`offline-tracking.ts:236`, `api-tracking-sync.ts:46`) |
| `sent` | requests on their way; one stays after its tab gave up and arrives at any later time |
| `Deliver` | a request arrives and its answer reaches the tab: refused, answered again from `keys`, or applied |
| `DeliverUnheard` | a request arrives, its answer reaches nobody |
| `keys` | `offline_timer_replay_models`: the outcome of each key that was applied |
| `AnswerOf` | `offlineCurrentResult`: the kept outcome and the present registry row, as the adapter passes it on |

A user's command carries the device's clock, which may differ from the server's
by a value of `Skews`; the runs take an exact clock, so that what they find does
not hang on a wrong one. `started`, which `TimerRegistry` leaves open, is bound
to the start the device saw. `CountedOnce` and `PendingOnce` speak of sessions
in place of durations: a session counted twice is time counted twice.

Left out here: history downloads (`OfflineTracking` has them), the delay between
a membership change and its relationships in SpiceDB, timers of the account
started online (another device's timer stands for them), and several Paths.

### BrowserSessions

The tabs of one browser share a session record behind a Web Lock. An operation
takes a ticket, asks the network, and writes only if its ticket is still the
last one of its tab and the record still has the revision the ticket was issued
for.

| variable | code |
|---|---|
| `record` | the stored record: revision, family, token, owner (`session-record.ts`) |
| `holder` | `SessionRecordCoordinator`'s latest ticket of a tab |
| `control` | `SessionController.current` of a mounted studio; a remount is another member of `Lifetimes` |
| `rotation` | `refreshExclusive` and what a renewal does under it (`session-controller.ts:56-100`) |
| `binding` | `bindOwner`: the profile answer that labels the record |
| `signing` | the sign-in that leaves the page and comes back (`auth.ts`) |
| `dropping`, `revoking` | discards that wait for the record lock, revocations under way |
| `live`, `account`, `family` | the tokens the server accepts, whose they are, which record stored them |
| `kept`, `ended`, `asked`, `strays` | history: tokens ever stored, families discarded, families somebody wanted to end, tokens lost on the way by the network |

A token is minted by `sessionauth` and only compared afterwards, so which one is
drawn does not matter. `strays` excuses what no client can know: a token whose
answer never arrived. Expiry is a step the clock may take at any moment.
Left out: the mobile app's own session operations and the identity provider.

### AccountDeletion

Each client (a tab or an app) runs `AccountDeletion.single` as `task`, one step
per await; several clients may share a device and with it `intent` (the journal),
`captured` (the snapshot of native surfaces), `fenced` (the write fence), `data`
and `session`. `request` is a client's DELETE: it goes out with the credential of
its moment, and `Authenticate`, `Admit` and `Commit` are the server's part, each
a step of its own with `Reapply`, the recovery pass, between them. `admitted` is
the external record and keeps the secret that `HasReceipt` compares. `Quit` ends
a client anywhere; `Begin` starts it again to confirm, to resume or, without a
credential, to prepare. `Store` is another page that still writes.
`secrets` and `finished` count the secrets drawn and reported. Left out: the
restore of a backup, the retirement of the external files beyond the expiry of
the receipt, and the export.

### AuthorizationOutbox

`domain` is what the database says (owner, roles, audience, followers); `relations`
is what SpiceDB holds, and `Implied` says which relationships the database means.
Each producer (`SetVisibility`, `Accept`, `Remove`, `Leave`, `ChangeRole`,
`Transfer`, `Follow`, `Unfollow`, `RemoveFollower`) is one transaction that
changes `domain` and appends rows. A row remembers how it is delivered: `direct`
(created with a lease of the request and written without a claim), `ordered`
(claimed behind earlier rows of the resource) or `batch` (all of a transfer).
`by` is its lease, and `LoseLease` lets one run out at any moment. Handlers of
requests and background passes (`Sweep`) work through `job`: claim, enter
`serializer` (`WithinResource`), renew, write, then complete or fail. A write may
fail, its answer may be lost, a replica may die; after `MaxAttempts` a row is a
dead letter until `Requeue`. `told` holds the rows whose success a client heard.
Permissions are asked of `relations` (`Creates`, `Manages`), as the code does, so
a producer may act on relationships that are behind.

`Scenarios` restricts which operations meet in one behaviour. Left out: account
deletion, blocks, privacy and generic resources, which enqueue in the same way.

### ReplayWorker

Six variables for the fields of `TrackingReplayWorker`, and `due` for what it is
there for: a change nobody has looked at. `at` says where the run is: an await is
a step, so a wake-up may fall between the last look at the queue and the
completion callback. `Fails`, `Suspended` and `Settled` are the outcomes of a
replay, `RetryNow` the delayed retry. Only the length of the delay is left out.

### NotificationHistory

`own` is the state of a tab's owner (`notification-history-owner.ts`): active,
one requested refresh, the promise its callers wait on, and whether its channel
is open. `call` is the request it works on, one at a time, in steps: the profile,
the request, the server's answer, the answer taken. `view` is what the tab shows,
`inbox` the signals between tabs. The server is `alive`, `unread` and `coming`:
notifications are ordered by creation but may commit in another order (`Arrive`),
and are deleted for good (`Serve`, or `Vanish` for another device).

Whether a stored notification may be seen is asked anew with every query
(`visibleNotificationPredicate`): it is `hidden` while there is a block between its
two accounts, or a follow, a membership or the audience of its Path does not
allow it (`Hide`), and returns as it was (`Reveal`). A list leaves out all that is
hidden. A mutation leaves out only what a block hides (`blocked`,
`notificationPairVisiblePredicate`), so `Changed` is what a mutation really
changed: a tab that marks everything read marks its own list, in which there may
be a notification that the server passed over, and that one may come back unread.

`before`, `acked` and `basis` are history: what a tab could not see since it last
asked for a refresh, what it was told of and the server did, and what could be
seen ever since its first page was read. Left out: the unread count, the
capabilities of a client (the kinds it can represent), a notification that is
created while a read-all waits for its lock, and the mobile app's own barrier.

### Faulty variants

A few definitions come with a variant just before them that nothing uses
(`BeatsOrTies` before `Beats`, `SettledUnchecked` as part of `Settled`,
`RevisionRangeStale` before `RevisionRange`, ...). Each is a plausible mistake.
PROJECT.json pairs it with the property that TLC finds violated when the variant
takes the place of the definition: the properties can fail.

## Runs

Deadlock is not checked because the bounded instances do stop: the clock ends at
`MaxTime`, tokens, secrets and rows run out, and every session gets settled. A
run asks several questions of one instance where their interesting cases fit into
the same bounds; modules that share no state share a run as scenes.

| run | instance | what it shows |
|---|---|---|
| `devices` | 2 offline sessions of one participant, or one of them and an identity from before the registry; archival, deletion | recorded once (`RecordedOnce`), a discarded session leaves no time (`DiscardedHasNoEntry`), a conflict has a winner that is not itself discarded (`ConflictHasWinner`), one announcement (`AnnouncedOnce`), in every order of arrival; adoption refines the ledger (`SettlesOnce`) |
| `online` | 1 offline and 1 online session, all lifecycle operations | the registry names exactly the entry that exists (`RegistryNamesEntry`), what runs is registered and allowed (`RunningFits`), the first archive instant bounds a session (`CutoffIsKept`), a verdict is final (`TerminalIsFinal`), every step is one of the ledger (`SettlesOnce`), `TypeOK` |
| `tabs`, scene tracking | 1 device, 2 tabs, 2 Paths with a session each and a foreign one, 1 correction each, 2 reads | the queue stays causal (`CausalOrder`), an answer settles its own session and only once (`AnswersStayHome`), a refresh is adopted exactly if nothing but history overtook it (`StaleReadRefused`), nothing pending is overwritten (`RefreshKeepsPending`), `DeviceTypeOK` |
| `tabs`, scene list | 1 tab with 2 notifications in pages of one, every mutation, each notification hidden and shown again | a deletion or reading that was done and told does not come back (`AcknowledgedStays`), a list has no holes (`NoHoles`), a refresh shows nothing that was gone or hidden when it was asked for and since (`RefreshIsFresh`) |
| `archival` | 2 devices with a session each, server, archival and restoration, 1 refresh | what a device adds to the server's totals is never in them (`CountedOnce`), a session that left its device is settled or explained (`Accounted`) |
| `replay` | 1 device with 2 sessions, server, leaving, joining and role changes, 1 correction each, fairness | no session disappears without an explanation (`Accounted`); the queue drains again and again, down to sessions that wait for a correction (`QueueDrains`) |
| `sessions` | 2 tabs, 2 mounted studios, 3 tokens, 2 accounts | the record is of a session that goes on, under its own account (`RecordIsTrue`), no tab presents a token another one rotated (`RotatedOnce`), a credential that is not stored is revoked (`NothingStranded`), a late logout or rejection spares a replacement (`ReplacementSurvives`), `SessionTypeOK` |
| `deletion_outbox`, scene deletion | 2 tabs on one device, 2 secrets, another account | the secret of an admitted deletion is never lost (`SecretIsKept`), completion is reported only when proven and only for the account reviewed (`CompletionIsProven`), erased data stays erased and nothing is erased without a wish (`DataFollowsIntent`) |
| `deletion_outbox`, scene outbox | 1 request handler, 1 background pass, 2 people, 7 scenarios | access converges to the database in every order of failures, and a Path has one creator at every instant (`RelationsFit`); a client hears success only of what was completed (`ToldIsDone`); `SceneTypeOK` for both |
| `background`, scene worker | the replay worker | a change always has a run, another round or a retry in front of it (`NoLostWakeup`) and gets its replay (`ChangesReplay`) |
| `background`, scenes list and tabs | 1 tab with 2 notifications in pages of one, of which the older may be hidden and shown again, and deletions; 2 tabs that delete | a refresh is answered (`RefreshSettles`), a deletion reaches the other tabs (`TabsConverge`); `BackgroundTypeOK` for worker and history |
| `background`, scene recovery | 1 app on a native device | a confirmed deletion clears the device with the next undisturbed start (`IntentClears`) |
| `role_change` | 1 offline session, role changes | finding 1 |
| `double_count` | 1 device, server, archival | finding 2 |
| `conflict` | 2 devices, server | finding 3 |
| `unfollow` | outbox, a follow and an unfollow | finding 4 |

### Fairness

`replay` assumes `FairSync`. For each tab: weak fairness of `Send`, because the
replay worker runs again after every failure, with a back-off that is bounded;
strong fairness of `Deliver` and of the application of an answer, because
connectivity may fail any number of times but comes back again and again.
Nothing is assumed of the user, of the clock, of refreshes or of the server's
lifecycle operations. `QueueDrains` is `[]<>`: a user may always queue more.

`background` assumes three things. `WorkerFairness`: promises settle, timers
fire and a suspended app is resumed, and not every replay fails for ever (strong
fairness of `Replay`). `HistoryFairness`: a request ends, with an answer or
a failure, and a signal between tabs is delivered. `RefreshSettles` and
`TabsConverge` have the premise `Calm`: from some time on nobody asks for
another refresh or mutation, since each may postpone the end of the one before.
For the recovery of a deletion: a started run goes on, and an app is started
again; its premise `Undisturbed` says that from some time on it is not killed and
its user begins nothing else. That crashes end at some time is the least that
recovery needs.

### Bounds

Bounds of the registry: `MaxTime = 3` and `Second = 2` give a session that is
too short to save, one that saves, and an archive instant before, inside and
after it (`online`, with all lifecycle operations, ends at 2, which still has
all three for a session from 0); two activity IDs let a second recording of a session happen. Two
sessions of one participant are enough for a timer conflict, and a third would
only add a second conflict with the same winner rule; `Rank` breaks equal
starts. Activity IDs are interchangeable, so symmetry over them is used; it is
sound with the safety properties checked (`CutoffIsKept`, `TerminalIsFinal` and
`SettlesOnce` treat all IDs alike). `OneOfThem` in `devices` plays either the
second device or the identity of an old release, since the two meet only through
the conflict that two devices already have. It also lets the second device start
no earlier than the first: only `Rank` tells the devices apart, and only in a
tie, so the cases left out are those played with the names exchanged. The
identity of an old release is played up to the last instant but one, which still
has all three lengths for a session from 0.

Bounds of the device: `MaxTime = 1` has an end before, at and after a start
(starts at 0 and 1), which is all that `QueueStop` distinguishes. One correction
(`MaxTries`) is enough for a rejected one to be reviewed again and find its limit;
two reads (`MaxReads`) let a refresh be overtaken by a history write, by another
refresh or by commands. Revisions and tries are otherwise bounded by the number
of sessions. In `tabs` the two tabs are interchangeable; the `VIEW` keeps only
differences of revisions, because nothing compares a revision with anything but
another one, and all of the history, which has a tab of its own in its scene. The
constraint holds one received answer or read at a time: a tab that holds one could
as well receive it just before it looks at it, as the server answers anything. Refreshes and history are played with one tab, on the first
Path and with one rejection; with two tabs there are commands, answers and
corrections only. A refresh meeting a second tab's commands differs in nothing
from one meeting the same tab's, because both write the one snapshot.

Bounds of both together: `MaxTime = 1` has a session from 0 to 1 that saves and an
archive instant at its start or its end; `Second = 1` makes both of its ends differ
for the server too. The violation runs use 2 where their story needs an
archive instant inside a session. One refresh is enough for the read that falls between
a lost acknowledgement and its repetition. Symmetry over activity IDs is not
used in `replay`, where liveness is checked.

Bounds of sessions: two tabs with a studio each, and three tokens: one stored,
one by a renewal, one by a sign-in in another tab. `MaxRev = 3` gives three
writes of the record, enough for one to be overtaken and answered by a third.
Accounts are interchangeable, and so are the tabs, each with its studio; all
properties of the run are invariants or about one step, so the symmetry is sound.

Bounds of the deletion: two tabs on one browser with a secret each are what
`Files.admit` must decide between; a second device differs from a second tab only
in what it does not share. The recovery has one app on a native device, which has
a surface to capture first.

Bounds of the outbox: three rows are a change, the change that undoes it and one
behind them, or the batch of a transfer with a change before it. Two attempts
tell a retry from a dead letter. One request beside one background pass; a pass
of another replica would have a worker name of its own, which losing the lease
stands for. The scenarios combine the producers that touch the same relationship.
Each of the 36 pairs of operations was also played alone within these bounds, and
`RelationsFit` fails for four of them, which no scenario therefore combines: `{follow,
unfollow}`, `{accept, remove}` and `{accept, leave}`, which are finding 4, and
`{leave, transfer}` (see below).

Bounds of the history: two notifications and pages of one have a page that ends at
a deleted or hidden item, one that moves, and a further page after either, each
hidden by a block or otherwise at any time (`tabs`). For liveness (`background`)
there are deletions only, since an owner treats the mutations alike until their answer
is applied, and only the older notification, on the further page, is hidden. Two
tabs with one notification, which stays in sight, are enough for a signal that
crosses the start of the other one: a deletion is for good.

### Findings

1. `role_change`: `change_path_member_role` deletes the running timer when a
   participant becomes a supporter, but leaves its registry row active and
   `joined_at` unchanged. Once the member is a participant again, a delayed stop
   of the discarded timer is recorded. `specs/paths/membership.spec.md:220` says
   its elapsed time must be discarded.
2. `double_count`: the acknowledgement of a start is lost and archival ends the
   timer. The replayed start brings the recorded entry, which the device counts
   as unreflected, and orders a stop, whose interval it counts as pending. Until
   the stop is answered, Home shows the time twice;
   `offline-tracking.test.ts:194` says pending time is included exactly once.
3. `conflict`: an acknowledged timer loses to a later start of another device.
   The next refresh replaces it, nothing queued is left to be answered with
   `conflict`, and no notice is made. `specs/sync/offline.spec.md:167` says the
   user must be told plainly.
4. `unfollow`: a follow whose relationship could not be written stays pending.
   The unfollow after it is created with a lease of its own and written without
   a claim, so nothing looks for earlier changes; the background pass then
   applies the follow last, and the follower relationship stays without a
   follow. `specs/identity-access/identity-access.spec.md:223` says the order of
   the outbox cannot let a delayed worker resurrect access. Removing a follower
   waits for earlier changes (`waitForFollowerRemoval`). An acceptance is written
   in the same way: it passes a pending removal or leaving of the same person,
   which then takes the relationship away from a member.

Seen in the code but not a run:

- A session from before the present membership is answered 404, which the device
  takes for the loss of the membership: it discards everything queued for the
  Path, sessions of the present membership too. `specs/sync/offline.spec.md:217`
  asks for this only when the server confirms that the user is no longer a
  participant. (`Accounted` counts the notice as an explanation.)
- Ownership goes to a participant and back, who then leaves as administrator:
  the participant relationship beside the creator's was kept by the transfer
  (`ownership_transfer_repository.go:552`), and leaving deletes the administrator
  one only. With the scenario `{leave, transfer}` TLC finds `Converged` violated;
  `specs/paths/membership.spec.md:253` says leaving removes the access.
- Archival that stops a timer younger than a second saves nothing, and a later
  correction takes the missing entry for a deleted one (`offline.go:359`), is
  answered `accepted` and records nothing, while
  `specs/platform/offline-storage-sync.spec.md:120` says a correction must record
  the corrected occurrence.
- An `accepted` terminal answer to a start leaves a session that waits for its
  correction in `corrections`, though the server has completed it.
- A tab that read an empty deletion journal saves a new intent after another tab
  completed the deletion and forgot its own (`account-deletion.ts:48`). The new
  secret is never admitted, and the intent stays pending.
- A request sent with the old token is answered 401 while the renewal's answer is
  on its way (`session-controller.ts:95`): the session ends though its
  replacement was minted.
- A restoration clears `archived_at` (`offline.go:194`): a session that ran over an
  archival its device reports only afterwards is cut at no instant. No document
  says which outcome is wanted.

## Proofs

The theorems hold for every value of the constants that satisfies the named
assumptions; TLC evaluates those in every run. In each component one invariant is
shown to hold at first and to survive every action, by a lemma per action, and
the theorems follow from it. TLC checked each invariant on a run's instance
before it was proved.

### Timers

`TimerRegistryProofs`, for any participants, sessions, owners, activity IDs,
clock bound and lifecycle:

| theorem | statement |
|---|---|
| `TypeCorrect` | `Spec => []TypeOK` |
| `RunningCorrect`, `RunningAllowed`, `RunningCorrectAndAllowed` | `Spec => []RunningIsActive`, `[]RunningIsAllowed`, and both as `[]RunningFits` |
| `TerminalFinal` | `Spec => TerminalIsFinal` |

The assumptions are those of `TimerRegistry`: the kinds of sessions are disjoint,
the order that breaks equal starts is total, `Second` is positive, and `None` is
none of the values that stand beside it.

`TypeOK` is not inductive. A reconciled entry is written at the ID the registry
row names, and it keeps its type only if that ID was recorded, so `TypeInv`
adds `NamesRecorded` (registry and stop rows name recorded activity) and
`RunningStarted` (what runs has an original start). `RunningIsActive` and
`RunningIsAllowed` are proved as one invariant `RunInv`: an archive instant would
settle a session that still runs, and the row of a running session is what a
winning start or archival settles, so each needs the other, together with
`KnownStarted` (a known identity has an original start). `TerminalFinal` follows from
the same invariant: a winning start, an online stop, archival and leaving rewrite
the row of a running session, which `RunInv` says is not settled, and an online
start meets no row at all because its identity was never started.

What is recorded needs `EntryInv`, with `TypeInv` and `RunInv`:

| theorem | statement |
|---|---|
| `RegistryNamesItsEntry` | `Spec => []RegistryNamesEntry` |
| `DiscardedLeavesNoEntry` | `Spec => []DiscardedHasNoEntry` |
| `RecordedAtMostOnce` | `Spec => []RecordedOnce` |

The three properties speak of the registry, but a command works on `Loaded(s)`,
the row as `session` resolves it: for a timer from before the registry that is
what its mutation rows amount to. `EntryInv` therefore says of the loaded row
(`RowFits`) that it names exactly the live entry of its session, that an undecided
session of this release never had an entry, and that one that waits for its stop
has the archive instant, with nothing recorded past it; and of a session without a
row (`SessionFits`) that nothing of it exists beyond what an old release left. Two
recordings of a session need an undecided row beside an entry, which it excludes.

How a session may move:

| theorem | statement |
|---|---|
| `ArchiveInstantIsKept` | `Spec => CutoffIsKept` |
| `RegistryImplementsLedger` | `Spec => SettlesOnce`, the refinement of `SessionLedger` |
| `DiscardedIsBeaten` | `Spec => []ConflictHasWinner` |
| `AnnouncedOnceIfIssued` | `Spec => []` at most one announcement of each session of this release |
| `AnnouncedOnceWithoutErasure` | `Spec => []AnnouncedOnce`, if old timers are not erased |

`CutoffIsKept` and the refinement rest on one case distinction (`MovesNext`):
a step leaves a session alone (`Stays`), makes it wait for its stop (`Waits`,
`Pends`), settles it (`Settles`), or erases all sessions of one member
(`Forgotten`). Each case keeps the cutoff of an archived session and is a step of
the ledger or a stutter. `DiscardedIsBeaten` needs that what is known stays known
(`KeptNext`) and that a new conflict comes only from a start that loses or wins, whose
rival is the winner. `AnnouncedOnce` has a hypothesis, `Legacy = {}` or a lifecycle
without leaving and role changes: the start row of a timer from before the
registry goes with its member's data, the identity is then unknown, and the
start of a device may announce it again. The run's instance satisfies the hypothesis;
`AnnouncedOnceIfIssued` has none.

### Durable tracking on a device

`OfflineTrackingProofs`, for any devices, tabs, Paths, timers and bounds;
`TrackingAssumption` gives the constants their types and keeps `None` apart from the
devices and from a range of revisions. The answers are those of any server.

| theorem | statement |
|---|---|
| `DeviceInvariant` | `DeviceSpec => []DeviceInv` |
| `DeviceTypeCorrect` | `DeviceSpec => []DeviceTypeOK` |
| `ReplayIsCausal` | `DeviceSpec => []CausalOrder` |
| `StaleReadIsRefused` | `DeviceSpec => []StaleReadRefused` |
| `AnswersStayWithTheirSession` | `DeviceSpec => AnswersStayHome` |
| `PendingSurvivesRefresh` | `DeviceSpec => RefreshKeepsPending` |

`DeviceInv` says three things beyond the types. `Orderly`: a session has at most a
start and one end queued, in this order; what runs has no end queued and waits for
no correction; a Path runs one timer. The three hold only together, because a stop
that an answer orders is queued for whatever runs then, behind what is queued.
`RangeFits` and `ReadFits`: a range of downloaded history ends at the present
revision or is void, and a refresh is clean as long as its read would be adopted, which
is `StaleReadIsRefused`. And a device holds no session of its own before it began.
What an answer leaves of the queue is computed by `Without`, a recursive function
over a queue of any length. That its result is in the order of the queue and has
exactly the other operations (`WithoutLeavesRest`) is proved by induction
over a set of numbers, from the well-foundedness of `<`: the library's induction
theorems take an operator, which the provers cannot instantiate.

### Devices and server together

`TrackingSyncProofs`, for any devices, tabs, timers, activity IDs, lifecycle and
clock skew:

| theorem | statement |
|---|---|
| `SyncInvariant` | `SyncSpec => []SyncInv` |
| `NothingCountedTwice` | `SyncSpec => []CountedOnce` |
| `EverySessionAccounted` | `SyncSpec => []Accounted` |
| `DevicesImplemented` | `SyncSpec => DeviceSpec` |
| `ServerImplemented` | `SyncSpec => R!Spec`, the `TimerRegistry` of one account |
| `SessionsSettleOnce` | `SyncSpec => RP!SettlesOnce`: the server behind the devices implements `SessionLedger` |

The assumptions are `TrackingAssumption`; `OnePath`, since the server modelled is
that of one Path; and `SyncAssumption`, which has what `TimerRegistry` assumes of
its constants and keeps `None` apart from the other values.

`SyncInv` is the invariant of the devices (`DeviceInv`), that of the registry
(`RegInv`, from `TimerRegistryProofs`) and five statements about both:

- `ServerFits`: requests are of sessions that began, an applied end closed its
  session, and an active session was started by its key.
- `DrainFits`: an answer a tab holds still tells the truth when it is applied,
  however late: an accepted end means a settled session, an acknowledged start one
  the server has or closed. The registry helps by taking nothing back (`Advances`).
- `HoldFits`, per session and device: what runs was reported or will be, a start that
  no longer runs is followed by an end, and what the device let go of is closed at
  the server or was told to the user. `Accounted` is the last part, and no part
  survives a step alone: an acknowledgement that drops a start leaves a timer that
  only the server's row accounts for, and a refresh may then take it away.
- `HomeFits`: a reading of Home shows as running what is acknowledged and counts
  nothing that it shows as running. While it may be adopted, a session of the device
  that it lacks is closed or still queued.
- `CountFits`: the totals hold no session that the device holds or adds to them.
  `CountedOnce` follows, and a refresh keeps it by `HomeFits`.

The argument goes by what may happen to a session. At the server it advances
(`ApplyAdvances`, `ServerStepEnds`). At the device it is untouched, dropped and
told, or it is the session of the command or answer at hand (`Moves`), of which
there are five kinds: a start, a stop, an acknowledged, a settled and a rejected
command. `Receive` and `ReadHome` are then steps of the open device, because
`AnswerMembers` and `HomeShows` prove of this server what `OfflineTracking` assumes of
any, and a request is a command of `TimerRegistry` (`CommandMembers`). Each theorem
of the two components therefore holds of the composition. `SessionsSettleOnce` draws
that conclusion for the refinement of `SessionLedger`: end to end, whatever is
delayed, repeated or lost between devices and server, each session of each device is
settled once and recorded once.

`CountedOnce` keeps what a device adds apart from the totals it was shown. That it
adds nothing twice itself is `PendingOnce`, which is violated (finding 2).

### Sessions

`BrowserSessionsProofs`, for any tabs, studios, accounts, tokens and number of
writes; `SessionAssumption` says that a studio has a tab, that there are tokens,
that the record can be written, and that `None` is none of the values.

| theorem | statement |
|---|---|
| `SessionTypeCorrect` | `SessionSpec => []SessionTypeOK` |
| `RecordStaysTrue` | `SessionSpec => []RecordIsTrue` |
| `TokenRotatedOnce` | `SessionSpec => []RotatedOnce` |
| `NothingLeftStranded` | `SessionSpec => []NothingStranded` |
| `ReplacementIsSpared` | `SessionSpec => ReplacementSurvives` |

`SessionInv` is about what an operation may still believe when it writes. A fence
that is current (the ticket is the last one and the revision is that of the
record) must mean that the record has the very token the operation began with:
`RotationFits` and `BindingFits` say so of renewals and labels. A renewal stays
within the family and account of the token it replaces, and its replacement is
stored by its own write only. While it is asked for, the record has that token, none,
or one of another family, which is `RotatedOnce`; this survives another studio's
write because one renewal at a time is past the lock (part of `Typed`). `RecordFits`
makes a new family later than every family a token has or a discard names, so no
write returns to one that ended. `Apart` says that the token of a sign-in is on no other
way, so whoever lets go of a token knows whether it was stored, and `NothingStranded`
is inductive with it. `FencesFit` says that a discard waits only for a family somebody
wanted to end, from which `ReplacementSurvives` follows.

### Account deletion

`AccountDeletionProofs`, for any clients, devices and number of secrets;
`DeletionAssumption` says that each client has a device, that a native device has
one client, and that `NoAccount` is neither account.

| theorem | statement |
|---|---|
| `DeletionTypeCorrect` | `DeletionSpec => []DeletionTypeOK` |
| `DeletionSecretIsKept` | `DeletionSpec => []SecretIsKept` |
| `DeletionCompletionIsProven` | `DeletionSpec => []CompletionIsProven` |
| `DeletionDataFollowsIntent` | `DeletionSpec => DataFollowsIntent` |

`DeletionInv` is the type with `Links` and `DataFits`. `Links` follows a secret on
its way: until the server has a record, every run and every request of a device
carries the secret of its journal, so whichever request is admitted first, its
secret is in a journal; from then on the record does not change, and whatever goes
on because of a removal carries its secret. `DataFits` says that a device without
data is fenced, and that data outlives an intent only where no run still means to
remove it. The type needs `Links` too: that a removal takes one of the two accounts
depends on an accepted request being the reviewed account's.

### Authorization outbox

`AuthorizationOutboxProofs`, for any people, handlers, passes, scenarios, number of
rows and attempts; `OutboxAssumption` says that the founder is one of the people and
`Nobody` none of the holders of a lease.

| theorem | statement |
|---|---|
| `OutboxTypeCorrect` | `OutboxSpec => []OutboxTypeOK` |
| `ToldOnlyWhenDone` | `OutboxSpec => []ToldIsDone` |
| `AlwaysOneCreator` | `OutboxSpec => []OneCreator`, the part of `RelationsFit` that needs no hypothesis |
| `AccessFollowsTheDatabase` | `OutboxSpec /\ Harmless => []RelationsFit` |

A transfer replaces one creator by another in one write. That there is exactly one
at every instant is not inductive: the write must find the creator it names,
although it may be repeated after a lost answer, and by another worker after a lost
lease. `OutboxInv` therefore says that only transfers touch the creator and that one
is leased only in its turn (`TransferFits`), that its writer is in turn even when
the lease is gone, since a completed change stays completed (`WriterFits`), and that
the creator in SpiceDB is where each unfinished transfer starts or ends, the last
one with the owner in the database (`CreatorFits`). `LeaseFits` (only a pending change is
leased, with an attempt left) and `JobFits` (a handler reports its own rows, and who
writes has the resource to itself) are what these need of rows and workers.
`ToldIsDone` is inductive beside them.

That access converges is false for some operations used together, as this code has
them (finding 4 and "Bounds"). `Harmless` excludes exactly the four pairs for which
TLC finds `RelationsFit` violated, `{follow, unfollow}`, `{accept, remove}`, `{accept,
leave}` and `{leave, transfer}`: in every behaviour that contains none of them, access
follows the database, for any number of people, rows, retries and lost leases and
any set of operations. The hypothesis speaks of `used`, which no step changes, so
all scenarios of the `deletion_outbox` run fall under it. The invariant is
`AccessInv`:

- `MeantFits`, per relationship: the last change about it says what the database
  says; where there is none, SpiceDB does. It is what each producer must keep.
- `WrittenFits`: once the last change about a relationship is completed, or written
  and not yet completed, the relationship is what it says. This and `MeantFits` make
  `Converged` of a drained outbox.
- `TurnFits`: an ordered or batched change is applied, completed and given up in
  turn, so no earlier one is written after it. It outlives the lease, like `WriterFits`.
- `DirectFits`: a direct change, which waits for nobody, is made when the earlier
  changes about its relationship are completed. Each of the first three clashing pairs
  breaks this one: the earlier change is written last and wins.
- `JoinFits` and `FollowFits` are why it holds otherwise: who may still accept has no
  change about a participant, and whoever follows is taken away only by the removal
  of a follower, whose change the next follow waits for (`NoneWaits`).

`MeantFits` allows one surplus (`SpareIn`): after a transfer the owner, and an
administrator, may keep the relationship of a participant, which adds nothing to
theirs. It adds something once the administrator leaves, the fourth pair.

### Notification history

`NotificationHistoryProofs`, for any tabs, page size and finite set of
notifications:

| theorem | statement |
|---|---|
| `HistoryTypeCorrect` | `HistorySpec => []HistoryTypeOK` |
| `AcknowledgedNeverReturns` | `HistorySpec => []AcknowledgedStays` |
| `ListHasNoHoles` | `HistorySpec => []NoHoles` |
| `RefreshIsNeverStale` | `HistorySpec => RefreshIsFresh` |

`HistoryInv` relates, for each tab, its owner, the request it works on, what it
shows and what it was told: `AckFits` (what it was told is so at the server, and
stays so, hidden or not: a row keeps `read_at` and `deleted_at`), `ViewFits` (what it
shows, of which two of the theorems are parts; nothing it is bound to show is hidden),
`CallFits` (a tab works on one request at a time, so an answer that is not stale still
fits the acknowledgements, the cursor and the list it was asked for with, and what a
mutation changed is not unread) and
`RefreshFits` (a promised refresh is requested, or is the request under way, whose
page has nothing that was gone or hidden from the call on). Deletions and arrivals are
monotone (`ServerMoves`); hiding and showing again are not, and have lemmas of their
own (`HideKeeps`, `RevealKeeps`). That a page leaves no hole (`PageShows`)
follows for every page size from counting: a page shows the items with fewer newer
ones than it may hold, and its end is the oldest shown.

### The replay worker

`ReplayWorkerProofs`, about the background worker, which has no constants:

| theorem | statement |
|---|---|
| `WorkerNeverLosesAWakeup` | `WorkerSpec => []NoLostWakeup` |
| `WorkerStaysDisposed` | `WorkerSpec => DisposedStops`: after disposal nothing is scheduled and no replay starts |

`NoLostWakeup` needs the type (a retry is never scheduled beside a run that looks)
and `Quiet` (a disposed worker has neither a retry nor another round): together
they are `WorkerInv`, which every step keeps. `DisposedStops` is an action
property of the same invariant; no run repeats it.

### Model-checked only

- `SceneTypeOK` and `BackgroundTypeOK`, which only join, for a run of several
  scenes, type invariants that are proved for each component.
- Access in behaviours that combine a pair which `Harmless` excludes: there it is not
  what the database says (finding 4 and "Bounds"), and no theorem is to be had.
- Liveness (`QueueDrains`, `ChangesReplay`, `RefreshSettles`, `TabsConverge`,
  `IntentClears`), which is out of the prover's reach.

## Not modelled

PROJECT.json gives the reason for each component. Wholly left out are
projections without state of their own (statistics, progress), single-row
settings, text and presentation, generated code, and deployment: most of the
repository's lines, the screens of both apps among them. In the modelled
components, audit events, timer notifications to subscribers beyond their
number, paging of activity and time zones are left out. Left out for now, though
they have behaviour worth a model: edits of recorded activity on several devices,
push and live activity delivery, the offers and invitations around a transfer or
an acceptance, follow requests and blocks, onboarding and recovery, and reminders.

Of the outbox, a write to SpiceDB that times out and lands after its
serializer was released is left out, and what a follower may do is one
relationship. Of sessions, branches that end alike are one action: a sign-out whose
stored token differs from the controller's, an answer that is already expired, and a
binding for another owner.

Hazards without a property are in PROJECT.json with the reason. One more is left to
this page: notifications shown between the capture of the identifiers and the end
of a deletion are not in the snapshot (`account-deletion-journal.ts:21`), because
the operating system's notifications are not in the model.

## Plan

1. Timers, devices and their composition; the replay worker; sessions, account
   deletion, the authorization outbox and the notification history: done.
2. `ActivityMerge`: edits, deletions and replayed creations of recorded activity
   on several devices, against an abstract last-writer-wins register.
3. `PushDelivery` with its lease, shared with live activities: outbox rows and
   crashes between effect and acknowledgement.
4. Invitations and ownership offers (expiry, withdrawal, a lost answer), follow
   requests and blocks.
5. Goal and long-timer notices, which must be sent once each.

Every safety and action property of the runs that holds of all instances is
proved; what is not is listed under "Model-checked only". With each new module its
invariant comes first, as an inductive one that TLC checked. When the outbox
orders direct changes behind the ones about the same relationship, `Harmless` loses
three of its pairs, and `DirectFits` is then what to prove without it.
