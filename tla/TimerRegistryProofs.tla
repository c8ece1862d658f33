------------------------ MODULE TimerRegistryProofs ------------------------
(***************************************************************************)
(* Theorems about TimerRegistry, for every set of participants, sessions   *)
(* and activities and every clock bound.                                   *)
(***************************************************************************)
EXTENDS TimerRegistry, TLAPS

USE SessionsAssumption, ClockAssumption, NoneAssumption DEF Sessions, Instants

(* Rows name only activities that were recorded: what TypeOK needs to be   *)
(* inductive, because a deletion changes the rows it finds.                *)
NamesRecorded ==
    /\ \A s \in Sessions : registry[s].activity # None =>
          entries[registry[s].activity] # None
    /\ \A s \in Online : stopRows[s] # None /\ stopRows[s].activity # None =>
          entries[stopRows[s].activity] # None

(* A running session was issued.                                           *)
RunningStarted ==
    \A p \in Participants : running[p] # None => started[running[p]] # None

TypeInv == TypeOK /\ NamesRecorded /\ RunningStarted

----------------------------------------------------------------------------
(* What the helpers return *)

(* A command names a started session; a start carries no end.              *)
LEMMA CommandFields ==
    ASSUME TypeOK, NEW c \in Commands
    PROVE  /\ c.session \in Sessions
           /\ started[c.session] # None
           /\ Visible(c.session)
           /\ c.start \in Instants
           /\ c.kind \in {"start", "stop", "correct"}
           /\ c.kind # "start" => c.end \in Instants
           /\ c.kind # "correct" => c.start = started[c.session]
  BY DEF TypeOK, Commands, Command, Visible

(* What session resolves: a row with the types of the registry, and the      *)
(* registry's own where it has one.                                          *)
LEMMA LoadedRow ==
    ASSUME TypeInv, NEW s \in Sessions
    PROVE  /\ Loaded(s) \in RegistryRows
           /\ Loaded(s).activity # None => entries[Loaded(s).activity] # None
           /\ Loaded(s).outcome # "none"
           /\ Known(s) => Loaded(s) = registry[s]
  BY DEF TypeInv, TypeOK, NamesRecorded, Loaded, LegacyRow, Registered, Known,
         ActiveRow, Row, RegistryRows, StopRows, Outcomes

(* An end that is cut is an instant.                                         *)
LEMMA CutInstant ==
    ASSUME NEW end \in Instants, NEW cutoff \in Instants \cup {None}
    PROVE  Cut(end, cutoff) \in Instants
  BY DEF Cut

(* Deleting entries keeps their types, and unmakes none.                     *)
LEMMA RemovedEntries ==
    ASSUME NEW es \in [Activities -> Entries \cup {None}],
           NEW dead, \A a \in dead \cap Activities : es[a] # None
    PROVE  /\ Removed(es, dead) \in [Activities -> Entries \cup {None}]
           /\ \A a \in Activities : es[a] # None => Removed(es, dead)[a] # None
  <1> DEFINE gone(a) == [es[a] EXCEPT !.live = FALSE]
  <1>1. \A a \in dead \cap Activities : gone(a) \in Entries
    <2> SUFFICES ASSUME NEW a \in dead \cap Activities
                 PROVE  gone(a) \in Entries
      OBVIOUS
    <2>1. es[a] \in Entries
      OBVIOUS
    <2> QED
      BY <2>1 DEF Entries
  <1>2. \A a \in Activities :
          Removed(es, dead)[a] = IF a \in dead THEN gone(a) ELSE es[a]
    BY DEF Removed
  <1>3. \A a \in dead \cap Activities : gone(a) # None
    BY <1>1
  <1> HIDE DEF gone
  <1> QED
    BY <1>1, <1>2, <1>3 DEF Removed

(* Rows lose at most the name of their entry.                                *)
LEMMA UnlinkedRows ==
    ASSUME NEW reg \in [Sessions -> RegistryRows], NEW dead
    PROVE  /\ Unlinked(reg, dead) \in [Sessions -> RegistryRows]
           /\ \A s \in Sessions :
                 Unlinked(reg, dead)[s].activity \in {reg[s].activity, None}
  BY DEF Unlinked, RegistryRows

(* Stop rows lose at most the name of their entry, and no row appears.       *)
LEMMA ScrubbedRows ==
    ASSUME NEW rows \in [Online -> StopRows \cup {None}], NEW dead
    PROVE  /\ Scrubbed(rows, dead) \in [Online -> StopRows \cup {None}]
           /\ \A s \in Online : Scrubbed(rows, dead)[s] # None =>
                 /\ rows[s] # None
                 /\ Scrubbed(rows, dead)[s].activity \in {rows[s].activity, None}
  BY DEF Scrubbed, StopRows

(* Persisting writes one entry at most, and names it when it did.            *)
LEMMA PersistedEntries ==
    ASSUME TypeOK, NEW a \in Activities, NEW s \in Sessions,
           NEW start \in Instants, NEW end \in Instants, Persist(a, s, start, end)
    PROVE  /\ entries' \in [Activities -> Entries \cup {None}]
           /\ \A b \in Activities : entries[b] # None => entries'[b] = entries[b]
           /\ SavedAs(a, start, end) \in Activities \cup {None}
           /\ SavedAs(a, start, end) # None => entries'[a] # None
           /\ SavedAs(a, start, end) \in {a, None}
  <1>1. NewEntry(s, start, end) \in Entries
    BY DEF NewEntry, Entries
  <1>2. NewEntry(s, start, end) # None
    BY <1>1
  <1>3. CASE Saves(start, end)
    BY <1>1, <1>2, <1>3 DEF TypeOK, Persist, SavedAs
  <1>4. CASE ~Saves(start, end)
    BY <1>4 DEF TypeOK, Persist, SavedAs
  <1> QED
    BY <1>3, <1>4

(* A write of the registry writes one row.                                   *)
LEMMA SetRowRows ==
    ASSUME TypeOK, NEW s \in Sessions, NEW row \in RegistryRows, SetRow(s, row)
    PROVE  /\ registry' \in [Sessions -> RegistryRows]
           /\ registry'[s] = row
           /\ \A t \in Sessions \ {s} : registry'[t] = registry[t]
  BY DEF TypeOK, SetRow

(* The row a settlement writes has the types of the registry, and names the  *)
(* entry it saved, if any.                                                   *)
LEMMA SettledRowFields ==
    ASSUME TypeInv, NEW s \in Sessions,
           NEW outcome \in Outcomes,
           NEW saved \in Activities \cup {None}, NEW end \in Instants
    PROVE  /\ SettledRow(s, outcome, saved, end) \in RegistryRows
           /\ SettledRow(s, outcome, saved, end).activity # None =>
                \/ SettledRow(s, outcome, saved, end).activity = saved
                \/ entries[SettledRow(s, outcome, saved, end).activity] # None
  BY DEF TypeInv, TypeOK, NamesRecorded, SettledRow, Registered, Known,
         ActiveRow, Row, RegistryRows, Outcomes

(* Ending a timer online: what StopTimer and LeaveRetaining share.         *)
LEMMA EndRunningRows ==
    ASSUME TypeInv, NEW p \in Participants, NEW a \in Activities,
           EndRunning(p, a)
    PROVE  /\ running' \in [Participants -> Sessions \cup {None}]
           /\ registry' \in [Sessions -> RegistryRows]
           /\ entries' \in [Activities -> Entries \cup {None}]
           /\ \A b \in Activities : entries[b] # None => entries'[b] # None
           /\ \A s \in Sessions : registry'[s].activity # None =>
                entries'[registry'[s].activity] # None
           /\ SavedAs(a, started[running[p]], now) \in Activities \cup {None}
           /\ SavedAs(a, started[running[p]], now) # None => entries'[a] # None
  <1> DEFINE s == running[p]
             saved == SavedAs(a, started[s], now)
             row == SettledRow(s, "stopped", saved, now)
  <1>1. /\ s \in Sessions /\ now \in Instants /\ started[s] \in Instants
    BY DEF EndRunning, TypeInv, TypeOK, RunningStarted
  <1>2. Persist(a, s, started[s], now)
    BY DEF EndRunning
  <1>3. /\ entries' \in [Activities -> Entries \cup {None}]
        /\ \A b \in Activities : entries[b] # None => entries'[b] = entries[b]
        /\ saved \in Activities \cup {None}
        /\ saved # None => entries'[a] # None
        /\ saved \in {a, None}
    BY <1>1, <1>2, PersistedEntries DEF TypeInv
  <1>4. /\ row \in RegistryRows
        /\ row.activity # None => row.activity = saved \/ entries[row.activity] # None
    BY <1>1, <1>3, SettledRowFields DEF Outcomes
  <1>5. registry' = [registry EXCEPT ![s] = row]
    BY DEF EndRunning
  <1>6. running' \in [Participants -> Sessions \cup {None}]
    BY DEF EndRunning, TypeInv, TypeOK
  <1> HIDE DEF s, saved, row
  <1>7. registry' \in [Sessions -> RegistryRows]
    BY <1>1, <1>4, <1>5 DEF TypeInv, TypeOK
  <1>8. \A t \in Sessions : registry'[t].activity # None =>
          entries'[registry'[t].activity] # None
    BY <1>1, <1>3, <1>4, <1>5 DEF TypeInv, TypeOK, NamesRecorded, RegistryRows
  <1> QED
    BY <1>3, <1>6, <1>7, <1>8 DEF s, saved

----------------------------------------------------------------------------
(* Type correctness *)

(* The types hold at first.                                                  *)
LEMMA TypeInit == Init => TypeInv
  <1> SUFFICES ASSUME Init PROVE TypeInv
    OBVIOUS
  <1> USE DEF Init
  <1>1. PICK fate \in [Legacy -> {"running", "saved", "short", "deleted"}],
             id \in [Legacy -> Activities], end \in [Legacy -> Instants] :
          LegacyState(fate, id, end)
    BY DEF LegacyInit
  <1>2. \A s \in Legacy : /\ started[s] \in Instants /\ end[s] \in Instants
                          /\ LegacyEntry(fate, end, s) \in Entries
                          /\ LegacyEntry(fate, end, s) # None
    <2>1. \A s \in Legacy : started[s] \in Instants /\ end[s] \in Instants
      BY <1>1 DEF LegacyState
    <2>2. \A s \in Legacy : LegacyEntry(fate, end, s) \in Entries
      BY <2>1 DEF LegacyEntry, NewEntry, Entries
    <2> QED
      BY <2>1, <2>2
  <1>3. \A a \in Activities : (\E s \in SavedOf(fate) : id[s] = a) =>
          (CHOOSE s \in SavedOf(fate) : id[s] = a) \in Legacy
    BY DEF SavedOf
  <1>4. /\ entries \in [Activities -> Entries \cup {None}]
        /\ \A s \in SavedOf(fate) : entries[id[s]] # None
    <2>1. \A a \in Activities :
            entries[a] = IF \E s \in SavedOf(fate) : id[s] = a
                         THEN LegacyEntry(fate, end,
                                CHOOSE s \in SavedOf(fate) : id[s] = a)
                         ELSE None
      BY <1>1 DEF LegacyState
    <2>2. \A a \in Activities : (\E s \in SavedOf(fate) : id[s] = a) =>
            entries[a] \in Entries /\ entries[a] # None
      BY <1>2, <1>3, <2>1
    <2>3. \A s \in SavedOf(fate) : id[s] \in Activities
      BY DEF SavedOf
    <2>4. DOMAIN entries = Activities /\ entries = [a \in Activities |-> entries[a]]
      BY <1>1 DEF LegacyState
    <2> QED
      BY <2>1, <2>2, <2>3, <2>4
  <1>5. stopRows \in [Online -> StopRows \cup {None}]
    BY <1>1 DEF LegacyState, LegacyStop, OverOf, StopRows
  <1>6. \A s \in Online : stopRows[s] # None /\ stopRows[s].activity # None =>
          s \in SavedOf(fate) /\ stopRows[s].activity = id[s]
    BY <1>1 DEF LegacyState, LegacyStop, OverOf, SavedOf
  <1>7. /\ running \in [Participants -> Sessions \cup {None}]
        /\ \A p \in Participants : running[p] # None => running[p] \in Legacy
    BY <1>1 DEF LegacyState
  <1>8. registry \in [Sessions -> RegistryRows]
    BY DEF NoRow, Row, RegistryRows, Outcomes
  <1>9. TypeOK
    BY <1>1, <1>4, <1>5, <1>7, <1>8 DEF TypeOK, LegacyState
  <1>10. NamesRecorded
    BY <1>4, <1>6 DEF NamesRecorded, NoRow, Row
  <1>11. RunningStarted
    BY <1>7 DEF RunningStarted
  <1> QED
    BY <1>9, <1>10, <1>11 DEF TypeInv

(* A synchronized command, one case for each way through applyOfflineTimer.*)
LEMMA TypeSynchronize ==
    ASSUME TypeInv, NEW c \in Commands, NEW a \in Activities, Synchronize(c, a)
    PROVE  TypeInv'
  <1> DEFINE s == c.session
             p == Owner[s]
             row == Loaded(s)
  <1>1. /\ s \in Sessions /\ p \in Participants /\ started[s] # None
        /\ c.start \in Instants
        /\ c.kind # "start" => c.end \in Instants
    BY CommandFields DEF TypeInv
  <1>2. /\ row \in RegistryRows
        /\ row.activity # None => entries[row.activity] # None
    BY <1>1, LoadedRow
  <1>3. TypeOK /\ NamesRecorded /\ RunningStarted
    BY DEF TypeInv
  <1> HIDE DEF s, p, row
  <1>4. ASSUME NEW new \in RegistryRows, SetRow(s, new),
               new.activity # None => entries'[new.activity] # None,
               UNCHANGED <<pathVars, started, startRows, stopRows, erased>>,
               notices' \in [Sessions -> Nat],
               entries' \in [Activities -> Entries \cup {None}],
               \A b \in Activities : entries[b] # None => entries'[b] # None,
               \/ running' = running
               \/ running' = [running EXCEPT ![p] = s]
               \/ running' = [running EXCEPT ![p] = None]
        PROVE  TypeInv'
    <2>1. /\ registry' \in [Sessions -> RegistryRows]
          /\ registry'[s] = new
          /\ \A t \in Sessions \ {s} : registry'[t] = registry[t]
      BY <1>1, <1>3, <1>4, SetRowRows
    <2>2. TypeOK'
      BY <1>1, <1>3, <1>4, <2>1 DEF TypeOK, pathVars
    <2>3. NamesRecorded'
      <3>1. \A t \in Sessions : registry'[t].activity # None =>
              entries'[registry'[t].activity] # None
        BY <1>1, <1>3, <1>4, <2>1 DEF TypeOK, NamesRecorded, RegistryRows
      <3>2. \A t \in Online : stopRows[t] # None /\ stopRows[t].activity # None =>
              entries'[stopRows[t].activity] # None
        BY <1>3, <1>4 DEF TypeOK, NamesRecorded, StopRows
      <3> QED
        BY <1>4, <3>1, <3>2 DEF NamesRecorded
    <2>4. RunningStarted'
      BY <1>1, <1>3, <1>4 DEF TypeOK, RunningStarted
    <2> QED
      BY <2>2, <2>3, <2>4 DEF TypeInv
  <1>5. CASE SyncSettled(c)
    BY <1>1, <1>2, <1>3, <1>4, <1>5 DEF SyncSettled, TypeOK, s, row
  <1>6. CASE SyncReconcile(c)
    <2> DEFINE end == Cut(c.end, row.terminal)
               keeps == /\ row.activity # None
                        /\ ~Refused(c.start, row.terminal) /\ Saves(c.start, end)
               new == Row("stopped", IF keeps THEN row.activity ELSE None, row.terminal)
    <2>1. SetRow(s, new) /\ c.kind # "start"
      BY <1>6 DEF SyncReconcile, s, row
    <2>2. end \in Instants
      BY <1>1, <1>2, <2>1, CutInstant DEF RegistryRows
    <2>3. NewEntry(s, c.start, end) \in Entries
      BY <1>1, <2>2 DEF NewEntry, Entries
    <2>4. entries' = IF row.activity = None THEN entries
                     ELSE IF keeps
                     THEN [entries EXCEPT ![row.activity] = NewEntry(s, c.start, end)]
                     ELSE Removed(entries, {row.activity})
      BY <1>6 DEF SyncReconcile, s, row
    <2> HIDE DEF end, keeps
    <2>5. new \in RegistryRows /\ new.activity \in {row.activity, None}
      BY <1>2 DEF Row, RegistryRows, Outcomes
    <2>6. /\ entries' \in [Activities -> Entries \cup {None}]
          /\ \A b \in Activities : entries[b] # None => entries'[b] # None
      <3>1. CASE row.activity = None
        BY <1>3, <2>4, <3>1 DEF TypeOK
      <3>2. CASE row.activity # None /\ keeps
        <4>1. NewEntry(s, c.start, end) # None
          BY <2>3
        <4> QED
          BY <1>3, <2>3, <2>4, <3>2, <4>1 DEF TypeOK
      <3>3. CASE row.activity # None /\ ~keeps
        BY <1>2, <1>3, <2>4, <3>3, RemovedEntries DEF TypeOK
      <3> QED
        BY <3>1, <3>2, <3>3
    <2>7. new.activity # None => entries'[new.activity] # None
      BY <1>2, <2>5, <2>6 DEF RegistryRows
    <2>8. /\ UNCHANGED <<pathVars, started, running, startRows, stopRows, erased>>
          /\ notices' \in [Sessions -> Nat]
      BY <1>3, <1>6 DEF SyncReconcile, TypeOK
    <2> QED
      BY <1>4, <2>1, <2>5, <2>6, <2>7, <2>8
  <1>7. CASE SyncRefused(c)
    <2>1. [row EXCEPT !.outcome = "archived"] \in RegistryRows
      BY <1>2 DEF RegistryRows, Outcomes
    <2> QED
      BY <1>1, <1>2, <1>3, <1>4, <1>7, <2>1 DEF SyncRefused, TypeOK, RegistryRows, s, row
  <1>8. CASE SyncStartWaits(c)
    <2>1. Cutoff(row) \in Instants
      BY <1>2, <1>3, <1>8 DEF SyncStartWaits, Cutoff, TypeOK, RegistryRows, s, row
    <2>2. [row EXCEPT !.outcome = "archive_waiting", !.terminal = Cutoff(row)]
            \in RegistryRows
      BY <1>2, <2>1 DEF RegistryRows, Outcomes
    <2> QED
      BY <1>1, <1>2, <1>3, <1>4, <1>8, <2>1, <2>2
      DEF SyncStartWaits, TypeOK, RegistryRows, s, row
  <1>9. CASE SyncStartRuns(c)
    <2>1. notices' \in [Sessions -> Nat]
      BY <1>1, <1>3, <1>9 DEF SyncStartRuns, Announce, TypeOK, s
    <2> QED
      BY <1>1, <1>2, <1>3, <1>4, <1>9, <2>1 DEF SyncStartRuns, TypeOK, s, p, row
  <1>10. CASE SyncStartLoses(c)
    <2>1. [row EXCEPT !.outcome = "conflict"] \in RegistryRows
      BY <1>2 DEF RegistryRows, Outcomes
    <2> QED
      BY <1>1, <1>2, <1>3, <1>4, <1>10, <2>1
      DEF SyncStartLoses, TypeOK, RegistryRows, s, row
  <1>11. CASE SyncStartWins(c)
    <2> DEFINE current == running[p]
               loser == [Registered(current) EXCEPT !.outcome = "conflict"]
    <2>1. current \in Sessions \ {s}
      BY <1>1, <1>3, <1>11 DEF SyncStartWins, TypeOK, s, p
    <2>2. /\ loser \in RegistryRows
          /\ loser.activity # None => entries[loser.activity] # None
      BY <1>3, <2>1 DEF TypeOK, NamesRecorded, Registered, Known, ActiveRow, Row,
                        RegistryRows, Outcomes
    <2>3. /\ running' = [running EXCEPT ![p] = s]
          /\ registry' = [registry EXCEPT ![current] = loser, ![s] = row]
          /\ UNCHANGED <<pathVars, started, startRows, stopRows, entries, erased>>
      BY <1>11 DEF SyncStartWins, s, p, row
    <2>4. notices' \in [Sessions -> Nat]
      BY <1>1, <1>3, <1>11 DEF SyncStartWins, Announce, TypeOK, s
    <2> HIDE DEF current, loser
    <2>5. /\ registry' \in [Sessions -> RegistryRows]
          /\ \A t \in Sessions : registry'[t].activity # None =>
               entries[registry'[t].activity] # None
      BY <1>1, <1>2, <1>3, <2>1, <2>2, <2>3 DEF TypeOK, NamesRecorded
    <2>6. TypeOK'
      BY <1>1, <1>3, <2>3, <2>4, <2>5 DEF TypeOK, pathVars
    <2>7. NamesRecorded'
      BY <1>3, <2>3, <2>5 DEF NamesRecorded
    <2>8. RunningStarted'
      BY <1>1, <1>3, <2>3 DEF TypeOK, RunningStarted
    <2> QED
      BY <2>6, <2>7, <2>8 DEF TypeInv
  <1>12. CASE SyncStop(c, a)
    <2> DEFINE end == Cut(c.end, Cutoff(row))
               saved == SavedAs(a, c.start, end)
               new == Row("stopped", IF saved = None THEN row.activity ELSE saved,
                          c.end)
    <2>1. /\ c.kind # "start"
          /\ Persist(a, s, c.start, end)
          /\ running' = [running EXCEPT ![p] = IF @ = s THEN None ELSE @]
          /\ SetRow(s, new)
          /\ UNCHANGED <<pathVars, started, startRows, stopRows, notices, erased>>
      BY <1>12 DEF SyncStop, s, p, row
    <2>2. Cutoff(row) \in Instants \cup {None}
      BY <1>2, <1>3 DEF Cutoff, TypeOK, RegistryRows
    <2>3. end \in Instants
      BY <1>1, <2>1, <2>2, CutInstant
    <2>4. /\ entries' \in [Activities -> Entries \cup {None}]
          /\ \A b \in Activities : entries[b] # None => entries'[b] = entries[b]
          /\ saved \in Activities \cup {None}
          /\ saved # None => entries'[a] # None
          /\ saved \in {a, None}
      BY <1>1, <1>3, <2>1, <2>3, PersistedEntries
    <2> HIDE DEF end, saved
    <2>5. new \in RegistryRows
      BY <1>1, <1>2, <2>1, <2>4 DEF Row, RegistryRows, Outcomes
    <2>6. new.activity # None => entries'[new.activity] # None
      BY <1>2, <2>4 DEF Row, RegistryRows
    <2>7. running' = running \/ running' = [running EXCEPT ![p] = None]
      BY <1>1, <1>3, <2>1 DEF TypeOK
    <2> HIDE DEF new
    <2> QED
      BY <1>3, <1>4, <2>1, <2>4, <2>5, <2>6, <2>7 DEF TypeOK
  <1> QED
    BY <1>5, <1>6, <1>7, <1>8, <1>9, <1>10, <1>11, <1>12 DEF Synchronize

(* Archival ends every running timer; each saved one has its own entry.    *)
LEMMA TypeArchive ==
    ASSUME TypeInv, NEW ids \in [Participants -> Activities], Archive(ids)
    PROVE  TypeInv'
  <1> DEFINE stopping == {p \in Participants : running[p] # None}
             saving == {p \in stopping : Saves(started[running[p]], now)}
             row(s) == SettledRow(s, "archive_pending",
                         SavedAs(ids[Owner[s]], started[s], now), now)
             entry(p) == NewEntry(running[p], started[running[p]], now)
  <1>1. TypeOK /\ NamesRecorded /\ RunningStarted
    BY DEF TypeInv
  <1>2. /\ archivedAt' = now
        /\ running' = [p \in Participants |-> None]
        /\ registry' = [s \in Sessions |-> IF Runs(s) THEN row(s) ELSE registry[s]]
        /\ entries' = [a \in Activities |->
              IF \E p \in saving : ids[p] = a
              THEN entry(CHOOSE p \in saving : ids[p] = a)
              ELSE entries[a]]
        /\ UNCHANGED <<now, role, joinedAt, started, startRows, stopRows,
                       notices, erased>>
    BY DEF Archive
  <1>3. \A p \in saving : entry(p) \in Entries /\ entry(p) # None
    <2> SUFFICES ASSUME NEW p \in saving PROVE entry(p) \in Entries /\ entry(p) # None
      OBVIOUS
    <2>1. /\ running[p] \in Sessions /\ started[running[p]] \in Instants
          /\ now \in Instants
      BY <1>1 DEF TypeOK, RunningStarted
    <2>2. entry(p) \in Entries
      BY <2>1 DEF NewEntry, Entries
    <2> QED
      BY <2>2
  <1>4. \A a \in Activities : (\E p \in saving : ids[p] = a) =>
          (CHOOSE p \in saving : ids[p] = a) \in saving
    OBVIOUS
  <1>5. \A s \in Sessions : Runs(s) =>
          /\ row(s) \in RegistryRows
          /\ row(s).activity # None =>
               \/ row(s).activity = ids[Owner[s]] /\ Owner[s] \in saving
               \/ entries[row(s).activity] # None
    <2> SUFFICES ASSUME NEW s \in Sessions, Runs(s)
                 PROVE  /\ row(s) \in RegistryRows
                        /\ row(s).activity # None =>
                             \/ row(s).activity = ids[Owner[s]] /\ Owner[s] \in saving
                             \/ entries[row(s).activity] # None
      OBVIOUS
    <2>1. /\ Owner[s] \in stopping /\ running[Owner[s]] = s
          /\ now \in Instants
      BY <1>1 DEF Runs, TypeOK
    <2> DEFINE id == SavedAs(ids[Owner[s]], started[s], now)
    <2>2. /\ id \in Activities \cup {None}
          /\ id # None => id = ids[Owner[s]] /\ Owner[s] \in saving
      BY <2>1 DEF SavedAs
    <2>3. SettledRow(s, "archive_pending", id, now) = row(s)
      OBVIOUS
    <2> HIDE DEF id, row, saving
    <2> QED
      BY <2>1, <2>2, <2>3, SettledRowFields DEF Outcomes
  <1> HIDE DEF row, entry, saving
  <1>6. /\ entries' \in [Activities -> Entries \cup {None}]
        /\ \A a \in Activities : entries[a] # None => entries'[a] # None
        /\ \A p \in saving : p \in Participants => entries'[ids[p]] # None
    BY <1>1, <1>2, <1>3, <1>4 DEF TypeOK
  <1>7. registry' \in [Sessions -> RegistryRows]
    BY <1>1, <1>2, <1>5 DEF TypeOK
  <1>8. \A s \in Sessions : registry'[s].activity # None =>
          entries'[registry'[s].activity] # None
    <2> SUFFICES ASSUME NEW s \in Sessions, registry'[s].activity # None
                 PROVE  entries'[registry'[s].activity] # None
      OBVIOUS
    <2>1. registry'[s].activity \in Activities /\ Owner[s] \in Participants
      BY <1>7 DEF RegistryRows
    <2>2. CASE Runs(s)
      BY ZenonT(60), <1>2, <1>5, <1>6, <2>1, <2>2
    <2>3. CASE ~Runs(s)
      BY <1>1, <1>2, <1>6, <2>1, <2>3 DEF NamesRecorded
    <2> QED
      BY <2>2, <2>3
  <1>9. TypeOK'
    BY <1>1, <1>2, <1>6, <1>7 DEF TypeOK
  <1>10. NamesRecorded'
    <2>1. \A s \in Online : stopRows[s] # None /\ stopRows[s].activity # None =>
            entries'[stopRows[s].activity] # None
      BY <1>1, <1>6 DEF TypeOK, NamesRecorded, StopRows
    <2> QED
      BY <1>2, <1>8, <2>1 DEF NamesRecorded
  <1>11. RunningStarted'
    BY <1>2 DEF RunningStarted
  <1> QED
    BY <1>9, <1>10, <1>11 DEF TypeInv

(* The deletion of a member's data keeps the registry's rows.              *)
LEMMA TypeErase ==
    ASSUME TypeInv, NEW p \in Participants, EraseMemberData(p),
           role' \in [Participants -> {"participant", "supporter", "none"}],
           joinedAt' \in [Participants -> Instants]
    PROVE  TypeInv'
  <1> DEFINE dead == {a \in Activities : /\ entries[a] # None
                                         /\ Owner[entries[a].session] = p}
             mine == {s \in Sessions : Owner[s] = p}
  <1>1. TypeOK /\ NamesRecorded /\ RunningStarted
    BY DEF TypeInv
  <1>2. /\ running' = [running EXCEPT ![p] = None]
        /\ entries' = Removed(entries, dead)
        /\ registry' = Unlinked(registry, dead)
        /\ startRows' = startRows \ mine
        /\ stopRows' = [s \in Online |-> IF s \in mine THEN None ELSE stopRows[s]]
        /\ erased' = erased \cup ({running[p]} \ {None})
        /\ UNCHANGED <<now, archivedAt, started, notices>>
    BY DEF EraseMemberData
  <1>3. \A a \in dead : entries[a] # None
    OBVIOUS
  <1> HIDE DEF dead, mine
  <1>4. /\ entries' \in [Activities -> Entries \cup {None}]
        /\ \A a \in Activities : entries[a] # None => entries'[a] # None
    BY <1>1, <1>2, <1>3, RemovedEntries DEF TypeOK
  <1>5. /\ registry' \in [Sessions -> RegistryRows]
        /\ \A s \in Sessions : registry'[s].activity \in {registry[s].activity, None}
    BY <1>1, <1>2, UnlinkedRows DEF TypeOK
  <1>6. TypeOK'
    BY <1>1, <1>2, <1>4, <1>5 DEF TypeOK
  <1>7. NamesRecorded'
    BY <1>1, <1>2, <1>4, <1>5 DEF TypeOK, NamesRecorded, RegistryRows, StopRows
  <1>8. RunningStarted'
    BY <1>1, <1>2 DEF TypeOK, RunningStarted
  <1> QED
    BY <1>6, <1>7, <1>8 DEF TypeInv

(* Every operation keeps the types.                                          *)
LEMMA TypeNext == TypeInv /\ [Next]_vars => TypeInv'
  <1> SUFFICES ASSUME TypeInv, [Next]_vars PROVE TypeInv'
    OBVIOUS
  <1>1. TypeOK /\ NamesRecorded /\ RunningStarted
    BY DEF TypeInv
  <1>2. CASE \E c \in Commands, a \in Activities : Synchronize(c, a)
    BY <1>2, TypeSynchronize
  <1>3. ASSUME NEW s \in Online, StartTimer(s)
        PROVE  TypeInv'
    <2>1. /\ s \in Sessions /\ Owner[s] \in Participants
          /\ started[s] = None
          /\ Registered(s) \in RegistryRows
          /\ Registered(s).activity # None => entries[Registered(s).activity] # None
      BY <1>1, <1>3 DEF StartTimer, FreshRequest, TypeOK, NamesRecorded, Registered,
                        Known, ActiveRow, Row, RegistryRows, Outcomes
    <2>2. TypeOK'
      BY <1>1, <1>3, <2>1 DEF StartTimer, TypeOK, pathVars
    <2>3. NamesRecorded'
      BY <1>1, <1>3, <2>1 DEF StartTimer, TypeOK, NamesRecorded
    <2>4. RunningStarted'
      BY <1>1, <1>3, <2>1 DEF StartTimer, TypeOK, RunningStarted
    <2> QED
      BY <2>2, <2>3, <2>4 DEF TypeInv
  <1>4. ASSUME NEW s \in Online, StartTimerConflict(s)
        PROVE  TypeInv'
    BY <1>1, <1>4 DEF StartTimerConflict, TypeInv, TypeOK, NamesRecorded,
                      RunningStarted, pathVars
  <1>5. ASSUME NEW p \in Participants, NEW a \in Activities, StopTimer(p, a)
        PROVE  TypeInv'
    <2> DEFINE s == running[p]
               saved == SavedAs(a, started[s], now)
               stop == [end |-> now, activity |-> saved]
    <2>1. /\ EndRunning(p, a)
          /\ running' = [running EXCEPT ![p] = None]
          /\ stopRows' = IF s \in Online THEN [stopRows EXCEPT ![s] = stop] ELSE stopRows
          /\ UNCHANGED <<pathVars, started, startRows, notices, erased>>
      BY <1>5 DEF StopTimer, EndRunning
    <2>2. /\ running' \in [Participants -> Sessions \cup {None}]
          /\ registry' \in [Sessions -> RegistryRows]
          /\ entries' \in [Activities -> Entries \cup {None}]
          /\ \A b \in Activities : entries[b] # None => entries'[b] # None
          /\ \A t \in Sessions : registry'[t].activity # None =>
               entries'[registry'[t].activity] # None
          /\ saved \in Activities \cup {None}
          /\ saved # None => entries'[a] # None
          /\ saved \in {a, None}
      BY <2>1, EndRunningRows DEF SavedAs
    <2> HIDE DEF s, saved
    <2>3. stop \in StopRows /\ stop.activity = saved
      BY <1>1, <2>2 DEF TypeOK, StopRows
    <2> HIDE DEF stop
    <2>4. TypeOK'
      BY <1>1, <2>1, <2>2, <2>3 DEF TypeOK, pathVars
    <2>5. \A t \in Online : stopRows'[t] # None /\ stopRows'[t].activity # None =>
            entries'[stopRows'[t].activity] # None
      BY <1>1, <2>1, <2>2, <2>3 DEF TypeOK, NamesRecorded, StopRows
    <2>6. NamesRecorded'
      BY <2>2, <2>5 DEF NamesRecorded
    <2>7. RunningStarted'
      BY <1>1, <2>1 DEF TypeOK, RunningStarted
    <2> QED
      BY <2>4, <2>6, <2>7 DEF TypeInv
  <1>6. ASSUME NEW a \in Activities, DeleteActivity(a)
        PROVE  TypeInv'
    <2>1. /\ entries' \in [Activities -> Entries \cup {None}]
          /\ \A b \in Activities : entries[b] # None => entries'[b] # None
      BY <1>1, <1>6, RemovedEntries DEF DeleteActivity, TypeOK
    <2>2. /\ registry' \in [Sessions -> RegistryRows]
          /\ \A s \in Sessions : registry'[s].activity \in {registry[s].activity, None}
      BY <1>1, <1>6, UnlinkedRows DEF DeleteActivity, TypeOK
    <2>3. /\ stopRows' \in [Online -> StopRows \cup {None}]
          /\ \A s \in Online : stopRows'[s] # None =>
               /\ stopRows[s] # None
               /\ stopRows'[s].activity \in {stopRows[s].activity, None}
      BY <1>1, <1>6, ScrubbedRows DEF DeleteActivity, TypeOK
    <2>4. UNCHANGED <<pathVars, started, running, startRows, notices, erased>>
      BY <1>6 DEF DeleteActivity
    <2>5. TypeOK'
      BY <1>1, <2>1, <2>2, <2>3, <2>4 DEF TypeOK, pathVars
    <2>6. NamesRecorded'
      BY <1>1, <2>1, <2>2, <2>3 DEF TypeOK, NamesRecorded, RegistryRows, StopRows
    <2>7. RunningStarted'
      BY <1>1, <2>4 DEF RunningStarted
    <2> QED
      BY <2>5, <2>6, <2>7 DEF TypeInv
  <1>7. ASSUME NEW ids \in [Participants -> Activities], Archive(ids)
        PROVE  TypeInv'
    BY <1>7, TypeArchive
  <1>8. CASE Restore
    BY <1>1, <1>8 DEF Restore, TypeInv, TypeOK, NamesRecorded, RunningStarted, timerVars
  <1>9. ASSUME NEW p \in Participants, NEW a \in Activities, LeaveRetaining(p, a)
        PROVE  TypeInv'
    <2>1. UNCHANGED <<now, archivedAt, joinedAt, started, startRows, stopRows,
                      notices, erased>>
      BY <1>9 DEF LeaveRetaining
    <2>2. role' \in [Participants -> {"participant", "supporter", "none"}]
      BY <1>1, <1>9 DEF LeaveRetaining, TypeOK
    <2>3. CASE running[p] = None
      <3>1. UNCHANGED <<running, registry, entries>>
        BY <1>9, <2>3 DEF LeaveRetaining
      <3> QED
        BY <1>1, <2>1, <2>2, <3>1 DEF TypeInv, TypeOK, NamesRecorded, RunningStarted
    <2>4. CASE running[p] # None
      <3>1. EndRunning(p, a) /\ running' = [running EXCEPT ![p] = None]
        BY <1>9, <2>4 DEF LeaveRetaining, EndRunning
      <3>2. /\ running' \in [Participants -> Sessions \cup {None}]
            /\ registry' \in [Sessions -> RegistryRows]
            /\ entries' \in [Activities -> Entries \cup {None}]
            /\ \A b \in Activities : entries[b] # None => entries'[b] # None
            /\ \A t \in Sessions : registry'[t].activity # None =>
                 entries'[registry'[t].activity] # None
        BY <3>1, EndRunningRows
      <3>3. TypeOK'
        BY <1>1, <2>1, <2>2, <3>2 DEF TypeOK
      <3>4. NamesRecorded'
        BY <1>1, <2>1, <3>2 DEF TypeOK, NamesRecorded, StopRows
      <3>5. RunningStarted'
        BY <1>1, <2>1, <3>1 DEF TypeOK, RunningStarted
      <3> QED
        BY <3>3, <3>4, <3>5 DEF TypeInv
    <2> QED
      BY <2>3, <2>4
  <1>10. ASSUME NEW p \in Participants, RemoveMember(p)
         PROVE  TypeInv'
    <2>1. /\ role' \in [Participants -> {"participant", "supporter", "none"}]
          /\ joinedAt' = joinedAt
      BY <1>1, <1>10 DEF RemoveMember, TypeOK
    <2>2. CASE Tracks(p)
      BY <1>1, <1>10, <2>1, <2>2, TypeErase DEF RemoveMember, TypeOK
    <2>3. CASE ~Tracks(p)
      BY <1>1, <1>10, <2>1, <2>3 DEF RemoveMember, TypeInv, TypeOK, NamesRecorded,
                                     RunningStarted, timerVars
    <2> QED
      BY <2>2, <2>3
  <1>11. ASSUME NEW p \in Participants, Demote(p)
         PROVE  TypeInv'
    BY <1>1, <1>11, TypeErase DEF Demote, TypeOK
  <1>12. ASSUME NEW p \in Participants, Promote(p)
         PROVE  TypeInv'
    BY <1>1, <1>12 DEF Promote, TypeInv, TypeOK, NamesRecorded, RunningStarted, timerVars
  <1>13. ASSUME NEW p \in Participants,
                NEW offered \in {"participant", "supporter"}, Join(p, offered)
         PROVE  TypeInv'
    BY <1>1, <1>13 DEF Join, TypeInv, TypeOK, NamesRecorded, RunningStarted, timerVars
  <1>14. CASE Tick
    BY <1>1, <1>14 DEF Tick, TypeInv, TypeOK, NamesRecorded, RunningStarted, timerVars
  <1>15. CASE UNCHANGED vars
    BY <1>1, <1>15 DEF vars, pathVars, timerVars, TypeInv, TypeOK, NamesRecorded,
                       RunningStarted
  <1> QED
    BY <1>2, <1>3, <1>4, <1>5, <1>6, <1>7, <1>8, <1>9, <1>10, <1>11, <1>12, <1>13,
       <1>14, <1>15 DEF Next, ServerStep

(* The types hold in every state.                                            *)
LEMMA TypeInvariant == Spec => []TypeInv
  BY TypeInit, TypeNext, PTL DEF Spec

(* Every reachable state is well typed, and no row of the registry or of   *)
(* the mutation records ever names an activity that was not recorded.      *)
THEOREM TypeCorrect == Spec => []TypeOK
  <1>1. TypeInv => TypeOK
    BY DEF TypeInv
  <1> QED
    BY TypeInvariant, <1>1, PTL

----------------------------------------------------------------------------
(* Running rows and the registry *)

(* Each running row belongs to its participant and is active, on an active *)
(* Path, for somebody who may track: the two invariants need each other,   *)
(* because an archive instant would settle a session that still runs.      *)
KnownStarted == \A s \in Sessions : Known(s) => started[s] # None

RunInv == RunningIsActive /\ RunningIsAllowed /\ KnownStarted

(* What RunInv says of one running row.                                    *)
LEMMA RunningRow ==
    ASSUME TypeInv, RunInv, NEW p \in Participants, running[p] # None
    PROVE  /\ running[p] \in Sessions
           /\ Owner[running[p]] = p
           /\ Runs(running[p])
           /\ Registered(running[p]).outcome = "active"
           /\ Loaded(running[p]).outcome = "active"
           /\ archivedAt = None
           /\ role[p] = "participant"
  BY DEF TypeInv, TypeOK, RunInv, RunningIsActive, RunningIsAllowed, Runs, Known,
         Registered, Loaded, ActiveRow, Row

(* A timer that runs at first is one that was started and may run.           *)
LEMMA RunInit == Init => RunInv
  <1> SUFFICES ASSUME Init PROVE RunInv
    OBVIOUS
  <1>1. PICK fate \in [Legacy -> {"running", "saved", "short", "deleted"}],
             id \in [Legacy -> Activities], end \in [Legacy -> Instants] :
          LegacyState(fate, id, end)
    BY DEF Init, LegacyInit
  <1>2. \A p \in Participants : running[p] # None =>
          running[p] \in Legacy /\ Owner[running[p]] = p
    BY <1>1 DEF LegacyState
  <1>3. \A s \in Sessions : registry[s].outcome = "none"
    BY DEF Init, NoRow, Row
  <1>4. RunningIsActive
    BY <1>2, <1>3 DEF RunningIsActive, Known
  <1>5. RunningIsAllowed
    BY DEF Init, RunningIsAllowed
  <1>6. KnownStarted
    BY <1>3 DEF KnownStarted, Known
  <1> QED
    BY <1>4, <1>5, <1>6 DEF RunInv

(* Ending a timer settles its row.                                         *)
LEMMA EndRunningSettles ==
    ASSUME TypeInv, RunInv, NEW p \in Participants, NEW a \in Activities,
           EndRunning(p, a)
    PROVE  /\ running' = [running EXCEPT ![p] = None]
           /\ registry'[running[p]] =
                Row("stopped", SavedAs(a, started[running[p]], now), now)
           /\ \A s \in Sessions \ {running[p]} : registry'[s] = registry[s]
  <1>1. /\ running[p] \in Sessions
        /\ Registered(running[p]).outcome = "active"
    BY RunningRow DEF EndRunning
  <1>2. registry \in [Sessions -> RegistryRows]
    BY DEF TypeInv, TypeOK
  <1> QED
    BY <1>1, <1>2 DEF EndRunning, SettledRow

(* Deleting activities keeps every outcome.                                *)
LEMMA UnlinkedOutcome ==
    ASSUME NEW reg \in [Sessions -> RegistryRows], NEW dead
    PROVE  \A s \in Sessions :
             /\ Unlinked(reg, dead)[s].outcome = reg[s].outcome
             /\ Unlinked(reg, dead)[s].terminal = reg[s].terminal
             /\ Unlinked(reg, dead)[s].activity =
                  IF reg[s].activity \in dead THEN None ELSE reg[s].activity
  BY DEF Unlinked, RegistryRows

(* A deletion changes no verdict and no archive instant.                   *)
LEMMA UnlinkedVerdict ==
    ASSUME TypeInv, NEW dead, registry' = Unlinked(registry, dead)
    PROVE  \A s \in Sessions : /\ registry'[s].outcome = registry[s].outcome
                               /\ registry'[s].terminal = registry[s].terminal
  <1>1. registry \in [Sessions -> RegistryRows]
    BY DEF TypeInv, TypeOK
  <1>2. \A s \in Sessions :
          /\ Unlinked(registry, dead)[s].outcome = registry[s].outcome
          /\ Unlinked(registry, dead)[s].terminal = registry[s].terminal
    BY ONLY <1>1, UnlinkedOutcome
  <1> QED
    BY <1>2

(* The step of one synchronized command on the rows: the session's own row *)
(* and, when it wins, the row of the timer that ran.                       *)
LEMMA RunSynchronize ==
    ASSUME TypeInv, RunInv, NEW c \in Commands, NEW a \in Activities,
           Synchronize(c, a)
    PROVE  RunInv'
  <1> DEFINE s == c.session
             p == Owner[s]
             row == Loaded(s)
  <1>1. /\ s \in Sessions /\ p \in Participants /\ role[p] = "participant"
        /\ started[s] # None
    BY CommandFields DEF TypeInv, Synchronize, SyncSettled, SyncReconcile, SyncRefused,
         SyncStartWaits, SyncStartRuns, SyncStartLoses, SyncStartWins, SyncStop,
         StartsLive, Admitted, Authorized, Tracks
  <1>2. row \in RegistryRows /\ row.outcome # "none"
    BY <1>1, LoadedRow
  <1>3. /\ registry \in [Sessions -> RegistryRows]
        /\ running \in [Participants -> Sessions \cup {None}]
    BY DEF TypeInv, TypeOK
  <1>4. RunningIsActive /\ RunningIsAllowed /\ KnownStarted
    BY DEF RunInv
  <1>5. row.outcome # "active" \/ archivedAt # None => ~Runs(s)
    BY <1>1, RunningRow DEF Runs, TypeInv, TypeOK
  <1> HIDE DEF s, p, row
  (* The row of a session that does not run is replaced by one that is not *)
  (* active, or its timer is stopped in the same step.                     *)
  <1>6. ASSUME NEW new \in RegistryRows, SetRow(s, new),
               new.outcome \notin {"none", "active"},
               UNCHANGED <<pathVars, started, erased>>,
               \/ running' = running /\ ~Runs(s)
               \/ running' = [running EXCEPT ![p] = IF @ = s THEN None ELSE @]
        PROVE  RunInv'
    <2>1. /\ registry'[s] = new
          /\ \A t \in Sessions \ {s} : registry'[t] = registry[t]
      BY <1>1, <1>3, <1>6 DEF SetRow
    <2>2. \A q \in Participants :
            running'[q] \in {running[q], None} /\ running'[q] # s
      BY <1>1, <1>3, <1>4, <1>6 DEF RunningIsActive, Runs, p
    <2>3. \A t \in Sessions \ {s} : Runs(t) => Runs(t)'
      BY <1>1, <1>3, <1>6 DEF Runs
    <2>4. RunningIsActive'
      BY <1>1, <1>3, <1>4, <1>6, <2>1, <2>2, <2>3 DEF RunningIsActive, Known
    <2>5. RunningIsAllowed'
      BY <1>4, <1>6, <2>2 DEF RunningIsAllowed, pathVars
    <2>6. KnownStarted'
      BY <1>1, <1>4, <1>6, <2>1 DEF KnownStarted, Known
    <2> QED
      BY <2>4, <2>5, <2>6 DEF RunInv
  (* The session runs after the step.                                      *)
  <1>7. ASSUME row.outcome = "active", archivedAt = None,
               UNCHANGED <<pathVars, started, erased>>,
               running' = [running EXCEPT ![p] = s],
               registry'[s] = row,
               \A t \in Sessions \ {s, running[p]} : registry'[t] = registry[t],
               running[p] \notin {None, s} => registry'[running[p]].outcome = "conflict"
        PROVE  RunInv'
    <2>1. \A q \in Participants \ {p} : running'[q] = running[q] /\ running[q] # s
      BY <1>1, <1>3, <1>4, <1>7 DEF RunningIsActive, p
    <2>2. running'[p] = s
      BY <1>1, <1>3, <1>7
    <2>3. \A q \in Participants \ {p} : running[q] # None => running[q] # running[p]
      BY <1>1, <1>4 DEF RunningIsActive
    <2>4. ASSUME NEW q \in Participants, running'[q] # None
          PROVE  /\ Owner[running'[q]] = q
                 /\ \/ registry'[running'[q]].outcome = "active"
                    \/ running'[q] \in Legacy /\ registry'[running'[q]].outcome = "none"
      <3>1. CASE q = p
        BY <1>7, <2>2, <3>1 DEF p
      <3>2. CASE q # p
        <4>1. /\ running'[q] = running[q] /\ running[q] \in Sessions \ {s, running[p]}
              /\ Owner[running[q]] = q
          BY <1>3, <1>4, <2>1, <2>3, <2>4, <3>2 DEF RunningIsActive
        <4>2. registry'[running[q]] = registry[running[q]]
          BY <1>7, <4>1
        <4>3. \/ registry[running[q]].outcome = "active"
              \/ running[q] \in Legacy /\ ~Known(running[q])
          BY <1>4, <2>4, <4>1 DEF RunningIsActive
        <4> QED
          BY <4>1, <4>2, <4>3 DEF Known
      <3> QED
        BY <3>1, <3>2
    <2>5. ASSUME NEW t \in Sessions, registry'[t].outcome = "active"
          PROVE  Runs(t)' \/ t \in erased'
      <3>1. CASE t = s
        BY <2>2, <3>1 DEF Runs, p
      <3>2. CASE t # s /\ t = running[p]
        BY <1>3, <1>7, <2>5, <3>2 DEF TypeInv, TypeOK
      <3>3. CASE t # s /\ t # running[p]
        <4>1. registry[t].outcome = "active"
          BY <1>7, <2>5, <3>3
        <4>2. Runs(t) \/ t \in erased
          BY <1>4, <4>1 DEF RunningIsActive
        <4> QED
          BY <1>7, <2>1, <3>3, <4>2 DEF Runs
      <3> QED
        BY <3>1, <3>2, <3>3
    <2>6. RunningIsActive'
      BY <2>4, <2>5 DEF RunningIsActive, Runs, Known
    <2>7. RunningIsAllowed'
      BY <1>1, <1>4, <1>7, <2>1 DEF RunningIsAllowed, pathVars
    <2>8. KnownStarted'
      BY <1>1, <1>3, <1>4, <1>7 DEF KnownStarted, Known, TypeInv, RunningStarted
    <2> QED
      BY <2>6, <2>7, <2>8 DEF RunInv
  <1>8. CASE SyncSettled(c)
    BY <1>2, <1>5, <1>6, <1>8 DEF SyncSettled, TerminalOutcomes, s, row
  <1>9. CASE SyncReconcile(c)
    <2> DEFINE new == Row("stopped",
                 IF row.activity # None /\ ~Refused(c.start, row.terminal)
                      /\ Saves(c.start, Cut(c.end, row.terminal))
                 THEN row.activity ELSE None, row.terminal)
    <2>1. SetRow(s, new)
      BY <1>9 DEF SyncReconcile, s, row
    <2>2. new \in RegistryRows /\ new.outcome = "stopped"
      BY <1>2 DEF Row, RegistryRows, Outcomes
    <2>3. row.outcome = "archive_pending" /\ UNCHANGED <<pathVars, started, running, erased>>
      BY <1>9 DEF SyncReconcile, s, row
    <2> QED
      BY <1>5, <1>6, <2>1, <2>2, <2>3
  <1>10. CASE SyncRefused(c)
    <2>1. /\ SetRow(s, [row EXCEPT !.outcome = "archived"])
          /\ UNCHANGED <<pathVars, started, running, erased>>
          /\ row.outcome # "active" \/ archivedAt # None
      BY <1>10 DEF SyncRefused, Refused, Cutoff, s, row
    <2>2. /\ [row EXCEPT !.outcome = "archived"] \in RegistryRows
          /\ [row EXCEPT !.outcome = "archived"].outcome = "archived"
      BY <1>2 DEF RegistryRows, Outcomes
    <2> QED
      BY <1>5, <1>6, <2>1, <2>2
  <1>11. CASE SyncStartWaits(c)
    <2> DEFINE new == [row EXCEPT !.outcome = "archive_waiting",
                                  !.terminal = Cutoff(row)]
    <2>1. /\ SetRow(s, new)
          /\ UNCHANGED <<pathVars, started, running, erased>>
          /\ row.outcome # "active" \/ archivedAt # None
      BY <1>11 DEF SyncStartWaits, Cutoff, s, row
    <2>2. Cutoff(row) \in Instants \cup {None}
      BY <1>2 DEF Cutoff, TypeInv, TypeOK, RegistryRows
    <2>3. new \in RegistryRows /\ new.outcome = "archive_waiting"
      BY <1>2, <2>2 DEF RegistryRows, Outcomes
    <2> QED
      BY <1>5, <1>6, <2>1, <2>3
  <1>12. CASE SyncStartRuns(c)
    <2>1. /\ row.outcome = "active" /\ archivedAt = None
          /\ running[p] \in {None, s}
          /\ running' = [running EXCEPT ![p] = s]
          /\ SetRow(s, row)
          /\ UNCHANGED <<pathVars, started, erased>>
      BY <1>12 DEF SyncStartRuns, StartsLive, s, p, row
    <2> QED
      BY <1>1, <1>3, <1>7, <2>1 DEF SetRow
  <1>13. CASE SyncStartLoses(c)
    <2>1. /\ SetRow(s, [row EXCEPT !.outcome = "conflict"])
          /\ UNCHANGED <<pathVars, started, running, erased>>
          /\ running[p] # s
      BY <1>13 DEF SyncStartLoses, s, p, row
    <2>2. /\ [row EXCEPT !.outcome = "conflict"] \in RegistryRows
          /\ [row EXCEPT !.outcome = "conflict"].outcome = "conflict"
      BY <1>2 DEF RegistryRows, Outcomes
    <2> QED
      BY <1>6, <2>1, <2>2 DEF Runs, p
  <1>14. CASE SyncStartWins(c)
    <2> DEFINE current == running[p]
               loser == [Registered(current) EXCEPT !.outcome = "conflict"]
    <2>1. /\ row.outcome = "active" /\ archivedAt = None
          /\ current \notin {None, s}
          /\ running' = [running EXCEPT ![p] = s]
          /\ registry' = [registry EXCEPT ![current] = loser, ![s] = row]
          /\ UNCHANGED <<pathVars, started, erased>>
      BY <1>14 DEF SyncStartWins, StartsLive, s, p, row
    <2>2. current \in Sessions
      BY <1>1, <1>3, <2>1
    <2>3. Registered(current) \in RegistryRows
      BY <1>3, <2>2 DEF Registered, Known, ActiveRow, Row, RegistryRows, Outcomes
    <2>4. loser.outcome = "conflict"
      BY <2>3 DEF RegistryRows
    <2> HIDE DEF loser
    <2> QED
      BY <1>1, <1>3, <1>7, <2>1, <2>2, <2>4
  <1>15. CASE SyncStop(c, a)
    <2> DEFINE saved == SavedAs(a, c.start, Cut(c.end, Cutoff(row)))
               new == Row("stopped", IF saved = None THEN row.activity ELSE saved,
                          c.end)
    <2>1. /\ SetRow(s, new)
          /\ running' = [running EXCEPT ![p] = IF @ = s THEN None ELSE @]
          /\ UNCHANGED <<pathVars, started, erased>>
          /\ c.kind # "start"
      BY <1>15 DEF SyncStop, s, p, row
    <2>2. saved \in Activities \cup {None} /\ c.end \in Instants
      BY <2>1, CommandFields DEF SavedAs, TypeInv
    <2> HIDE DEF saved
    <2>3. new \in RegistryRows /\ new.outcome = "stopped"
      BY <1>2, <2>2 DEF Row, RegistryRows, Outcomes
    <2> QED
      BY <1>6, <2>1, <2>3
  <1> QED
    BY <1>8, <1>9, <1>10, <1>11, <1>12, <1>13, <1>14, <1>15 DEF Synchronize

(* A row that stops running is not active any more; everything else that   *)
(* RunInv speaks of stays, apart from the roles of those without a timer.  *)
LEMMA RunStopped ==
    ASSUME TypeInv, RunInv, NEW p \in Participants,
           running' = [running EXCEPT ![p] = None],
           running[p] # None, registry'[running[p]].outcome = "stopped",
           \A s \in Sessions \ {running[p]} : registry'[s] = registry[s],
           UNCHANGED <<archivedAt, started, erased>>,
           \A q \in Participants \ {p} : role'[q] = role[q]
    PROVE  RunInv'
  <1>1. /\ registry \in [Sessions -> RegistryRows]
        /\ running \in [Participants -> Sessions \cup {None}]
        /\ RunningIsActive /\ RunningIsAllowed /\ KnownStarted
    BY DEF TypeInv, TypeOK, RunInv
  <1>2. \A q \in Participants : running'[q] = IF q = p THEN None ELSE running[q]
    BY <1>1
  <1>3. \A q \in Participants : running'[q] # None =>
          /\ q # p /\ running'[q] = running[q]
          /\ running[q] \in Sessions /\ running[q] # running[p]
    BY <1>1, <1>2 DEF RunningIsActive
  <1>4. \A s \in Sessions : registry'[s].outcome = "active" => Runs(s)' \/ s \in erased
    BY <1>1, <1>2 DEF RunningIsActive, Runs
  <1>5. RunningIsActive'
    BY <1>1, <1>3, <1>4 DEF RunningIsActive, Runs, Known
  <1>6. RunningIsAllowed'
    BY <1>1, <1>3 DEF RunningIsAllowed
  <1>7. KnownStarted'
    BY <1>1 DEF KnownStarted, Known, TypeInv, RunningStarted
  <1> QED
    BY <1>5, <1>6, <1>7 DEF RunInv

(* The erased session may stay active: it is remembered in erased.         *)
LEMMA RunErase ==
    ASSUME TypeInv, RunInv, NEW p \in Participants, EraseMemberData(p),
           \A q \in Participants \ {p} : role'[q] = role[q]
    PROVE  RunInv'
  <1>1. /\ registry \in [Sessions -> RegistryRows]
        /\ running \in [Participants -> Sessions \cup {None}]
        /\ RunningIsActive /\ RunningIsAllowed /\ KnownStarted
    BY DEF TypeInv, TypeOK, RunInv
  <1>2. /\ \A s \in Sessions : registry'[s].outcome = registry[s].outcome
        /\ \A q \in Participants : running'[q] = IF q = p THEN None ELSE running[q]
        /\ erased' = erased \cup ({running[p]} \ {None})
        /\ UNCHANGED <<archivedAt, started>>
    <2> DEFINE dead == {a \in Activities : /\ entries[a] # None
                                           /\ Owner[entries[a].session] = p}
    <2>1. registry' = Unlinked(registry, dead)
      BY DEF EraseMemberData
    <2> HIDE DEF dead
    <2>2. registry \in [Sessions -> RegistryRows]
      BY <1>1
    <2>3. \A s \in Sessions : Unlinked(registry, dead)[s].outcome = registry[s].outcome
      BY ONLY <2>2, UnlinkedOutcome
    <2>4. \A s \in Sessions : registry'[s].outcome = registry[s].outcome
      BY <2>1, <2>3
    <2> QED
      BY <1>1, <2>4 DEF EraseMemberData
  <1>3. RunningIsActive'
    BY <1>1, <1>2 DEF RunningIsActive, Runs, Known
  <1>4. RunningIsAllowed'
    BY <1>1, <1>2 DEF RunningIsAllowed
  <1>5. KnownStarted'
    BY <1>1, <1>2 DEF KnownStarted, Known
  <1> QED
    BY <1>3, <1>4, <1>5 DEF RunInv

(* Every operation keeps what is known of a running timer.                   *)
LEMMA RunNext == TypeInv /\ RunInv /\ [Next]_vars => RunInv'
  <1> SUFFICES ASSUME TypeInv, RunInv, [Next]_vars PROVE RunInv'
    OBVIOUS
  <1>1. /\ registry \in [Sessions -> RegistryRows]
        /\ running \in [Participants -> Sessions \cup {None}]
        /\ RunningIsActive /\ RunningIsAllowed /\ KnownStarted
    BY DEF TypeInv, TypeOK, RunInv
  <1>2. CASE \E c \in Commands, a \in Activities : Synchronize(c, a)
    BY <1>2, RunSynchronize
  <1>3. ASSUME NEW s \in Online, StartTimer(s)
        PROVE  RunInv'
    <2> DEFINE p == Owner[s]
    <2>1. /\ s \in Sessions /\ p \in Participants
          /\ running[p] = None /\ archivedAt = None /\ role[p] = "participant"
          /\ running' = [running EXCEPT ![p] = s]
          /\ registry' = [registry EXCEPT ![s] = Registered(s)]
          /\ UNCHANGED <<pathVars, erased>>
          /\ started[s] = None
      BY <1>3 DEF StartTimer, FreshRequest, Active, Tracks
    <2>2. Registered(s) = ActiveRow
      BY <1>1, <2>1 DEF KnownStarted, Registered
    <2>3. /\ running' = [q \in Participants |-> IF q = p THEN s ELSE running[q]]
          /\ \A t \in Sessions : registry'[t] = IF t = s THEN ActiveRow ELSE registry[t]
          /\ ActiveRow.outcome = "active"
      BY <1>1, <2>1, <2>2 DEF ActiveRow, Row
    <2>4. RunningIsActive'
      BY <1>1, <2>1, <2>3 DEF RunningIsActive, Runs, Known
    <2>5. RunningIsAllowed'
      BY <1>1, <2>1, <2>3 DEF RunningIsAllowed, pathVars
    <2>6. KnownStarted'
      BY <1>1, <1>3, <2>1, <2>3 DEF StartTimer, KnownStarted, Known, TypeInv, TypeOK
    <2> QED
      BY <2>4, <2>5, <2>6 DEF RunInv
  <1>4. ASSUME NEW s \in Online, StartTimerConflict(s)
        PROVE  RunInv'
    BY <1>1, <1>4 DEF StartTimerConflict, pathVars, RunInv, RunningIsActive,
                      RunningIsAllowed, KnownStarted, Runs, Known
  <1>5. ASSUME NEW p \in Participants, NEW a \in Activities, EndRunning(p, a),
               UNCHANGED <<archivedAt, started, erased>>,
               \A q \in Participants \ {p} : role'[q] = role[q]
        PROVE  RunInv'
    <2>1. /\ running' = [running EXCEPT ![p] = None]
          /\ registry'[running[p]] =
               Row("stopped", SavedAs(a, started[running[p]], now), now)
          /\ \A s \in Sessions \ {running[p]} : registry'[s] = registry[s]
      BY <1>5, EndRunningSettles
    <2>2. registry'[running[p]].outcome = "stopped"
      BY <2>1 DEF Row
    <2>3. running[p] # None
      BY <1>5 DEF EndRunning
    <2> QED
      BY <1>5, <2>1, <2>2, <2>3, RunStopped
  <1>6. ASSUME NEW p \in Participants, NEW a \in Activities, StopTimer(p, a)
        PROVE  RunInv'
    BY <1>5, <1>6 DEF StopTimer, pathVars
  <1>7. ASSUME NEW a \in Activities, DeleteActivity(a)
        PROVE  RunInv'
    <2>1. \A s \in Sessions : registry'[s].outcome = registry[s].outcome
      BY <1>7, UnlinkedVerdict DEF DeleteActivity
    <2>2. UNCHANGED <<archivedAt, role, started, running, erased>>
      BY <1>7 DEF DeleteActivity, pathVars
    <2> QED
      BY <1>1, <2>1, <2>2 DEF RunInv, RunningIsActive, RunningIsAllowed,
                              KnownStarted, Runs, Known
  <1>8. ASSUME NEW ids \in [Participants -> Activities], Archive(ids)
        PROVE  RunInv'
    <2>1. /\ \A p \in Participants : running'[p] = None
          /\ UNCHANGED <<started, erased>>
      BY <1>8 DEF Archive
    <2>2. \A s \in Sessions : Runs(s) =>
            registry'[s].outcome = "archive_pending" /\ started[s] # None
      BY <1>1, <1>8, RunningRow
      DEF Archive, Runs, SettledRow, Row, TypeInv, TypeOK, RunningStarted
    <2>3. \A s \in Sessions : ~Runs(s) => registry'[s] = registry[s]
      BY <1>8 DEF Archive
    <2>4. RunningIsActive'
      BY <1>1, <2>1, <2>2, <2>3 DEF RunningIsActive
    <2>5. RunningIsAllowed'
      BY <2>1 DEF RunningIsAllowed
    <2>6. KnownStarted'
      BY <1>1, <2>1, <2>2, <2>3 DEF KnownStarted, Known
    <2> QED
      BY <2>4, <2>5, <2>6 DEF RunInv
  <1>9. CASE Restore
    BY <1>1, <1>9 DEF Restore, timerVars, RunInv, RunningIsActive, RunningIsAllowed,
                      KnownStarted, Runs, Known
  <1>10. ASSUME NEW p \in Participants, NEW a \in Activities, LeaveRetaining(p, a)
         PROVE  RunInv'
    <2>1. /\ UNCHANGED <<archivedAt, started, erased>>
          /\ \A q \in Participants \ {p} : role'[q] = role[q]
      BY <1>10 DEF LeaveRetaining, TypeInv, TypeOK
    <2>2. CASE running[p] = None
      <3>1. UNCHANGED <<running, registry>>
        BY <1>10, <2>2 DEF LeaveRetaining
      <3> QED
        BY <1>1, <2>1, <2>2, <3>1 DEF RunInv, RunningIsActive, RunningIsAllowed,
                                      KnownStarted, Runs, Known
    <2>3. CASE running[p] # None
      BY <1>5, <1>10, <2>1, <2>3 DEF LeaveRetaining
    <2> QED
      BY <2>2, <2>3
  <1>11. ASSUME NEW p \in Participants, RemoveMember(p)
         PROVE  RunInv'
    <2>1. \A q \in Participants \ {p} : role'[q] = role[q]
      BY <1>11 DEF RemoveMember, TypeInv, TypeOK
    <2>2. CASE Tracks(p)
      BY <1>11, <2>1, <2>2, RunErase DEF RemoveMember
    <2>3. CASE ~Tracks(p)
      <3>1. UNCHANGED <<archivedAt, started, running, registry, erased>>
        BY <1>11, <2>3 DEF RemoveMember, timerVars
      <3>2. running[p] = None
        BY <1>1, <2>3 DEF RunningIsAllowed, Tracks
      <3> QED
        BY <1>1, <2>1, <3>1, <3>2 DEF RunInv, RunningIsActive, RunningIsAllowed,
                                      KnownStarted, Runs, Known
    <2> QED
      BY <2>2, <2>3
  <1>12. ASSUME NEW p \in Participants, Demote(p)
         PROVE  RunInv'
    <2>1. \A q \in Participants \ {p} : role'[q] = role[q]
      BY <1>12 DEF Demote, TypeInv, TypeOK
    <2> QED
      BY <1>12, <2>1, RunErase DEF Demote
  (* Nobody who is not a participant has a timer that a new role could hit.*)
  <1>13. ASSUME NEW p \in Participants, ~Tracks(p),
                UNCHANGED <<archivedAt, timerVars>>,
                \A q \in Participants \ {p} : role'[q] = role[q]
         PROVE  RunInv'
    <2>1. running[p] = None
      BY <1>1, <1>13 DEF RunningIsAllowed, Tracks
    <2> QED
      BY <1>1, <1>13, <2>1 DEF timerVars, RunInv, RunningIsActive, RunningIsAllowed,
                               KnownStarted, Runs, Known
  <1>14. ASSUME NEW p \in Participants, Promote(p)
         PROVE  RunInv'
    BY <1>13, <1>14 DEF Promote, Tracks, TypeInv, TypeOK
  <1>15. ASSUME NEW p \in Participants,
                NEW offered \in {"participant", "supporter"}, Join(p, offered)
         PROVE  RunInv'
    BY <1>13, <1>15 DEF Join, Tracks, TypeInv, TypeOK
  <1>16. CASE Tick \/ UNCHANGED vars
    BY <1>1, <1>16 DEF Tick, vars, pathVars, timerVars, RunInv, RunningIsActive,
                       RunningIsAllowed, KnownStarted, Runs, Known
  <1> QED
    BY <1>2, <1>3, <1>4, <1>6, <1>7, <1>8, <1>9, <1>10, <1>11, <1>12, <1>14, <1>15,
       <1>16 DEF Next, ServerStep

(* The types and what is known of a running timer hold in every state.       *)
LEMMA RunInvariant == Spec => [](TypeInv /\ RunInv)
  BY TypeInit, TypeNext, RunInit, RunNext, PTL DEF Spec

(* Every running timer belongs to its participant and its identity is      *)
(* active; every active identity runs, unless its row went with member     *)
(* data.                                                                   *)
THEOREM RunningCorrect == Spec => []RunningIsActive
  <1>1. RunInv => RunningIsActive
    BY DEF RunInv
  <1> QED
    BY RunInvariant, <1>1, PTL

(* No timer runs on an archived Path or for somebody who may not track.    *)
THEOREM RunningAllowed == Spec => []RunningIsAllowed
  <1>1. RunInv => RunningIsAllowed
    BY DEF RunInv
  <1> QED
    BY RunInvariant, <1>1, PTL

(* What runs is registered and allowed, after every transaction.           *)
THEOREM RunningCorrectAndAllowed == Spec => []RunningFits
  BY RunningCorrect, RunningAllowed, PTL DEF RunningFits

----------------------------------------------------------------------------
(* Settled rows *)

KeepsTerminal ==
    \A s \in Sessions : registry[s].outcome \in TerminalOutcomes =>
       registry'[s].outcome = registry[s].outcome

(* Rewriting the row of a session keeps settled rows when its loaded row   *)
(* is still open, or goes back as it is.                                   *)
LEMMA TerminalSetRow ==
    ASSUME TypeInv, NEW s \in Sessions, NEW new, SetRow(s, new),
           Loaded(s).outcome \notin TerminalOutcomes \/ new = Loaded(s)
    PROVE  KeepsTerminal
  <1>1. registry \in [Sessions -> RegistryRows]
    BY DEF TypeInv, TypeOK
  <1>2. registry[s].outcome \in TerminalOutcomes => Loaded(s) = registry[s]
    BY LoadedRow DEF Known, TerminalOutcomes
  <1>3. /\ registry'[s] = new
        /\ \A t \in Sessions \ {s} : registry'[t] = registry[t]
    BY <1>1 DEF SetRow
  <1>4. registry[s].outcome \in TerminalOutcomes => registry'[s] = registry[s]
    BY <1>2, <1>3
  <1> QED
    BY <1>3, <1>4 DEF KeepsTerminal

(* A device's command leaves a settled verdict.                              *)
LEMMA TerminalSynchronize ==
    ASSUME TypeInv, RunInv, NEW c \in Commands, NEW a \in Activities,
           Synchronize(c, a)
    PROVE  KeepsTerminal
  <1>1. c.session \in Sessions /\ Owner[c.session] \in Participants
    BY CommandFields DEF TypeInv
  <1>2. CASE SyncSettled(c)
    BY <1>1, <1>2, TerminalSetRow DEF SyncSettled
  <1>3. CASE SyncReconcile(c)
    <2>1. /\ Loaded(c.session).outcome = "archive_pending"
          /\ \E new : SetRow(c.session, new)
      BY <1>3 DEF SyncReconcile
    <2> QED
      BY <1>1, <2>1, TerminalSetRow DEF TerminalOutcomes
  <1>4. CASE SyncRefused(c)
    BY <1>1, <1>4, TerminalSetRow DEF SyncRefused, Open, TerminalOutcomes
  <1>5. CASE SyncStartWaits(c)
    BY <1>1, <1>5, TerminalSetRow DEF SyncStartWaits, Open, TerminalOutcomes
  <1>6. CASE SyncStartRuns(c)
    BY <1>1, <1>6, TerminalSetRow DEF SyncStartRuns
  <1>7. CASE SyncStartLoses(c)
    BY <1>1, <1>7, TerminalSetRow DEF SyncStartLoses, StartsLive, TerminalOutcomes
  (* The loser of a conflict was running, so it was not settled.           *)
  <1>8. CASE SyncStartWins(c)
    <2> DEFINE s == c.session
               current == running[Owner[s]]
               loser == [Registered(current) EXCEPT !.outcome = "conflict"]
    <2>1. /\ current # None
          /\ Loaded(s).outcome = "active"
          /\ registry' = [registry EXCEPT ![current] = loser, ![s] = Loaded(s)]
      BY <1>8 DEF SyncStartWins, StartsLive
    <2>2. current \in Sessions /\ Loaded(current).outcome = "active"
      BY <1>1, <2>1, RunningRow
    <2>3. /\ registry[current].outcome \notin TerminalOutcomes
          /\ registry[s].outcome \notin TerminalOutcomes
      BY <1>1, <2>1, <2>2, LoadedRow DEF Known, TerminalOutcomes
    <2>4. \A t \in Sessions \ {current, s} : registry'[t] = registry[t]
      BY <2>1 DEF TypeInv, TypeOK
    <2> QED
      BY <2>3, <2>4 DEF KeepsTerminal
  <1>9. CASE SyncStop(c, a)
    <2>1. Open(Loaded(c.session)) /\ \E new : SetRow(c.session, new)
      BY <1>9 DEF SyncStop
    <2> QED
      BY <1>1, <2>1, TerminalSetRow DEF Open, TerminalOutcomes
  <1> QED
    BY <1>2, <1>3, <1>4, <1>5, <1>6, <1>7, <1>8, <1>9 DEF Synchronize

(* Every operation leaves a settled verdict.                                 *)
LEMMA TerminalNext == TypeInv /\ RunInv /\ [Next]_vars => KeepsTerminal
  <1> SUFFICES ASSUME TypeInv, RunInv, [Next]_vars PROVE KeepsTerminal
    OBVIOUS
  <1>1. registry \in [Sessions -> RegistryRows]
    BY DEF TypeInv, TypeOK
  <1>2. CASE \E c \in Commands, a \in Activities : Synchronize(c, a)
    BY <1>2, TerminalSynchronize
  (* A fresh request was never started, so its identity is unknown.        *)
  <1>3. ASSUME NEW s \in Online, StartTimer(s)
        PROVE  KeepsTerminal
    <2>1. /\ s \in Sessions /\ started[s] = None
          /\ registry' = [registry EXCEPT ![s] = Registered(s)]
      BY <1>3 DEF StartTimer, FreshRequest
    <2>2. ~Known(s)
      BY <2>1 DEF RunInv, KnownStarted
    <2>3. \A t \in Sessions \ {s} : registry'[t] = registry[t]
      BY <1>1, <2>1
    <2> QED
      BY <2>2, <2>3 DEF KeepsTerminal, Known, TerminalOutcomes
  <1>4. ASSUME NEW p \in Participants, NEW a \in Activities, EndRunning(p, a)
        PROVE  KeepsTerminal
    <2>1. running[p] \in Sessions /\ Loaded(running[p]).outcome = "active"
      BY <1>4, RunningRow DEF EndRunning
    <2>2. registry[running[p]].outcome \notin TerminalOutcomes
      BY <2>1, LoadedRow DEF Known, TerminalOutcomes
    <2>3. \A s \in Sessions \ {running[p]} : registry'[s] = registry[s]
      BY <1>4, EndRunningSettles
    <2> QED
      BY <2>2, <2>3 DEF KeepsTerminal
  <1>5. ASSUME NEW dead, registry' = Unlinked(registry, dead)
        PROVE  KeepsTerminal
    BY <1>5, UnlinkedVerdict DEF KeepsTerminal
  <1>6. ASSUME NEW ids \in [Participants -> Activities], Archive(ids)
        PROVE  KeepsTerminal
    <2>1. \A s \in Sessions : ~Runs(s) => registry'[s] = registry[s]
      BY <1>6 DEF Archive
    <2>2. \A s \in Sessions : Runs(s) => Loaded(s).outcome = "active"
      BY RunningRow DEF Runs
    <2>3. \A s \in Sessions : Runs(s) => registry[s].outcome \notin TerminalOutcomes
      BY <2>2, LoadedRow DEF Known, TerminalOutcomes
    <2> QED
      BY <2>1, <2>3 DEF KeepsTerminal
  <1>7. ASSUME NEW p \in Participants, EraseMemberData(p)
        PROVE  KeepsTerminal
    BY <1>5, <1>7 DEF EraseMemberData
  <1>8. CASE registry' = registry
    BY <1>8 DEF KeepsTerminal
  <1>9. ASSUME NEW s \in Online, StartTimerConflict(s) PROVE KeepsTerminal
    BY <1>8, <1>9 DEF StartTimerConflict
  <1>10. ASSUME NEW p \in Participants, NEW a \in Activities,
                StopTimer(p, a) \/ LeaveRetaining(p, a)
         PROVE  KeepsTerminal
    BY <1>4, <1>8, <1>10 DEF StopTimer, LeaveRetaining
  <1>11. ASSUME NEW a \in Activities, DeleteActivity(a) PROVE KeepsTerminal
    BY <1>5, <1>11 DEF DeleteActivity
  <1>12. ASSUME NEW p \in Participants,
                \/ RemoveMember(p) \/ Demote(p) \/ Promote(p)
                \/ \E offered \in {"participant", "supporter"} : Join(p, offered)
         PROVE  KeepsTerminal
    BY <1>7, <1>8, <1>12 DEF RemoveMember, Demote, Promote, Join, timerVars
  <1>13. CASE Restore \/ Tick \/ UNCHANGED vars
    BY <1>8, <1>13 DEF Restore, Tick, vars, timerVars
  <1> QED
    BY <1>2, <1>3, <1>6, <1>9, <1>10, <1>11, <1>12, <1>13 DEF Next, ServerStep

(* A settled session never opens again and never changes its verdict,      *)
(* whichever command, online call or lifecycle operation meets it.         *)
THEOREM TerminalFinal == Spec => TerminalIsFinal
  <1>1. TypeInv /\ RunInv /\ [Next]_vars =>
          [\A s \in Sessions : registry[s].outcome \in TerminalOutcomes =>
              registry'[s].outcome = registry[s].outcome]_vars
    BY TerminalNext DEF KeepsTerminal
  <1> QED
    BY RunInvariant, <1>1, PTL DEF Spec, TerminalIsFinal

----------------------------------------------------------------------------
(***************************************************************************)
(* What TimerRegistry records: the entries of recorded activity against    *)
(* the rows of the registry, for every value of the constants.             *)
(***************************************************************************)

(* The verdicts that leave no entry.                                       *)
Undecided == {"active", "archive_waiting", "conflict", "archived"}
AwaitsStop == {"archive_pending", "archive_waiting"}

(* A row fits a session: it names the live entry of the session, if there  *)
(* is one; a verdict without an entry names none, and for a session that   *)
(* only this release knows there never was one; a session that waits for   *)
(* its stop has the archive instant, and nothing recorded after it.        *)
RowFits(row, s) ==
    /\ row.activity # None =>
          row.activity \in EntriesOf(s) /\ Live(row.activity)
    /\ \A a \in EntriesOf(s) : Live(a) => row.activity = a
    /\ row.outcome \in Undecided => row.activity = None
    /\ row.outcome \in Undecided /\ s \notin Legacy => EntriesOf(s) = {}
    /\ row.outcome \in AwaitsStop =>
          /\ row.terminal # None
          /\ \A a \in EntriesOf(s) : Live(a) => entries[a].end <= row.terminal

(* The row a command would work on fits, whether the registry has it or    *)
(* the mutation records stand for it.                                      *)
SessionFits(s) ==
    /\ RowFits(Loaded(s), s)
    /\ s \notin Legacy => \A a, b \in EntriesOf(s) : a = b
    /\ ~Known(s) =>
          /\ registry[s] = NoRow
          /\ s \in Online \ Legacy => stopRows[s] = None
          /\ s \notin Legacy => EntriesOf(s) = {}

EntryInv == \A s \in Sessions : SessionFits(s)

----------------------------------------------------------------------------
(* Sessions that a step leaves alone, and sessions whose row it writes     *)

EntriesKept(s) ==
    \A a \in Activities :
      a \in EntriesOf(s) \/ a \in EntriesOf(s)' => entries'[a] = entries[a]

Untouched(s) ==
    /\ registry'[s] = registry[s]
    /\ ~Known(s) => (Runs(s)' <=> Runs(s))
    /\ s \in startRows' <=> s \in startRows
    /\ s \in Online => stopRows'[s] = stopRows[s]
    /\ EntriesKept(s)

(* The row of an untouched session is the same, whoever remembers it.      *)
LEMMA UntouchedRow ==
    ASSUME TypeInv, NEW s \in Sessions, Untouched(s)
    PROVE  /\ Loaded(s)' = Loaded(s)
           /\ Known(s)' <=> Known(s)
           /\ EntriesOf(s)' = EntriesOf(s)
           /\ \A a \in EntriesOf(s) : entries'[a] = entries[a]
  <1>1. startRows \subseteq Online
    BY DEF TypeInv, TypeOK
  <1>2. s \in startRows => (LegacyRow(s))' = LegacyRow(s)
    BY <1>1 DEF Untouched, LegacyRow
  <1>3. Known(s)' <=> Known(s)
    BY DEF Untouched, Known
  <1>4. Loaded(s)' = Loaded(s)
    BY <1>2, <1>3 DEF Untouched, Loaded, Registered
  <1>5. \A a \in Activities : a \in EntriesOf(s)' <=> a \in EntriesOf(s)
    BY DEF Untouched, EntriesKept, EntriesOf
  <1>6. EntriesOf(s)' = EntriesOf(s) /\ EntriesOf(s) \subseteq Activities
    BY <1>5 DEF EntriesOf
  <1>7. \A a \in EntriesOf(s) : entries'[a] = entries[a]
    BY <1>6 DEF Untouched, EntriesKept
  <1> QED
    BY <1>3, <1>4, <1>6, <1>7

(* Nothing an untouched session is judged by changes.                      *)
LEMMA UntouchedFits ==
    ASSUME TypeInv, NEW s \in Sessions, SessionFits(s), Untouched(s)
    PROVE  SessionFits(s)'
  <1>1. /\ Loaded(s)' = Loaded(s)
        /\ Known(s)' <=> Known(s)
        /\ EntriesOf(s)' = EntriesOf(s)
        /\ \A a \in EntriesOf(s) : entries'[a] = entries[a]
    BY UntouchedRow
  <1>2. RowFits(Loaded(s), s)'
    BY <1>1 DEF SessionFits, RowFits, Live
  <1> QED
    BY <1>1, <1>2 DEF SessionFits, Untouched

(* A row that is written is judged by what it is.                          *)
LEMMA WrittenFits ==
    ASSUME NEW s \in Sessions, Known(s)', RowFits(registry[s], s)',
           s \notin Legacy => \A a, b \in EntriesOf(s)' : a = b
    PROVE  SessionFits(s)'
  <1>1. Loaded(s)' = registry'[s]
    BY DEF Loaded, Registered
  <1> QED
    BY <1>1 DEF SessionFits

----------------------------------------------------------------------------
(* What the helpers do to the entries of a session                         *)

(* Saving a session that has no live entry gives it exactly one.           *)
LEMMA PersistFits ==
    ASSUME TypeInv, NEW s \in Sessions, NEW a \in Activities,
           NEW start \in Instants, NEW end \in Instants,
           Persist(a, s, start, end),
           \A b \in EntriesOf(s) : ~Live(b),
           s \notin Legacy => EntriesOf(s) = {}
    PROVE  /\ \A b \in Activities :
                b \in EntriesOf(s)' /\ Live(b)' <=> b = SavedAs(a, start, end)
           /\ \A b \in EntriesOf(s)' : Live(b)' => entries'[b].end = end
           /\ s \notin Legacy => \A b, c \in EntriesOf(s)' : b = c
           /\ \A t \in Sessions \ {s} : EntriesKept(t)
           /\ SavedAs(a, start, end) \in {a, None}
  <1>1. entries \in [Activities -> Entries \cup {None}]
    BY DEF TypeInv, TypeOK
  <1>2. CASE ~Saves(start, end)
    <2>1. entries' = entries /\ SavedAs(a, start, end) = None
      BY <1>2 DEF Persist, SavedAs
    <2> QED
      BY <2>1 DEF EntriesKept, EntriesOf, Live
  <1>3. CASE Saves(start, end)
    <2> DEFINE e == NewEntry(s, start, end)
    <2>1. /\ entries[a] = None
          /\ entries' = [entries EXCEPT ![a] = e]
          /\ SavedAs(a, start, end) = a
          /\ e \in Entries /\ e.session = s /\ e.live = TRUE /\ e.end = end
      BY <1>3 DEF Persist, SavedAs, NewEntry, Entries
    <2>2. e # None
      BY <2>1
    <2> HIDE DEF e
    <2>3. /\ entries'[a] = e
          /\ \A b \in Activities \ {a} : entries'[b] = entries[b]
      BY <1>1, <2>1
    <2>4. a \in EntriesOf(s)' /\ EntriesOf(s)' = EntriesOf(s) \cup {a} /\ a # None
      BY <2>1, <2>2, <2>3 DEF EntriesOf
    <2>5. \A b \in EntriesOf(s) \ {a} : ~Live(b)'
      BY <2>3 DEF EntriesOf, Live
    <2>6. \A t \in Sessions \ {s} : EntriesKept(t)
      BY <2>1, <2>3 DEF EntriesKept, EntriesOf
    <2>7. Live(a)' /\ entries'[a].end = end
      BY <2>1, <2>2, <2>3 DEF Live
    <2>8. SavedAs(a, start, end) = a
      BY <2>1
    <2> QED
      BY <2>4, <2>5, <2>6, <2>7, <2>8
  <1> QED
    BY <1>2, <1>3

(* Removing entries changes no session's history, only what is live of it. *)
LEMMA RemovedFits ==
    ASSUME TypeInv, NEW dead, \A a \in dead \cap Activities : entries[a] # None,
           entries' = Removed(entries, dead)
    PROVE  /\ \A s \in Sessions : EntriesOf(s)' = EntriesOf(s)
           /\ \A a \in Activities : /\ Live(a)' <=> Live(a) /\ a \notin dead
                                    /\ a \notin dead => entries'[a] = entries[a]
  <1>1. entries \in [Activities -> Entries \cup {None}]
    BY DEF TypeInv, TypeOK
  <1>2. entries' \in [Activities -> Entries \cup {None}]
    BY <1>1, RemovedEntries
  <1>3. ASSUME NEW a \in Activities, a \in dead
        PROVE  /\ entries[a] # None /\ entries'[a] # None
               /\ entries'[a].session = entries[a].session
               /\ entries'[a].live = FALSE
    <2>1. entries[a] \in Entries
      BY <1>1, <1>3
    <2>2. entries'[a] = [entries[a] EXCEPT !.live = FALSE]
      BY <1>3 DEF Removed
    <2>3. entries'[a].session = entries[a].session /\ entries'[a].live = FALSE
      BY <2>1, <2>2 DEF Entries
    <2>4. entries'[a] \in Entries
      BY <2>1, <2>2 DEF Entries
    <2> QED
      BY <1>3, <2>1, <2>3, <2>4
  <1>4. \A a \in Activities \ dead : entries'[a] = entries[a]
    BY DEF Removed
  <1>5. \A s \in Sessions, a \in Activities :
          a \in EntriesOf(s)' <=> a \in EntriesOf(s)
    BY <1>3, <1>4 DEF EntriesOf
  <1>6. \A s \in Sessions : EntriesOf(s)' = EntriesOf(s)
    BY <1>5 DEF EntriesOf
  <1>7. \A a \in Activities : /\ Live(a)' <=> Live(a) /\ a \notin dead
                              /\ a \notin dead => entries'[a] = entries[a]
    BY <1>3, <1>4 DEF Live
  <1> QED
    BY <1>6, <1>7

(* Ending a running timer saves it at most once, and names what it saved.  *)
LEMMA EndedFits ==
    ASSUME TypeInv, RunInv, NEW s \in Sessions, SessionFits(s),
           Registered(s).outcome = "active", Runs(s),
           NEW a \in Activities, NEW outcome \in {"stopped", "archive_pending"},
           Persist(a, s, started[s], now),
           registry'[s] = SettledRow(s, outcome, SavedAs(a, started[s], now), now)
    PROVE  SessionFits(s)' /\ \A t \in Sessions \ {s} : EntriesKept(t)
  <1> DEFINE saved == SavedAs(a, started[s], now)
  <1>1. started[s] \in Instants /\ now \in Instants
    BY DEF TypeInv, TypeOK, RunningStarted, Runs
  <1>2. Loaded(s).outcome = "active"
    BY DEF Loaded
  <1>3. /\ \A b \in EntriesOf(s) : ~Live(b)
        /\ s \notin Legacy => EntriesOf(s) = {}
    BY <1>2 DEF SessionFits, RowFits, Undecided, EntriesOf
  <1>4. registry'[s] = Row(outcome, saved, now)
    BY DEF SettledRow
  <1>5. /\ \A b \in Activities : b \in EntriesOf(s)' /\ Live(b)' <=> b = saved
        /\ \A b \in EntriesOf(s)' : Live(b)' => entries'[b].end = now
        /\ s \notin Legacy => \A b, c \in EntriesOf(s)' : b = c
        /\ \A t \in Sessions \ {s} : EntriesKept(t)
        /\ saved \in Activities \cup {None}
    BY <1>1, <1>3, PersistFits
  <1> HIDE DEF saved
  <1>6. /\ registry'[s].activity = saved /\ registry'[s].terminal = now
        /\ registry'[s].outcome = outcome
        /\ outcome \notin Undecided \cup {"none"} /\ now # None
    BY <1>1, <1>4 DEF Row, Undecided
  <1>7. Known(s)'
    BY <1>6 DEF Known
  <1>8. RowFits(registry[s], s)'
    BY <1>1, <1>5, <1>6 DEF RowFits, Live, EntriesOf
  <1> QED
    BY <1>5, <1>7, <1>8, WrittenFits

----------------------------------------------------------------------------
(* Initially, and after each step                                          *)

(* The timers of the time before the registry fit, whatever became of them.  *)
LEMMA EntryInit == Init => EntryInv
  <1> SUFFICES ASSUME Init, NEW s \in Sessions PROVE SessionFits(s)
    BY DEF EntryInv
  <1>1. PICK fate \in [Legacy -> {"running", "saved", "short", "deleted"}],
             id \in [Legacy -> Activities], end \in [Legacy -> Instants] :
          LegacyState(fate, id, end)
    BY DEF Init, LegacyInit
  <1> DEFINE saver(a) == CHOOSE t \in SavedOf(fate) : id[t] = a
  <1>2. registry[s] = NoRow /\ ~Known(s)
    BY DEF Init, NoRow, Row, Known
  <1>3. \A t, u \in SavedOf(fate) : id[t] = id[u] => t = u
    BY <1>1 DEF LegacyState
  <1>4. \A t \in SavedOf(fate) : t \in Legacy /\ id[t] \in Activities
    BY DEF SavedOf
  <1>5. \A t \in SavedOf(fate) : saver(id[t]) = t
    BY <1>3
  <1>6. \A a \in Activities :
          entries[a] = IF \E t \in SavedOf(fate) : id[t] = a
                       THEN LegacyEntry(fate, end, saver(a)) ELSE None
    BY <1>1 DEF LegacyState
  <1> HIDE DEF saver
  <1>7. \A t \in Legacy :
          /\ LegacyEntry(fate, end, t) # None
          /\ LegacyEntry(fate, end, t).session = t
          /\ LegacyEntry(fate, end, t).live <=> fate[t] = "saved"
    <2> SUFFICES ASSUME NEW t \in Legacy
                 PROVE  /\ LegacyEntry(fate, end, t) # None
                        /\ LegacyEntry(fate, end, t).session = t
                        /\ LegacyEntry(fate, end, t).live <=> fate[t] = "saved"
      OBVIOUS
    <2>1. started[t] \in Instants /\ end[t] \in Instants
      BY <1>1 DEF LegacyState
    <2>2. LegacyEntry(fate, end, t) \in Entries
      BY <2>1 DEF LegacyEntry, NewEntry, Entries
    <2>3. /\ LegacyEntry(fate, end, t).session = t
          /\ LegacyEntry(fate, end, t).live = (fate[t] = "saved")
      BY DEF LegacyEntry, NewEntry
    <2> QED
      BY <2>2, <2>3
  <1>8. \A a \in EntriesOf(s) :
          /\ s \in SavedOf(fate) /\ id[s] = a
          /\ Live(a) => fate[s] = "saved"
    <2> SUFFICES ASSUME NEW a \in EntriesOf(s)
                 PROVE  /\ s \in SavedOf(fate) /\ id[s] = a
                        /\ Live(a) => fate[s] = "saved"
      OBVIOUS
    <2>1. a \in Activities /\ entries[a] # None /\ entries[a].session = s
      BY DEF EntriesOf
    <2>2. PICK t \in SavedOf(fate) : id[t] = a
      BY <1>6, <2>1
    <2>3. entries[a] = LegacyEntry(fate, end, t) /\ t \in Legacy
      BY <1>4, <1>5, <1>6, <2>1, <2>2
    <2>4. t = s
      BY <1>7, <2>1, <2>3
    <2>5. entries[a].live <=> fate[t] = "saved"
      BY <1>7, <2>3
    <2> QED
      BY <2>2, <2>4, <2>5 DEF Live
  <1>9. s \in SavedOf(fate) /\ fate[s] = "saved" =>
          id[s] \in EntriesOf(s) /\ Live(id[s])
    <2> SUFFICES ASSUME s \in SavedOf(fate), fate[s] = "saved"
                 PROVE  id[s] \in EntriesOf(s) /\ Live(id[s])
      OBVIOUS
    <2>1. entries[id[s]] = LegacyEntry(fate, end, s)
      BY <1>4, <1>5, <1>6
    <2>2. entries[id[s]] # None
      BY <1>4, <1>7, <2>1
    <2> QED
      BY <1>4, <1>7, <2>1, <2>2 DEF EntriesOf, Live
  <1>10. /\ startRows = Legacy
         /\ \A t \in Online : stopRows[t] =
              IF t \in OverOf(fate) THEN LegacyStop(fate, id, end, t) ELSE None
    BY <1>1 DEF LegacyState
  <1>11. s \notin Legacy => EntriesOf(s) = {}
    BY <1>4, <1>8
  <1>12. s \in Online \ Legacy => stopRows[s] = None
    BY <1>10 DEF OverOf
  <1>13. Runs(s) => s \notin OverOf(fate)
    BY <1>1 DEF LegacyState, Runs
  <1>14. RowFits(Loaded(s), s)
    <2>1. CASE s \in startRows /\ ~Runs(s)
      <3>1. s \in Legacy /\ s \in Online /\ Loaded(s) = LegacyRow(s)
        BY <1>2, <1>10, <2>1 DEF Loaded
      <3>2. LegacyRow(s).outcome = "stopped"
        BY DEF LegacyRow, Row
      <3>3. fate[s] = "saved" => LegacyRow(s).activity = id[s]
        <4> SUFFICES ASSUME fate[s] = "saved" PROVE LegacyRow(s).activity = id[s]
          OBVIOUS
        <4>1. stopRows[s] = [end |-> end[s], activity |-> id[s]]
          BY <1>10, <3>1 DEF LegacyStop, OverOf
        <4>2. stopRows[s] \in StopRows
          BY <3>1, <4>1 DEF StopRows
        <4>3. stopRows[s] # None
          BY <4>2
        <4> QED
          BY <4>1, <4>3 DEF LegacyRow, Row
      <3>4. LegacyRow(s).activity # None =>
              fate[s] = "saved" /\ LegacyRow(s).activity = id[s]
        <4> SUFFICES ASSUME fate[s] # "saved" PROVE LegacyRow(s).activity = None
          BY <3>3
        <4>1. CASE fate[s] = "running"
          BY <1>10, <3>1, <4>1 DEF LegacyRow, OverOf, Row
        <4>2. CASE fate[s] \in {"short", "deleted"}
          <5>1. stopRows[s] = LegacyStop(fate, id, end, s)
            BY <1>10, <3>1, <4>2 DEF OverOf
          <5>2. stopRows[s].activity = None
            BY <4>2, <5>1 DEF LegacyStop
          <5> QED
            BY <5>2 DEF LegacyRow, Row
        <4> QED
          BY <3>1, <4>1, <4>2
      <3>5. fate[s] = "saved" => s \in SavedOf(fate)
        BY <3>1 DEF SavedOf
      <3> QED
        BY <1>8, <1>9, <3>1, <3>2, <3>3, <3>4, <3>5
        DEF RowFits, Undecided, AwaitsStop
    <2>2. CASE s \notin startRows \/ Runs(s)
      <3>1. Loaded(s) = ActiveRow
        BY <1>2, <2>2 DEF Loaded, Registered
      <3>2. \A a \in EntriesOf(s) : ~Live(a)
        BY <1>8, <1>10, <1>13, <2>2 DEF OverOf, SavedOf
      <3> QED
        BY <1>11, <3>1, <3>2 DEF ActiveRow, Row, RowFits, AwaitsStop
    <2> QED
      BY <2>1, <2>2
  <1> QED
    BY <1>2, <1>8, <1>11, <1>12, <1>14 DEF SessionFits

(* A step is judged by the sessions whose rows it writes.                  *)
LEMMA StepFits ==
    ASSUME TypeInv, EntryInv, NEW written,
           \A s \in Sessions \cap written : SessionFits(s)',
           \A s \in Sessions \ written : Untouched(s)
    PROVE  EntryInv'
  BY UntouchedFits DEF EntryInv

(* Rewriting the row of a session whose entries stay as they are.          *)
LEMMA RewrittenFits ==
    ASSUME NEW s \in Sessions, SessionFits(s), NEW row, registry'[s] = row,
           RowFits(row, s), row.outcome # "none", UNCHANGED entries
    PROVE  SessionFits(s)'
  <1>1. Known(s)'
    BY DEF Known
  <1>2. EntriesOf(s)' = EntriesOf(s)
    BY DEF EntriesOf
  <1>3. RowFits(registry[s], s)'
    BY <1>2 DEF RowFits, Live
  <1> QED
    BY <1>1, <1>2, <1>3, WrittenFits DEF SessionFits

(* From one verdict without an entry to another.                           *)
LEMMA UndecidedFits ==
    ASSUME NEW s \in Sessions, NEW row, NEW next,
           RowFits(row, s), row.outcome \in Undecided, next.outcome \in Undecided,
           next.activity = row.activity,
           next.outcome = "archive_waiting" => next.terminal # None
    PROVE  RowFits(next, s)
  <1>1. \A a \in EntriesOf(s) : ~Live(a)
    BY DEF RowFits, EntriesOf
  <1> QED
    BY <1>1 DEF RowFits, Undecided, AwaitsStop

(* A step that writes the row of one session.                              *)
LEMMA OneRowFits ==
    ASSUME TypeInv, EntryInv, NEW s \in Sessions, NEW row, SetRow(s, row),
           SessionFits(s)', UNCHANGED <<startRows, stopRows>>,
           \A t \in Sessions \ {s} : EntriesKept(t) /\ (Runs(t)' <=> Runs(t))
    PROVE  EntryInv' /\ \A t \in Sessions \ {s} : Untouched(t)
  <1>1. \A t \in Sessions \ {s} : registry'[t] = registry[t]
    BY DEF SetRow, TypeInv, TypeOK
  <1>2. \A t \in Sessions \ {s} : Untouched(t)
    BY <1>1 DEF Untouched
  <1>3. \A t \in Sessions \cap {s} : SessionFits(t)'
    OBVIOUS
  <1>4. EntryInv'
    BY <1>2, <1>3, StepFits
  <1> QED
    BY <1>2, <1>4

(* A running session that a greater one displaces.                         *)
Displaced(s) ==
    /\ Loaded(s).outcome = "active"
    /\ registry'[s].outcome = "conflict"

(* A synchronized command, one case for each way through applyOfflineTimer.*)
(* It touches its own session and at most the one it displaces.            *)
LEMMA EntrySynchronize ==
    ASSUME TypeInv, RunInv, EntryInv, NEW c \in Commands, NEW a \in Activities,
           Synchronize(c, a)
    PROVE  /\ EntryInv'
           /\ \A t \in Sessions \ {c.session} : Untouched(t) \/ Displaced(t)
  <1> DEFINE s == c.session
             p == Owner[s]
             row == Loaded(s)
  <1>1. /\ s \in Sessions /\ p \in Participants /\ c.start \in Instants
        /\ c.kind # "start" => c.end \in Instants
    BY CommandFields DEF TypeInv
  <1>2. row \in RegistryRows /\ row.outcome # "none"
    BY <1>1, LoadedRow
  <1>3. SessionFits(s)
    BY <1>1 DEF EntryInv
  <1>4. RowFits(row, s)
    BY <1>3 DEF SessionFits
  <1>5. /\ registry \in [Sessions -> RegistryRows]
        /\ running \in [Participants -> Sessions \cup {None}]
        /\ entries \in [Activities -> Entries \cup {None}]
        /\ archivedAt \in Instants \cup {None}
    BY DEF TypeInv, TypeOK
  <1> HIDE DEF s, p, row
  <1> SUFFICES EntryInv' /\ \A t \in Sessions \ {s} : Untouched(t) \/ Displaced(t)
    BY DEF s
  (* The row is rewritten and its entries stay as they are.                *)
  <1>6. ASSUME NEW new, SetRow(s, new), RowFits(new, s), new.outcome # "none",
               UNCHANGED <<startRows, stopRows, entries>>,
               \A t \in Sessions \ {s} : Runs(t)' <=> Runs(t)
        PROVE  EntryInv' /\ \A t \in Sessions \ {s} : Untouched(t)
    <2>1. registry'[s] = new
      BY <1>1, <1>5, <1>6 DEF SetRow
    <2>2. SessionFits(s)'
      BY <1>1, <1>3, <1>6, <2>1, RewrittenFits
    <2>3. \A t \in Sessions \ {s} : EntriesKept(t)
      BY <1>6 DEF EntriesKept
    <2> QED
      BY <1>1, <1>6, <2>2, <2>3, OneRowFits
  <1>7. ASSUME UNCHANGED running
        PROVE  \A t \in Sessions \ {s} : Runs(t)' <=> Runs(t)
    BY <1>7 DEF Runs
  <1>8. CASE SyncSettled(c)
    <2>1. /\ SetRow(s, row)
          /\ UNCHANGED <<running, startRows, stopRows, entries>>
      BY <1>8 DEF SyncSettled, s, row
    <2> QED
      BY <1>2, <1>4, <1>6, <1>7, <2>1
  <1>9. CASE SyncRefused(c)
    <2> DEFINE new == [row EXCEPT !.outcome = "archived"]
    <2>1. /\ SetRow(s, new) /\ Open(row)
          /\ UNCHANGED <<running, startRows, stopRows, entries>>
      BY <1>9 DEF SyncRefused, s, row
    <2>2. new.outcome = "archived" /\ new.activity = row.activity
      BY <1>2 DEF RegistryRows
    <2> HIDE DEF new
    <2>3. RowFits(new, s)
      BY <1>1, <1>4, <2>1, <2>2, UndecidedFits DEF Open, Undecided
    <2> QED
      BY <1>6, <1>7, <2>1, <2>2, <2>3
  <1>10. CASE SyncStartWaits(c)
    <2> DEFINE new == [row EXCEPT !.outcome = "archive_waiting",
                                  !.terminal = Cutoff(row)]
    <2>1. /\ SetRow(s, new) /\ Open(row) /\ Cutoff(row) # None
          /\ UNCHANGED <<running, startRows, stopRows, entries>>
      BY <1>10 DEF SyncStartWaits, s, row
    <2>2. /\ new.outcome = "archive_waiting" /\ new.activity = row.activity
          /\ new.terminal = Cutoff(row)
      BY <1>2 DEF RegistryRows
    <2> HIDE DEF new
    <2>3. RowFits(new, s)
      BY <1>1, <1>4, <2>1, <2>2, UndecidedFits DEF Open, Undecided
    <2> QED
      BY <1>6, <1>7, <2>1, <2>2, <2>3
  <1>11. CASE SyncStartRuns(c)
    <2>1. /\ SetRow(s, row) /\ running[p] \in {None, s}
          /\ running' = [running EXCEPT ![p] = s]
          /\ UNCHANGED <<startRows, stopRows, entries>>
      BY <1>11 DEF SyncStartRuns, pathVars, s, p, row
    <2>2. \A t \in Sessions \ {s} : Runs(t)' <=> Runs(t)
      BY <1>1, <1>5, <2>1 DEF Runs
    <2> QED
      BY <1>2, <1>4, <1>6, <2>1, <2>2
  <1>12. CASE SyncStartLoses(c)
    <2> DEFINE new == [row EXCEPT !.outcome = "conflict"]
    <2>1. /\ SetRow(s, new) /\ row.outcome = "active"
          /\ UNCHANGED <<running, startRows, stopRows, entries>>
      BY <1>12 DEF SyncStartLoses, StartsLive, s, row
    <2>2. new.outcome = "conflict" /\ new.activity = row.activity
      BY <1>2 DEF RegistryRows
    <2> HIDE DEF new
    <2>3. RowFits(new, s)
      BY <1>1, <1>4, <2>1, <2>2, UndecidedFits DEF Undecided
    <2> QED
      BY <1>6, <1>7, <2>1, <2>2, <2>3
  (* The loser ran, so nothing of it was recorded.                         *)
  <1>13. CASE SyncStartWins(c)
    <2>1. running[p] \in Sessions \ {s}
      BY <1>1, <1>5, <1>13 DEF SyncStartWins, s, p
    <2>2. PICK current \in Sessions \ {s} : current = running[p]
      BY <2>1
    <2> DEFINE loser == [Registered(current) EXCEPT !.outcome = "conflict"]
    <2>3. /\ running' = [running EXCEPT ![p] = s]
          /\ registry' = [registry EXCEPT ![current] = loser, ![s] = row]
          /\ UNCHANGED <<startRows, stopRows, entries>>
      BY <1>13, <2>2 DEF SyncStartWins, s, p, row
    <2>4. /\ Owner[current] = p /\ Runs(current)
          /\ Registered(current).outcome = "active"
      BY <1>1, <2>2, RunningRow
    <2>5. SessionFits(current) /\ Loaded(current) = Registered(current)
      BY <2>4 DEF EntryInv, Loaded
    <2>6. Registered(current) \in RegistryRows
      BY <2>5, LoadedRow
    <2>7. loser.outcome = "conflict" /\ loser.activity = Registered(current).activity
      BY <2>6 DEF RegistryRows
    <2> HIDE DEF loser
    <2>8. RowFits(loser, current)
      BY <2>4, <2>5, <2>7, UndecidedFits DEF SessionFits, Undecided
    <2>9. /\ registry'[s] = row /\ registry'[current] = loser
          /\ \A t \in Sessions \ {s, current} : registry'[t] = registry[t]
      BY <1>1, <1>5, <2>3
    <2>10. SessionFits(s)'
      BY <1>1, <1>2, <1>3, <1>4, <2>3, <2>9, RewrittenFits
    <2>11. SessionFits(current)'
      BY <2>3, <2>5, <2>7, <2>8, <2>9, RewrittenFits
    <2>12. \A t \in Sessions \ {s, current} : Runs(t)' <=> Runs(t)
      BY <1>1, <1>5, <2>2, <2>3 DEF Runs
    <2>13. \A t \in Sessions \ {s, current} : Untouched(t)
      BY <2>3, <2>9, <2>12 DEF Untouched, EntriesKept
    <2>14. \A t \in Sessions \cap {s, current} : SessionFits(t)'
      BY <2>10, <2>11
    <2>15. EntryInv'
      BY <2>13, <2>14, StepFits
    <2>16. Displaced(current)
      BY <2>4, <2>5, <2>7, <2>9 DEF Displaced
    <2> QED
      BY <2>13, <2>15, <2>16
  (* The entry archival left is corrected in place or removed.             *)
  <1>14. CASE SyncReconcile(c)
    <2> DEFINE end == Cut(c.end, row.terminal)
               keeps == /\ row.activity # None
                        /\ ~Refused(c.start, row.terminal) /\ Saves(c.start, end)
               new == Row("stopped", IF keeps THEN row.activity ELSE None,
                          row.terminal)
               entry == NewEntry(s, c.start, end)
    <2>1. /\ SetRow(s, new) /\ c.kind # "start"
          /\ UNCHANGED <<running, startRows, stopRows>>
          /\ entries' = IF row.activity = None THEN entries
                        ELSE IF keeps THEN [entries EXCEPT ![row.activity] = entry]
                        ELSE Removed(entries, {row.activity})
      BY <1>14 DEF SyncReconcile, s, row
    <2>2. entry \in Entries /\ entry.session = s /\ entry.live = TRUE
      <3>1. end \in Instants
        BY <1>1, <1>2, <2>1, CutInstant DEF RegistryRows
      <3> QED
        BY <1>1, <3>1 DEF NewEntry, Entries
    <2>3. entry # None
      BY <2>2
    <2> HIDE DEF end, keeps, entry
    <2>4. /\ registry'[s] = new /\ new.outcome = "stopped"
          /\ new.activity = IF keeps THEN row.activity ELSE None
      BY <1>1, <1>5, <2>1 DEF SetRow, Row
    <2> HIDE DEF new
    <2>5. keeps => row.activity # None
      BY DEF keeps
    <2>6. row.activity # None => row.activity \in EntriesOf(s) /\ Live(row.activity)
      BY <1>4 DEF RowFits
    <2>7. /\ \A t \in Sessions \ {s} : EntriesKept(t)
          /\ EntriesOf(s)' = EntriesOf(s)
          /\ \A b \in EntriesOf(s) : Live(b)' <=> keeps /\ b = row.activity
      <3>1. CASE row.activity = None
        <4>1. entries' = entries /\ ~keeps
          BY <2>1, <2>5, <3>1
        <4>2. \A b \in EntriesOf(s) : ~Live(b)
          BY <1>4, <3>1 DEF RowFits, EntriesOf
        <4> QED
          BY <4>1, <4>2 DEF EntriesKept, EntriesOf, Live
      <3>2. CASE row.activity # None /\ keeps
        <4>1. PICK b \in Activities : b = row.activity /\ b \in EntriesOf(s)
          BY <2>6, <3>2 DEF EntriesOf
        <4>2. /\ entries[b] # None /\ entries[b].session = s
              /\ entries' = [entries EXCEPT ![b] = entry]
          BY <2>1, <3>2, <4>1 DEF EntriesOf
        <4>3. entries'[b] = entry /\ \A d \in Activities \ {b} : entries'[d] = entries[d]
          BY <1>5, <4>2
        <4>4. \A t \in Sessions \ {s} : EntriesKept(t)
          BY <2>2, <4>2, <4>3 DEF EntriesKept, EntriesOf
        <4>5. EntriesOf(s)' = EntriesOf(s)
          BY <2>2, <2>3, <4>2, <4>3 DEF EntriesOf
        <4>6. Live(b)'
          BY <2>2, <2>3, <4>3 DEF Live
        <4>7. \A d \in EntriesOf(s) \ {b} : ~Live(d)'
          BY <1>4, <4>1, <4>3 DEF RowFits, Live, EntriesOf
        <4> QED
          BY <3>2, <4>1, <4>4, <4>5, <4>6, <4>7
      <3>3. CASE row.activity # None /\ ~keeps
        <4>1. entries' = Removed(entries, {row.activity})
          BY <2>1, <3>3
        <4>2. row.activity \in Activities /\ entries[row.activity] # None
              /\ entries[row.activity].session = s
          BY <2>6, <3>3 DEF EntriesOf
        <4>3. \A b \in {row.activity} \cap Activities : entries[b] # None
          BY <4>2
        <4>4. /\ \A t \in Sessions : EntriesOf(t)' = EntriesOf(t)
              /\ \A b \in Activities :
                   /\ Live(b)' <=> Live(b) /\ b # row.activity
                   /\ b # row.activity => entries'[b] = entries[b]
          BY SMTT(30), <4>1, <4>3, RemovedFits
        <4>5. \A t \in Sessions \ {s} : EntriesKept(t)
          BY <4>2, <4>4 DEF EntriesKept, EntriesOf
        <4>6. \A b \in EntriesOf(s) : ~Live(b)'
          BY <1>4, <4>4 DEF RowFits, EntriesOf
        <4> QED
          BY <1>1, <3>3, <4>4, <4>5, <4>6
      <3> QED
        BY <3>1, <3>2, <3>3
    <2>8. RowFits(registry[s], s)'
      BY <1>4, <2>4, <2>5, <2>6, <2>7 DEF RowFits, Undecided, AwaitsStop, Live
    <2>9. SessionFits(s)'
      BY <1>1, <1>3, <2>4, <2>7, <2>8, WrittenFits DEF Known, SessionFits
    <2> QED
      BY <1>1, <1>7, <2>1, <2>7, <2>9, OneRowFits
  (* A stop saves an undecided session, so this is its first entry.        *)
  <1>15. CASE SyncStop(c, a)
    <2> DEFINE end == Cut(c.end, Cutoff(row))
               saved == SavedAs(a, c.start, end)
               new == Row("stopped", IF saved = None THEN row.activity ELSE saved,
                          c.end)
    <2>1. /\ SetRow(s, new) /\ c.kind # "start" /\ Open(row)
          /\ Persist(a, s, c.start, end)
          /\ running' = [running EXCEPT ![p] = IF @ = s THEN None ELSE @]
          /\ UNCHANGED <<startRows, stopRows>>
      BY <1>15 DEF SyncStop, s, p, row
    <2>2. end \in Instants
      BY <1>1, <1>2, <1>5, <2>1, CutInstant DEF Cutoff, RegistryRows
    <2>3. /\ row.activity = None
          /\ \A b \in EntriesOf(s) : ~Live(b)
          /\ s \notin Legacy => EntriesOf(s) = {}
      BY <1>4, <2>1 DEF RowFits, Open, Undecided, EntriesOf
    <2> HIDE DEF end
    <2>4. /\ \A b \in Activities : b \in EntriesOf(s)' /\ Live(b)' <=> b = saved
          /\ s \notin Legacy => \A b, d \in EntriesOf(s)' : b = d
          /\ \A t \in Sessions \ {s} : EntriesKept(t)
          /\ saved \in {a, None}
      BY <1>1, <2>1, <2>2, <2>3, PersistFits
    <2>5. registry'[s] = new /\ new.outcome = "stopped" /\ new.activity = saved
      BY <1>1, <1>5, <2>1, <2>3 DEF SetRow, Row
    <2> HIDE DEF saved, new
    <2>6. RowFits(registry[s], s)'
      BY <2>4, <2>5 DEF RowFits, Undecided, AwaitsStop, Live, EntriesOf
    <2>7. SessionFits(s)'
      BY <1>1, <2>4, <2>5, <2>6, WrittenFits DEF Known
    <2>8. \A t \in Sessions \ {s} : Runs(t)' <=> Runs(t)
      BY <1>1, <1>5, <2>1 DEF Runs
    <2> QED
      BY <1>1, <2>1, <2>4, <2>7, <2>8, OneRowFits
  <1> QED
    BY <1>8, <1>9, <1>10, <1>11, <1>12, <1>13, <1>14, <1>15 DEF Synchronize

(* Ending a timer online, for a stop and for who leaves and keeps it all.  *)
LEMMA EntryEndRunning ==
    ASSUME TypeInv, RunInv, EntryInv, NEW p \in Participants, NEW a \in Activities,
           EndRunning(p, a), UNCHANGED startRows,
           \A t \in Online : t # running[p] => stopRows'[t] = stopRows[t]
    PROVE  EntryInv' /\ \A t \in Sessions \ {running[p]} : Untouched(t)
  <1>1. PICK s \in Sessions : s = running[p]
    BY RunningRow DEF EndRunning
  <1>2. Runs(s) /\ Owner[s] = p /\ Registered(s).outcome = "active"
    BY <1>1, RunningRow DEF EndRunning
  <1>3. /\ Persist(a, s, started[s], now)
        /\ running' = [running EXCEPT ![p] = None]
        /\ registry' = [registry EXCEPT ![s] =
              SettledRow(s, "stopped", SavedAs(a, started[s], now), now)]
    BY <1>1 DEF EndRunning
  <1>4. /\ registry'[s] = SettledRow(s, "stopped", SavedAs(a, started[s], now), now)
        /\ \A t \in Sessions \ {s} : registry'[t] = registry[t]
    BY <1>3 DEF TypeInv, TypeOK
  <1>5. SessionFits(s)' /\ \A t \in Sessions \ {s} : EntriesKept(t)
    BY <1>2, <1>3, <1>4, EndedFits DEF EntryInv
  <1>6. \A t \in Sessions \ {s} : Runs(t)' <=> Runs(t)
    BY <1>1, <1>3 DEF Runs, TypeInv, TypeOK
  <1>7. \A t \in Sessions \ {s} : Untouched(t)
    BY <1>1, <1>4, <1>5, <1>6 DEF Untouched
  <1>8. \A t \in Sessions \cap {s} : SessionFits(t)'
    BY <1>5
  <1>9. EntryInv'
    BY <1>7, <1>8, StepFits
  <1> QED
    BY <1>1, <1>7, <1>9

(* Archival saves each running session under its own id.                   *)
LEMMA EntryArchive ==
    ASSUME TypeInv, RunInv, EntryInv, NEW ids \in [Participants -> Activities],
           Archive(ids)
    PROVE  EntryInv' /\ \A s \in Sessions : Runs(s) \/ Untouched(s)
  <1> DEFINE saving == {p \in Participants : /\ running[p] # None
                                             /\ Saves(started[running[p]], now)}
             written == {s \in Sessions : Runs(s)}
  <1>1. /\ \A p \in saving : entries[ids[p]] = None
        /\ \A p, q \in saving : ids[p] = ids[q] => p = q
        /\ running' = [p \in Participants |-> None]
        /\ registry' = [s \in Sessions |->
              IF Runs(s)
              THEN SettledRow(s, "archive_pending",
                              SavedAs(ids[Owner[s]], started[s], now), now)
              ELSE registry[s]]
        /\ UNCHANGED <<now, started, startRows, stopRows>>
    BY DEF Archive
  <1>2. entries' = [a \in Activities |->
              IF \E p \in saving : ids[p] = a
              THEN NewEntry(running[CHOOSE p \in saving : ids[p] = a],
                            started[running[CHOOSE p \in saving : ids[p] = a]], now)
              ELSE entries[a]]
    <2>1. saving = {p \in {q \in Participants : running[q] # None} :
                       Saves(started[running[p]], now)}
      OBVIOUS
    <2> HIDE DEF saving
    <2> QED
      BY <2>1 DEF Archive
  <1>3. \A p \in saving : (CHOOSE q \in saving : ids[q] = ids[p]) = p
    BY <1>1
  <1>4. \A p \in saving :
          entries'[ids[p]] = NewEntry(running[p], started[running[p]], now)
    <2> HIDE DEF saving
    <2>1. \A p \in saving : ids[p] \in Activities
      BY DEF saving
    <2> QED
      BY <1>2, <1>3, <2>1
  <1>5. \A a \in Activities : (\A p \in saving : ids[p] # a) => entries'[a] = entries[a]
    BY <1>2
  <1>6. \A p \in saving :
          /\ running[p] \in Sessions /\ Owner[running[p]] = p /\ Runs(running[p])
          /\ started[running[p]] \in Instants /\ now \in Instants
    BY RunningRow DEF TypeInv, TypeOK, RunningStarted
  <1>7. \A p \in saving :
          /\ entries'[ids[p]] \in Entries /\ entries'[ids[p]] # None
          /\ entries'[ids[p]].session = running[p] /\ entries'[ids[p]].live = TRUE
          /\ entries'[ids[p]].end = now
    <2> SUFFICES ASSUME NEW p \in saving
                 PROVE  /\ entries'[ids[p]] \in Entries /\ entries'[ids[p]] # None
                        /\ entries'[ids[p]].session = running[p]
                        /\ entries'[ids[p]].live = TRUE /\ entries'[ids[p]].end = now
      OBVIOUS
    <2> HIDE DEF saving
    <2>1. /\ running[p] \in Sessions
          /\ started[running[p]] \in Instants /\ now \in Instants
      BY <1>6
    <2>2. entries'[ids[p]] = NewEntry(running[p], started[running[p]], now)
      BY <1>4
    <2>3. entries'[ids[p]] \in Entries
      BY <2>1, <2>2 DEF NewEntry, Entries
    <2>4. entries'[ids[p]] # None
      BY <2>3
    <2> QED
      BY <2>2, <2>3, <2>4 DEF NewEntry
  <1> HIDE DEF saving
  <1>8. \A s \in Sessions \ written : Untouched(s)
    <2> SUFFICES ASSUME NEW s \in Sessions, ~Runs(s) PROVE Untouched(s)
      OBVIOUS
    <2>1. registry'[s] = registry[s] /\ ~Runs(s)'
      BY <1>1 DEF Runs, TypeInv, TypeOK
    <2>2. EntriesKept(s)
      BY <1>1, <1>5, <1>6, <1>7 DEF EntriesKept, EntriesOf
    <2> QED
      BY <1>1, <2>1, <2>2 DEF Untouched
  <1>9. \A s \in Sessions \cap written : SessionFits(s)'
    <2> SUFFICES ASSUME NEW s \in Sessions, Runs(s) PROVE SessionFits(s)'
      OBVIOUS
    <2> DEFINE p == Owner[s]
               a == ids[p]
    <2>1. p \in Participants /\ running[p] = s /\ a \in Activities
      BY DEF Runs
    <2>2. Registered(s).outcome = "active"
      BY <2>1, RunningRow DEF TypeInv, TypeOK
    <2>3. registry'[s] = SettledRow(s, "archive_pending", SavedAs(a, started[s], now), now)
      BY <1>1
    <2>4. p \in saving <=> Saves(started[s], now)
      BY <2>1 DEF saving, TypeInv, TypeOK
    (* What archival does to the entries of this session is one Persist.   *)
    <2>5. /\ SessionFits(s) /\ Loaded(s).outcome = "active"
          /\ \A b \in EntriesOf(s) : ~Live(b)
          /\ s \notin Legacy => EntriesOf(s) = {}
      BY <2>2 DEF EntryInv, SessionFits, RowFits, Loaded, Undecided, EntriesOf
    <2> HIDE DEF p, a
    <2>6. \A b \in Activities \ {a} : (b \in EntriesOf(s) \/ b \in EntriesOf(s)')
                                         => entries'[b] = entries[b]
      BY <1>1, <1>5, <1>6, <1>7, <2>1 DEF EntriesOf, p, a
    <2>7. registry'[s] = Row("archive_pending", SavedAs(a, started[s], now), now)
      BY <2>2, <2>3 DEF SettledRow
    <2>8. now \in Instants /\ started[s] \in Instants
      BY <2>1 DEF TypeInv, TypeOK, RunningStarted
    <2>9. CASE Saves(started[s], now)
      <3>1. /\ a \in EntriesOf(s)' /\ Live(a)' /\ entries'[a].end = now
            /\ entries[a] = None
        BY <1>1, <1>7, <2>1, <2>4, <2>9 DEF EntriesOf, Live, a
      <3>2. /\ registry'[s].activity = a /\ registry'[s].terminal = now
            /\ registry'[s].outcome = "archive_pending"
        BY <2>7, <2>9 DEF SavedAs, Row
      <3>3. \A b \in EntriesOf(s)' : Live(b)' => b = a
        BY <2>5, <2>6 DEF EntriesOf, Live
      <3>4. s \notin Legacy => \A b, d \in EntriesOf(s)' : b = d
        BY <2>5, <2>6, <3>1 DEF EntriesOf
      <3>5. RowFits(registry[s], s)'
        BY <2>1, <2>8, <3>1, <3>2, <3>3 DEF RowFits, Undecided, Live
      <3> QED
        BY <3>2, <3>4, <3>5, WrittenFits DEF Known
    <2>10. CASE ~Saves(started[s], now)
      <3>1. /\ registry'[s].activity = None /\ registry'[s].terminal = now
            /\ registry'[s].outcome = "archive_pending"
        BY <2>7, <2>10 DEF SavedAs, Row
      <3>2. a \in EntriesOf(s) \/ a \in EntriesOf(s)' => entries'[a] = entries[a]
        <4>1. \A q \in saving : running[q] # s
          BY <1>6, <2>4, <2>10 DEF p
        <4> QED
          BY <1>1, <1>5, <1>7, <2>1, <4>1 DEF EntriesOf
      <3>3. \A b \in Activities : (b \in EntriesOf(s) \/ b \in EntriesOf(s)')
                                     => entries'[b] = entries[b]
        BY <2>6, <3>2
      <3>4. EntriesOf(s)' = EntriesOf(s)
        <4>1. \A b \in Activities : b \in EntriesOf(s)' <=> b \in EntriesOf(s)
          BY <3>3 DEF EntriesOf
        <4> QED
          BY <4>1 DEF EntriesOf
      <3>5. \A b \in EntriesOf(s)' : ~Live(b)'
        BY <2>5, <3>3, <3>4 DEF EntriesOf, Live
      <3>6. RowFits(registry[s], s)'
        BY <2>8, <3>1, <3>5 DEF RowFits, Undecided
      <3> QED
        BY <2>5, <3>1, <3>4, <3>6, WrittenFits DEF Known
    <2> QED
      BY <2>9, <2>10
  <1>10. EntryInv'
    <2> HIDE DEF written
    <2> QED
      BY <1>8, <1>9, StepFits
  <1> QED
    BY <1>8, <1>10

(* A deletion unlinks the rows that named what is removed.                 *)
LEMMA EntryRemove ==
    ASSUME TypeInv, EntryInv, NEW dead, NEW s \in Sessions,
           \A a \in dead \cap Activities : entries[a] # None,
           entries' = Removed(entries, dead),
           registry' = Unlinked(registry, dead),
           ~Known(s) => /\ RowFits(Loaded(s), s)'
                        /\ s \in Online \ Legacy => stopRows'[s] = None
    PROVE  SessionFits(s)'
  <1>1. SessionFits(s)
    BY DEF EntryInv
  <1>2. registry \in [Sessions -> RegistryRows]
    BY DEF TypeInv, TypeOK
  <1>3. /\ registry'[s].outcome = registry[s].outcome
        /\ registry'[s].terminal = registry[s].terminal
        /\ registry'[s].activity =
             IF registry[s].activity \in dead THEN None ELSE registry[s].activity
    <2>1. \A t \in Sessions :
            /\ Unlinked(registry, dead)[t].outcome = registry[t].outcome
            /\ Unlinked(registry, dead)[t].terminal = registry[t].terminal
            /\ Unlinked(registry, dead)[t].activity =
                 IF registry[t].activity \in dead THEN None ELSE registry[t].activity
      BY ONLY <1>2, UnlinkedOutcome
    <2> QED
      BY <2>1
  <1>4. Known(s)' <=> Known(s)
    BY <1>3 DEF Known
  <1>5. /\ EntriesOf(s)' = EntriesOf(s)
        /\ \A a \in Activities : /\ Live(a)' <=> Live(a) /\ a \notin dead
                                 /\ a \notin dead => entries'[a] = entries[a]
    BY RemovedFits
  <1>6. CASE Known(s)
    <2>1. Loaded(s) = registry[s] /\ Known(s)'
      BY <1>4, <1>6 DEF Loaded, Registered
    <2>2. RowFits(registry[s], s)
      BY <1>1, <2>1 DEF SessionFits
    <2>3. RowFits(registry[s], s)'
      BY <1>3, <1>5, <2>2 DEF RowFits, EntriesOf, Live
    <2> QED
      BY <1>1, <1>5, <2>1, <2>3, WrittenFits DEF SessionFits
  <1>7. CASE ~Known(s)
    <2>1. registry[s] = NoRow /\ registry'[s] = NoRow
      BY <1>1, <1>2, <1>7 DEF SessionFits, Unlinked, NoRow, Row
    <2> QED
      BY <1>1, <1>4, <1>5, <1>7, <2>1 DEF SessionFits
  <1> QED
    BY <1>6, <1>7

(* Unlinking entries registers nothing.                                    *)
LEMMA StaysUnknown ==
    ASSUME TypeInv, NEW dead, registry' = Unlinked(registry, dead),
           NEW s \in Sessions, ~Known(s)
    PROVE  ~Known(s)'
  BY UnlinkedVerdict DEF Known

(* Deleting one entry.                                                     *)
LEMMA EntryDelete ==
    ASSUME TypeInv, EntryInv, NEW a \in Activities, DeleteActivity(a)
    PROVE  EntryInv'
  <1>1. /\ entries[a] # None
        /\ entries' = Removed(entries, {a})
        /\ registry' = Unlinked(registry, {a})
        /\ stopRows' = Scrubbed(stopRows, {a})
        /\ UNCHANGED <<startRows, running>>
    BY DEF DeleteActivity
  <1>2. \A b \in {a} \cap Activities : entries[b] # None
    BY <1>1
  <1> SUFFICES ASSUME NEW s \in Sessions PROVE SessionFits(s)'
    BY DEF EntryInv
  <1>3. SessionFits(s)
    BY DEF EntryInv
  <1>4. ASSUME ~Known(s)
        PROVE  /\ RowFits(Loaded(s), s)'
               /\ s \in Online \ Legacy => stopRows'[s] = None
    <2>1. registry[s] = NoRow /\ ~Known(s)'
      BY <1>1, <1>3, <1>4, StaysUnknown DEF SessionFits
    <2>2. RowFits(Loaded(s), s)
      BY <1>3 DEF SessionFits
    <2>3. /\ EntriesOf(s)' = EntriesOf(s)
          /\ \A b \in Activities : Live(b)' <=> Live(b) /\ b # a
      BY <1>1, <1>2, RemovedFits
    <2>4. s \in Online => stopRows'[s] =
            IF stopRows[s] # None /\ stopRows[s].activity = a
            THEN [end |-> None, activity |-> None] ELSE stopRows[s]
      BY <1>1 DEF Scrubbed
    <2>5. Runs(s)' <=> Runs(s)
      BY <1>1 DEF Runs
    <2>6. ASSUME s \in startRows /\ ~Runs(s)
          PROVE  RowFits(Loaded(s), s)'
      <3>1. Loaded(s) = LegacyRow(s) /\ Loaded(s)' = (LegacyRow(s))' /\ s \in Online
        BY <1>1, <1>4, <2>1, <2>5, <2>6 DEF Loaded, TypeInv, TypeOK
      <3>2. [end |-> None, activity |-> None] # None
        BY DEF StopRows
      <3>3. /\ Loaded(s).outcome = "stopped" /\ Loaded(s)'.outcome = "stopped"
            /\ Loaded(s)'.activity =
                 IF Loaded(s).activity = a THEN None ELSE Loaded(s).activity
        BY <2>4, <3>1, <3>2 DEF LegacyRow, Row
      <3>4. \A b \in EntriesOf(s) : Live(b)' <=> Live(b) /\ b # a
        BY <2>3 DEF EntriesOf
      <3>5. Loaded(s)'.activity # None =>
              /\ Loaded(s)'.activity \in EntriesOf(s)
              /\ \A b \in EntriesOf(s) : b = Loaded(s)'.activity => Live(b)'
        BY <2>2, <3>3, <3>4 DEF RowFits, Live
      <3> QED
        BY <2>2, <2>3, <3>3, <3>4, <3>5 DEF RowFits, Undecided, AwaitsStop, Live
    <2>7. ASSUME s \notin startRows \/ Runs(s)
          PROVE  RowFits(Loaded(s), s)'
      <3>1. Loaded(s) = ActiveRow /\ Loaded(s)' = ActiveRow
        BY <1>1, <1>4, <2>1, <2>5, <2>7 DEF Loaded, Registered
      <3>2. \A b \in EntriesOf(s) : ~Live(b)
        BY <2>2, <3>1 DEF RowFits, ActiveRow, Row, EntriesOf
      <3>3. \A b \in EntriesOf(s) : ~Live(b)'
        BY <2>3, <3>2 DEF EntriesOf
      <3> QED
        BY <2>2, <2>3, <3>1, <3>3 DEF RowFits, ActiveRow, Row, AwaitsStop
    <2>8. s \in Online \ Legacy => stopRows'[s] = None
      BY <1>3, <1>4, <2>4 DEF SessionFits
    <2> QED
      BY <2>6, <2>7, <2>8
  <1> QED
    BY <1>1, <1>2, <1>4, EntryRemove

(* The deletion of a member's data forgets sessions that only mutation     *)
(* records knew, and no entry of them is left.                             *)
LEMMA EntryErase ==
    ASSUME TypeInv, EntryInv, NEW p \in Participants, EraseMemberData(p)
    PROVE  /\ EntryInv'
           /\ \A s \in Sessions : IF Owner[s] = p
                                 THEN \A a \in EntriesOf(s)' : ~Live(a)'
                                 ELSE Untouched(s)
  <1> DEFINE dead == {a \in Activities : /\ entries[a] # None
                                         /\ Owner[entries[a].session] = p}
             mine == {s \in Sessions : Owner[s] = p}
  <1>1. /\ running' = [running EXCEPT ![p] = None]
        /\ entries' = Removed(entries, dead)
        /\ registry' = Unlinked(registry, dead)
        /\ startRows' = startRows \ mine
        /\ stopRows' = [s \in Online |-> IF s \in mine THEN None ELSE stopRows[s]]
    BY DEF EraseMemberData
  <1>2. \A a \in dead \cap Activities : entries[a] # None
    OBVIOUS
  <1>3. \A s \in Sessions : \A a \in EntriesOf(s) : a \in dead <=> s \in mine
    BY DEF EntriesOf
  <1>4. \A s \in Sessions : s \in mine <=> Owner[s] = p
    OBVIOUS
  <1> HIDE DEF dead, mine
  <1>5. /\ \A s \in Sessions : EntriesOf(s)' = EntriesOf(s)
        /\ \A a \in Activities : Live(a)' <=> Live(a) /\ a \notin dead
    BY <1>1, <1>2, RemovedFits
  <1>6. ASSUME NEW s \in Sessions, s \in mine, ~Known(s)
        PROVE  /\ RowFits(Loaded(s), s)'
               /\ s \in Online \ Legacy => stopRows'[s] = None
    <2>1. SessionFits(s)
      BY DEF EntryInv
    <2>2. ~Known(s)'
      BY <1>1, <1>6, StaysUnknown
    <2>3. Loaded(s)' = ActiveRow
      BY <1>1, <1>6, <2>2 DEF Loaded, Registered
    <2>4. \A a \in EntriesOf(s) : ~Live(a)'
      BY <1>3, <1>5, <1>6 DEF EntriesOf
    <2>5. s \notin Legacy => EntriesOf(s) = {}
      BY <1>6, <2>1 DEF SessionFits
    <2> QED
      BY <1>1, <1>5, <1>6, <2>3, <2>4, <2>5 DEF RowFits, ActiveRow, Row, AwaitsStop
  <1>7. ASSUME NEW s \in Sessions, s \in mine
        PROVE  SessionFits(s)'
    BY <1>1, <1>2, <1>6, <1>7, EntryRemove
  <1>8. ASSUME NEW s \in Sessions, s \notin mine
        PROVE  Untouched(s)
    <2>1. SessionFits(s)
      BY DEF EntryInv
    <2>2. registry[s].activity \notin dead
      <3>1. CASE Known(s)
        <4>1. RowFits(registry[s], s)
          BY <2>1, <3>1 DEF SessionFits, Loaded, Registered
        <4>2. registry[s].activity # None => registry[s].activity \in EntriesOf(s)
          BY <4>1 DEF RowFits
        <4> QED
          BY <1>3, <1>8, <4>2 DEF dead
      <3>2. CASE ~Known(s)
        BY <2>1, <3>2 DEF SessionFits, NoRow, Row, dead
      <3> QED
        BY <3>1, <3>2
    <2>3. registry'[s] = registry[s]
      BY <1>1, <2>2 DEF Unlinked
    <2>4. Runs(s)' <=> Runs(s)
      BY <1>1, <1>4, <1>8 DEF Runs, TypeInv, TypeOK
    <2>5. \A a \in EntriesOf(s) : entries'[a] = entries[a]
      BY <1>1, <1>2, <1>3, <1>8 DEF Removed, EntriesOf
    <2>6. EntriesKept(s)
      BY <1>5, <2>5 DEF EntriesKept
    <2> QED
      BY <1>1, <1>8, <2>3, <2>4, <2>6 DEF Untouched
  <1>9. EntryInv'
    <2>1. \A s \in Sessions \cap mine : SessionFits(s)'
      BY <1>7
    <2>2. \A s \in Sessions \ mine : Untouched(s)
      BY <1>8
    <2> QED
      BY <2>1, <2>2, StepFits
  <1>10. \A s \in Sessions : s \in mine => \A a \in EntriesOf(s)' : ~Live(a)'
    BY <1>3, <1>5 DEF EntriesOf
  <1> QED
    BY <1>4, <1>8, <1>9, <1>10

(* Every operation keeps the fields of a row and the entries it speaks of    *)
(* together.                                                                 *)
LEMMA EntryNext == TypeInv /\ RunInv /\ EntryInv /\ [Next]_vars => EntryInv'
  <1> SUFFICES ASSUME TypeInv, RunInv, EntryInv, [Next]_vars PROVE EntryInv'
    OBVIOUS
  <1>1. CASE UNCHANGED <<started, running, registry, startRows, stopRows, entries>>
    <2>1. \A s \in Sessions : Untouched(s)
      BY <1>1 DEF Untouched, Runs, EntriesKept
    <2> QED
      BY <2>1, StepFits
  <1>2. CASE \E c \in Commands, a \in Activities : Synchronize(c, a)
    BY <1>2, EntrySynchronize
  <1>3. ASSUME NEW s \in Online, StartTimer(s)
        PROVE  EntryInv'
    <2>1. /\ started[s] = None /\ running[Owner[s]] = None
          /\ running' = [running EXCEPT ![Owner[s]] = s]
          /\ SetRow(s, Registered(s)) /\ startRows' = startRows \cup {s}
          /\ UNCHANGED <<stopRows, entries>>
          /\ s \in Sessions \ Legacy
      BY <1>3 DEF StartTimer, FreshRequest, SetRow
    <2>2. ~Known(s) /\ Registered(s) = ActiveRow /\ SessionFits(s)
      BY <2>1 DEF RunInv, KnownStarted, Registered, EntryInv
    <2>3. /\ registry'[s] = ActiveRow
          /\ \A t \in Sessions \ {s} : registry'[t] = registry[t]
      BY <2>1, <2>2 DEF SetRow, TypeInv, TypeOK
    <2>4. RowFits(ActiveRow, s)
      BY <2>1, <2>2 DEF SessionFits, RowFits, ActiveRow, Row, AwaitsStop
    <2>5. SessionFits(s)'
      BY <2>1, <2>2, <2>3, <2>4, RewrittenFits DEF ActiveRow, Row
    <2>6. \A t \in Sessions \ {s} : Untouched(t)
      BY <2>1, <2>3 DEF Untouched, Runs, EntriesKept, TypeInv, TypeOK
    <2>7. \A t \in Sessions \cap {s} : SessionFits(t)'
      BY <2>5
    <2> QED
      BY <2>6, <2>7, StepFits
  (* The reservation settles a session that nobody ever saw.               *)
  <1>4. ASSUME NEW s \in Online, StartTimerConflict(s)
        PROVE  EntryInv'
    <2>1. /\ started[s] = None /\ s \in Sessions \ Legacy
          /\ startRows' = startRows \cup {s}
          /\ UNCHANGED <<running, registry, stopRows, entries>>
      BY <1>4 DEF StartTimerConflict, FreshRequest
    <2>2. ~Known(s) /\ ~Known(s)' /\ SessionFits(s)
      BY <2>1 DEF RunInv, KnownStarted, Known, EntryInv
    <2>3. /\ registry[s] = NoRow /\ stopRows[s] = None /\ EntriesOf(s) = {}
          /\ EntriesOf(s)' = {}
      BY <2>1, <2>2 DEF SessionFits, EntriesOf
    <2>4. Loaded(s)' \in {ActiveRow, Row("stopped", None, None)}
      BY <2>1, <2>2, <2>3 DEF Loaded, Registered, LegacyRow
    <2>5. /\ Loaded(s)'.activity = None
          /\ Loaded(s)'.outcome \in {"active", "stopped"}
      BY <2>4 DEF ActiveRow, Row
    <2>6. RowFits(Loaded(s), s)'
      BY <2>3, <2>5 DEF RowFits, AwaitsStop
    <2>7. SessionFits(s)'
      BY <2>1, <2>2, <2>3, <2>6 DEF SessionFits
    <2>8. \A t \in Sessions \ {s} : Untouched(t)
      BY <2>1 DEF Untouched, Runs, EntriesKept
    <2>9. \A t \in Sessions \cap {s} : SessionFits(t)'
      BY <2>7
    <2> QED
      BY <2>8, <2>9, StepFits
  <1>5. ASSUME NEW p \in Participants, NEW a \in Activities, StopTimer(p, a)
        PROVE  EntryInv'
    <2>1. \A t \in Online : t # running[p] => stopRows'[t] = stopRows[t]
      BY <1>5 DEF StopTimer, TypeInv, TypeOK
    <2> QED
      BY <1>5, <2>1, EntryEndRunning DEF StopTimer
  <1>6. ASSUME NEW a \in Activities, DeleteActivity(a)
        PROVE  EntryInv'
    BY <1>6, EntryDelete
  <1>7. ASSUME NEW ids \in [Participants -> Activities], Archive(ids)
        PROVE  EntryInv'
    BY <1>7, EntryArchive
  <1>8. ASSUME NEW p \in Participants, NEW a \in Activities, LeaveRetaining(p, a)
        PROVE  EntryInv'
    BY <1>1, <1>8, EntryEndRunning DEF LeaveRetaining
  <1>9. ASSUME NEW p \in Participants,
               RemoveMember(p) \/ Demote(p)
        PROVE  EntryInv'
    BY <1>1, <1>9, EntryErase DEF RemoveMember, Demote, timerVars
  <1>10. CASE \/ Restore \/ Tick \/ UNCHANGED vars
              \/ \E p \in Participants :
                   \/ Promote(p)
                   \/ \E offered \in {"participant", "supporter"} : Join(p, offered)
    BY <1>1, <1>10 DEF Restore, Tick, Promote, Join, vars, timerVars
  <1> QED
    BY <1>2, <1>3, <1>4, <1>5, <1>6, <1>7, <1>8, <1>9, <1>10 DEF Next, ServerStep

(* The invariants of the registry hold together in every state.              *)
LEMMA EntryInvariant == Spec => [](TypeInv /\ RunInv /\ EntryInv)
  BY TypeInit, TypeNext, RunInit, RunNext, EntryInit, EntryNext, PTL DEF Spec

(* The registry names exactly the live entry of each session, after every  *)
(* transaction: what a delayed stop returns exists and is its own.         *)
THEOREM RegistryNamesItsEntry == Spec => []RegistryNamesEntry
  <1>1. EntryInv => RegistryNamesEntry
    <2> SUFFICES ASSUME EntryInv, NEW s \in Sessions
                 PROVE  /\ registry[s].activity # None =>
                             /\ Live(registry[s].activity)
                             /\ registry[s].activity \in EntriesOf(s)
                        /\ Known(s) => \A a \in EntriesOf(s) :
                                         Live(a) => registry[s].activity = a
      BY DEF RegistryNamesEntry
    <2>1. SessionFits(s)
      BY DEF EntryInv
    <2>2. CASE Known(s)
      BY <2>1, <2>2 DEF SessionFits, RowFits, Loaded, Registered
    <2>3. CASE ~Known(s)
      BY <2>1, <2>3 DEF SessionFits, NoRow, Row
    <2> QED
      BY <2>2, <2>3
  <1> QED
    BY EntryInvariant, <1>1, PTL

(* The loser of a timer conflict, and a session that archival refused or   *)
(* that still waits for its stop, leaves no recorded time behind.          *)
THEOREM DiscardedLeavesNoEntry == Spec => []DiscardedHasNoEntry
  <1>1. EntryInv => DiscardedHasNoEntry
    <2> SUFFICES ASSUME EntryInv, NEW s \in Sessions,
                        registry[s].outcome \in {"conflict", "archived", "archive_waiting"},
                        NEW a \in EntriesOf(s)
                 PROVE  ~Live(a)
      BY DEF DiscardedHasNoEntry
    <2>1. RowFits(registry[s], s)
      BY DEF EntryInv, SessionFits, Loaded, Registered, Known
    <2> QED
      BY <2>1 DEF RowFits, Undecided, EntriesOf
  <1> QED
    BY EntryInvariant, <1>1, PTL

(* No session is ever recorded twice: not by a retry, not by a stop that   *)
(* follows another, not after its entry was deleted.                       *)
THEOREM RecordedAtMostOnce == Spec => []RecordedOnce
  <1>1. EntryInv => RecordedOnce
    BY DEF EntryInv, SessionFits, RecordedOnce
  <1> QED
    BY EntryInvariant, <1>1, PTL

----------------------------------------------------------------------------
(***************************************************************************)
(* How a transaction of TimerRegistry may move a session: the archive      *)
(* instant is kept, and the registry implements SessionLedger.             *)
(***************************************************************************)

(* What is recorded of a session is what was recorded, or is removed.      *)
Held(s) ==
    \A a \in Activities :
      (a \in EntriesOf(s) \/ a \in EntriesOf(s)') /\ Live(a)' =>
        entries'[a] = entries[a]

SameRow(s) ==
    Known(s) => /\ registry'[s].outcome = registry[s].outcome
                /\ registry'[s].terminal = registry[s].terminal

Stays(s) == Loaded(s)'.outcome = Loaded(s).outcome /\ SameRow(s) /\ Held(s)

Waits(s) ==
    /\ Open(Loaded(s))
    /\ registry'[s].outcome = "archive_waiting"
    /\ Loaded(s).outcome = "archive_waiting" =>
          registry'[s].terminal = Loaded(s).terminal

Pends(s) ==
    Loaded(s).outcome = "active" /\ registry'[s].outcome = "archive_pending"

(* A session that waits for its stop records nothing after its instant,    *)
(* and no entry where archival left none.                                  *)
Settles(s) ==
    /\ Open(Loaded(s)) \/ Loaded(s).outcome = "archive_pending"
    /\ Loaded(s)'.outcome \in TerminalOutcomes
    /\ Loaded(s).outcome = "archive_pending" /\ Loaded(s).activity = None =>
          Loaded(s)'.activity = None
    /\ Loaded(s).outcome \in AwaitsStop =>
          \A a \in EntriesOf(s)' : Live(a)' => entries'[a].end <= Loaded(s).terminal

Moves(s) == Stays(s) \/ Waits(s) \/ Pends(s) \/ Settles(s)

(* A session of a member whose data goes.                                  *)
Forgotten(s) ==
    /\ Loaded(s)'.outcome \in {Loaded(s).outcome, "active"}
    /\ SameRow(s)
    /\ \A a \in Activities : a \in EntriesOf(s) \/ a \in EntriesOf(s)' => ~Live(a)'

(* A session whose rows a step leaves alone keeps its place.                 *)
LEMMA UntouchedStays ==
    ASSUME TypeInv, NEW s \in Sessions, Untouched(s)
    PROVE  Stays(s)
  <1>1. Loaded(s)' = Loaded(s)
    BY UntouchedRow
  <1> QED
    BY <1>1 DEF Stays, SameRow, Held, Untouched, EntriesKept

(* A row that is written is the row the next command works on.             *)
LEMMA WrittenRow ==
    ASSUME NEW s \in Sessions, registry'[s].outcome # "none"
    PROVE  Loaded(s)' = registry'[s]
  <1>1. Known(s)'
    BY DEF Known
  <1> QED
    BY <1>1 DEF Loaded, Registered

(* A verdict that leaves no entry settles whatever waited.                 *)
LEMMA DiscardSettles ==
    ASSUME EntryInv', NEW s \in Sessions, Open(Loaded(s)),
           registry'[s].outcome \in {"conflict", "archived"}
    PROVE  Settles(s)
  <1>1. Loaded(s)' = registry'[s]
    BY WrittenRow
  <1>2. RowFits(Loaded(s), s)'
    BY DEF EntryInv, SessionFits
  <1>3. \A a \in EntriesOf(s)' : ~Live(a)'
    BY <1>1, <1>2 DEF RowFits, Undecided, EntriesOf
  <1> QED
    BY <1>1, <1>3 DEF Settles, Open, TerminalOutcomes

----------------------------------------------------------------------------
(* How a step moves the sessions it writes *)

(* A stop or a correction of a session that nothing has stopped.           *)
LEMMA MovesStop ==
    ASSUME TypeInv, RunInv, EntryInv, NEW c \in Commands, NEW a \in Activities,
           SyncStop(c, a)
    PROVE  Settles(c.session)
  <1> DEFINE s == c.session
             row == Loaded(s)
             end == Cut(c.end, Cutoff(row))
             saved == SavedAs(a, c.start, end)
             new == Row("stopped", IF saved = None THEN row.activity ELSE saved,
                        c.end)
  <1>1. /\ s \in Sessions /\ c.start \in Instants
        /\ c.kind # "start" => c.end \in Instants
    BY CommandFields DEF TypeInv
  <1>2. row \in RegistryRows /\ RowFits(row, s)
    BY <1>1, LoadedRow DEF EntryInv, SessionFits
  <1>3. /\ SetRow(s, new) /\ c.kind # "start" /\ Open(row)
        /\ Persist(a, s, c.start, end)
    BY DEF SyncStop
  <1>4. end \in Instants
    BY <1>1, <1>2, <1>3, CutInstant DEF Cutoff, RegistryRows, TypeInv, TypeOK
  <1>5. registry'[s].outcome = "stopped"
    BY <1>1, <1>3 DEF SetRow, Row, TypeInv, TypeOK
  <1> HIDE DEF s, row, end, saved, new
  <1>6. /\ \A b \in EntriesOf(s) : ~Live(b)
        /\ s \notin Legacy => EntriesOf(s) = {}
    BY <1>2, <1>3 DEF RowFits, Open, Undecided, EntriesOf
  <1>7. \A b \in EntriesOf(s)' : Live(b)' => entries'[b].end = end
    BY <1>1, <1>3, <1>4, <1>6, PersistFits
  <1>8. row.outcome = "archive_waiting" => end <= row.terminal
    <2>1. row.outcome = "archive_waiting" =>
            row.terminal \in Instants /\ end = Cut(c.end, row.terminal)
      BY <1>2 DEF RowFits, AwaitsStop, RegistryRows, Cutoff, end
    <2> QED
      BY <1>1, <1>3, <2>1 DEF Cut
  <1>9. Loaded(s)'.outcome = "stopped"
    BY <1>1, <1>5, WrittenRow
  <1>10. row = Loaded(s)
    BY DEF row
  <1>11. Settles(s)
    BY <1>3, <1>7, <1>8, <1>9, <1>10 DEF Settles, Open, TerminalOutcomes, AwaitsStop
  <1> QED
    BY <1>11 DEF s

(* The stop that archival waited for.                                      *)
LEMMA MovesReconcile ==
    ASSUME TypeInv, RunInv, EntryInv, EntryInv', NEW c \in Commands, SyncReconcile(c)
    PROVE  Settles(c.session)
  <1> DEFINE s == c.session
             row == Loaded(s)
             end == Cut(c.end, row.terminal)
             keeps == /\ row.activity # None
                      /\ ~Refused(c.start, row.terminal) /\ Saves(c.start, end)
             new == Row("stopped", IF keeps THEN row.activity ELSE None, row.terminal)
  <1>1. /\ s \in Sessions /\ c.start \in Instants
        /\ c.kind # "start" => c.end \in Instants
    BY CommandFields DEF TypeInv
  <1>2. row \in RegistryRows /\ RowFits(row, s)
    BY <1>1, LoadedRow DEF EntryInv, SessionFits
  <1>3. /\ SetRow(s, new) /\ c.kind # "start" /\ row.outcome = "archive_pending"
        /\ entries' = IF row.activity = None THEN entries
                      ELSE IF keeps
                      THEN [entries EXCEPT ![row.activity] = NewEntry(s, c.start, end)]
                      ELSE Removed(entries, {row.activity})
    BY DEF SyncReconcile
  <1>4. /\ registry'[s].outcome = "stopped"
        /\ registry'[s].activity = IF keeps THEN row.activity ELSE None
    BY <1>1, <1>3 DEF SetRow, Row, TypeInv, TypeOK
  <1>5. row.terminal \in Instants /\ end <= row.terminal
    <2>1. row.terminal \in Instants
      BY <1>2, <1>3 DEF RowFits, AwaitsStop, RegistryRows
    <2> QED
      BY <1>1, <1>3, <2>1 DEF Cut
  <1>6. keeps => row.activity # None
    OBVIOUS
  <1>7. row = Loaded(s)
    OBVIOUS
  <1> HIDE DEF s, row, end, keeps, new
  <1>8. Loaded(s)' = registry'[s]
    BY <1>1, <1>4, WrittenRow
  <1>9. RowFits(Loaded(s), s)'
    BY <1>1 DEF EntryInv, SessionFits
  <1>10. \A b \in EntriesOf(s)' : Live(b)' => entries'[b].end <= row.terminal
    <2> SUFFICES ASSUME NEW b \in EntriesOf(s)', Live(b)'
                 PROVE  entries'[b].end <= row.terminal
      OBVIOUS
    <2>1. b = row.activity /\ keeps /\ b \in Activities /\ b # None
      BY <1>4, <1>8, <1>9 DEF RowFits, EntriesOf
    <2>2. entries'[b] = NewEntry(s, c.start, end)
      BY <1>3, <2>1 DEF TypeInv, TypeOK
    <2> QED
      BY <1>5, <2>2 DEF NewEntry
  <1>11. Settles(s)
    BY <1>3, <1>4, <1>6, <1>7, <1>8, <1>10 DEF Settles, TerminalOutcomes
  <1> QED
    BY <1>11 DEF s

(* A device's command moves its own session a step, and lets the others      *)
(* stay.                                                                     *)
LEMMA MovesSynchronize ==
    ASSUME TypeInv, RunInv, EntryInv, EntryInv',
           NEW c \in Commands, NEW a \in Activities, Synchronize(c, a)
    PROVE  \A t \in Sessions : Moves(t)
  <1> DEFINE s == c.session
             row == Loaded(s)
  <1>1. /\ s \in Sessions /\ Owner[s] \in Participants
        /\ registry \in [Sessions -> RegistryRows]
    BY CommandFields DEF TypeInv, TypeOK
  <1>2. /\ row \in RegistryRows /\ row.outcome # "none"
        /\ Known(s) => row = registry[s]
    BY <1>1, LoadedRow
  <1>3. \A t \in Sessions \ {s} : Untouched(t) \/ Displaced(t)
    BY EntrySynchronize
  <1>4. \A t \in Sessions \ {s} : Moves(t)
    <2> SUFFICES ASSUME NEW t \in Sessions \ {s} PROVE Moves(t)
      OBVIOUS
    <2>1. CASE Untouched(t)
      BY <2>1, UntouchedStays DEF Moves
    <2>2. CASE Displaced(t)
      BY <2>2, DiscardSettles DEF Displaced, Open, Moves
    <2> QED
      BY <1>3, <2>1, <2>2
  <1> HIDE DEF row
  (* The row of the session is registered as it is.                        *)
  <1>5. ASSUME registry'[s] = row, UNCHANGED entries
        PROVE  Stays(s)
    <2>1. Loaded(s)' = row
      BY <1>1, <1>2, <1>5, WrittenRow
    <2> QED
      BY <1>2, <1>5, <2>1 DEF Stays, SameRow, Held, row
  <1>6. CASE SyncSettled(c)
    <2>1. registry'[s] = row /\ UNCHANGED entries
      BY <1>1, <1>6 DEF SyncSettled, SetRow, row
    <2> QED
      BY <1>4, <1>5, <2>1 DEF Moves
  <1>7. CASE SyncReconcile(c)
    BY <1>4, <1>7, MovesReconcile DEF Moves
  <1>8. CASE SyncRefused(c)
    <2>1. Open(row) /\ registry'[s].outcome = "archived"
      BY <1>1, <1>2, <1>8 DEF SyncRefused, SetRow, RegistryRows, row
    <2> QED
      BY <1>1, <1>4, <2>1, DiscardSettles DEF Moves, row
  <1>9. CASE SyncStartWaits(c)
    <2>1. /\ Open(row)
          /\ registry'[s].outcome = "archive_waiting"
          /\ registry'[s].terminal = Cutoff(row)
      BY <1>1, <1>2, <1>9 DEF SyncStartWaits, SetRow, RegistryRows, row
    <2>2. Waits(s)
      BY <2>1 DEF Waits, Cutoff, row
    <2> QED
      BY <1>4, <2>2 DEF Moves
  <1>10. CASE SyncStartRuns(c)
    <2>1. registry'[s] = row /\ UNCHANGED entries
      BY <1>1, <1>10 DEF SyncStartRuns, SetRow, row
    <2> QED
      BY <1>4, <1>5, <2>1 DEF Moves
  <1>11. CASE SyncStartLoses(c)
    <2>1. row.outcome = "active" /\ registry'[s].outcome = "conflict"
      BY <1>1, <1>2, <1>11 DEF SyncStartLoses, StartsLive, SetRow, RegistryRows, row
    <2> QED
      BY <1>1, <1>4, <2>1, DiscardSettles DEF Moves, Open, row
  <1>12. CASE SyncStartWins(c)
    <2>1. registry'[s] = row /\ UNCHANGED entries
      BY <1>1, <1>12 DEF SyncStartWins, row
    <2> QED
      BY <1>4, <1>5, <2>1 DEF Moves
  <1>13. CASE SyncStop(c, a)
    BY <1>4, <1>13, MovesStop DEF Moves
  <1> QED
    BY <1>6, <1>7, <1>8, <1>9, <1>10, <1>11, <1>12, <1>13 DEF Synchronize

(* The running session of a participant settles; nobody else's moves.      *)
LEMMA MovesEndRunning ==
    ASSUME TypeInv, RunInv, EntryInv, NEW p \in Participants, NEW a \in Activities,
           EndRunning(p, a), UNCHANGED startRows,
           \A t \in Online : t # running[p] => stopRows'[t] = stopRows[t]
    PROVE  \A t \in Sessions : Moves(t)
  <1>1. PICK s \in Sessions : s = running[p]
    BY RunningRow DEF EndRunning
  <1>2. \A t \in Sessions \ {s} : Untouched(t)
    BY <1>1, EntryEndRunning
  <1>3. Loaded(s).outcome = "active"
    BY <1>1, RunningRow DEF EndRunning
  <1>4. registry'[s] = Row("stopped", SavedAs(a, started[s], now), now)
    BY <1>1, EndRunningSettles
  <1>5. registry'[s].outcome = "stopped"
    BY <1>4 DEF Row
  <1>6. Loaded(s)'.outcome = "stopped"
    BY <1>5, WrittenRow
  <1>7. Settles(s)
    BY <1>3, <1>6 DEF Settles, Open, TerminalOutcomes, AwaitsStop
  <1> QED
    BY <1>2, <1>7, UntouchedStays DEF Moves

(* An archive makes sessions wait for their stop, and settles the others.    *)
LEMMA MovesArchive ==
    ASSUME TypeInv, RunInv, EntryInv, NEW ids \in [Participants -> Activities],
           Archive(ids)
    PROVE  \A s \in Sessions : Moves(s)
  <1> SUFFICES ASSUME NEW s \in Sessions PROVE Moves(s)
    OBVIOUS
  <1>1. CASE Untouched(s)
    BY <1>1, UntouchedStays DEF Moves
  <1>2. CASE Runs(s)
    <2>1. Loaded(s).outcome = "active" /\ Registered(s).outcome = "active"
      BY <1>2, RunningRow DEF Runs, TypeInv, TypeOK
    <2>2. registry'[s].outcome = "archive_pending"
      BY <1>2, <2>1 DEF Archive, SettledRow, Row
    <2> QED
      BY <2>1, <2>2 DEF Moves, Pends
  <1> QED
    BY <1>1, <1>2, EntryArchive

(* A deletion changes the verdict of no session, recorded or not.          *)
LEMMA MovesDelete ==
    ASSUME TypeInv, EntryInv, NEW a \in Activities, DeleteActivity(a)
    PROVE  \A s \in Sessions : Stays(s)
  <1> SUFFICES ASSUME NEW s \in Sessions PROVE Stays(s)
    OBVIOUS
  <1>1. /\ entries[a] # None
        /\ entries' = Removed(entries, {a})
        /\ registry' = Unlinked(registry, {a})
        /\ UNCHANGED <<startRows, running>>
        /\ registry \in [Sessions -> RegistryRows]
    BY DEF DeleteActivity, TypeInv, TypeOK
  <1>2. \A b \in {a} \cap Activities : entries[b] # None
    BY <1>1
  <1>3. \A t \in Sessions : /\ registry'[t].outcome = registry[t].outcome
                            /\ registry'[t].terminal = registry[t].terminal
    BY <1>1, UnlinkedVerdict
  <1>4. SameRow(s) /\ (Known(s)' <=> Known(s))
    BY <1>1, <1>3 DEF SameRow, Known
  <1>5. Held(s)
    BY <1>1, <1>2, RemovedFits DEF Held
  <1>6. Runs(s)' <=> Runs(s)
    BY <1>1 DEF Runs
  <1>7. Loaded(s)'.outcome = Loaded(s).outcome
    <2>1. CASE Known(s)
      BY <1>1, <1>3, <1>4, <2>1 DEF Loaded, Registered
    <2>2. CASE ~Known(s) /\ s \in startRows /\ ~Runs(s)
      <3>1. Loaded(s) = LegacyRow(s) /\ Loaded(s)' = (LegacyRow(s))'
        BY <1>1, <1>4, <1>6, <2>2 DEF Loaded
      <3> QED
        BY <3>1 DEF LegacyRow, Row
    <2>3. CASE ~Known(s) /\ (s \notin startRows \/ Runs(s))
      BY <1>1, <1>4, <1>6, <2>3 DEF Loaded, Registered
    <2> QED
      BY <2>1, <2>2, <2>3
  <1> QED
    BY <1>4, <1>5, <1>7 DEF Stays

(* Erasing a member's data moves nobody else's session.                    *)
LEMMA MovesErase ==
    ASSUME TypeInv, EntryInv, NEW p \in Participants, EraseMemberData(p)
    PROVE  \A s \in Sessions : IF Owner[s] = p THEN Forgotten(s) ELSE Untouched(s)
  <1> SUFFICES ASSUME NEW s \in Sessions, Owner[s] = p PROVE Forgotten(s)
    BY EntryErase
  <1> DEFINE dead == {a \in Activities : /\ entries[a] # None
                                         /\ Owner[entries[a].session] = p}
  <1>1. /\ entries' = Removed(entries, dead)
        /\ registry' = Unlinked(registry, dead)
        /\ s \notin startRows'
        /\ registry \in [Sessions -> RegistryRows]
    BY DEF EraseMemberData, TypeInv, TypeOK
  <1>2. \A a \in dead \cap Activities : entries[a] # None
    OBVIOUS
  <1>3. \A a \in EntriesOf(s) : a \in dead
    BY DEF EntriesOf
  <1> HIDE DEF dead
  <1>4. \A t \in Sessions : /\ registry'[t].outcome = registry[t].outcome
                            /\ registry'[t].terminal = registry[t].terminal
    BY <1>1, UnlinkedVerdict
  <1>5. SameRow(s) /\ (Known(s)' <=> Known(s))
    BY <1>1, <1>4 DEF SameRow, Known
  <1>6. \A a \in Activities : a \in EntriesOf(s) \/ a \in EntriesOf(s)' => ~Live(a)'
    BY <1>1, <1>2, <1>3, RemovedFits
  <1>7. Loaded(s)'.outcome \in {Loaded(s).outcome, "active"}
    BY <1>1, <1>4, <1>5 DEF Loaded, Registered, ActiveRow, Row
  <1> QED
    BY <1>5, <1>6, <1>7 DEF Forgotten

(* Every operation moves each session a step, or forgets those of one        *)
(* member.                                                                   *)
LEMMA MovesNext ==
    ASSUME TypeInv, RunInv, EntryInv, EntryInv', [Next]_vars
    PROVE  \/ \A s \in Sessions : Moves(s)
           \/ \E p \in Participants : \A s \in Sessions :
                IF Owner[s] = p THEN Forgotten(s) ELSE Untouched(s)
  <1>1. ASSUME UNCHANGED <<started, running, registry, startRows, stopRows, entries>>
        PROVE  \A s \in Sessions : Moves(s)
    <2>1. \A s \in Sessions : Untouched(s)
      BY <1>1 DEF Untouched, Runs, EntriesKept
    <2> QED
      BY <2>1, UntouchedStays DEF Moves
  <1>2. CASE \E c \in Commands, a \in Activities : Synchronize(c, a)
    BY <1>2, MovesSynchronize
  <1>3. ASSUME NEW s \in Online, StartTimer(s)
        PROVE  \A t \in Sessions : Moves(t)
    <2>1. /\ started[s] = None /\ running[Owner[s]] = None
          /\ running' = [running EXCEPT ![Owner[s]] = s]
          /\ registry' = [registry EXCEPT ![s] = Registered(s)]
          /\ startRows' = startRows \cup {s} /\ s \notin startRows
          /\ UNCHANGED <<stopRows, entries>>
      BY <1>3 DEF StartTimer, FreshRequest
    <2>2. ~Known(s) /\ Registered(s) = ActiveRow
      BY <2>1 DEF RunInv, KnownStarted, Registered
    <2>3. /\ registry'[s] = ActiveRow
          /\ \A t \in Sessions \ {s} : registry'[t] = registry[t]
      BY <2>1, <2>2 DEF TypeInv, TypeOK
    <2>4. Loaded(s) = ActiveRow /\ Loaded(s)' = ActiveRow
      BY <2>1, <2>2, <2>3, WrittenRow DEF Loaded, ActiveRow, Row
    <2>5. Stays(s)
      BY <2>1, <2>2, <2>4 DEF Stays, SameRow, Held
    <2>6. \A t \in Sessions \ {s} : Untouched(t)
      BY <2>1, <2>3 DEF Untouched, Runs, EntriesKept, TypeInv, TypeOK
    <2> QED
      BY <2>5, <2>6, UntouchedStays DEF Moves
  (* Only the reservation of the request remembers this session.           *)
  <1>4. ASSUME NEW s \in Online, StartTimerConflict(s)
        PROVE  \A t \in Sessions : Moves(t)
    <2>1. /\ started[s] = None /\ s \notin startRows
          /\ startRows' = startRows \cup {s}
          /\ UNCHANGED <<running, registry, stopRows, entries>>
      BY <1>4 DEF StartTimerConflict, FreshRequest
    <2>2. ~Known(s) /\ ~Known(s)' /\ (Runs(s)' <=> Runs(s))
      BY <2>1 DEF RunInv, KnownStarted, Known, Runs
    <2>3. Loaded(s) = ActiveRow
      BY <2>1, <2>2 DEF Loaded, Registered
    <2>4. Loaded(s)'.outcome \in {"active", "stopped"}
      BY <2>1, <2>2 DEF Loaded, Registered, LegacyRow, ActiveRow, Row
    <2>5. Stays(s) \/ Settles(s)
      BY <2>1, <2>2, <2>3, <2>4
      DEF Stays, SameRow, Held, Settles, Open, ActiveRow, Row, AwaitsStop, TerminalOutcomes
    <2>6. \A t \in Sessions \ {s} : Untouched(t)
      BY <2>1 DEF Untouched, Runs, EntriesKept
    <2> QED
      BY <2>5, <2>6, UntouchedStays DEF Moves
  <1>5. ASSUME NEW p \in Participants, NEW a \in Activities, StopTimer(p, a)
        PROVE  \A t \in Sessions : Moves(t)
    <2>1. \A t \in Online : t # running[p] => stopRows'[t] = stopRows[t]
      BY <1>5 DEF StopTimer, TypeInv, TypeOK
    <2> QED
      BY <1>5, <2>1, MovesEndRunning DEF StopTimer
  <1>6. ASSUME NEW a \in Activities, DeleteActivity(a)
        PROVE  \A t \in Sessions : Moves(t)
    BY <1>6, MovesDelete DEF Moves
  <1>7. ASSUME NEW ids \in [Participants -> Activities], Archive(ids)
        PROVE  \A t \in Sessions : Moves(t)
    BY <1>7, MovesArchive
  <1>8. ASSUME NEW p \in Participants, NEW a \in Activities, LeaveRetaining(p, a)
        PROVE  \A t \in Sessions : Moves(t)
    <2>1. CASE running[p] = None
      BY <1>1, <1>8, <2>1 DEF LeaveRetaining
    <2>2. CASE running[p] # None
      <3>1. EndRunning(p, a) /\ UNCHANGED <<startRows, stopRows>>
        BY <1>8, <2>2 DEF LeaveRetaining
      <3> QED
        BY <3>1, MovesEndRunning
    <2> QED
      BY <2>1, <2>2
  <1>9. ASSUME NEW p \in Participants, RemoveMember(p) \/ Demote(p)
        PROVE  \/ \A s \in Sessions : Moves(s)
               \/ \A s \in Sessions :
                    IF Owner[s] = p THEN Forgotten(s) ELSE Untouched(s)
    <2>1. EraseMemberData(p) \/ UNCHANGED timerVars
      BY <1>9 DEF RemoveMember, Demote
    <2> QED
      BY <1>1, <2>1, MovesErase DEF timerVars
  <1>10. CASE \/ Restore \/ Tick \/ UNCHANGED vars
              \/ \E p \in Participants :
                   \/ Promote(p)
                   \/ \E offered \in {"participant", "supporter"} : Join(p, offered)
    BY <1>1, <1>10 DEF Restore, Tick, Promote, Join, vars, timerVars
  <1> QED
    BY <1>2, <1>3, <1>4, <1>5, <1>6, <1>7, <1>8, <1>9, <1>10 DEF Next, ServerStep

----------------------------------------------------------------------------
(* The archive instant *)

(* What CutoffIsKept says of one session.                                  *)
CutoffKept(s) ==
    /\ registry[s].outcome \in AwaitsStop =>
         /\ registry'[s].outcome # "active"
         /\ \A a \in EntriesOf(s)' : Live(a)' => entries'[a].end <= registry[s].terminal
    /\ registry[s].outcome \in TerminalOutcomes =>
         \A a \in EntriesOf(s) : Live(a)' => entries'[a] = entries[a]

(* A step of a session keeps its cutoff while it waits for its stop.         *)
LEMMA MovesKeepCutoff ==
    ASSUME TypeInv, EntryInv', NEW s \in Sessions, Moves(s) \/ Forgotten(s)
    PROVE  CutoffKept(s)
  <1>1. CASE ~Known(s)
    BY <1>1 DEF Known, CutoffKept, AwaitsStop, TerminalOutcomes
  <1>2. CASE Known(s)
    <2>1. Loaded(s) = registry[s]
      BY <1>2, LoadedRow
    <2>2. SessionFits(s)'
      BY DEF EntryInv
    <2>3. RowFits(Loaded(s), s)'
      BY <2>2 DEF SessionFits
    <2>4. registry'[s].outcome # "none" => RowFits(registry[s], s)'
      BY <2>3, WrittenRow
    <2>5. \A a \in EntriesOf(s) : a \in Activities
      BY DEF EntriesOf
    <2>6. \A a \in EntriesOf(s)' : a \in Activities
      BY DEF EntriesOf
    <2>7. CASE Stays(s)
      BY <1>2, <2>4, <2>5, <2>7
      DEF Stays, SameRow, Held, RowFits, CutoffKept, AwaitsStop, Known
    <2>8. CASE Waits(s)
      BY <2>1, <2>4, <2>8
      DEF Waits, Open, RowFits, CutoffKept, AwaitsStop, TerminalOutcomes
    <2>9. CASE Pends(s)
      BY <2>1, <2>9 DEF Pends, CutoffKept, AwaitsStop, TerminalOutcomes
    <2>10. CASE Settles(s)
      <3>1. registry'[s].outcome # "active"
        <4>1. registry'[s].outcome = "active" => Loaded(s)'.outcome = "active"
          BY WrittenRow
        <4> QED
          BY <2>10, <4>1 DEF Settles, TerminalOutcomes
      <3> QED
        BY <2>1, <2>10, <3>1 DEF Settles, Open, CutoffKept, TerminalOutcomes
    <2>11. CASE Forgotten(s)
      BY <1>2, <2>5, <2>6, <2>11 DEF Forgotten, SameRow, CutoffKept, AwaitsStop
    <2> QED
      BY <2>7, <2>8, <2>9, <2>10, <2>11 DEF Moves
  <1> QED
    BY <1>1, <1>2

(* Every operation keeps the cutoff of every session that waits for its      *)
(* stop.                                                                     *)
LEMMA CutoffNext ==
    ASSUME TypeInv, RunInv, EntryInv, EntryInv', [Next]_vars
    PROVE  \A s \in Sessions : CutoffKept(s)
  <1> SUFFICES ASSUME NEW s \in Sessions PROVE Moves(s) \/ Forgotten(s)
    BY MovesKeepCutoff
  <1>1. Moves(s) \/ Forgotten(s) \/ Untouched(s)
    BY MovesNext
  <1> QED
    BY <1>1, UntouchedStays DEF Moves

(* A recorded entry is corrected only while archival left it pending, and  *)
(* no transaction lets it grow past the first archive instant decided for  *)
(* its session.                                                            *)
THEOREM ArchiveInstantIsKept == Spec => CutoffIsKept
  <1>1. TypeInv /\ RunInv /\ EntryInv /\ EntryInv' /\ [Next]_vars =>
          [\A s \in Sessions :
             /\ registry[s].outcome \in {"archive_pending", "archive_waiting"} =>
                  /\ registry'[s].outcome # "active"
                  /\ \A a \in EntriesOf(s)' : Live(a)' =>
                       entries'[a].end <= registry[s].terminal
             /\ registry[s].outcome \in TerminalOutcomes =>
                  \A a \in EntriesOf(s) : Live(a)' => entries'[a] = entries[a]]_vars
    BY CutoffNext DEF CutoffKept, AwaitsStop
  <1> QED
    BY EntryInvariant, <1>1, PTL DEF Spec, CutoffIsKept

----------------------------------------------------------------------------
(* The ledger *)

(* The entry the ledger sees is the one the row names.                     *)
NamedEntry(s) ==
    /\ Loaded(s).activity = None => LiveEntry[s] = None
    /\ Loaded(s).activity # None =>
         /\ Loaded(s).activity \in EntriesOf(s) /\ Live(Loaded(s).activity)
         /\ LiveEntry[s] = [start |-> entries[Loaded(s).activity].start,
                            end |-> entries[Loaded(s).activity].end]
         /\ LiveEntry[s] \in [start : Instants, end : Instants]
         /\ LiveEntry[s] # None

(* The entry the ledger sees of a session is the live one its row names.     *)
LEMMA LedgerEntry == TypeInv /\ EntryInv => \A s \in Sessions : NamedEntry(s)
  <1> SUFFICES ASSUME TypeInv, EntryInv, NEW s \in Sessions PROVE NamedEntry(s)
    OBVIOUS
  <1> USE DEF NamedEntry
  <1> DEFINE live == {a \in EntriesOf(s) : Live(a)}
  <1>1. RowFits(Loaded(s), s)
    BY DEF EntryInv, SessionFits
  <1>2. LiveEntry[s] =
          IF live = {} THEN None
          ELSE [start |-> entries[CHOOSE a \in live : TRUE].start,
                end |-> entries[CHOOSE a \in live : TRUE].end]
    BY DEF LiveEntry
  <1>3. CASE Loaded(s).activity = None
    <2>1. live = {}
      BY <1>1, <1>3 DEF RowFits, EntriesOf
    <2> QED
      BY <1>2, <1>3, <2>1
  <1>4. CASE Loaded(s).activity # None
    <2>1. PICK b \in Activities : b = Loaded(s).activity /\ b \in live
      BY <1>1, <1>4 DEF RowFits, EntriesOf
    <2>2. live = {b}
      BY <1>1, <2>1 DEF RowFits
    <2>3. entries[b] \in Entries
      BY <2>1 DEF Live, TypeInv, TypeOK
    <2> HIDE DEF live
    <2>4. LiveEntry[s] = [start |-> entries[b].start, end |-> entries[b].end]
      BY <1>2, <2>2
    <2>5. LiveEntry[s] \in [start : Instants, end : Instants]
      BY <2>3, <2>4 DEF Entries
    <2>6. LiveEntry[s] # None
      BY <2>5
    <2> QED
      BY <2>1, <2>4, <2>5, <2>6 DEF live
  <1> QED
    BY <1>3, <1>4

(* And so it is after a step.                                              *)
LEMMA LedgerEntryNext == (TypeInv /\ EntryInv => \A s \in Sessions : NamedEntry(s))'
  BY LedgerEntry, PTL

(* The verdict the ledger sees of a session is the outcome of its row.       *)
LEMMA LedgerVerdict ==
    ASSUME NEW s \in Sessions
    PROVE  Verdict[s] =
             IF Loaded(s).outcome \in TerminalOutcomes THEN "settled"
             ELSE IF Loaded(s).outcome = "archive_pending" THEN "pending" ELSE "open"
  BY DEF Verdict

(* What the ledger sees has the ledger's types.                              *)
LEMMA LedgerType == TypeInv /\ EntryInv => Ledger!LedgerTypeOK
  <1> SUFFICES ASSUME TypeInv, EntryInv PROVE Ledger!LedgerTypeOK
    OBVIOUS
  <1>1. Verdict \in [Sessions -> {"open", "pending", "settled"}]
    BY DEF Verdict
  <1>2. \A s \in Sessions : LiveEntry[s] \in [start : Instants, end : Instants] \cup {None}
    BY LedgerEntry DEF NamedEntry
  <1>3. DOMAIN LiveEntry = Sessions /\ LiveEntry = [s \in Sessions |-> LiveEntry[s]]
    BY DEF LiveEntry
  <1> QED
    BY <1>1, <1>2, <1>3 DEF Ledger!LedgerTypeOK, Ledger!Intervals

(* The same in the next state.                                               *)
LEMMA LedgerTypeNext == (TypeInv /\ EntryInv => Ledger!LedgerTypeOK)'
  BY LedgerType, PTL

(* The ledger sees no entry of an open session at first.                     *)
LEMMA LedgerInit == TypeInv /\ EntryInv => Ledger!Init
  <1> SUFFICES ASSUME TypeInv, EntryInv, NEW s \in Sessions, Verdict[s] = "open"
               PROVE  LiveEntry[s] = None
    BY LedgerType DEF Ledger!Init
  <1>1. Loaded(s) \in RegistryRows /\ Loaded(s).outcome # "none"
    BY LoadedRow
  <1>2. Loaded(s).outcome \in Undecided
    BY <1>1, LedgerVerdict DEF RegistryRows, Outcomes, TerminalOutcomes, Undecided
  <1>3. Loaded(s).activity = None
    BY <1>2 DEF EntryInv, SessionFits, RowFits
  <1> QED
    BY <1>3, LedgerEntry DEF NamedEntry

(* Each way a session moves is a step of the ledger.                       *)
LEMMA LedgerMoves ==
    ASSUME TypeInv, EntryInv, TypeInv', EntryInv', NEW s \in Sessions, Moves(s)
    PROVE  Ledger!Pend(s) \/ Ledger!Settle(s) \/ Ledger!Drop(s) \/ Ledger!Keep(s)
  <1> USE DEF Ledger!Pend, Ledger!Settle, Ledger!Drop, Ledger!Keep
  <1>1. NamedEntry(s) /\ NamedEntry(s)'
    BY LedgerEntry, LedgerEntryNext
  <1>2. /\ Verdict[s] = IF Loaded(s).outcome \in TerminalOutcomes THEN "settled"
                        ELSE IF Loaded(s).outcome = "archive_pending" THEN "pending"
                        ELSE "open"
        /\ Verdict'[s] = IF Loaded(s)'.outcome \in TerminalOutcomes THEN "settled"
                         ELSE IF Loaded(s)'.outcome = "archive_pending" THEN "pending"
                         ELSE "open"
    BY DEF Verdict
  <1>3. RowFits(Loaded(s), s) /\ RowFits(Loaded(s), s)'
    BY DEF EntryInv, SessionFits
  <1>4. CASE Stays(s)
    <2>1. Verdict'[s] = Verdict[s]
      BY <1>2, <1>4 DEF Stays
    <2>2. CASE Loaded(s)'.activity = None
      BY <1>1, <2>1, <2>2 DEF NamedEntry
    <2>3. CASE Loaded(s)'.activity # None
      <3>1. PICK b \in Activities : /\ b = Loaded(s)'.activity
                                    /\ b \in EntriesOf(s)' /\ Live(b)'
        BY <1>1, <2>3 DEF NamedEntry, EntriesOf
      <3>2. entries'[b] = entries[b] /\ b \in EntriesOf(s) /\ Live(b)
        BY <1>4, <3>1 DEF Stays, Held, EntriesOf, Live
      <3>3. Loaded(s).activity = b /\ b # None
        BY <1>3, <3>2 DEF RowFits
      <3>4. LiveEntry[s] = [start |-> entries[b].start, end |-> entries[b].end]
        BY <1>1, <3>3 DEF NamedEntry
      <3>5. LiveEntry'[s] = [start |-> entries'[b].start, end |-> entries'[b].end]
        BY <1>1, <3>1, <3>3 DEF NamedEntry
      <3> QED
        BY <2>1, <3>2, <3>4, <3>5
    <2> QED
      BY <2>2, <2>3
  <1>5. CASE Waits(s)
    <2>1. Loaded(s)'.outcome = "archive_waiting"
      BY <1>5, WrittenRow DEF Waits
    <2>2. Loaded(s).activity = None /\ Loaded(s)'.activity = None
      BY <1>3, <1>5, <2>1 DEF Waits, Open, RowFits, Undecided
    <2>3. Verdict[s] = "open" /\ Verdict'[s] = "open"
      BY <1>2, <1>5, <2>1 DEF Waits, Open, TerminalOutcomes
    <2> QED
      BY <1>1, <2>2, <2>3 DEF NamedEntry
  <1>6. CASE Pends(s)
    <2>1. Loaded(s)'.outcome = "archive_pending"
      BY <1>6, WrittenRow DEF Pends
    <2> QED
      BY <1>2, <1>6, <2>1 DEF Pends, TerminalOutcomes
  <1>7. CASE Settles(s)
    <2>1. Verdict[s] \in {"open", "pending"} /\ Verdict'[s] = "settled"
      BY <1>2, <1>7 DEF Settles, Open, TerminalOutcomes
    <2>2. Verdict[s] = "pending" => Loaded(s).outcome = "archive_pending"
      BY <1>2
    <2>3. Verdict[s] = "pending" /\ LiveEntry[s] = None => LiveEntry'[s] = None
      BY <1>1, <1>7, <2>2 DEF Settles, NamedEntry
    <2> QED
      BY <2>1, <2>3
  <1> QED
    BY <1>4, <1>5, <1>6, <1>7 DEF Moves

(* What a step does not touch stays in the ledger as it is.                *)
LEMMA LedgerKeeps ==
    ASSUME TypeInv, EntryInv, TypeInv', EntryInv', NEW s \in Sessions, Untouched(s)
    PROVE  Ledger!Keep(s)
  <1>1. NamedEntry(s) /\ NamedEntry(s)'
    BY LedgerEntry, LedgerEntryNext
  <1>2. /\ Loaded(s)' = Loaded(s)
        /\ \A a \in EntriesOf(s) : entries'[a] = entries[a]
    BY UntouchedRow
  <1>3. Verdict'[s] = Verdict[s]
    BY <1>2 DEF Verdict
  <1>4. LiveEntry'[s] = LiveEntry[s]
    <2>1. CASE Loaded(s).activity = None
      BY <1>1, <1>2, <2>1 DEF NamedEntry
    <2>2. CASE Loaded(s).activity # None
      <3>1. PICK b \in EntriesOf(s) : b = Loaded(s).activity
        BY <1>1, <2>2 DEF NamedEntry
      <3>2. LiveEntry[s] = [start |-> entries[b].start, end |-> entries[b].end]
        BY <1>1, <2>2, <3>1 DEF NamedEntry
      <3>3. LiveEntry'[s] = [start |-> entries'[b].start, end |-> entries'[b].end]
        BY <1>1, <1>2, <2>2, <3>1 DEF NamedEntry
      <3> QED
        BY <1>2, <3>2, <3>3
    <2> QED
      BY <2>1, <2>2
  <1> QED
    BY <1>3, <1>4 DEF Ledger!Keep

(* A member who is forgotten takes the entries of their sessions along,      *)
(* which the ledger allows.                                                  *)
LEMMA LedgerForgets ==
    ASSUME TypeInv, EntryInv, TypeInv', EntryInv', NEW s \in Sessions, Forgotten(s)
    PROVE  LiveEntry'[s] = None /\ Verdict'[s] \in {Verdict[s], "open"}
  <1>1. NamedEntry(s)'
    BY LedgerEntryNext
  <1>2. Loaded(s)'.activity = None
    <2>1. Loaded(s)'.activity # None =>
            Loaded(s)'.activity \in EntriesOf(s)' /\ RowFits(Loaded(s), s)'
      BY <1>1 DEF NamedEntry, EntryInv, SessionFits
    <2>2. Loaded(s)'.activity # None =>
            \E a \in EntriesOf(s)' : a = Loaded(s)'.activity /\ Live(a)'
      BY <2>1 DEF RowFits
    <2> QED
      BY <2>2 DEF Forgotten, EntriesOf
  <1>3. Verdict'[s] \in {Verdict[s], "open"}
    BY DEF Forgotten, Verdict, TerminalOutcomes
  <1> QED
    BY <1>1, <1>2, <1>3 DEF NamedEntry

(* Every operation is a step of the ledger.                                  *)
LEMMA LedgerNext ==
    ASSUME TypeInv, RunInv, EntryInv, TypeInv', EntryInv', [Next]_vars
    PROVE  Ledger!Next
  <1>1. Ledger!LedgerTypeOK'
    BY LedgerTypeNext
  <1>2. CASE \A s \in Sessions : Moves(s)
    BY <1>1, <1>2, LedgerMoves DEF Ledger!Next, Ledger!Advance
  <1>3. ASSUME NEW p \in Participants,
               \A s \in Sessions : IF Owner[s] = p THEN Forgotten(s) ELSE Untouched(s)
        PROVE  Ledger!Next
    <2>1. \A s \in Sessions :
            IF Owner[s] = p
            THEN LiveEntry'[s] = None /\ Verdict'[s] \in {Verdict[s], "open"}
            ELSE Ledger!Keep(s)
      BY <1>3, LedgerForgets, LedgerKeeps
    <2> QED
      BY <1>1, <2>1 DEF Ledger!Next, Ledger!Erase
  <1> QED
    BY <1>2, <1>3, MovesNext

(* The registry implements the ledger: whatever arrives, late, repeated or *)
(* mixed with online calls and lifecycle operations, each session settles  *)
(* once and its recorded time appears once.                                *)
THEOREM RegistryImplementsLedger == Spec => SettlesOnce
  <1>1. Init => Ledger!Init
    BY TypeInit, EntryInit, LedgerInit
  <1>2. /\ TypeInv /\ RunInv /\ EntryInv
        /\ (TypeInv /\ RunInv /\ EntryInv)'
        /\ [Next]_vars
        => [Ledger!Next]_<<Verdict, LiveEntry>>
    BY LedgerNext
  <1> QED
    BY EntryInvariant, <1>1, <1>2, PTL DEF Spec, SettlesOnce, Ledger!Spec

----------------------------------------------------------------------------
(* What no transaction takes back *)

KeepsKnown == \A s \in Sessions : Known(s) => Known(s)'
KeepsStarted == \A s \in Sessions : started[s] # None => started'[s] = started[s]
NoNewConflict ==
    \A s \in Sessions : registry'[s].outcome = "conflict" =>
       registry[s].outcome = "conflict"

(* Every row write leaves a verdict, so what is known stays known, and only*)
(* two live starts ever make a loser.                                      *)
LEMMA KeptSynchronize ==
    ASSUME TypeInv, RunInv, NEW c \in Commands, NEW a \in Activities,
           Synchronize(c, a)
    PROVE  /\ KeepsKnown /\ UNCHANGED started
           /\ SyncStartLoses(c) \/ SyncStartWins(c) \/ NoNewConflict
  <1> DEFINE s == c.session
             row == Loaded(s)
  <1>1. s \in Sessions /\ Owner[s] \in Participants
    BY CommandFields DEF TypeInv
  <1>2. /\ row \in RegistryRows /\ row.outcome # "none"
        /\ row.outcome = "conflict" => registry[s].outcome = "conflict"
    <2>1. row.outcome = "conflict" => Known(s)
      BY DEF Loaded, LegacyRow, Registered, ActiveRow, Row
    <2> QED
      BY <1>1, <2>1, LoadedRow
  <1>3. registry \in [Sessions -> RegistryRows]
    BY DEF TypeInv, TypeOK
  <1>4. UNCHANGED started
    BY DEF Synchronize, SyncSettled, SyncReconcile, SyncRefused, SyncStartWaits,
           SyncStartRuns, SyncStartLoses, SyncStartWins, SyncStop
  <1> HIDE DEF row
  <1>5. ASSUME NEW new, SetRow(s, new), new.outcome # "none"
        PROVE  /\ KeepsKnown
               /\ (new.outcome = "conflict" => registry[s].outcome = "conflict") =>
                    NoNewConflict
    <2>1. registry'[s] = new /\ \A t \in Sessions \ {s} : registry'[t] = registry[t]
      BY <1>1, <1>3, <1>5 DEF SetRow
    <2> QED
      BY <1>5, <2>1 DEF KeepsKnown, Known, NoNewConflict
  <1>6. CASE SyncSettled(c) \/ SyncStartRuns(c)
    BY <1>2, <1>4, <1>5, <1>6 DEF SyncSettled, SyncStartRuns, row
  <1>7. CASE SyncReconcile(c)
    <2>1. PICK new : SetRow(s, new) /\ new.outcome = "stopped"
      BY <1>7 DEF SyncReconcile, Row
    <2> QED
      BY <1>4, <1>5, <2>1
  <1>8. CASE SyncRefused(c)
    <2>1. PICK new : SetRow(s, new) /\ new.outcome = "archived"
      BY <1>2, <1>8 DEF SyncRefused, RegistryRows, row
    <2> QED
      BY <1>4, <1>5, <2>1
  <1>9. CASE SyncStartWaits(c)
    <2> DEFINE new == [row EXCEPT !.outcome = "archive_waiting",
                                  !.terminal = Cutoff(row)]
    <2>1. SetRow(s, new)
      BY <1>9 DEF SyncStartWaits, row
    <2>2. new.outcome = "archive_waiting"
      BY <1>2 DEF RegistryRows
    <2> HIDE DEF new
    <2> QED
      BY <1>4, <1>5, <2>1, <2>2
  <1>10. CASE SyncStop(c, a)
    <2>1. PICK new : SetRow(s, new) /\ new.outcome = "stopped"
      BY <1>10 DEF SyncStop, Row
    <2> QED
      BY <1>4, <1>5, <2>1
  <1>11. CASE SyncStartLoses(c)
    <2>1. PICK new : SetRow(s, new) /\ new.outcome = "conflict"
      BY <1>2, <1>11 DEF SyncStartLoses, RegistryRows, row
    <2> QED
      BY <1>4, <1>5, <1>11, <2>1
  <1>12. CASE SyncStartWins(c)
    <2> DEFINE current == running[Owner[s]]
               loser == [Registered(current) EXCEPT !.outcome = "conflict"]
    <2>1. /\ current # None
          /\ registry' = [registry EXCEPT ![current] = loser, ![s] = row]
      BY <1>12 DEF SyncStartWins, row
    <2>2. current \in Sessions /\ Loaded(current) = Registered(current)
      BY <1>1, <2>1, RunningRow DEF Loaded
    <2>3. Registered(current) \in RegistryRows
      BY <2>2, LoadedRow
    <2>4. loser.outcome = "conflict"
      BY <2>3 DEF RegistryRows
    <2> HIDE DEF current, loser
    <2>5. \A t \in Sessions : registry'[t] \in {registry[t], loser, row}
      BY <1>1, <1>3, <2>1, <2>2
    <2>6. KeepsKnown
      BY <1>2, <2>4, <2>5 DEF KeepsKnown, Known
    <2> QED
      BY <1>4, <1>12, <2>6
  <1> QED
    BY <1>6, <1>7, <1>8, <1>9, <1>10, <1>11, <1>12 DEF Synchronize

(* Every operation keeps what is known and started; a conflict is new only   *)
(* when a start loses or wins.                                               *)
LEMMA KeptNext ==
    ASSUME TypeInv, RunInv, [Next]_vars
    PROVE  /\ KeepsKnown /\ KeepsStarted
           /\ \/ NoNewConflict
              \/ \E c \in Commands : SyncStartLoses(c) \/ SyncStartWins(c)
  <1>1. registry \in [Sessions -> RegistryRows]
    BY DEF TypeInv, TypeOK
  <1>2. CASE \E c \in Commands, a \in Activities : Synchronize(c, a)
    BY <1>2, KeptSynchronize DEF KeepsStarted
  <1>3. ASSUME NEW s \in Online, StartTimer(s)
        PROVE  KeepsKnown /\ KeepsStarted /\ NoNewConflict
    <2>1. /\ started[s] = None /\ started' = [started EXCEPT ![s] = now]
          /\ registry' = [registry EXCEPT ![s] = Registered(s)]
      BY <1>3 DEF StartTimer, FreshRequest
    <2>2. Registered(s) = ActiveRow
      BY <2>1 DEF RunInv, KnownStarted, Registered
    <2>3. /\ registry'[s].outcome = "active"
          /\ \A t \in Sessions \ {s} : registry'[t] = registry[t]
      BY <1>1, <2>1, <2>2 DEF ActiveRow, Row
    <2> QED
      BY <2>1, <2>3 DEF KeepsKnown, Known, KeepsStarted, NoNewConflict, TypeInv, TypeOK
  <1>4. ASSUME NEW p \in Participants, NEW a \in Activities, EndRunning(p, a),
               UNCHANGED started
        PROVE  KeepsKnown /\ KeepsStarted /\ NoNewConflict
    <2>1. /\ registry'[running[p]] =
               Row("stopped", SavedAs(a, started[running[p]], now), now)
          /\ \A s \in Sessions \ {running[p]} : registry'[s] = registry[s]
      BY <1>4, EndRunningSettles
    <2>2. registry'[running[p]].outcome = "stopped"
      BY <2>1 DEF Row
    <2> QED
      BY <1>4, <2>1, <2>2 DEF KeepsKnown, Known, KeepsStarted, NoNewConflict
  <1>5. ASSUME NEW dead, registry' = Unlinked(registry, dead), UNCHANGED started
        PROVE  KeepsKnown /\ KeepsStarted /\ NoNewConflict
    <2>1. \A s \in Sessions : registry'[s].outcome = registry[s].outcome
      BY <1>5, UnlinkedVerdict
    <2> QED
      BY <1>5, <2>1 DEF KeepsKnown, Known, KeepsStarted, NoNewConflict
  <1>6. ASSUME NEW ids \in [Participants -> Activities], Archive(ids)
        PROVE  KeepsKnown /\ KeepsStarted /\ NoNewConflict
    <2>1. UNCHANGED started /\ \A s \in Sessions : ~Runs(s) => registry'[s] = registry[s]
      BY <1>6 DEF Archive
    <2>2. \A s \in Sessions : Runs(s) => registry'[s].outcome = "archive_pending"
      BY <1>6, RunningRow DEF Archive, Runs, SettledRow, Row, TypeInv, TypeOK
    <2> QED
      BY <2>1, <2>2 DEF KeepsKnown, Known, KeepsStarted, NoNewConflict
  <1>7. ASSUME UNCHANGED <<registry, started>>
        PROVE  KeepsKnown /\ KeepsStarted /\ NoNewConflict
    BY <1>7 DEF KeepsKnown, Known, KeepsStarted, NoNewConflict
  <1>8. ASSUME NEW s \in Online, StartTimerConflict(s) PROVE UNCHANGED <<registry, started>>
    BY <1>8 DEF StartTimerConflict
  <1>9. ASSUME NEW p \in Participants, NEW a \in Activities,
               StopTimer(p, a) \/ LeaveRetaining(p, a)
        PROVE  KeepsKnown /\ KeepsStarted /\ NoNewConflict
    BY <1>4, <1>7, <1>9 DEF StopTimer, LeaveRetaining
  <1>10. ASSUME NEW a \in Activities, DeleteActivity(a)
         PROVE  KeepsKnown /\ KeepsStarted /\ NoNewConflict
    BY <1>5, <1>10 DEF DeleteActivity
  <1>11. ASSUME NEW p \in Participants, RemoveMember(p) \/ Demote(p)
         PROVE  KeepsKnown /\ KeepsStarted /\ NoNewConflict
    <2>1. EraseMemberData(p) \/ UNCHANGED timerVars
      BY <1>11 DEF RemoveMember, Demote
    <2> QED
      BY <1>5, <1>7, <2>1 DEF EraseMemberData, timerVars
  <1>12. CASE \/ Restore \/ Tick \/ UNCHANGED vars
              \/ \E p \in Participants :
                   \/ Promote(p)
                   \/ \E offered \in {"participant", "supporter"} : Join(p, offered)
    BY <1>7, <1>12 DEF Restore, Tick, Promote, Join, vars, timerVars
  <1> QED
    BY <1>2, <1>3, <1>6, <1>7, <1>8, <1>9, <1>10, <1>11, <1>12 DEF Next, ServerStep

----------------------------------------------------------------------------
(* The winner of a conflict *)

Outdoes(t, s) ==
    /\ Owner[t] = Owner[s] /\ started[t] # None
    /\ \/ started[t] > started[s]
       \/ started[t] = started[s] /\ Rank[t] > Rank[s]

Stands(t) == registry[t].outcome # "conflict" /\ (Known(t) \/ t \in Legacy)

(* A winner that loses in its turn is outdone by its own winner.           *)
LEMMA WinnerStep ==
    ASSUME TypeInv, RunInv, TypeInv', RunInv', ConflictHasWinner,
           KeepsKnown, KeepsStarted,
           \A s \in Sessions :
             registry'[s].outcome = "conflict" /\ registry[s].outcome # "conflict" =>
               \E t \in Sessions : Outdoes(t, s)' /\ Stands(t)'
    PROVE  ConflictHasWinner'
  <1> SUFFICES ASSUME NEW s \in Sessions, registry'[s].outcome = "conflict"
               PROVE  \E t \in Sessions : Outdoes(t, s)' /\ Stands(t)'
    BY DEF ConflictHasWinner, Outdoes, Stands
  <1>1. CASE registry[s].outcome # "conflict"
    BY <1>1
  <1>2. CASE registry[s].outcome = "conflict"
    <2>1. PICK t \in Sessions : Outdoes(t, s) /\ Stands(t)
      BY <1>2 DEF ConflictHasWinner, Outdoes, Stands
    <2>2. started[s] \in Instants /\ started'[s] = started[s]
      BY <1>2 DEF RunInv, KnownStarted, Known, KeepsStarted, TypeInv, TypeOK
    <2>3. started[t] \in Instants /\ started'[t] = started[t]
      BY <2>1 DEF Outdoes, KeepsStarted, TypeInv, TypeOK
    <2>4. Outdoes(t, s)'
      BY <2>1, <2>2, <2>3 DEF Outdoes
    <2>5. Known(t)' \/ t \in Legacy
      BY <2>1 DEF Stands, KeepsKnown
    <2>6. CASE registry'[t].outcome # "conflict"
      BY <2>4, <2>5, <2>6 DEF Stands
    <2>7. CASE registry'[t].outcome = "conflict"
      <3>1. PICK u \in Sessions : Outdoes(u, t)' /\ Stands(u)'
        BY <2>1, <2>7 DEF Stands
      <3>2. started'[u] \in Instants
        BY <3>1 DEF Outdoes, TypeInv, TypeOK
      <3>3. Rank[s] \in Nat /\ Rank[t] \in Nat /\ Rank[u] \in Nat
        OBVIOUS
      <3>4. Outdoes(u, s)'
        BY <2>2, <2>3, <2>4, <3>1, <3>2, <3>3 DEF Outdoes
      <3> QED
        BY <3>1, <3>4
    <2> QED
      BY <2>6, <2>7
  <1> QED
    BY <1>1, <1>2

(* Every operation keeps a winner beside each conflict.                      *)
LEMMA WinnerNext ==
    ASSUME TypeInv, RunInv, TypeInv', RunInv', ConflictHasWinner, [Next]_vars
    PROVE  ConflictHasWinner'
  <1>1. KeepsKnown /\ KeepsStarted
    BY KeptNext
  <1>2. CASE NoNewConflict
    BY <1>1, <1>2, WinnerStep DEF NoNewConflict
  <1>3. ASSUME NEW c \in Commands, SyncStartLoses(c) \/ SyncStartWins(c)
        PROVE  ConflictHasWinner'
    <2>1. c.session \in Sessions /\ started[c.session] # None
      BY CommandFields DEF TypeInv
    <2>2. /\ running[Owner[c.session]] \notin {None, c.session}
          /\ Loaded(c.session).outcome = "active"
          /\ UNCHANGED started
      BY <1>3 DEF SyncStartLoses, SyncStartWins, StartsLive
    <2>3. /\ running[Owner[c.session]] \in Sessions
          /\ Owner[running[Owner[c.session]]] = Owner[c.session]
          /\ started[running[Owner[c.session]]] # None
          /\ Loaded(running[Owner[c.session]]).outcome = "active"
      BY <2>1, <2>2, RunningRow DEF TypeInv, RunningStarted
    <2>4. PICK s \in Sessions, current \in Sessions :
            s = c.session /\ current = running[Owner[c.session]]
      BY <2>1, <2>3
    <2>5. /\ s # current /\ Owner[current] = Owner[s]
          /\ started[s] \in Instants /\ started[current] \in Instants
          /\ Rank[s] \in Nat /\ Rank[current] \in Nat /\ Rank[s] # Rank[current]
      BY <2>1, <2>2, <2>3, <2>4 DEF TypeInv, TypeOK
    <2>6. CASE SyncStartLoses(c)
      <3>1. ~Beats(s, current) /\ \A t \in Sessions \ {s} : registry'[t] = registry[t]
        BY <2>4, <2>6 DEF SyncStartLoses, SetRow, TypeInv, TypeOK
      <3>2. Outdoes(current, s)'
        BY <2>2, <2>5, <3>1 DEF Beats, Outdoes
      <3>3. Stands(current)'
        <4>1. registry'[current] = registry[current]
          BY <2>5, <3>1
        <4>2. registry[current].outcome \in {"active", "none"}
          BY <2>3, <2>4, LoadedRow DEF Known
        <4>3. Known(current) \/ current \in Legacy
          BY <2>1, <2>2, <2>4 DEF RunInv, RunningIsActive, Known
        <4> QED
          BY <4>1, <4>2, <4>3 DEF Stands, Known
      <3> QED
        BY <1>1, <3>1, <3>2, <3>3, WinnerStep
    <2>7. CASE SyncStartWins(c)
      <3>1. /\ Beats(s, current)
            /\ registry' = [registry EXCEPT
                 ![current] = [Registered(current) EXCEPT !.outcome = "conflict"],
                 ![s] = Loaded(s)]
        BY <2>4, <2>7 DEF SyncStartWins
      <3>2. /\ registry'[s] = Loaded(s)
            /\ \A t \in Sessions \ {s, current} : registry'[t] = registry[t]
        BY <2>5, <3>1 DEF TypeInv, TypeOK
      <3>3. Outdoes(s, current)'
        BY <2>1, <2>2, <2>4, <2>5, <3>1 DEF Beats, Outdoes
      <3>4. registry'[s].outcome = "active"
        BY <2>2, <2>4, <3>2
      <3>5. Stands(s)'
        BY <3>4 DEF Stands, Known
      <3> QED
        BY <1>1, <3>2, <3>3, <3>4, <3>5, WinnerStep
    <2> QED
      BY <1>3, <2>6, <2>7
  <1> QED
    BY <1>2, <1>3, KeptNext

(* Whatever the order of arrival, each session that lost a timer conflict  *)
(* was beaten by one of its participant that the server admitted and that  *)
(* lost to nobody.                                                         *)
THEOREM DiscardedIsBeaten == Spec => []ConflictHasWinner
  <1>1. Init => ConflictHasWinner
    BY DEF Init, NoRow, Row, ConflictHasWinner
  <1>2. TypeInv /\ RunInv /\ (TypeInv /\ RunInv)' /\ ConflictHasWinner /\ [Next]_vars
          => ConflictHasWinner'
    BY WinnerNext
  <1> QED
    BY RunInvariant, <1>1, <1>2, PTL DEF Spec

----------------------------------------------------------------------------
(* Start notifications *)

(* A session is announced in the step that makes it known.                 *)
AnnouncedAtRegistration ==
    \A s \in Sessions \ Legacy : IF Known(s) THEN notices[s] <= 1 ELSE notices[s] = 0

(* The requests of old releases are still reserved.                        *)
LegacyReserved == \A s \in Legacy : s \in startRows /\ notices[s] = 1

(* A start is announced by whoever makes the session known, and only if no *)
(* request has reserved it.                                                *)
LEMMA AnnouncedNext ==
    ASSUME TypeInv, RunInv, [Next]_vars, NEW s \in Sessions
    PROVE  \/ notices'[s] = notices[s]
           \/ /\ notices'[s] = notices[s] + 1
              /\ ~Known(s) /\ Known(s)' /\ s \notin startRows
  <1>1. CASE UNCHANGED notices
    BY <1>1
  <1>2. ASSUME NEW c \in Commands, Announce(c),
               registry'[c.session] = Loaded(c.session)
        PROVE  \/ notices'[s] = notices[s]
               \/ /\ notices'[s] = notices[s] + 1
                  /\ ~Known(s) /\ Known(s)' /\ s \notin startRows
    <2>1. c.session \in Sessions /\ notices \in [Sessions -> Nat]
      BY CommandFields DEF TypeInv, TypeOK
    <2>2. Known(c.session)'
      BY <1>2, <2>1, LoadedRow DEF Known
    <2>3. \/ UNCHANGED notices
          \/ New(c.session) /\ notices' = [notices EXCEPT ![c.session] = @ + 1]
      BY <1>2 DEF Announce
    <2> QED
      BY <2>1, <2>2, <2>3 DEF New
  <1>3. ASSUME NEW c \in Commands, NEW a \in Activities, Synchronize(c, a)
        PROVE  \/ UNCHANGED notices
               \/ Announce(c) /\ registry'[c.session] = Loaded(c.session)
    <2>1. c.session \in Sessions /\ registry \in [Sessions -> RegistryRows]
      BY CommandFields DEF TypeInv, TypeOK
    <2>2. CASE SyncStartRuns(c)
      BY <2>1, <2>2 DEF SyncStartRuns, SetRow
    <2>3. CASE SyncStartWins(c)
      BY <2>1, <2>3 DEF SyncStartWins
    <2> QED
      BY <1>3, <2>2, <2>3 DEF Synchronize, SyncSettled, SyncReconcile, SyncRefused,
                              SyncStartWaits, SyncStartLoses, SyncStop
  <1>4. ASSUME NEW t \in Online, StartTimer(t)
        PROVE  \/ notices'[s] = notices[s]
               \/ /\ notices'[s] = notices[s] + 1
                  /\ ~Known(s) /\ Known(s)' /\ s \notin startRows
    <2>1. /\ started[t] = None /\ t \notin startRows
          /\ registry' = [registry EXCEPT ![t] = Registered(t)]
          /\ notices' = [notices EXCEPT ![t] = @ + 1]
      BY <1>4 DEF StartTimer, FreshRequest
    <2>2. ~Known(t) /\ Registered(t) = ActiveRow
      BY <2>1 DEF RunInv, KnownStarted, Registered
    <2>3. Known(t)'
      BY <2>1, <2>2 DEF Known, ActiveRow, Row, TypeInv, TypeOK
    <2> QED
      BY <2>1, <2>2, <2>3 DEF TypeInv, TypeOK
  <1>5. ASSUME NEW t \in Online, StartTimerConflict(t) PROVE UNCHANGED notices
    BY <1>5 DEF StartTimerConflict
  <1>6. ASSUME NEW p \in Participants, NEW a \in Activities,
               StopTimer(p, a) \/ LeaveRetaining(p, a)
        PROVE  UNCHANGED notices
    BY <1>6 DEF StopTimer, LeaveRetaining
  <1>7. ASSUME NEW a \in Activities, DeleteActivity(a) PROVE UNCHANGED notices
    BY <1>7 DEF DeleteActivity
  <1>8. ASSUME NEW ids \in [Participants -> Activities], Archive(ids)
        PROVE  UNCHANGED notices
    BY <1>8 DEF Archive
  <1>9. ASSUME NEW p \in Participants,
               \/ RemoveMember(p) \/ Demote(p) \/ Promote(p)
               \/ \E offered \in {"participant", "supporter"} : Join(p, offered)
        PROVE  UNCHANGED notices
    BY <1>9 DEF RemoveMember, Demote, EraseMemberData, Promote, Join, timerVars
  <1>10. CASE Restore \/ Tick \/ UNCHANGED vars
    BY <1>1, <1>10 DEF Restore, Tick, vars, timerVars
  <1> QED
    BY <1>1, <1>2, <1>3, <1>4, <1>5, <1>6, <1>7, <1>8, <1>9, <1>10
    DEF Next, ServerStep

(* Nobody is told twice that a session of this release has started,        *)
(* whichever of its devices, or the server, reports the start first.       *)
THEOREM AnnouncedOnceIfIssued ==
    Spec => [](\A s \in Sessions \ Legacy : notices[s] <= 1)
  <1>1. Init => AnnouncedAtRegistration
    BY DEF Init, NoRow, Row, Known, AnnouncedAtRegistration
  <1>2. TypeInv /\ RunInv /\ AnnouncedAtRegistration /\ [Next]_vars
          => AnnouncedAtRegistration'
    <2> SUFFICES ASSUME TypeInv, RunInv, AnnouncedAtRegistration, [Next]_vars,
                        NEW s \in Sessions \ Legacy
                 PROVE  IF Known(s)' THEN notices'[s] <= 1 ELSE notices'[s] = 0
      BY DEF AnnouncedAtRegistration
    <2>1. Known(s) => Known(s)'
      BY KeptNext DEF KeepsKnown
    <2>2. notices[s] \in Nat
      BY DEF TypeInv, TypeOK
    <2> QED
      BY <2>1, <2>2, AnnouncedNext DEF AnnouncedAtRegistration
  <1>3. AnnouncedAtRegistration => \A s \in Sessions \ Legacy : notices[s] <= 1
    BY DEF AnnouncedAtRegistration
  <1> QED
    BY RunInvariant, <1>1, <1>2, <1>3, PTL DEF Spec

(* Nor of a session that an old release started, as long as no member's    *)
(* data goes and with it the reservation of that start.                    *)
THEOREM AnnouncedOnceWithoutErasure ==
    ASSUME Legacy = {} \/ Lifecycle \cap {"leave", "roles"} = {}
    PROVE  Spec => []AnnouncedOnce
  <1>1. Init => LegacyReserved
    BY DEF Init, LegacyInit, LegacyState, LegacyReserved
  <1>2. TypeInv /\ RunInv /\ LegacyReserved /\ [Next]_vars => LegacyReserved'
    <2> SUFFICES ASSUME TypeInv, RunInv, LegacyReserved, [Next]_vars,
                        NEW s \in Legacy
                 PROVE  s \in startRows' /\ notices'[s] = 1
      BY DEF LegacyReserved
    <2>1. s \in startRows /\ notices[s] = 1 /\ s \in Sessions
      BY DEF LegacyReserved
    <2>2. startRows \subseteq startRows'
      <3>1. Lifecycle \cap {"leave", "roles"} = {}
        OBVIOUS
      <3>2. CASE \E c \in Commands, a \in Activities : Synchronize(c, a)
        <4>1. PICK c \in Commands, a \in Activities : Synchronize(c, a)
          BY <3>2
        <4>2. CASE SyncSettled(c) \/ SyncReconcile(c) \/ SyncRefused(c) \/ SyncStop(c, a)
          BY <4>2 DEF SyncSettled, SyncReconcile, SyncRefused, SyncStop
        <4>3. CASE SyncStartWaits(c) \/ SyncStartRuns(c) \/ SyncStartLoses(c) \/ SyncStartWins(c)
          BY <4>3 DEF SyncStartWaits, SyncStartRuns, SyncStartLoses, SyncStartWins
        <4> QED
          BY <4>1, <4>2, <4>3 DEF Synchronize
      <3>3. CASE ServerStep
        BY <3>1, <3>3 DEF ServerStep, StartTimer, StartTimerConflict, StopTimer,
                          DeleteActivity, Restore, Archive, Tick, timerVars
      <3>4. CASE UNCHANGED vars
        BY <3>4 DEF vars, timerVars
      <3> QED
        BY <3>2, <3>3, <3>4 DEF Next
    <2> QED
      BY <2>1, <2>2, AnnouncedNext
  <1>3. LegacyReserved /\ (\A s \in Sessions \ Legacy : notices[s] <= 1)
          => AnnouncedOnce
    BY DEF LegacyReserved, AnnouncedOnce
  <1> QED
    BY RunInvariant, AnnouncedOnceIfIssued, <1>1, <1>2, <1>3, PTL DEF Spec

----------------------------------------------------------------------------
(***************************************************************************)
(* What the devices rely on: how the outcome of a session changes, for     *)
(* TrackingSync, where the server's sessions are those of the devices.     *)
(***************************************************************************)

(* Nothing more is expected of the device that started the session.        *)
Closed == TerminalOutcomes \cup {"archive_pending"}

(* Another session's step: only a timer that runs is closed by it.         *)
KeptOrEnded(s) ==
    \/ registry'[s].outcome = registry[s].outcome
    \/ /\ Loaded(s).outcome = "active" /\ (Known(s) \/ s \in Legacy)
       /\ registry'[s].outcome \in Closed

(* A timer that runs has a row, unless it is from before the registry.      *)
LEMMA RunningIsKnown ==
    ASSUME RunInv, NEW p \in Participants, running[p] # None
    PROVE  Known(running[p]) \/ running[p] \in Legacy
  BY DEF RunInv, RunningIsActive, Known

(* The registry has the session of every command it applied; an end closes *)
(* its session, and what is closed stays so.                               *)
LEMMA CommandCloses ==
    ASSUME TypeInv, RunInv, NEW c \in Commands, NEW a \in Activities,
           Synchronize(c, a)
    PROVE  /\ registry'[c.session].outcome # "none"
           /\ c.kind # "start" => registry'[c.session].outcome \in TerminalOutcomes
           /\ registry[c.session].outcome \in Closed =>
                 registry'[c.session].outcome \in Closed
           /\ \A s \in Sessions \ {c.session} : KeptOrEnded(s)
           /\ UNCHANGED <<started, erased>>
  <1> DEFINE s == c.session
             row == Loaded(s)
  <1>1. /\ s \in Sessions /\ Owner[s] \in Participants
        /\ row \in RegistryRows /\ row.outcome # "none"
        /\ registry \in [Sessions -> RegistryRows]
        /\ UNCHANGED <<started, erased>>
    BY CommandFields, LoadedRow DEF TypeInv, TypeOK, Synchronize, SyncSettled, SyncReconcile,
       SyncRefused, SyncStartWaits, SyncStartRuns, SyncStartLoses, SyncStartWins, SyncStop
  <1>2. registry[s].outcome \in Closed => row.outcome = registry[s].outcome
    BY <1>1 DEF Loaded, Registered, Known, Closed, TerminalOutcomes
  <1> HIDE DEF s, row
  (* One row is written, with a verdict or, by a start, with another state. *)
  <1>3. ASSUME NEW new \in RegistryRows, SetRow(s, new), new.outcome # "none",
               c.kind # "start" => new.outcome \in TerminalOutcomes,
               row.outcome \in Closed => new.outcome \in Closed
        PROVE  /\ registry'[s].outcome # "none"
               /\ c.kind # "start" => registry'[s].outcome \in TerminalOutcomes
               /\ registry[s].outcome \in Closed => registry'[s].outcome \in Closed
               /\ \A t \in Sessions \ {s} : KeptOrEnded(t)
    <2>1. /\ registry'[s] = new
          /\ \A t \in Sessions \ {s} : registry'[t] = registry[t]
      BY <1>1, <1>3 DEF SetRow
    <2> QED
      BY <1>2, <1>3, <2>1 DEF KeptOrEnded
  <1>4. CASE SyncSettled(c)
    BY <1>1, <1>3, <1>4 DEF SyncSettled, Closed, TerminalOutcomes, s, row
  <1>5. CASE SyncReconcile(c)
    <2>1. PICK saved \in {row.activity, None} : SetRow(s, Row("stopped", saved, row.terminal))
      BY <1>5 DEF SyncReconcile, s, row
    <2>2. Row("stopped", saved, row.terminal) \in RegistryRows
      BY <1>1 DEF Row, RegistryRows, Outcomes
    <2>3. Row("stopped", saved, row.terminal).outcome = "stopped"
      BY DEF Row
    <2> QED
      BY <1>1, <1>3, <2>1, <2>2, <2>3 DEF Closed, TerminalOutcomes, s
  <1>6. CASE SyncRefused(c)
    <2>1. [row EXCEPT !.outcome = "archived"] \in RegistryRows
      BY <1>1 DEF RegistryRows, Outcomes
    <2>2. [row EXCEPT !.outcome = "archived"].outcome = "archived"
      BY <1>1 DEF RegistryRows
    <2> QED
      BY <1>3, <1>6, <2>1, <2>2 DEF SyncRefused, Closed, TerminalOutcomes, s, row
  <1>7. CASE SyncStartWaits(c)
    <2> DEFINE new == [row EXCEPT !.outcome = "archive_waiting", !.terminal = Cutoff(row)]
    <2>1. /\ c.kind = "start" /\ SetRow(s, new) /\ row.outcome \notin Closed
      BY <1>7 DEF SyncStartWaits, Open, Closed, TerminalOutcomes, s, row
    <2>2. Cutoff(row) \in Instants \cup {None}
      BY <1>1 DEF Cutoff, TypeInv, TypeOK, RegistryRows
    <2>3. new \in RegistryRows /\ new.outcome = "archive_waiting"
      BY <1>1, <2>2 DEF RegistryRows, Outcomes
    <2> HIDE DEF new
    <2> QED
      BY <1>1, <1>3, <2>1, <2>3 DEF s
  <1>8. CASE SyncStartRuns(c)
    BY <1>1, <1>3, <1>8 DEF SyncStartRuns, StartsLive, s, row
  <1>9. CASE SyncStartLoses(c)
    <2> DEFINE new == [row EXCEPT !.outcome = "conflict"]
    <2>1. /\ c.kind = "start" /\ SetRow(s, new)
      BY <1>9 DEF SyncStartLoses, StartsLive, s, row
    <2>2. new \in RegistryRows /\ new.outcome = "conflict"
      BY <1>1 DEF RegistryRows, Outcomes
    <2> HIDE DEF new
    <2> QED
      BY <1>1, <1>3, <2>1, <2>2 DEF Closed, TerminalOutcomes, s
  (* The timer that ran before is closed as the loser.                     *)
  <1>10. CASE SyncStartWins(c)
    <2> DEFINE current == running[Owner[s]]
               loser == [Registered(current) EXCEPT !.outcome = "conflict"]
    <2>1. /\ c.kind = "start" /\ row.outcome = "active"
          /\ current \notin {None, s}
          /\ registry' = [registry EXCEPT ![current] = loser, ![s] = row]
      BY <1>10 DEF SyncStartWins, StartsLive, s, row
    <2>2. /\ current \in Sessions /\ Loaded(current).outcome = "active"
          /\ Known(current) \/ current \in Legacy
      BY <1>1, <2>1, RunningRow, RunningIsKnown
    <2>3. Registered(current) \in RegistryRows
      BY <1>1, <2>2 DEF Registered, Known, ActiveRow, Row, RegistryRows, Outcomes
    <2>4. loser.outcome = "conflict"
      BY <2>3 DEF RegistryRows
    <2> HIDE DEF loser
    <2>5. /\ registry'[s] = row
          /\ registry'[current].outcome = "conflict"
          /\ \A t \in Sessions \ {s, current} : registry'[t] = registry[t]
      BY <1>1, <2>1, <2>2, <2>4
    <2>6. registry[s].outcome \notin Closed
      BY <1>2, <2>1 DEF Closed, TerminalOutcomes
    <2> HIDE DEF current
    <2>7. ASSUME NEW t \in Sessions \ {s} PROVE KeptOrEnded(t)
      BY <2>2, <2>5 DEF KeptOrEnded, Closed, TerminalOutcomes
    <2> QED
      BY <1>1, <2>1, <2>5, <2>6, <2>7 DEF s
  <1>11. CASE SyncStop(c, a)
    <2> DEFINE saved == SavedAs(a, c.start, Cut(c.end, Cutoff(row)))
               new == Row("stopped", IF saved = None THEN row.activity ELSE saved, c.end)
    <2>1. SetRow(s, new) /\ c.kind # "start"
      BY <1>11 DEF SyncStop, s, row
    <2>2. saved \in Activities \cup {None} /\ c.end \in Instants
      BY <2>1, CommandFields DEF SavedAs, TypeInv
    <2> HIDE DEF saved
    <2>3. new \in RegistryRows /\ new.outcome = "stopped"
      BY <1>1, <2>2 DEF Row, RegistryRows, Outcomes
    <2> HIDE DEF new
    <2> QED
      BY <1>1, <1>3, <2>1, <2>3 DEF Closed, TerminalOutcomes, s
  <1>12. UNCHANGED <<started, erased>>
    BY <1>1
  <1>13. \/ SyncSettled(c) \/ SyncReconcile(c) \/ SyncRefused(c)
         \/ SyncStartWaits(c) \/ SyncStartRuns(c)
         \/ SyncStartLoses(c) \/ SyncStartWins(c) \/ SyncStop(c, a)
    BY DEF Synchronize
  <1> QED
    BY <1>4, <1>5, <1>6, <1>7, <1>8, <1>9, <1>10, <1>11, <1>12, <1>13 DEF s

(* Whatever else happens at the server moves a session only by ending its  *)
(* timer, and issues only identities of online sessions.                   *)
LEMMA ServerStepEnds ==
    ASSUME TypeInv, RunInv, ServerStep
    PROVE  /\ \A s \in Sessions \ Online : started'[s] = started[s] /\ KeptOrEnded(s)
           /\ erased \subseteq erased'
  <1> DEFINE Calm == \A s \in Sessions \ Online : started'[s] = started[s] /\ KeptOrEnded(s)
  <1>1. registry \in [Sessions -> RegistryRows] /\ started \in [Sessions -> Instants \cup {None}]
    BY DEF TypeInv, TypeOK
  <1>2. ASSUME registry' = registry, started' = started PROVE Calm
    BY <1>2 DEF KeptOrEnded
  <1>3. ASSUME NEW p \in Participants, NEW a \in Activities, EndRunning(p, a),
               started' = started
        PROVE  Calm
    <2>1. /\ running[p] \in Sessions /\ Loaded(running[p]).outcome = "active"
          /\ Known(running[p]) \/ running[p] \in Legacy
      BY <1>3, RunningRow, RunningIsKnown DEF EndRunning
    <2>2. /\ registry'[running[p]] =
                Row("stopped", SavedAs(a, started[running[p]], now), now)
          /\ \A s \in Sessions \ {running[p]} : registry'[s] = registry[s]
      BY <1>3, EndRunningSettles
    <2>3. registry'[running[p]].outcome = "stopped"
      BY <2>2 DEF Row
    <2> QED
      BY <1>3, <2>1, <2>2, <2>3 DEF KeptOrEnded, Closed, TerminalOutcomes
  <1>4. ASSUME NEW dead, registry' = Unlinked(registry, dead), started' = started
        PROVE  Calm
    BY <1>4, UnlinkedVerdict DEF KeptOrEnded
  <1>5. ASSUME NEW s \in Online, StartTimer(s) PROVE Calm /\ erased' = erased
    <2>1. /\ \A t \in Sessions \ {s} : registry'[t] = registry[t] /\ started'[t] = started[t]
          /\ erased' = erased
      BY <1>1, <1>5 DEF StartTimer
    <2> QED
      BY <2>1 DEF KeptOrEnded
  <1>6. ASSUME NEW ids \in [Participants -> Activities], Archive(ids)
        PROVE  Calm /\ erased' = erased
    <2>1. ASSUME NEW s \in Sessions PROVE KeptOrEnded(s)
      <3>1. CASE ~Runs(s)
        BY <1>6, <3>1 DEF Archive, KeptOrEnded
      <3>2. CASE Runs(s)
        <4>1. /\ Registered(s).outcome = "active" /\ Loaded(s).outcome = "active"
              /\ Known(s) \/ s \in Legacy
          BY <3>2, RunningRow, RunningIsKnown DEF Runs
        <4>2. registry'[s] = Row("archive_pending", SavedAs(ids[Owner[s]], started[s], now), now)
          BY <1>6, <3>2, <4>1 DEF Archive, SettledRow
        <4> QED
          BY <4>1, <4>2 DEF KeptOrEnded, Closed, Row
      <3> QED
        BY <3>1, <3>2
    <2> QED
      BY <1>6, <2>1 DEF Archive
  <1>7. ASSUME NEW p \in Participants, EraseMemberData(p)
        PROVE  Calm /\ erased \subseteq erased'
    BY <1>4, <1>7 DEF EraseMemberData
  <1>8. ASSUME NEW p \in Participants, NEW a \in Activities, StopTimer(p, a) \/ LeaveRetaining(p, a)
        PROVE  Calm /\ erased' = erased
    BY <1>2, <1>3, <1>8 DEF StopTimer, LeaveRetaining
  <1>9. ASSUME NEW s \in Online, StartTimerConflict(s) PROVE Calm /\ erased' = erased
    BY <1>2, <1>9 DEF StartTimerConflict
  <1>10. ASSUME NEW a \in Activities, DeleteActivity(a) PROVE Calm /\ erased' = erased
    BY <1>4, <1>10 DEF DeleteActivity
  <1>11. ASSUME NEW p \in Participants,
                \/ RemoveMember(p) \/ Demote(p) \/ Promote(p)
                \/ \E offered \in {"participant", "supporter"} : Join(p, offered)
         PROVE  Calm /\ erased \subseteq erased'
    BY <1>2, <1>7, <1>11 DEF RemoveMember, Demote, Promote, Join, timerVars
  <1> HIDE DEF Calm
  <1>12. Calm /\ (erased \subseteq erased' \/ erased' = erased)
    <2>1. \/ \E s \in Online : StartTimer(s) \/ StartTimerConflict(s)
          \/ \E p \in Participants, a \in Activities :
                StopTimer(p, a) \/ LeaveRetaining(p, a)
          \/ \E a \in Activities : DeleteActivity(a)
          \/ \E ids \in [Participants -> Activities] : Archive(ids)
          \/ \E p \in Participants :
                \/ RemoveMember(p) \/ Demote(p) \/ Promote(p)
                \/ \E offered \in {"participant", "supporter"} : Join(p, offered)
          \/ Restore \/ Tick
      BY DEF ServerStep
    <2>2. CASE Restore \/ Tick
      BY <1>2, <2>2 DEF Restore, Tick, timerVars
    <2> QED
      BY <1>5, <1>6, <1>8, <1>9, <1>10, <1>11, <2>1, <2>2
  <1> QED
    BY <1>12 DEF Calm
============================================================================
