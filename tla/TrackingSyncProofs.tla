------------------------- MODULE TrackingSyncProofs -------------------------
(***************************************************************************)
(* The devices of one account and the server's timers together, over a     *)
(* network that delays, repeats and loses: both components keep what was   *)
(* proved of them alone, no device counts a session twice, and no session  *)
(* disappears unnoticed.                                                   *)
(***************************************************************************)
EXTENDS TrackingSync, OfflineTrackingProofs

(* The theorems about the registry, for the timers of the devices.          *)
RP == INSTANCE TimerRegistryProofs WITH
        Participants <- {Account}, Offline <- TimerIds, Online <- {},
        Legacy <- {}, Owner <- [s \in TimerIds |-> Account]

USE TrackingAssumption

RegInv == RP!TypeInv /\ RP!RunInv /\ RP!EntryInv

----------------------------------------------------------------------------
(* The server *)

(* The constants are those that TimerRegistry expects.                       *)
LEMMA RegistryConstants ==
  /\ RP!SessionsAssumption /\ RP!LifecycleAssumption
  /\ RP!ClockAssumption /\ RP!NoneAssumption
<1>1. RP!Sessions = TimerIds /\ RP!Instants = Instants
  BY DEF RP!Sessions, RP!Instants, Instants
<1>2. RP!SessionsAssumption
  BY <1>1, SyncAssumption DEF RP!SessionsAssumption
<1>3. RP!LifecycleAssumption /\ RP!ClockAssumption
  BY SyncAssumption DEF RP!LifecycleAssumption, RP!ClockAssumption
<1>4. RP!StopRows = R!StopRows /\ RP!Entries = R!Entries
  BY DEF RP!StopRows, R!StopRows, RP!Entries, R!Entries, RP!Sessions, R!Sessions,
         RP!Instants, R!Instants
<1>5. RP!NoneAssumption
  BY <1>1, <1>4, SyncAssumption DEF RP!NoneAssumption
<1> QED
  BY <1>2, <1>3, <1>5

(* The server of the composition is the one the theorems are about.          *)
LEMMA SameServer ==
  /\ R!Init <=> RP!Init
  /\ R!Commands = RP!Commands
  /\ \A c, a : R!Synchronize(c, a) <=> RP!Synchronize(c, a)
  /\ R!ServerStep <=> RP!ServerStep
  /\ [R!Next]_(R!vars) <=> [RP!Next]_(RP!vars)
<1>1. R!Init <=> RP!Init
  BY DEF R!Sessions, RP!Sessions, R!Instants, RP!Instants, R!Row, RP!Row,
         R!NoRow, RP!NoRow, R!Saves, RP!Saves, R!NewEntry, RP!NewEntry,
         R!OverOf, RP!OverOf, R!SavedOf, RP!SavedOf, R!LegacyStop,
         RP!LegacyStop, R!LegacyEntry, RP!LegacyEntry, R!LegacyState,
         RP!LegacyState, R!LegacyInit, RP!LegacyInit, R!Init, RP!Init
<1>2. R!Commands = RP!Commands
  BY DEF R!Sessions, RP!Sessions, R!Instants, RP!Instants, R!Known, RP!Known,
         R!Command, RP!Command, R!Visible, RP!Visible, R!Commands, RP!Commands
<1>3. ASSUME NEW c, NEW a PROVE R!Synchronize(c, a) <=> RP!Synchronize(c, a)
  BY DEF R!TerminalOutcomes, RP!TerminalOutcomes, R!pathVars, RP!pathVars,
         R!Row, RP!Row, R!ActiveRow, RP!ActiveRow, R!Known, RP!Known, R!Runs,
         RP!Runs, R!Tracks, RP!Tracks, R!Saves, RP!Saves, R!Beats, RP!Beats,
         R!Cut, RP!Cut, R!Refused, RP!Refused, R!NewEntry, RP!NewEntry,
         R!Persist, RP!Persist, R!SavedAs, RP!SavedAs, R!Removed, RP!Removed,
         R!Registered, RP!Registered, R!LegacyRow, RP!LegacyRow, R!New, RP!New,
         R!Loaded, RP!Loaded, R!Open, RP!Open, R!Cutoff, RP!Cutoff, R!Timely,
         RP!Timely, R!Authorized, RP!Authorized, R!Admitted, RP!Admitted,
         R!SetRow, RP!SetRow, R!Announce, RP!Announce, R!SyncSettled,
         RP!SyncSettled, R!SyncReconcile, RP!SyncReconcile, R!SyncRefused,
         RP!SyncRefused, R!SyncStartWaits, RP!SyncStartWaits, R!StartsLive,
         RP!StartsLive, R!SyncStartRuns, RP!SyncStartRuns, R!SyncStartLoses,
         RP!SyncStartLoses, R!SyncStartWins, RP!SyncStartWins, R!SyncStop,
         RP!SyncStop, R!Synchronize, RP!Synchronize
<1>4. R!ServerStep <=> RP!ServerStep
  BY DEF R!Sessions, RP!Sessions, R!pathVars, RP!pathVars, R!timerVars,
         RP!timerVars, R!Row, RP!Row, R!ActiveRow, RP!ActiveRow, R!Known,
         RP!Known, R!Runs, RP!Runs, R!Tracks, RP!Tracks, R!Saves, RP!Saves,
         R!NewEntry, RP!NewEntry, R!Persist, RP!Persist, R!SavedAs, RP!SavedAs,
         R!Removed, RP!Removed, R!Unlinked, RP!Unlinked, R!Registered,
         RP!Registered, R!Active, RP!Active, R!FreshRequest, RP!FreshRequest,
         R!StartTimer, RP!StartTimer, R!StartTimerConflict,
         RP!StartTimerConflict, R!SettledRow, RP!SettledRow, R!EndRunning,
         RP!EndRunning, R!StopTimer, RP!StopTimer, R!Scrubbed, RP!Scrubbed,
         R!DeleteActivity, RP!DeleteActivity, R!Archive, RP!Archive, R!Restore,
         RP!Restore, R!EraseMemberData, RP!EraseMemberData, R!LeaveRetaining,
         RP!LeaveRetaining, R!RemoveMember, RP!RemoveMember, R!Demote,
         RP!Demote, R!Promote, RP!Promote, R!Join, RP!Join, R!Tick, RP!Tick,
         R!ServerStep, RP!ServerStep
<1>5. (R!Next <=> RP!Next) /\ (UNCHANGED R!vars <=> UNCHANGED RP!vars)
  BY <1>2, <1>3, <1>4 DEF R!Next, RP!Next, R!vars, RP!vars, R!pathVars, RP!pathVars,
     R!timerVars, RP!timerVars
<1>6. [R!Next]_(R!vars) <=> [RP!Next]_(RP!vars)
  BY <1>5
<1>7. \A c, a : R!Synchronize(c, a) <=> RP!Synchronize(c, a)
  BY <1>3
<1> QED
  BY <1>1, <1>2, <1>4, <1>6, <1>7

(* The registry keeps its invariant, whatever the network brings.            *)
LEMMA RegistryHolds ==
  /\ R!Init => RegInv
  /\ RegInv /\ [R!Next]_(R!vars) => RegInv'
BY RegistryConstants, SameServer, RP!TypeInit, RP!TypeNext, RP!RunInit, RP!RunNext,
   RP!EntryInit, RP!EntryNext DEF RegInv

Terminal == {"stopped", "conflict", "archived"}
Over == Terminal \cup {"archive_pending"}

(* A session that a step of another one leaves as it is, or ends.            *)
KeptOrEnded(s) ==
    \/ registry'[s].outcome = registry[s].outcome
    \/ registry[s].outcome = "active" /\ registry'[s].outcome \in Over

(* The same of the instance of the registry.                                 *)
LEMMA KeptThere ==
  ASSUME NEW s \in TimerIds, RP!KeptOrEnded(s)
  PROVE  KeptOrEnded(s)
BY DEF RP!KeptOrEnded, KeptOrEnded, RP!Loaded, RP!Registered, RP!Known, RP!Runs,
   RP!Closed, RP!TerminalOutcomes, Over, Terminal

(* A command closes its session, if it is an end, and no other one that did  *)
(* not run.                                                                  *)
LEMMA CommandCloses ==
  ASSUME RegInv, NEW c \in R!Commands, NEW a \in Activities, R!Synchronize(c, a)
  PROVE  /\ registry'[c.session].outcome # "none"
         /\ c.kind # "start" => registry'[c.session].outcome \in Terminal
         /\ registry[c.session].outcome \in Over => registry'[c.session].outcome \in Over
         /\ registry[c.session].outcome \in Terminal =>
              registry'[c.session].outcome \in Terminal
         /\ \A s \in TimerIds \ {c.session} : KeptOrEnded(s)
         /\ UNCHANGED <<started, erased>>
<1>1. RP!TypeInv /\ RP!RunInv /\ c \in RP!Commands /\ RP!Synchronize(c, a)
  BY SameServer DEF RegInv
<1>2. /\ registry'[c.session].outcome # "none"
      /\ c.kind # "start" => registry'[c.session].outcome \in RP!TerminalOutcomes
      /\ registry[c.session].outcome \in RP!Closed =>
           registry'[c.session].outcome \in RP!Closed
      /\ \A s \in RP!Sessions \ {c.session} : RP!KeptOrEnded(s)
      /\ UNCHANGED <<started, erased>>
  BY <1>1, RegistryConstants, RP!CommandCloses
<1>3. /\ c.session \in RP!Sessions
      /\ \A s \in RP!Sessions : registry[s].outcome \in RP!TerminalOutcomes =>
           registry'[s].outcome = registry[s].outcome
  BY <1>1, RegistryConstants, RP!CommandFields, RP!TerminalSynchronize
     DEF RP!KeepsTerminal, RP!TypeInv
<1> QED
  BY <1>2, <1>3, KeptThere DEF RP!Closed, RP!TerminalOutcomes, RP!Sessions, Over, Terminal

(* Nothing else at the server begins a session or makes one wait.            *)
LEMMA ServerEnds ==
  ASSUME RegInv, R!ServerStep
  PROVE  /\ \A s \in TimerIds : started'[s] = started[s] /\ KeptOrEnded(s)
         /\ erased \subseteq erased'
<1>1. /\ \A s \in RP!Sessions \ {} : started'[s] = started[s] /\ RP!KeptOrEnded(s)
      /\ erased \subseteq erased'
  BY SameServer, RegistryConstants, RP!ServerStepEnds DEF RegInv
<1> QED
  BY <1>1, KeptThere DEF RP!Sessions

----------------------------------------------------------------------------
(* The invariant *)

Requests == [op : Operations, live : BOOLEAN]
Keys == [op : Operations, outcome : {"accepted", "archived"}]

(* Nothing more is expected of the device that began the session.            *)
Closed(s) == registry[s].outcome \in Over \/ s \in erased

(* The server has the start of the session, and has its timer or closed it.  *)
StartOf(s) == Operation("start", s, None, None, 0)
Acked(s) ==
    Used(StartOf(s)) /\ registry[s].outcome \notin {"none", "archive_waiting"}

(* What is on its way or was applied comes from sessions that began; an      *)
(* applied end closed its session, and an active session was started.        *)
ServerFits ==
    /\ started = StartedAt
    /\ sent \subseteq Requests /\ keys \subseteq Keys
    /\ \A s \in begun : Origin[s] \in Devices
    /\ \A m \in sent : m.op.session \in begun /\ (m.live => m.op.kind = "start")
    /\ \A k \in keys :
          /\ registry[k.op.session].outcome # "none"
          /\ k.op.kind # "start" => registry[k.op.session].outcome \in Terminal
    /\ \A s \in TimerIds :
          /\ registry[s].outcome # "none" => s \in begun
          /\ registry[s].outcome = "active" => Used(StartOf(s))

(* An answer tells the truth, also when it comes late: an end is accepted    *)
(* once its session is settled, and a start that orders no stop is           *)
(* acknowledged.                                                             *)
AnswerFits(op, answer) ==
    /\ answer.terminal => registry[op.session].outcome \in Terminal
    /\ answer.reason = None /\ ~answer.terminal =>
          op.kind = "start" /\ (answer.mustStop \/ Acked(op.session))
DrainFits(r) ==
    r # None =>
      /\ r.op.session \in begun
      /\ r.running => r.op.kind = "start"
      /\ r.answer # None => AnswerFits(r.op, r.answer)

(* What a device holds of a session of its own: what runs was reported or    *)
(* will be, a start that no longer runs is followed by an end, and what the  *)
(* device lets go of is closed, or it was told.                              *)
Ended(st, s) == s \in st.corrections \/ \E o \in QueuedFor(st, s) : o.kind # "start"
Notified(st, s) ==
    \/ \E n \in st.notices : n.session = s
    \/ \E n \in st.notices : n.reason = "membership" /\ PathOf[n.session] = PathOf[s]
HoldFits(st, s) ==
    /\ s \in st.timers => StartOf(s) \in Queued(st) \/ Acked(s)
    /\ StartOf(s) \in Queued(st) => s \in st.timers \/ Ended(st, s)
    /\ Held(st, s) \/ Closed(s) \/ Notified(st, s)

(* The totals of a device hold nothing that it adds to them.                 *)
CountFits(st, known) ==
    /\ st.counted \subseteq known /\ st.counted \cap st.unreflected = {}
    /\ \A s \in TimerIds : Held(st, s) => s \in known \ st.counted

(* A reading of Home shows as running what is acknowledged and not counted,  *)
(* and while it may be adopted, what it lacks of the device's own sessions   *)
(* is closed or still queued.                                                *)
HomeFits(r, st, d) ==
    r # None /\ r.reply # None =>
      /\ r.reply.counted \cup r.reply.timers \subseteq begun
      /\ r.reply.counted \cap r.reply.timers = {}
      /\ \A s \in r.reply.timers : Acked(s)
      /\ \A s \in st.timers \ r.reply.timers :
            r.clean /\ Origin[s] = d /\ QueuedFor(st, s) = {}
              /\ PathOf[s] \in r.reply.paths => Closed(s)

SyncInv ==
    /\ DeviceInv /\ RegInv /\ ServerFits
    /\ \A t \in Tabs : /\ DrainFits(drain[t])
                       /\ HomeFits(refresh[t], store[DeviceOf[t]], DeviceOf[t])
    /\ \A d \in Devices : CountFits(store[d], begun)
    /\ \A s \in begun : HoldFits(store[Origin[s]], s)

(* What the server knows of the sessions is not taken back.                  *)
Advances ==
    \A s \in TimerIds :
      /\ Closed(s) => Closed(s)'
      /\ Acked(s) => Acked(s)'
      /\ registry[s].outcome \in Terminal => registry'[s].outcome \in Terminal

----------------------------------------------------------------------------
(* Requests *)

(* What a device may ask of the registry.                                    *)
LEMMA CommandMembers ==
  ASSUME NEW s \in R!Sessions, R!Visible(s)
  PROVE  /\ \A n \in BOOLEAN : R!Command("start", s, started[s], None, n) \in R!Commands
         /\ \A e \in R!Instants : R!Command("stop", s, started[s], e, FALSE) \in R!Commands
         /\ \A b, e \in R!Instants : R!Command("correct", s, b, e, FALSE) \in R!Commands
<1> DEFINE seen == {r \in R!Sessions : R!Visible(r)}
           off == FALSE
<1>1. s \in seen
  OBVIOUS
<1>2. R!Commands =
        {R!Command("start", r, started[r], None, n) : r \in seen, n \in BOOLEAN}
        \cup {R!Command("stop", r, started[r], e, off) : r \in seen, e \in R!Instants}
        \cup {R!Command("correct", r, b, e, off) :
                r \in seen, b \in R!Instants, e \in R!Instants}
  BY DEF R!Commands
<1> HIDE DEF seen, off
<1>3. ASSUME NEW n \in BOOLEAN
      PROVE  R!Command("start", s, started[s], None, n) \in R!Commands
  <2>1. R!Command("start", s, started[s], None, n) \in
                {R!Command("start", r, started[r], None, k) : r \in seen, k \in {n}}
    BY <1>1
  <2>2. {n} \subseteq BOOLEAN
    OBVIOUS
  <2> QED
    BY <1>2, <2>1, <2>2
<1>4. \A e \in R!Instants : R!Command("stop", s, started[s], e, off) \in R!Commands
  BY <1>1, <1>2
<1>5. \A b, e \in R!Instants : R!Command("correct", s, b, e, off) \in R!Commands
  BY <1>1, <1>2
<1> QED
  BY <1>3, <1>4, <1>5 DEF off

(* A request becomes a command of the registry.                              *)
LEMMA CommandFields ==
  ASSUME started = StartedAt, NEW m \in Requests, m.live => m.op.kind = "start"
  PROVE  /\ CommandOf(m) \in R!Commands
         /\ CommandOf(m).session = m.op.session /\ CommandOf(m).kind = m.op.kind
         /\ m.op.session \in TimerIds
         /\ m.op.kind = "start" => m.op = StartOf(m.op.session)
<1>1. m.op \in Operations /\ m.live \in BOOLEAN
  BY DEF Requests
<1>2. m.op.session \in TimerIds /\ StartedAt[m.op.session] \in Instants
  BY <1>1, OperationKinds
<1>3. CommandOf(m).session = m.op.session /\ CommandOf(m).kind = m.op.kind
  BY DEF CommandOf, R!Command
<1>4. \/ \E s \in TimerIds : m.op = Operation("start", s, None, None, 0)
      \/ \E s \in TimerIds, e \in Instants : m.op = Operation("stop", s, None, e, 0)
      \/ \E s \in TimerIds, b, e \in Instants, n \in 1..MaxTries :
           m.op = Operation("correct", s, b, e, n)
  BY <1>1 DEF Operations
<1>5. None \notin Instants
  BY SyncAssumption DEF Instants
<1>6. m.op.session \in R!Sessions /\ R!Visible(m.op.session) /\ Instants = R!Instants
  BY <1>2, <1>5 DEF R!Sessions, R!Visible, R!Instants, Instants
<1>7. CASE \E s \in TimerIds : m.op = Operation("start", s, None, None, 0)
  <2>1. m.op.kind = "start" /\ m.op.end = None /\ m.op = StartOf(m.op.session)
    BY <1>7 DEF Operation, StartOf
  <2>2. CommandOf(m) = R!Command("start", m.op.session, started[m.op.session], None, m.live)
    BY <2>1 DEF CommandOf
  <2> QED
    BY ZenonT(60), <1>1, <1>2, <1>3, <1>6, <2>1, <2>2, CommandMembers
<1>8. CASE \E s \in TimerIds, e \in Instants : m.op = Operation("stop", s, None, e, 0)
  <2>1. m.op.kind = "stop" /\ m.op.end \in Instants /\ ~m.live
    BY <1>8 DEF Operation
  <2>2. CommandOf(m) = R!Command("stop", m.op.session, started[m.op.session], m.op.end, FALSE)
    BY <1>1, <2>1 DEF CommandOf
  <2> QED
    BY <1>2, <1>3, <1>6, <2>1, <2>2, CommandMembers
<1>9. CASE \E s \in TimerIds, b, e \in Instants, n \in 1..MaxTries :
             m.op = Operation("correct", s, b, e, n)
  <2>1. m.op.kind = "correct" /\ m.op.start \in Instants /\ m.op.end \in Instants /\ ~m.live
    BY <1>9 DEF Operation
  <2>2. CommandOf(m) = R!Command("correct", m.op.session, m.op.start, m.op.end, FALSE)
    BY <1>1, <2>1 DEF CommandOf
  <2>3. \A b, e \in R!Instants : R!Command("correct", m.op.session, b, e, FALSE) \in R!Commands
    BY <1>6, CommandMembers
  <2>4. CommandOf(m) \in R!Commands
    BY <1>6, <2>1, <2>2, <2>3
  <2> QED
    BY <1>2, <1>3, <2>1, <2>4
<1> QED
  BY <1>4, <1>7, <1>8, <1>9

(* A fresh key keeps what the server knows, and closes what it ends.         *)
LEMMA ApplyAdvances ==
  ASSUME RegInv, ServerFits, NEW m \in Requests, m.live => m.op.kind = "start",
         m.op.session \in begun, Apply(m), begun' = begun
  PROVE  /\ Advances /\ RegInv' /\ ServerFits' /\ [R!Next]_(R!vars)
         /\ Outcome(CommandOf(m)) \in {"accepted", "archived"}
         /\ Used(m.op)' /\ registry'[m.op.session].outcome # "none"
         /\ m.op.kind # "start" => registry'[m.op.session].outcome \in Terminal
<1> DEFINE c == CommandOf(m)
           s == m.op.session
<1>1. /\ c \in R!Commands /\ c.session = s /\ c.kind = m.op.kind /\ s \in TimerIds
      /\ m.op.kind = "start" => m.op = StartOf(s)
      /\ m.op \in Operations
  BY CommandFields DEF ServerFits, Requests
<1>2. PICK a \in Activities : R!Synchronize(c, a)
  BY DEF Apply
<1>3. /\ ~Used(m.op)
      /\ keys' = keys \cup {[op |-> m.op, outcome |-> Outcome(c)]}
      /\ sent' = {n \in sent : n.op # m.op}
  BY DEF Apply
<1>4. /\ registry'[s].outcome # "none"
      /\ m.op.kind # "start" => registry'[s].outcome \in Terminal
      /\ registry[s].outcome \in Over => registry'[s].outcome \in Over
      /\ registry[s].outcome \in Terminal => registry'[s].outcome \in Terminal
      /\ \A r \in TimerIds \ {s} : KeptOrEnded(r)
      /\ UNCHANGED <<started, erased>>
  BY <1>1, <1>2, CommandCloses
<1>5. [R!Next]_(R!vars) /\ RegInv'
  <2>1. R!Next
    BY <1>1, <1>2 DEF R!Next
  <2> QED
    BY <2>1, RegistryHolds
<1>6. Outcome(c) \in {"accepted", "archived"}
  BY DEF Outcome
<1>7. /\ \E k \in keys' : k.op = m.op
      /\ \A op : Used(op) => Used(op)'
  <2>1. [op |-> m.op, outcome |-> Outcome(c)] \in keys'
    BY <1>3
  <2>2. [op |-> m.op, outcome |-> Outcome(c)].op = m.op
    OBVIOUS
  <2>3. keys \subseteq keys'
    BY <1>3
  <2> HIDE DEF c
  <2> QED
    BY <2>1, <2>2, <2>3 DEF Used
<1> HIDE DEF c, s
<1>8. ASSUME NEW r \in TimerIds \ {s}
      PROVE  /\ registry[r].outcome \in Over => registry'[r].outcome \in Over
             /\ registry[r].outcome \in Terminal => registry'[r].outcome \in Terminal
             /\ registry[r].outcome \notin {"none", "archive_waiting"} =>
                  registry'[r].outcome \notin {"none", "archive_waiting"}
             /\ registry[r].outcome # "none" <=> registry'[r].outcome # "none"
             /\ registry'[r].outcome = "active" => registry[r].outcome = "active"
  BY <1>4 DEF KeptOrEnded, Over, Terminal
<1>9. Acked(s) => Acked(s)'
  BY <1>1, <1>3, <1>4, <1>7 DEF Acked, Used, Terminal
<1>10. Advances
  <2> SUFFICES ASSUME NEW r \in TimerIds
               PROVE  /\ Closed(r) => Closed(r)'
                      /\ Acked(r) => Acked(r)'
                      /\ registry[r].outcome \in Terminal => registry'[r].outcome \in Terminal
    BY DEF Advances
  <2>1. CASE r = s
    BY <1>4, <1>9, <2>1 DEF Closed
  <2>2. CASE r # s
    BY <1>4, <1>7, <1>8, <2>2 DEF Closed, Acked
  <2> QED
    BY <2>1, <2>2
<1>11. ServerFits'
  <2>1. started' = StartedAt /\ sent' \subseteq Requests /\ keys' \subseteq Keys
    BY <1>1, <1>3, <1>4, <1>6 DEF ServerFits, Keys
  <2>2. ASSUME NEW k \in keys'
        PROVE  /\ registry'[k.op.session].outcome # "none"
               /\ k.op.kind # "start" => registry'[k.op.session].outcome \in Terminal
    <3>1. CASE k \in keys
      <4>1. k.op.session \in TimerIds
        BY <3>1, OperationKinds DEF ServerFits, Keys
      <4>2. /\ registry[k.op.session].outcome # "none"
            /\ k.op.kind # "start" => registry[k.op.session].outcome \in Terminal
        BY <3>1 DEF ServerFits
      <4> QED
        BY <1>4, <1>8, <4>1, <4>2
    <3>2. CASE k = [op |-> m.op, outcome |-> Outcome(c)]
      BY <1>4, <3>2 DEF s
    <3> QED
      BY <1>3, <2>2, <3>1, <3>2
  <2>3. ASSUME NEW r \in TimerIds
        PROVE  /\ registry'[r].outcome # "none" => r \in begun'
               /\ registry'[r].outcome = "active" => Used(StartOf(r))'
    <3>1. CASE r = s
      <4>1. registry'[s].outcome = "active" => m.op = StartOf(s)
        BY <1>1, <1>4 DEF Terminal
      <4> QED
        BY <1>7, <3>1, <4>1 DEF Used, s
    <3>2. CASE r # s
      BY <1>7, <1>8, <3>2 DEF ServerFits
    <3> QED
      BY <3>1, <3>2
  <2>4. \A n \in sent' : n.op.session \in begun' /\ (n.live => n.op.kind = "start")
    BY <1>3 DEF ServerFits
  <2>5. \A r \in begun' : Origin[r] \in Devices
    BY DEF ServerFits
  <2> QED
    BY <2>1, <2>2, <2>3, <2>4, <2>5 DEF ServerFits
<1>12. Used(m.op)'
  BY <1>7 DEF Used
<1> QED
  BY <1>4, <1>5, <1>6, <1>10, <1>11, <1>12 DEF s, c

(* Whatever else the server does takes nothing back either.                  *)
LEMMA ServerAdvances ==
  ASSUME RegInv, ServerFits, R!ServerStep, UNCHANGED <<begun, sent, keys>>
  PROVE  Advances /\ RegInv' /\ ServerFits' /\ [R!Next]_(R!vars)
<1>1. /\ \A s \in TimerIds : started'[s] = started[s] /\ KeptOrEnded(s)
      /\ erased \subseteq erased'
  BY ServerEnds
<1>2. [R!Next]_(R!vars) /\ RegInv'
  <2>1. R!Next
    BY DEF R!Next
  <2> QED
    BY <2>1, RegistryHolds
<1>3. started' = StartedAt
  <2>1. RP!TypeOK'
    BY <1>2 DEF RegInv, RP!TypeInv
  <2>2. started' \in [TimerIds -> Instants \cup {None}]
    BY <2>1 DEF RP!TypeOK, RP!Sessions, RP!Instants, Instants
  <2> QED
    BY <1>1, <2>2 DEF ServerFits
<1>4. \A op : Used(op)' <=> Used(op)
  BY DEF Used
<1>5. ASSUME NEW r \in TimerIds
      PROVE  /\ registry[r].outcome \in Over => registry'[r].outcome \in Over
             /\ registry[r].outcome \in Terminal => registry'[r].outcome \in Terminal
             /\ registry[r].outcome \notin {"none", "archive_waiting"} =>
                  registry'[r].outcome \notin {"none", "archive_waiting"}
             /\ registry[r].outcome # "none" <=> registry'[r].outcome # "none"
             /\ registry'[r].outcome = "active" => registry[r].outcome = "active"
  BY <1>1 DEF KeptOrEnded, Over, Terminal
<1>6. Advances
  BY <1>1, <1>4, <1>5 DEF Advances, Closed, Acked
<1>7. \A k \in keys : k.op.session \in TimerIds
  BY OperationKinds DEF ServerFits, Keys
<1>8. ServerFits'
  BY <1>3, <1>4, <1>5, <1>7 DEF ServerFits
<1> QED
  BY <1>2, <1>6, <1>8

----------------------------------------------------------------------------
(* Answers *)

(* Nothing happens at the server, while sessions begin or requests leave.    *)
LEMMA ServerStays ==
  ASSUME RegInv, ServerFits, UNCHANGED <<serverVars, keys>>, begun \subseteq begun',
         \A s \in begun' : Origin[s] \in Devices, sent' \subseteq Requests,
         \A m \in sent' : m.op.session \in begun' /\ (m.live => m.op.kind = "start")
  PROVE  /\ Advances /\ RegInv' /\ ServerFits' /\ [R!Next]_(R!vars)
         /\ \A s : (Acked(s)' <=> Acked(s)) /\ (Closed(s)' <=> Closed(s))
<1>1. UNCHANGED <<started, registry, erased, keys>>
  BY DEF serverVars
<1>2. UNCHANGED R!vars
  BY DEF serverVars, R!vars, R!pathVars, R!timerVars
<1>3. [R!Next]_(R!vars) /\ RegInv'
  BY <1>2, RegistryHolds
<1>4. \A op : Used(op)' <=> Used(op)
  BY <1>1 DEF Used
<1>5. \A s : (Acked(s)' <=> Acked(s)) /\ (Closed(s)' <=> Closed(s))
  BY <1>1, <1>4 DEF Acked, Closed
<1>6. Advances
  BY <1>1, <1>5 DEF Advances
<1>7. ServerFits'
  BY <1>1, <1>4 DEF ServerFits
<1> QED
  BY <1>3, <1>5, <1>6, <1>7

(* What was answered stays true.                                             *)
LEMMA AnswerStaysTrue ==
  ASSUME DeviceInv, Advances, begun \subseteq begun', NEW t \in Tabs,
         DrainFits(drain[t]), drain'[t] = drain[t]
  PROVE  DrainFits(drain[t])'
<1>1. CASE drain[t] = None
  BY <1>1 DEF DrainFits
<1>2. CASE drain[t] # None
  <2> DEFINE op == drain[t].op
             s == op.session
             answer == drain[t].answer
  <2>1. op \in Operations /\ s \in TimerIds
    <3>1. op \in Operations
      BY <1>2 DEF DeviceInv, Drains
    <3> QED
      BY <3>1, OperationKinds
  <2>2. s \in begun' /\ (drain[t].running => op.kind = "start")
    BY <1>2 DEF DrainFits
  <2>3. /\ Acked(s) => Acked(s)'
        /\ registry[s].outcome \in Terminal => registry'[s].outcome \in Terminal
    BY <2>1 DEF Advances
  <2>4. ASSUME answer # None PROVE AnswerFits(drain[t].op, drain[t].answer)'
    <3>1. AnswerFits(op, answer)
      BY <1>2, <2>4 DEF DrainFits
    <3>2. drain'[t].op = op /\ drain'[t].answer = answer
      OBVIOUS
    <3> QED
      BY <2>3, <3>1, <3>2 DEF AnswerFits
  <2> QED
    BY <2>2, <2>4 DEF DrainFits
<1> QED
  BY <1>1, <1>2

(* A device that keeps what it has of a session stays accounted for.         *)
LEMMA HoldStays ==
  ASSUME NEW st, NEW s, Acked(s) => Acked(s)', Closed(s) => Closed(s)', HoldFits(st, s)
  PROVE  HoldFits(st, s)'
<1>1. Queued(st)' = Queued(st) /\ QueuedFor(st, s)' = QueuedFor(st, s)
  BY DEF QueuedFor, Queued
<1>2. Held(st, s)' <=> Held(st, s)
  BY <1>1 DEF Held
<1>3. (Ended(st, s)' <=> Ended(st, s)) /\ (Notified(st, s)' <=> Notified(st, s))
  BY <1>1 DEF Ended, Notified
<1>4. StartOf(s)' = StartOf(s)
  BY DEF StartOf, Operation
<1> QED
  BY <1>1, <1>2, <1>3, <1>4 DEF HoldFits

(* What the server learns takes nothing from the devices.                    *)
LEMMA ServerMoves ==
  ASSUME SyncInv, DeviceInv', RegInv', ServerFits', Advances,
         UNCHANGED <<store, refresh, begun>>, \A t \in Tabs : DrainFits(drain[t])'
  PROVE  SyncInv'
<1>1. begun \subseteq TimerIds /\ \A d \in Devices : store[d] \in Snapshots
  BY DEF SyncInv, DeviceInv
<1>2. \A s \in TimerIds : (Closed(s) => Closed(s)') /\ (Acked(s) => Acked(s)')
  BY DEF Advances
<1>3. ASSUME NEW t \in Tabs PROVE HomeFits(refresh[t], store[DeviceOf[t]], DeviceOf[t])'
  <2>1. HomeFits(refresh[t], store[DeviceOf[t]], DeviceOf[t])
    BY DEF SyncInv
  <2>2. CASE refresh[t] = None \/ refresh[t].reply = None
    BY <2>2 DEF HomeFits
  <2>3. CASE refresh[t] # None /\ refresh[t].reply # None
    <3>1. refresh[t].reply.timers \subseteq TimerIds /\ store[DeviceOf[t]].timers \subseteq TimerIds
      BY <1>1, <2>1, <2>3 DEF HomeFits, Snapshots
    <3>2. /\ \A s \in refresh[t].reply.timers : Acked(s)'
          /\ \A s \in store[DeviceOf[t]].timers \ refresh[t].reply.timers :
               refresh[t].clean /\ Origin[s] = DeviceOf[t]
                 /\ QueuedFor(store[DeviceOf[t]], s) = {} /\ PathOf[s] \in refresh[t].reply.paths
               => Closed(s)'
      BY <1>2, <2>1, <2>3, <3>1 DEF HomeFits
    <3>3. \A s : QueuedFor(store[DeviceOf[t]], s)' = QueuedFor(store[DeviceOf[t]], s)
      BY DEF QueuedFor, Queued
    <3> QED
      BY <2>1, <2>3, <3>2, <3>3 DEF HomeFits
  <2> QED
    BY <2>2, <2>3
<1>4. ASSUME NEW s \in begun' PROVE HoldFits(store[Origin[s]], s)'
  <2>1. s \in begun /\ s \in TimerIds /\ HoldFits(store[Origin[s]], s)
    BY <1>1 DEF SyncInv
  <2>2. (Closed(s) => Closed(s)') /\ (Acked(s) => Acked(s)')
    BY <1>2, <2>1
  <2>3. PICK st : st = store'[Origin[s]] /\ HoldFits(st, s)
    BY <2>1
  <2> QED
    BY <2>2, <2>3, HoldStays
<1>5. \A d \in Devices : CountFits(store[d], begun)'
  BY DEF SyncInv, CountFits, Held, QueuedFor, Queued
<1> QED
  BY <1>3, <1>4, <1>5 DEF SyncInv

(* The answers that apiTrackingSync lets through.                            *)
LEMMA AnswerMembers ==
  ASSUME NEW x \in BOOLEAN
  PROVE  /\ Answer(None, x, FALSE, FALSE) \in Answers
         /\ Answer(None, x, TRUE, FALSE) \in Answers
         /\ Answer(None, x, FALSE, TRUE) \in Answers
         /\ \A r \in {"conflict", "archived"} : Answer(r, x, FALSE, FALSE) \in Answers
         /\ \A r \in {"membership", "validation"} : Answer(r, FALSE, FALSE, FALSE) \in Answers
<1> DEFINE on == TRUE
           off == FALSE
<1>1. Answers =
        {Answer(None, a, off, off) : a \in BOOLEAN}
        \cup {Answer(None, a, on, off) : a \in BOOLEAN}
        \cup {Answer(None, a, off, on) : a \in BOOLEAN}
        \cup {Answer(r, a, off, off) : r \in {"conflict", "archived"}, a \in BOOLEAN}
        \cup {Answer(r, off, off, off) : r \in {"membership", "validation"}}
  BY DEF Answers
<1> HIDE DEF on, off
<1>2. Answer(None, x, off, off) \in Answers
  BY <1>1
<1>3. Answer(None, x, on, off) \in Answers
  BY <1>1
<1>4. Answer(None, x, off, on) \in Answers
  BY <1>1
<1>5. ASSUME NEW r \in {"conflict", "archived"} PROVE Answer(r, x, off, off) \in Answers
  BY <1>1
<1>6. ASSUME NEW r \in {"membership", "validation"} PROVE Answer(r, off, off, off) \in Answers
  BY <1>1
<1> QED
  BY <1>2, <1>3, <1>4, <1>5, <1>6 DEF on, off

(* The answer to a command that was applied: a settled session is over, an   *)
(* accepted command has ended its session or orders a stop, or the server    *)
(* has its timer.                                                            *)
LEMMA AnswerTells ==
  ASSUME NEW outcome \in {"accepted", "archived"}, NEW row, NEW a, a = AnswerOf(outcome, row)
  PROVE  /\ a \in Answers
         /\ a.terminal => row.outcome \in Terminal
         /\ a.reason = None => \/ a.terminal
                               \/ row.outcome \notin Terminal
                                  /\ (a.mustStop \/ row.outcome # "archive_waiting")
<1> DEFINE verdict == IF row.outcome \in {"conflict", "archived"} THEN row.outcome ELSE outcome
           recorded == row.activity # None /\ verdict # "conflict"
           over == verdict = "accepted" /\ row.outcome \in Terminal
           pending == verdict = "accepted" /\ row.outcome \in {"archive_pending", "archive_waiting"}
           reason == IF verdict = "accepted" THEN None ELSE verdict
<1>1. a = Answer(reason, recorded, over, pending)
  BY DEF AnswerOf, R!TerminalOutcomes, Terminal
<1>2. recorded \in BOOLEAN
  OBVIOUS
<1>3. None \notin {"conflict", "archived"}
  BY SyncAssumption DEF Reasons
<1>4. /\ verdict \in {"accepted", "conflict", "archived"}
      /\ over <=> verdict = "accepted" /\ row.outcome \in Terminal
      /\ pending <=> verdict = "accepted" /\ row.outcome \in {"archive_pending", "archive_waiting"}
      /\ verdict = "accepted" => reason = None
      /\ verdict # "accepted" => reason = verdict
  OBVIOUS
<1>5. ~(row.outcome \in Terminal /\ row.outcome \in {"archive_pending", "archive_waiting"})
  BY DEF Terminal
<1> HIDE DEF recorded, over, pending, reason, verdict
<1>6. CASE verdict # "accepted"
  <2>1. over = FALSE /\ pending = FALSE
    BY <1>4, <1>6 DEF over, pending
  <2>2. reason \in {"conflict", "archived"}
    BY <1>4, <1>6
  <2>3. a = Answer(reason, recorded, FALSE, FALSE)
    BY Zenon, <1>1, <2>1
  <2>4. a.reason = reason /\ ~a.terminal
    BY <2>3 DEF Answer
  <2>5. a \in Answers
    BY Zenon, <1>2, <2>2, <2>3, AnswerMembers
  <2> QED
    BY <1>3, <2>2, <2>4, <2>5
<1>7. CASE verdict = "accepted" /\ row.outcome \in Terminal
  <2>1. over = TRUE /\ pending = FALSE /\ reason = None
    BY <1>4, <1>5, <1>7 DEF over, pending
  <2>2. a = Answer(None, recorded, TRUE, FALSE)
    BY Zenon, <1>1, <2>1
  <2>3. a.terminal
    BY <2>2 DEF Answer
  <2>4. a \in Answers
    BY Zenon, <1>2, <2>2, AnswerMembers
  <2> QED
    BY <1>7, <2>3, <2>4
<1>8. CASE verdict = "accepted" /\ row.outcome \in {"archive_pending", "archive_waiting"}
  <2>1. over = FALSE /\ pending = TRUE /\ reason = None
    BY <1>4, <1>5, <1>8 DEF over, pending
  <2>2. a = Answer(None, recorded, FALSE, TRUE)
    BY Zenon, <1>1, <2>1
  <2>3. ~a.terminal /\ a.mustStop
    BY <2>2 DEF Answer
  <2>4. a \in Answers
    BY Zenon, <1>2, <2>2, AnswerMembers
  <2> QED
    BY <1>5, <1>8, <2>3, <2>4
<1>9. CASE /\ verdict = "accepted" /\ row.outcome \notin Terminal
           /\ row.outcome \notin {"archive_pending", "archive_waiting"}
  <2>1. over = FALSE /\ pending = FALSE /\ reason = None
    BY <1>4, <1>9 DEF over, pending
  <2>2. a = Answer(None, recorded, FALSE, FALSE)
    BY Zenon, <1>1, <2>1
  <2>3. ~a.terminal
    BY <2>2 DEF Answer
  <2>4. a \in Answers
    BY Zenon, <1>2, <2>2, AnswerMembers
  <2> QED
    BY <1>9, <2>3, <2>4
<1> QED
  BY <1>6, <1>7, <1>8, <1>9

----------------------------------------------------------------------------
(* The steps of the network and of the server *)

(* What a tab is asking for.                                                 *)
LEMMA TabRequest ==
  ASSUME SyncInv, NEW t \in Tabs, drain[t] # None
  PROVE  /\ drain[t] \in Drains /\ drain[t].op \in Operations
         /\ drain[t].op.session \in begun /\ drain[t].op.session \in TimerIds
         /\ Request(drain[t].op, drain[t].running) \in Requests
         /\ drain[t].running => drain[t].op.kind = "start"
<1>1. drain[t] \in Drains /\ begun \subseteq TimerIds
  BY DEF SyncInv, DeviceInv
<1>2. drain[t].op \in Operations /\ drain[t].running \in BOOLEAN
  BY <1>1 DEF Drains
<1>3. drain[t].op.session \in begun /\ (drain[t].running => drain[t].op.kind = "start")
  BY DEF SyncInv, DrainFits
<1>4. Request(drain[t].op, drain[t].running) \in Requests
  BY <1>2 DEF Request, Requests
<1> QED
  BY <1>1, <1>2, <1>3, <1>4

(* A true answer comes.                                                      *)
LEMMA ReceiveFits ==
  ASSUME SyncInv, NEW t \in Tabs, NEW op, NEW answer \in Answers, drain[t].op = op,
         Receive(t, answer), RegInv', ServerFits', Advances, AnswerFits(op, answer)'
  PROVE  SyncInv'
<1>1. /\ drain[t] # None /\ drain' = [drain EXCEPT ![t] = [drain[t] EXCEPT !.answer = answer]]
      /\ UNCHANGED <<store, refresh, begun>>
  BY DEF Receive
<1>2. DeviceInv'
  BY ReceiveKeeps DEF SyncInv
<1>3. drain \in [Tabs -> Drains \cup {None}] /\ drain[t] \in Drains
  BY TabRequest, <1>1 DEF SyncInv, DeviceInv
<1>4. ASSUME NEW u \in Tabs PROVE DrainFits(drain[u])'
  <2>1. CASE u = t
    <3>1. drain'[t].op = op /\ drain'[t].answer = answer /\ drain'[t].running = drain[t].running
      BY <1>1, <1>3 DEF Drains
    <3>2. op.session \in begun' /\ (drain[t].running => op.kind = "start")
      BY <1>1, TabRequest
    <3>3. AnswerFits(drain[t].op, drain[t].answer)'
      BY <3>1
    <3> QED
      BY <2>1, <3>1, <3>2, <3>3 DEF DrainFits
  <2>2. CASE u # t
    <3>1. drain'[u] = drain[u] /\ DrainFits(drain[u])
      BY <1>1, <1>3, <2>2 DEF SyncInv
    <3> QED
      BY <1>1, <3>1, AnswerStaysTrue DEF SyncInv
  <2> QED
    BY <2>1, <2>2
<1> QED
  BY <1>1, <1>2, <1>4, ServerMoves

(* A request is answered: refused, from what was kept, or as it is applied.  *)
LEMMA DeliverFits ==
  ASSUME SyncInv, NEW t \in Tabs, Deliver(t)
  PROVE  /\ SyncInv' /\ [R!Next]_(R!vars)
         /\ \E answer \in Answers : Receive(t, answer)
<1>1. PICK op, s, m : /\ op = drain[t].op /\ s = op.session
                      /\ m = Request(drain[t].op, drain[t].running)
                      /\ AnswerRefused(t, m) \/ AnswerAgain(t, m) \/ AnswerFresh(t, m)
  BY DEF Deliver
<1>2. /\ drain[t] # None /\ op \in Operations /\ s \in begun /\ s \in TimerIds
      /\ m \in Requests /\ m.op = op /\ (m.live => m.op.kind = "start")
  BY <1>1, TabRequest DEF Deliver, Request
<1>3. op.kind = "start" => op = StartOf(s)
  BY <1>1, <1>2, CommandFields DEF SyncInv, ServerFits
<1>4. RegInv /\ ServerFits /\ DeviceInv
  BY DEF SyncInv
<1>5. ASSUME UNCHANGED <<serverVars, sent, keys>>, begun' = begun
      PROVE  /\ Advances /\ RegInv' /\ ServerFits' /\ [R!Next]_(R!vars)
             /\ \A r : (Acked(r)' <=> Acked(r)) /\ (Closed(r)' <=> Closed(r))
  <2>1. /\ sent' \subseteq Requests /\ \A r \in begun' : Origin[r] \in Devices
        /\ \A n \in sent' : n.op.session \in begun' /\ (n.live => n.op.kind = "start")
    BY <1>4, <1>5 DEF ServerFits
  <2> QED
    BY <1>4, <1>5, <2>1, ServerStays
<1>6. CASE AnswerRefused(t, m)
  <2> DEFINE answer == Answer(Refusal(CommandOf(m)), FALSE, FALSE, FALSE)
  <2>1. /\ Receive(t, answer) /\ UNCHANGED <<serverVars, sent, keys>> /\ begun' = begun
    BY <1>6 DEF AnswerRefused, Receive
  <2>2. Refusal(CommandOf(m)) \in {"membership", "validation"}
    BY DEF Refusal
  <2>3. answer \in Answers
    BY Zenon, <2>2, AnswerMembers
  <2>4. answer.reason # None /\ ~answer.terminal
    BY <2>2, SyncAssumption DEF Answer, Reasons
  <2>5. PICK a \in Answers : a = answer
    BY <2>3
  <2> HIDE DEF answer
  <2>6. AnswerFits(op, a)'
    BY <2>4, <2>5 DEF AnswerFits
  <2>7. SyncInv'
    BY <1>1, <1>5, <2>1, <2>5, <2>6, ReceiveFits
  <2> QED
    BY <1>5, <2>1, <2>3, <2>7
<1>7. CASE AnswerAgain(t, m)
  <2>1. PICK a : a = AnswerOf(Kept(op), registry[s])
    OBVIOUS
  <2>2. /\ Receive(t, a) /\ UNCHANGED <<serverVars, sent, keys>> /\ begun' = begun
        /\ registry' = registry /\ Used(op)
    BY <1>1, <1>2, <1>7, <2>1 DEF AnswerAgain, Receive, serverVars
  <2>3. PICK k : k \in keys /\ k.op = op /\ Kept(op) = k.outcome
    <3>1. \E k \in keys : k.op = op
      BY <2>2 DEF Used
    <3> DEFINE k == CHOOSE k \in keys : k.op = op
    <3>2. k \in keys /\ k.op = op
      BY <3>1
    <3> QED
      BY <3>2 DEF Kept
  <2>4. /\ k.outcome \in {"accepted", "archived"} /\ registry[s].outcome # "none"
        /\ op.kind # "start" => registry[s].outcome \in Terminal
    BY <1>1, <1>4, <2>3 DEF ServerFits, Keys
  <2>5. /\ a \in Answers /\ (a.terminal => registry[s].outcome \in Terminal)
        /\ a.reason = None => \/ a.terminal
                              \/ registry[s].outcome \notin Terminal
                                 /\ (a.mustStop \/ registry[s].outcome # "archive_waiting")
    BY <2>1, <2>3, <2>4, AnswerTells
  <2>6. op.kind = "start" => (Acked(s) <=> registry[s].outcome # "archive_waiting")
    BY <1>3, <2>2, <2>4 DEF Acked
  <2>7. a.reason = None /\ ~a.terminal => op.kind = "start" /\ (a.mustStop \/ Acked(s))
    BY <2>4, <2>5, <2>6
  <2>8. AnswerFits(op, a)'
    BY <1>1, <1>5, <2>2, <2>5, <2>7 DEF AnswerFits
  <2>9. SyncInv'
    BY <1>1, <1>5, <2>2, <2>5, <2>8, ReceiveFits
  <2> QED
    BY <1>5, <2>2, <2>5, <2>9
<1>8. CASE AnswerFresh(t, m)
  <2>1. PICK a : a = AnswerOf(Outcome(CommandOf(m)), registry'[s])
    OBVIOUS
  <2>2. Receive(t, a) /\ Apply(m) /\ begun' = begun
    BY <1>1, <1>2, <1>8, <2>1 DEF AnswerFresh, Receive
  <2>3. /\ Advances /\ RegInv' /\ ServerFits' /\ [R!Next]_(R!vars)
        /\ Outcome(CommandOf(m)) \in {"accepted", "archived"}
        /\ Used(m.op)' /\ registry'[s].outcome # "none"
        /\ op.kind # "start" => registry'[s].outcome \in Terminal
    BY <1>1, <1>2, <1>4, <2>2, ApplyAdvances
  <2>4. /\ a \in Answers /\ (a.terminal => registry'[s].outcome \in Terminal)
        /\ a.reason = None => \/ a.terminal
                              \/ registry'[s].outcome \notin Terminal
                                 /\ (a.mustStop \/ registry'[s].outcome # "archive_waiting")
    BY <2>1, <2>3, AnswerTells
  <2>5. op.kind = "start" => (Acked(s)' <=> registry'[s].outcome # "archive_waiting")
    BY <1>2, <1>3, <2>3 DEF Acked
  <2>6. a.reason = None /\ ~a.terminal => op.kind = "start" /\ (a.mustStop \/ Acked(s)')
    BY <2>3, <2>4, <2>5
  <2>7. AnswerFits(op, a)'
    BY <1>1, <2>4, <2>6 DEF AnswerFits
  <2>8. SyncInv'
    BY <1>1, <2>2, <2>3, <2>4, <2>7, ReceiveFits
  <2> QED
    BY <2>2, <2>3, <2>4, <2>8
<1> QED
  BY <1>1, <1>6, <1>7, <1>8

(* A request arrives whose answer reaches nobody.                            *)
LEMMA UnheardFits ==
  ASSUME SyncInv, DeliverUnheard
  PROVE  SyncInv' /\ [R!Next]_(R!vars)
<1>1. PICK m \in sent : Apply(m)
  BY DEF DeliverUnheard
<1>2. /\ m \in Requests /\ (m.live => m.op.kind = "start") /\ m.op.session \in begun
      /\ RegInv /\ ServerFits /\ DeviceInv
  BY DEF SyncInv, ServerFits
<1>3. UNCHANGED <<store, drain, refresh, begun, tries, reads>>
  BY DEF DeliverUnheard, deviceVars
<1>4. Advances /\ RegInv' /\ ServerFits' /\ [R!Next]_(R!vars)
  BY <1>1, <1>2, <1>3, ApplyAdvances
<1>5. DeviceInv'
  BY <1>2, <1>3, ReplayKeeps DEF DeviceInv
<1>6. \A t \in Tabs : DrainFits(drain[t])'
  BY <1>2, <1>3, <1>4, AnswerStaysTrue DEF SyncInv
<1> QED
  BY <1>3, <1>4, <1>5, <1>6, ServerMoves

(* The server ticks, or someone changes the Path or its members.             *)
LEMMA ServerStepFits ==
  ASSUME SyncInv, R!ServerStep, UNCHANGED <<deviceVars, sent, keys>>
  PROVE  SyncInv' /\ [R!Next]_(R!vars)
<1>1. RegInv /\ ServerFits /\ DeviceInv
  BY DEF SyncInv
<1>2. UNCHANGED <<store, drain, refresh, begun, tries, reads>>
  BY DEF deviceVars
<1>3. Advances /\ RegInv' /\ ServerFits' /\ [R!Next]_(R!vars)
  BY <1>1, <1>2, ServerAdvances
<1>4. DeviceInv'
  BY <1>1, <1>2, ReplayKeeps DEF DeviceInv
<1>5. \A t \in Tabs : DrainFits(drain[t])'
  BY <1>1, <1>2, <1>3, AnswerStaysTrue DEF SyncInv
<1> QED
  BY <1>2, <1>3, <1>4, <1>5, ServerMoves

(* A tab sends the next operation of its device.                             *)
LEMMA SendFits ==
  ASSUME SyncInv, NEW t \in Tabs, Send(t)
  PROVE  SyncInv' /\ [R!Next]_(R!vars)
<1> DEFINE st == store[DeviceOf[t]]
           op == NextOperation(st)
           live == op.kind = "start" /\ op.session \in st.timers
           r == [op |-> op, answer |-> None, running |-> live]
<1>1. /\ drain' = [drain EXCEPT ![t] = r] /\ op # None
      /\ UNCHANGED <<store, refresh, begun, tries, reads, serverVars, keys>> /\ Pick(t)
  BY DEF Send, Pick
<1>2. RegInv /\ ServerFits /\ DeviceInv
  BY DEF SyncInv
<1>3. st \in Snapshots /\ DeviceOf[t] \in Devices
  BY <1>2, TabStore
<1>4. op \in Queued(st) /\ op \in Operations /\ op.session \in TimerIds
  <2>1. op \in Queued(st) /\ op \in Operations
    BY <1>1, <1>3, NextOperationIsQueued
  <2> QED
    BY <2>1, OperationKinds
<1>5. op.session \in begun
  <2>1. Held(st, op.session)
    BY <1>4 DEF Held, QueuedFor
  <2> QED
    BY <1>3, <1>4, <2>1 DEF SyncInv, CountFits
<1>6. live \in BOOLEAN /\ (live => op.kind = "start")
  OBVIOUS
<1> HIDE DEF op, st, live
<1>7. /\ drain'[t].op = op /\ drain'[t].answer = None /\ drain'[t].running = live
       /\ \A u \in Tabs \ {t} : drain'[u] = drain[u]
  BY <1>1, <1>2 DEF DeviceInv
<1>8. /\ sent' \subseteq Requests /\ \A s \in begun' : Origin[s] \in Devices
      /\ \A n \in sent' : n.op.session \in begun' /\ (n.live => n.op.kind = "start")
  <2> DEFINE m == Request(drain'[t].op, drain'[t].running)
  <2>1. m.op = op /\ (m.live => op.kind = "start") /\ m \in Requests
    BY <1>4, <1>6, <1>7 DEF Request, Requests
  <2>2. sent' = sent \/ sent' = sent \cup {m}
    BY DEF Send
  <2> HIDE DEF m
  <2> QED
    BY <1>1, <1>2, <1>5, <2>1, <2>2 DEF ServerFits
<1>9. Advances /\ RegInv' /\ ServerFits' /\ [R!Next]_(R!vars)
  BY <1>1, <1>2, <1>8, ServerStays
<1>10. DeviceInv'
  BY <1>1, <1>2, PickKeeps
<1>11. ASSUME NEW u \in Tabs PROVE DrainFits(drain[u])'
  <2>1. CASE u = t
    BY <1>1, <1>5, <1>6, <1>7, <2>1 DEF DrainFits
  <2>2. CASE u # t
    BY <1>1, <1>2, <1>9, <1>7, <2>2, AnswerStaysTrue DEF SyncInv
  <2> QED
    BY <2>1, <2>2
<1> QED
  BY <1>1, <1>9, <1>10, <1>11, ServerMoves

(* A tab gives up on its answer, or closes.                                  *)
LEMMA GiveUpFits ==
  ASSUME SyncInv, NEW t \in Tabs, GiveUp(t), UNCHANGED <<serverVars, sent, keys>>
  PROVE  SyncInv' /\ [R!Next]_(R!vars)
<1>1. RegInv /\ ServerFits /\ DeviceInv
  BY DEF SyncInv
<1>2. drain' = [drain EXCEPT ![t] = None] /\ UNCHANGED <<store, refresh, begun, tries, reads>>
  BY DEF GiveUp
<1>3. /\ sent' \subseteq Requests /\ \A r \in begun' : Origin[r] \in Devices
      /\ \A n \in sent' : n.op.session \in begun' /\ (n.live => n.op.kind = "start")
  BY <1>1, <1>2 DEF ServerFits
<1>4. Advances /\ RegInv' /\ ServerFits' /\ [R!Next]_(R!vars)
  BY <1>1, <1>2, <1>3, ServerStays
<1>5. DeviceInv'
  BY <1>1, GiveUpKeeps
<1>6. ASSUME NEW u \in Tabs PROVE DrainFits(drain[u])'
  <2>1. CASE u = t
    BY <1>1, <1>2, <2>1 DEF DrainFits, DeviceInv
  <2>2. CASE u # t
    <3>1. drain'[u] = drain[u]
      BY <1>1, <1>2, <2>2 DEF DeviceInv
    <3> QED
      BY <1>1, <1>2, <1>4, <3>1, AnswerStaysTrue DEF SyncInv
  <2> QED
    BY <2>1, <2>2
<1> QED
  BY <1>2, <1>4, <1>5, <1>6, ServerMoves

----------------------------------------------------------------------------
(* Changes of a snapshot *)

(* What the invariant reads of a snapshot.                                   *)
SameParts(x, st) ==
    /\ x.timers = st.timers /\ x.operations = st.operations
    /\ x.corrections = st.corrections /\ x.notices = st.notices
    /\ x.counted = st.counted /\ x.unreflected = st.unreflected

(* A session that the device let go of and was told about.                   *)
Dropped(x, r) == ~Held(x, r) /\ Notified(x, r)

(* A change about one session: what else it lets go of it tells, and what    *)
(* the totals hold stays.                                                    *)
Moves(x, st, s) ==
    /\ x \in Snapshots
    /\ x.counted = st.counted /\ x.unreflected \subseteq st.unreflected \cup {s}
    /\ st.notices \subseteq x.notices
    /\ \A r \in TimerIds \ {s} : Untouched(x, st, r) \/ Dropped(x, r)

(* Snapshots of the same parts fit alike.                                    *)
LEMMA SameFits ==
  ASSUME NEW x, NEW st, SameParts(x, st)
  PROVE  /\ \A known : CountFits(x, known) <=> CountFits(st, known)
         /\ \A s : HoldFits(x, s) <=> HoldFits(st, s)
         /\ \A s : QueuedFor(x, s) = QueuedFor(st, s)
<1>1. Queued(x) = Queued(st)
  BY DEF SameParts, Queued
<1>2. \A s : QueuedFor(x, s) = QueuedFor(st, s)
  BY <1>1 DEF QueuedFor
<1>3. \A s : Held(x, s) <=> Held(st, s)
  BY <1>2 DEF SameParts, Held
<1>4. \A known : CountFits(x, known) <=> CountFits(st, known)
  BY <1>3 DEF SameParts, CountFits
<1>5. \A s : HoldFits(x, s) <=> HoldFits(st, s)
  BY <1>1, <1>2, <1>3 DEF SameParts, HoldFits, Ended, Notified
<1> QED
  BY <1>2, <1>4, <1>5

(* An untouched session stays accounted for.                                 *)
LEMMA UntouchedFits ==
  ASSUME NEW x, NEW st, NEW r, Untouched(x, st, r), st.notices \subseteq x.notices
  PROVE  /\ Held(x, r) <=> Held(st, r)
         /\ Notified(st, r) => Notified(x, r)
         /\ HoldFits(st, r) => HoldFits(x, r)
<1>1. Held(x, r) <=> Held(st, r)
  BY DEF Untouched, Held
<1>2. Ended(x, r) <=> Ended(st, r)
  BY DEF Untouched, Ended
<1>3. Notified(st, r) => Notified(x, r)
  BY DEF Notified
<1>4. StartOf(r) \in Queued(x) <=> StartOf(r) \in Queued(st)
  <2>1. StartOf(r).session = r
    BY DEF StartOf, Operation
  <2> QED
    BY <2>1 DEF Untouched, QueuedFor
<1> QED
  BY <1>1, <1>2, <1>3, <1>4 DEF HoldFits, Untouched

(* A session that the device let go of and was told about is accounted for.  *)
LEMMA DroppedFits ==
  ASSUME NEW x, NEW r, Dropped(x, r)
  PROVE  HoldFits(x, r)
<1>1. StartOf(r) \notin Queued(x)
  <2>1. StartOf(r).session = r
    BY DEF StartOf, Operation
  <2> QED
    BY <2>1 DEF Dropped, Held, QueuedFor
<1> QED
  BY <1>1 DEF Dropped, HoldFits, Held

(* A change about a session that is not in the totals.                       *)
LEMMA MovesFit ==
  ASSUME NEW st, NEW x, NEW s \in TimerIds, Moves(x, st, s),
         NEW before, NEW known, before \subseteq known, CountFits(st, before),
         s \in known, s \notin st.counted
  PROVE  /\ CountFits(x, known)
         /\ \A r \in TimerIds \ {s} : HoldFits(st, r) => HoldFits(x, r)
<1>1. st.notices \subseteq x.notices
  BY DEF Moves
<1>2. ASSUME NEW r \in TimerIds \ {s}
      PROVE  /\ HoldFits(st, r) => HoldFits(x, r)
             /\ Held(x, r) => Held(st, r)
  <2>1. CASE Untouched(x, st, r)
    BY <1>1, <2>1, UntouchedFits
  <2>2. CASE Dropped(x, r)
    BY <2>2, DroppedFits DEF Dropped
  <2> QED
    BY <2>1, <2>2 DEF Moves
<1>3. ASSUME NEW r \in TimerIds, Held(x, r) PROVE r \in known \ x.counted
  BY <1>2, <1>3 DEF Moves, CountFits
<1>4. CountFits(x, known)
  BY <1>3 DEF Moves, CountFits
<1> QED
  BY <1>2, <1>4

(* A change after a change.                                                  *)
LEMMA MovesTwice ==
  ASSUME NEW x, NEW y, NEW z, NEW s, Moves(y, x, s), Moves(z, y, s)
  PROVE  Moves(z, x, s)
<1>1. x.notices \subseteq y.notices /\ y.notices \subseteq z.notices
  BY DEF Moves
<1>2. ASSUME NEW r \in TimerIds \ {s} PROVE Untouched(z, x, r) \/ Dropped(z, r)
  <2>1. CASE Dropped(z, r)
    BY <2>1
  <2>2. CASE Untouched(z, y, r) /\ Dropped(y, r)
    BY <1>1, <2>2, UntouchedFits DEF Dropped
  <2>3. CASE Untouched(z, y, r) /\ Untouched(y, x, r)
    BY <2>3 DEF Untouched
  <2> QED
    BY <2>1, <2>2, <2>3 DEF Moves
<1> QED
  BY <1>1, <1>2 DEF Moves

(* A stop: the session runs no more, and an end follows its start.           *)
LEMMA StopMoves ==
  ASSUME NEW st \in Snapshots, Orderly(st), NEW s \in st.timers, NEW end \in Instants,
         NEW x, x = QueueStop(st, s, end)
  PROVE  Moves(x, st, s) /\ HoldFits(x, s)
<1>1. s \in TimerIds
  BY DEF Snapshots
<1>2. x \in Snapshots /\ \A r \in TimerIds \ {s} : Untouched(x, st, r)
  BY StopFollows DEF Follows
<1>3. /\ x.counted = st.counted /\ x.unreflected = st.unreflected /\ x.notices = st.notices
      /\ x.timers = st.timers \ {s} /\ Ended(x, s)
  <2>1. CASE end <= StartedAt[s]
    <3>1. x = [st EXCEPT !.timers = st.timers \ {s}, !.corrections = st.corrections \cup {s}]
      BY <2>1 DEF QueueStop
    <3>2. /\ x.counted = st.counted /\ x.unreflected = st.unreflected /\ x.notices = st.notices
          /\ x.timers = st.timers \ {s} /\ s \in x.corrections
      BY <3>1 DEF Snapshots
    <3> QED
      BY <3>2 DEF Ended
  <2>2. CASE ~(end <= StartedAt[s])
    <3> DEFINE op == Operation("stop", s, None, end, 0)
    <3>1. op \in Operations /\ op.session = s /\ op.kind = "stop"
      BY <1>1, OperationKinds
    <3>2. x = [st EXCEPT !.timers = st.timers \ {s}, !.operations = Append(st.operations, op)]
      BY <2>2 DEF QueueStop
    <3> HIDE DEF op
    <3>3. /\ x.counted = st.counted /\ x.unreflected = st.unreflected /\ x.notices = st.notices
          /\ x.timers = st.timers \ {s} /\ x.operations = Append(st.operations, op)
      BY <3>2 DEF Snapshots
    <3>4. Chained(st.operations) /\ \A o \in QueuedFor(st, op.session) : o.kind = "start" /\ op.kind # "start"
      BY <3>1 DEF Orderly, QueuedFor
    <3>5. op \in Queued(x)
      BY <3>1, <3>3, <3>4, AppendStaysChained
    <3>6. op \in QueuedFor(x, s) /\ op.kind # "start"
      BY <3>1, <3>5 DEF QueuedFor
    <3> QED
      BY <3>3, <3>6 DEF Ended
  <2> QED
    BY <2>1, <2>2
<1>4. Held(x, s) /\ s \notin x.timers
  BY <1>3 DEF Ended, Held
<1> QED
  BY <1>2, <1>3, <1>4 DEF Moves, HoldFits

(* An entry that the server recorded.                                        *)
LEMMA LearnedMoves ==
  ASSUME NEW st \in Snapshots, Orderly(st), NEW s \in TimerIds, NEW answer,
         NEW x, x = Learned(st, s, answer)
  PROVE  Moves(x, st, s) /\ (HoldFits(st, s) => HoldFits(x, s)) /\ Orderly(x)
<1>1. /\ Follows(x, st) /\ Queued(x) = Queued(st)
      /\ x.timers = st.timers /\ x.corrections = st.corrections
  BY LearnedFollows
<1>2. /\ x.counted = st.counted /\ x.unreflected \subseteq st.unreflected \cup {s}
      /\ x.notices = st.notices
  <2>1. x = [st EXCEPT !.unreflected = st.unreflected \cup {s}] \/ x = st
    BY DEF Learned
  <2> QED
    BY <2>1 DEF Snapshots
<1>3. \A r : Untouched(x, st, r)
  BY <1>1 DEF Untouched, QueuedFor
<1>4. HoldFits(st, s) => HoldFits(x, s)
  BY <1>2, <1>3, UntouchedFits
<1> QED
  BY <1>1, <1>2, <1>3, <1>4 DEF Moves, Follows

(* An accepted command: the session is settled, stops at the archive, or     *)
(* goes on with the server's word for its start.                             *)
LEMMA AcceptedMoves ==
  ASSUME NEW st \in Snapshots, Orderly(st), NEW op \in Queued(st), NEW answer,
         answer.reason = None, AnswerFits(op, answer), NEW end \in Instants,
         NEW x, x = Accepted(st, op, answer, end),
         op.kind = "start" => op = StartOf(op.session)
  PROVE  Moves(x, st, op.session) /\ (HoldFits(st, op.session) => HoldFits(x, op.session))
<1> DEFINE s == op.session
           gone == IF answer.terminal THEN QueuedFor(st, s) ELSE {op}
           kept == IF answer.terminal THEN st.timers \ {s} ELSE st.timers
           y == [st EXCEPT !.operations = Without(st, gone), !.timers = kept]
<1>1. /\ answer.mustStop /\ s \in kept => x = QueueStop(y, s, end)
      /\ ~(answer.mustStop /\ s \in kept) => x = y
  BY DEF Accepted
<1>2. s \in TimerIds /\ x \in Snapshots /\ \A r \in TimerIds \ {s} : Untouched(x, st, r)
  <2>1. op \in Operations
    BY DEF Queued, Snapshots
  <2> QED
    BY <2>1, OperationKinds, AcceptedFollows DEF Follows
<1>3. /\ answer.terminal => gone = QueuedFor(st, s) /\ kept = st.timers \ {s}
      /\ ~answer.terminal => gone = {op} /\ kept = st.timers
  OBVIOUS
<1> HIDE DEF gone, kept, s
<1>4. Without(st, gone) \in Seq(Operations) /\ kept \subseteq st.timers
  BY <1>3, WithoutLeavesRest DEF Snapshots
<1>5. /\ y \in Snapshots /\ y.operations = Without(st, gone) /\ y.timers = kept
      /\ y.corrections = st.corrections /\ y.counted = st.counted
      /\ y.unreflected = st.unreflected /\ y.notices = st.notices
  BY <1>4 DEF Snapshots
<1> HIDE DEF y
<1>6. Chained(y.operations) /\ Queued(y) = Queued(st) \ gone
  BY <1>5, WithoutStaysChained DEF Orderly
<1>7. Orderly(y)
  BY <1>4, <1>5, <1>6 DEF Orderly
<1>8. CASE answer.mustStop /\ s \in kept
  <2>1. Moves(x, y, s) /\ HoldFits(x, s)
    BY <1>1, <1>5, <1>7, <1>8, StopMoves
  <2> QED
    BY <1>2, <1>5, <2>1 DEF Moves, s
<1>9. CASE ~(answer.mustStop /\ s \in kept)
  <2>1. x = y
    BY <1>1, <1>9
  <2>2. Moves(x, st, s)
    BY <1>2, <1>5, <2>1 DEF Moves
  <2>3. ASSUME HoldFits(st, s), answer.terminal PROVE HoldFits(x, s)
    <3>1. Closed(s)
      BY <2>3 DEF AnswerFits, Closed, Over, s
    <3>2. s \notin x.timers /\ QueuedFor(x, s) = {}
      BY <1>3, <1>5, <1>6, <2>1, <2>3 DEF QueuedFor
    <3>3. StartOf(s) \notin Queued(x)
      BY <3>2 DEF QueuedFor, StartOf, Operation
    <3> QED
      BY <3>1, <3>2, <3>3 DEF HoldFits
  <2>4. ASSUME HoldFits(st, s), ~answer.terminal PROVE HoldFits(x, s)
    <3>1. op = StartOf(s) /\ op.kind = "start" /\ (answer.mustStop \/ Acked(s))
      BY <2>4 DEF AnswerFits, s
    <3>2. Queued(x) = Queued(st) \ {op} /\ x.timers = st.timers /\ x.corrections = st.corrections
      BY <1>3, <1>5, <1>6, <2>1, <2>4
    <3>3. CASE s \in st.timers
      BY <1>3, <1>9, <2>4, <3>1, <3>2, <3>3 DEF HoldFits, Held
    <3>4. CASE s \notin st.timers
      <4>1. Ended(st, s)
        BY <2>4, <3>1, <3>4 DEF HoldFits
      <4>2. Ended(x, s)
        BY <3>1, <3>2, <4>1 DEF Ended, QueuedFor
      <4>3. Held(x, s)
        BY <4>2 DEF Ended, Held
      <4> QED
        BY <3>1, <3>2, <3>4, <4>2, <4>3 DEF HoldFits
    <3> QED
      BY <3>3, <3>4
  <2> QED
    BY <2>2, <2>3, <2>4 DEF s
<1> QED
  BY <1>8, <1>9

(* A rejected command: the user is told of what it takes with it.            *)
LEMMA RejectedMoves ==
  ASSUME NEW st \in Snapshots, Orderly(st), NEW op \in Queued(st), NEW answer,
         answer.reason \in Reasons, NEW x, x = Rejected(st, op, answer)
  PROVE  Moves(x, st, op.session) /\ HoldFits(x, op.session)
<1> DEFINE s == op.session
           Ends(r) == Reached(op, answer, r)
           gone == {o \in Queued(st) : Ends(o.session)}
           timers == {r \in st.timers : ~Ends(r)}
           review == IF op.kind = "correct" /\ answer.reason = "validation" THEN {s} ELSE {}
           corrections == {r \in st.corrections : ~Ends(r)} \cup review
           unavailable == IF answer.reason = "membership" THEN st.unavailable \cup {PathOf[s]}
                          ELSE st.unavailable
           note == [session |-> s, reason |-> answer.reason]
<1>1. x = [st EXCEPT !.operations = Without(st, gone), !.timers = timers,
                     !.corrections = corrections, !.unavailable = unavailable,
                     !.notices = st.notices \cup {note}]
  BY DEF Rejected, Reached
<1>2. /\ s \in TimerIds /\ x \in Snapshots
      /\ \A r \in TimerIds : Ends(r) \/ Untouched(x, st, r)
  <2>1. op \in Operations
    BY DEF Queued, Snapshots
  <2> QED
    BY <2>1, OperationKinds, RejectedFollows DEF Follows
<1>3. review \subseteq {s} /\ note.session = s /\ note.reason = answer.reason
  OBVIOUS
<1> HIDE DEF gone, timers, corrections, unavailable, note, review
<1>4. /\ x.operations = Without(st, gone) /\ x.timers = timers /\ x.corrections = corrections
      /\ x.counted = st.counted /\ x.unreflected = st.unreflected
      /\ x.notices = st.notices \cup {note}
  BY <1>1 DEF Snapshots
<1>5. Queued(x) = Queued(st) \ gone
  BY <1>4, WithoutStaysChained DEF Orderly
<1>6. ASSUME NEW r, Ends(r)
      PROVE  r \notin x.timers /\ QueuedFor(x, r) = {} /\ Notified(x, r) /\ (r # s => ~Held(x, r))
  <2>1. r \notin x.timers /\ QueuedFor(x, r) = {} /\ (r # s => r \notin x.corrections)
    BY <1>3, <1>4, <1>5, <1>6 DEF timers, gone, corrections, QueuedFor
  <2>2. note \in x.notices
    BY <1>4
  <2>3. Notified(x, r)
    BY <1>3, <1>6, <2>2 DEF Notified, Reached, s
  <2> QED
    BY <2>1, <2>3 DEF Held
<1>7. Moves(x, st, s)
  BY <1>2, <1>4, <1>6 DEF Moves, Dropped
<1>8. HoldFits(x, s)
  <2>1. Ends(s) /\ StartOf(s).session = s
    BY DEF Reached, s, StartOf, Operation
  <2>2. StartOf(s) \notin Queued(x)
    BY <1>6, <2>1 DEF QueuedFor
  <2> QED
    BY <1>6, <2>1, <2>2 DEF HoldFits
<1> QED
  BY <1>7, <1>8 DEF s

(* An answer, also to a command that was settled before.                     *)
LEMMA SettledMoves ==
  ASSUME NEW st \in Snapshots, Orderly(st), NEW op \in Operations, NEW answer \in Answers,
         AnswerFits(op, answer), NEW end \in Instants,
         NEW x, x = Settled(st, op, answer, end)
  PROVE  x = st \/ /\ Moves(x, st, op.session) /\ Held(st, op.session)
                   /\ HoldFits(st, op.session) => HoldFits(x, op.session)
<1> DEFINE s == op.session
           y == Learned(st, s, answer)
<1>1. CASE op \notin Queued(st)
  BY <1>1 DEF Settled
<1>2. CASE op \in Queued(st)
  <2>1. s \in TimerIds /\ Held(st, s) /\ (op.kind = "start" => op = StartOf(s))
    <3>1. op.kind = "start" => op = StartOf(s)
      BY DEF Operations, Operation, StartOf
    <3> QED
      BY <1>2, <3>1, OperationKinds DEF Held, QueuedFor
  <2>2. /\ answer.reason = None => x = Accepted(y, op, answer, end)
        /\ answer.reason # None => x = Rejected(y, op, answer)
    BY <1>2 DEF Settled, SettledUnchecked
  <2>3. /\ Moves(y, st, s) /\ (HoldFits(st, s) => HoldFits(y, s)) /\ Orderly(y)
        /\ y \in Snapshots /\ Queued(y) = Queued(st)
    BY <2>1, LearnedMoves, LearnedFollows DEF Moves
  <2>4. Moves(x, y, s) /\ (HoldFits(y, s) => HoldFits(x, s))
    <3> HIDE DEF y
    <3>1. CASE answer.reason = None
      BY <1>2, <2>1, <2>2, <2>3, <3>1, AcceptedMoves
    <3>2. CASE answer.reason # None
      BY <1>2, <2>2, <2>3, <3>2, AnswerReasons, RejectedMoves
    <3> QED
      BY <3>1, <3>2
  <2>5. Moves(x, st, s)
    BY <2>3, <2>4, MovesTwice
  <2> QED
    BY <2>1, <2>3, <2>4, <2>5
<1> QED
  BY <1>1, <1>2

----------------------------------------------------------------------------
(* The steps of a device *)

(* A new snapshot that accounts for the device's sessions; what the reads on *)
(* their way lack no longer matters.                                         *)
LEMMA SnapshotFits ==
  ASSUME SyncInv, DeviceInv', UNCHANGED <<serverVars, sent, keys>>,
         NEW d \in Devices, NEW x, store' = [store EXCEPT ![d] = x],
         begun \subseteq begun', \A s \in begun' \ begun : Origin[s] = d,
         \A t \in Tabs : drain'[t] = drain[t] \/ drain'[t] = None,
         \A t \in Tabs : \/ refresh'[t] = None
                         \/ refresh'[t] = refresh[t] /\ DeviceOf[t] # d
                         \/ /\ refresh[t] # None /\ ~refresh'[t].clean
                            /\ refresh'[t].reply = refresh[t].reply,
         CountFits(x, begun'), \A s \in begun' : Origin[s] = d => HoldFits(x, s)
  PROVE  SyncInv' /\ [R!Next]_(R!vars)
<1>1. RegInv /\ ServerFits /\ DeviceInv /\ begun \subseteq TimerIds /\ begun' \subseteq TimerIds
  BY DEF SyncInv, DeviceInv
<1>2. store'[d] = x /\ \A e \in Devices \ {d} : store'[e] = store[e]
  BY <1>1 DEF DeviceInv
<1>3. /\ Advances /\ RegInv' /\ ServerFits' /\ [R!Next]_(R!vars)
      /\ \A s : (Acked(s)' <=> Acked(s)) /\ (Closed(s)' <=> Closed(s))
  <2>1. /\ sent' \subseteq Requests /\ \A s \in begun' : Origin[s] \in Devices
        /\ \A m \in sent' : m.op.session \in begun' /\ (m.live => m.op.kind = "start")
    BY <1>1 DEF ServerFits
  <2> QED
    BY <1>1, <2>1, ServerStays
<1>4. ASSUME NEW t \in Tabs PROVE DrainFits(drain[t])'
  <2>1. CASE drain'[t] = None
    BY <2>1 DEF DrainFits
  <2>2. CASE drain'[t] = drain[t]
    BY <1>1, <1>3, <2>2, AnswerStaysTrue DEF SyncInv
  <2> QED
    BY <2>1, <2>2
<1>5. ASSUME NEW t \in Tabs PROVE HomeFits(refresh[t], store[DeviceOf[t]], DeviceOf[t])'
  <2>1. HomeFits(refresh[t], store[DeviceOf[t]], DeviceOf[t]) /\ DeviceOf[t] \in Devices
    BY DEF SyncInv
  <2>2. CASE refresh'[t] = None
    BY <2>2 DEF HomeFits
  <2>3. CASE refresh[t] # None /\ ~refresh'[t].clean /\ refresh'[t].reply = refresh[t].reply
    BY <1>3, <2>1, <2>3 DEF HomeFits
  <2>4. CASE refresh'[t] = refresh[t] /\ DeviceOf[t] # d
    <3>1. refresh'[t] = refresh[t] /\ store'[DeviceOf[t]] = store[DeviceOf[t]]
      BY <1>2, <2>1, <2>4
    <3> QED
      BY <1>3, <2>1, <3>1 DEF HomeFits, QueuedFor, Queued
  <2> QED
    BY <2>2, <2>3, <2>4
<1>6. ASSUME NEW s \in begun' PROVE HoldFits(store[Origin[s]], s)'
  <2>1. PICK st : st = store'[Origin[s]] /\ HoldFits(st, s)
    <3>1. CASE Origin[s] = d
      BY <1>2, <3>1
    <3>2. CASE Origin[s] # d
      <4>1. s \in begun /\ Origin[s] \in Devices
        BY <1>1, <3>2 DEF ServerFits
      <4> QED
        BY <1>2, <3>2, <4>1 DEF SyncInv
    <3> QED
      BY <3>1, <3>2
  <2>2. (Acked(s)' <=> Acked(s)) /\ (Closed(s)' <=> Closed(s))
    BY <1>3
  <2> QED
    BY <2>1, <2>2, HoldStays
<1>7. ASSUME NEW e \in Devices PROVE CountFits(store[e], begun)'
  <2>1. PICK st : st = store'[e] /\ CountFits(st, begun')
    <3>1. CASE e = d
      BY <1>2, <3>1
    <3>2. CASE e # d
      <4>1. CountFits(store[e], begun)
        BY DEF SyncInv
      <4>2. CountFits(store[e], begun')
        BY <4>1 DEF CountFits
      <4> QED
        BY <1>2, <3>2, <4>2
    <3> QED
      BY <3>1, <3>2
  <2> QED
    BY <2>1 DEF CountFits, Held, QueuedFor, Queued
<1> QED
  BY <1>3, <1>4, <1>5, <1>6, <1>7 DEF SyncInv

(* A saved change is such a snapshot.                                        *)
LEMMA CommitFits ==
  ASSUME SyncInv, DeviceInv', UNCHANGED <<serverVars, sent, keys>>,
         NEW d \in Devices, NEW x \in Snapshots, Commit(d, x),
         begun \subseteq begun', \A s \in begun' \ begun : Origin[s] = d,
         \A t \in Tabs : drain'[t] = drain[t] \/ drain'[t] = None,
         CountFits(x, begun'), \A s \in begun' : Origin[s] = d => HoldFits(x, s)
  PROVE  SyncInv' /\ [R!Next]_(R!vars)
<1> DEFINE y == [x EXCEPT !.revision = x.revision + 1]
<1>1. /\ store' = [store EXCEPT ![d] = y]
      /\ refresh' = [t \in Tabs |-> IF DeviceOf[t] = d /\ refresh[t] # None
                                    THEN [refresh[t] EXCEPT !.clean = FALSE] ELSE refresh[t]]
  BY DEF Commit
<1>2. SameParts(y, x)
  BY DEF SameParts, Snapshots
<1> HIDE DEF y
<1>3. CountFits(y, begun') /\ \A s \in begun' : Origin[s] = d => HoldFits(y, s)
  BY <1>2, SameFits
<1>4. ASSUME NEW t \in Tabs
      PROVE  \/ refresh'[t] = None
             \/ refresh'[t] = refresh[t] /\ DeviceOf[t] # d
             \/ /\ refresh[t] # None /\ ~refresh'[t].clean
                /\ refresh'[t].reply = refresh[t].reply
  <2>1. CASE DeviceOf[t] = d /\ refresh[t] # None
    <3>1. refresh[t] \in Refreshes /\ refresh'[t] = [refresh[t] EXCEPT !.clean = FALSE]
      BY <1>1, <2>1 DEF SyncInv, DeviceInv
    <3> QED
      BY <2>1, <3>1 DEF Refreshes
  <2>2. CASE ~(DeviceOf[t] = d /\ refresh[t] # None)
    BY <1>1, <2>2
  <2> QED
    BY <2>1, <2>2
<1> QED
  BY <1>1, <1>3, <1>4, SnapshotFits

(* A saved change about one session.                                         *)
LEMMA MoveCommits ==
  ASSUME SyncInv, DeviceInv', UNCHANGED <<serverVars, sent, keys>>,
         NEW d \in Devices, NEW x, NEW s \in TimerIds, Moves(x, store[d], s), Commit(d, x),
         begun' = begun \/ (begun' = begun \cup {s} /\ Origin[s] = d),
         \A t \in Tabs : drain'[t] = drain[t] \/ drain'[t] = None,
         s \in begun', s \notin store[d].counted, Origin[s] = d => HoldFits(x, s)
  PROVE  SyncInv' /\ [R!Next]_(R!vars)
<1>1. /\ x \in Snapshots /\ begun \subseteq begun' /\ begun' \subseteq TimerIds
      /\ \A r \in begun' \ begun : Origin[r] = d
  BY DEF Moves, SyncInv, DeviceInv
<1>2. CountFits(store[d], begun)
  BY DEF SyncInv
<1>3. CountFits(x, begun') /\ \A r \in TimerIds \ {s} : HoldFits(store[d], r) => HoldFits(x, r)
  BY <1>1, <1>2, MovesFit
<1>4. ASSUME NEW r \in begun', Origin[r] = d PROVE HoldFits(x, r)
  <2>1. CASE r = s
    BY <1>4, <2>1
  <2>2. CASE r # s
    <3>1. r \in begun /\ HoldFits(store[d], r)
      BY <1>4, <2>2 DEF SyncInv
    <3> QED
      BY <1>1, <1>3, <2>2, <3>1
  <2> QED
    BY <2>1, <2>2
<1> QED
  BY <1>1, <1>3, <1>4, CommitFits

(* A session begins.                                                         *)
LEMMA StartFits ==
  ASSUME SyncInv, NEW t \in Tabs, NEW s \in TimerIds, StartTimer(t, s),
         UNCHANGED <<serverVars, sent, keys>>
  PROVE  SyncInv' /\ [R!Next]_(R!vars)
<1> DEFINE d == DeviceOf[t]
           st == store[d]
           op == StartOf(s)
           x == [st EXCEPT !.timers = st.timers \cup {s}, !.operations = Append(st.operations, op)]
<1>1. /\ Commit(d, x) /\ begun' = begun \cup {s} /\ drain' = drain
      /\ Origin[s] = d /\ s \notin begun
  BY DEF StartTimer, StartOf
<1>2. /\ d \in Devices /\ st \in Snapshots /\ Orderly(st) /\ HeldHasBegun(st, d, begun)
      /\ CountFits(st, begun) /\ DeviceInv'
  BY TabStore, StartKeeps DEF SyncInv
<1>3. op \in Operations /\ op.session = s /\ op.kind = "start"
  BY OperationKinds DEF StartOf
<1> HIDE DEF op
<1>4. Append(st.operations, op) \in Seq(Operations)
  BY <1>2, <1>3 DEF Snapshots
<1> HIDE DEF st, d
<1>5. /\ x \in Snapshots /\ x.timers = st.timers \cup {s} /\ x.corrections = st.corrections
      /\ x.operations = Append(st.operations, op) /\ x.notices = st.notices
      /\ x.counted = st.counted /\ x.unreflected = st.unreflected
  BY <1>2, <1>4 DEF Snapshots
<1> HIDE DEF x
<1>6. QueuedFor(st, s) = {} /\ s \notin st.counted
  BY <1>1, <1>2 DEF HeldHasBegun, Held, CountFits
<1>7. Queued(x) = Queued(st) \cup {op}
  <2>1. Chained(st.operations) /\ \A o \in QueuedFor(st, op.session) : o.kind = "start" /\ op.kind # "start"
    BY <1>2, <1>3, <1>6 DEF Orderly
  <2> QED
    BY ZenonT(60), <1>2, <1>3, <1>5, <2>1, AppendStaysChained
<1>8. \A r \in TimerIds \ {s} : Untouched(x, st, r)
  BY <1>3, <1>5, <1>7 DEF Untouched, QueuedFor
<1>9. Moves(x, st, s)
  BY <1>5, <1>8 DEF Moves
<1>10. HoldFits(x, s)
  BY <1>5, <1>7 DEF HoldFits, Held, op
<1> QED
  BY <1>1, <1>2, <1>6, <1>9, <1>10, MoveCommits DEF st

(* A timer is stopped.                                                       *)
LEMMA StopFits ==
  ASSUME SyncInv, NEW t \in Tabs, NEW s \in TimerIds, NEW end \in Instants,
         StopTimer(t, s, end), UNCHANGED <<serverVars, sent, keys>>
  PROVE  SyncInv' /\ [R!Next]_(R!vars)
<1> DEFINE d == DeviceOf[t]
           x == QueueStop(store[d], s, end)
<1>1. s \in store[d].timers /\ Commit(d, x) /\ begun' = begun /\ drain' = drain
  BY DEF StopTimer
<1>2. /\ d \in Devices /\ store[d] \in Snapshots /\ Orderly(store[d])
      /\ CountFits(store[d], begun) /\ DeviceInv'
  BY TabStore, StopKeeps DEF SyncInv
<1>3. Moves(x, store[d], s) /\ HoldFits(x, s)
  BY <1>1, <1>2, StopMoves
<1>4. s \in begun /\ s \notin store[d].counted
  BY <1>1, <1>2 DEF CountFits, Held
<1> HIDE DEF x, d
<1> QED
  BY <1>1, <1>2, <1>3, <1>4, MoveCommits

(* An answer is settled on its device.                                       *)
LEMMA SettleFits ==
  ASSUME SyncInv, NEW t \in Tabs, NEW end \in Instants, Settle(t, end),
         UNCHANGED <<serverVars, sent, keys>>
  PROVE  SyncInv' /\ [R!Next]_(R!vars)
<1> DEFINE d == DeviceOf[t]
           op == drain[t].op
           answer == drain[t].answer
           st == store[d]
           x == Settled(st, op, answer, end)
<1>1. /\ Commit(d, x) /\ begun' = begun /\ drain' = [drain EXCEPT ![t] = None]
      /\ drain[t] # None /\ answer # None
  BY DEF Settle
<1>2. /\ d \in Devices /\ st \in Snapshots /\ Orderly(st)
      /\ CountFits(st, begun) /\ DeviceInv'
  BY TabStore, SettleKeeps DEF SyncInv
<1>3. /\ op \in Operations /\ op.session \in begun /\ op.session \in TimerIds
      /\ answer \in Answers /\ AnswerFits(op, answer)
  <2>1. answer \in Answers
    BY <1>1, TabRequest DEF Drains
  <2>2. AnswerFits(op, answer)
    BY <1>1 DEF SyncInv, DrainFits
  <2> QED
    BY <1>1, <2>1, <2>2, TabRequest
<1>4. x = st \/ /\ Moves(x, st, op.session) /\ Held(st, op.session)
                /\ HoldFits(st, op.session) => HoldFits(x, op.session)
  BY <1>2, <1>3, SettledMoves
<1>5. \A u \in Tabs : drain'[u] = drain[u] \/ drain'[u] = None
  BY <1>1 DEF SyncInv, DeviceInv
<1>6. \A s \in begun : Origin[s] = d => HoldFits(st, s)
  BY DEF SyncInv
<1>7. CASE x = st
  BY <1>1, <1>2, <1>5, <1>6, <1>7, CommitFits
<1>8. CASE x # st
  <2>1. op.session \notin st.counted
    BY <1>3, <1>4, <1>8, <1>2 DEF CountFits
  <2>2. Origin[op.session] = d => HoldFits(x, op.session)
    BY <1>3, <1>4, <1>6, <1>8
  <2> HIDE DEF x
  <2> QED
    BY <1>1, <1>2, <1>3, <1>4, <1>5, <1>8, <2>1, <2>2, MoveCommits
<1> QED
  BY <1>7, <1>8

(* A correction is saved.                                                    *)
LEMMA CorrectFits ==
  ASSUME SyncInv, NEW t \in Tabs, NEW s \in TimerIds, NEW start \in Instants,
         NEW end \in Instants, Correct(t, s, start, end), UNCHANGED <<serverVars, sent, keys>>
  PROVE  SyncInv' /\ [R!Next]_(R!vars)
<1> DEFINE d == DeviceOf[t]
           st == store[d]
           op == Operation("correct", s, start, end, tries[s] + 1)
           y == [st EXCEPT !.operations = Without(st, QueuedFor(st, s))]
           x == [st EXCEPT !.corrections = st.corrections \ {s}, !.operations = Append(y.operations, op)]
<1>1. /\ st \in Snapshots /\ d \in Devices /\ Orderly(st) /\ DeviceInv'
      /\ CountFits(st, begun)
  BY TabStore, CorrectKeeps DEF SyncInv
<1>2. /\ Commit(d, x) /\ begun' = begun /\ drain' = drain
      /\ s \in st.corrections /\ tries[s] < MaxTries
  <2>1. y.operations = Without(st, QueuedFor(st, s))
    BY <1>1 DEF Snapshots
  <2> QED
    BY <2>1 DEF Correct
<1>3. op \in Operations /\ op.session = s /\ op.kind = "correct"
  <2>1. tries[s] \in 0..MaxTries /\ MaxTries \in Nat
    BY DEF SyncInv, DeviceInv
  <2>2. tries[s] + 1 \in 1..MaxTries
    BY <1>2, <2>1
  <2> QED
    BY <2>2, OperationKinds
<1> HIDE DEF op, st, d
<1>4. Without(st, QueuedFor(st, s)) \in Seq(Operations)
  BY <1>1, WithoutLeavesRest DEF Snapshots
<1>5. y \in Snapshots /\ y.operations = Without(st, QueuedFor(st, s))
  BY <1>1, <1>4 DEF Snapshots
<1> HIDE DEF y
<1>6. Chained(y.operations) /\ Queued(y) = Queued(st) \ QueuedFor(st, s)
  BY <1>1, <1>5, WithoutStaysChained DEF Orderly
<1>7. Append(y.operations, op) \in Seq(Operations)
  BY <1>3, <1>5 DEF Snapshots
<1>8. /\ x \in Snapshots /\ x.timers = st.timers /\ x.corrections = st.corrections \ {s}
      /\ x.operations = Append(y.operations, op) /\ x.notices = st.notices
      /\ x.counted = st.counted /\ x.unreflected = st.unreflected
  BY <1>1, <1>7 DEF Snapshots
<1> HIDE DEF x
<1>9. Queued(x) = Queued(y) \cup {op}
  <2>1. \A o \in QueuedFor(y, op.session) : o.kind = "start" /\ op.kind # "start"
    BY <1>3, <1>6 DEF QueuedFor
  <2> QED
    BY <1>3, <1>5, <1>6, <1>8, <2>1, AppendStaysChained
<1>10. Moves(x, st, s)
  <2>1. \A r \in TimerIds \ {s} : Untouched(x, st, r)
    BY <1>3, <1>6, <1>8, <1>9 DEF Untouched, QueuedFor
  <2> QED
    BY <1>8, <2>1 DEF Moves
<1>11. HoldFits(x, s)
  <2>1. Ended(x, s) /\ Held(x, s)
    BY <1>3, <1>9 DEF Ended, Held, QueuedFor
  <2>2. s \notin x.timers
    BY <1>1, <1>2, <1>8 DEF Orderly
  <2> QED
    BY <2>1, <2>2 DEF HoldFits
<1>12. s \in begun /\ s \notin st.counted
  BY <1>1, <1>2 DEF CountFits, Held
<1> QED
  BY <1>1, <1>2, <1>10, <1>11, <1>12, MoveCommits DEF st

----------------------------------------------------------------------------
(* The refreshes of a device *)

(* The running timer is the one active session, and no entry comes before    *)
(* its session ends.                                                         *)
LEMMA ServerShows ==
  ASSUME RegInv
  PROVE  /\ \A s \in TimerIds : R!Runs(s) => registry[s].outcome = "active"
         /\ \A s \in TimerIds : registry[s].outcome = "active" => R!Runs(s) \/ s \in erased
         /\ \A a, b \in TimerIds : R!Runs(a) /\ R!Runs(b) => a = b
         /\ \A s \in TimerIds : R!EntriesOf(s) # {} => registry[s].outcome \notin {"none", "active"}
<1>1. \A s \in TimerIds : (R!Runs(s) <=> running[Account] = s) /\ (RP!Runs(s) <=> running[Account] = s)
  BY DEF R!Runs, RP!Runs
<1>2. None \notin TimerIds
  BY SyncAssumption
<1>3. \A s \in TimerIds : R!Runs(s) => registry[s].outcome = "active"
  BY <1>1, <1>2 DEF RegInv, RP!RunInv, RP!RunningIsActive
<1>4. \A s \in TimerIds : registry[s].outcome = "active" => R!Runs(s) \/ s \in erased
  BY <1>1 DEF RegInv, RP!RunInv, RP!RunningIsActive, RP!Sessions
<1>5. ASSUME NEW s \in TimerIds, R!EntriesOf(s) # {}
      PROVE  registry[s].outcome \notin {"none", "active"}
  <2>1. RP!SessionFits(s) /\ R!EntriesOf(s) = RP!EntriesOf(s)
    BY DEF RegInv, RP!EntryInv, RP!Sessions, R!EntriesOf, RP!EntriesOf
  <2>2. RP!Known(s) /\ RP!Loaded(s) = registry[s]
    BY <1>5, <2>1 DEF RP!SessionFits, RP!Loaded, RP!Registered
  <2> QED
    BY <1>5, <2>1, <2>2 DEF RP!SessionFits, RP!RowFits, RP!Known, RP!Undecided
<1> QED
  BY <1>1, <1>3, <1>4, <1>5

(* A reading of Home: it shows what began, nothing that runs is recorded,    *)
(* and what it does not show running has ended at the server.                *)
LEMMA HomeShows ==
  ASSUME SyncInv, NEW h, h = Home
  PROVE  /\ h \in Replies
         /\ h.counted \cup h.timers \subseteq begun /\ h.counted \cap h.timers = {}
         /\ \A s \in h.timers : Acked(s)
         /\ \A s \in TimerIds \ h.timers : PathOf[s] \in h.paths /\ Acked(s) => Closed(s)
<1> DEFINE shown == archivedAt = None /\ R!Tracks(Account)
           Recorded(s) == \E a \in R!EntriesOf(s) : R!Live(a)
<1>1. /\ h.paths = IF shown THEN Paths ELSE {}
      /\ h.counted = {s \in TimerIds : shown /\ Recorded(s)}
      /\ h.timers = {s \in TimerIds : shown /\ R!Runs(s)}
      /\ h = [paths |-> h.paths, counted |-> h.counted, timers |-> h.timers]
  BY DEF Home
<1>2. \A s \in TimerIds : Recorded(s) => R!EntriesOf(s) # {}
  OBVIOUS
<1> HIDE DEF shown, Recorded
<1>3. RegInv /\ ServerFits
  BY DEF SyncInv
<1>4. h.counted \cup h.timers \subseteq begun
  BY <1>1, <1>2, <1>3, ServerShows DEF ServerFits
<1>5. h.counted \cap h.timers = {}
  BY <1>1, <1>2, <1>3, ServerShows
<1>6. \A s \in h.timers : Acked(s)
  BY <1>1, <1>3, ServerShows DEF ServerFits, Acked
<1>7. ASSUME NEW s \in TimerIds \ h.timers, PathOf[s] \in h.paths, Acked(s) PROVE Closed(s)
  <2>1. ~R!Runs(s)
    BY <1>1, <1>7
  <2>2. registry[s].outcome \in Over \cup {"active"}
    <3>1. registry[s].outcome \in {"none", "active", "archive_waiting"} \cup Over
      <4>1. registry[s] \in RP!RegistryRows
        BY <1>3 DEF RegInv, RP!TypeInv, RP!TypeOK, RP!Sessions
      <4> QED
        BY <4>1 DEF RP!RegistryRows, RP!Outcomes, Over, Terminal
    <3> QED
      BY <1>7, <3>1 DEF Acked
  <2> QED
    BY <1>3, <2>1, <2>2, ServerShows DEF Closed
<1>8. h \in Replies
  <2>1. h \in [paths : SUBSET Paths, counted : SUBSET TimerIds, timers : SUBSET TimerIds]
    BY <1>1
  <2>2. \A s \in h.counted \cup h.timers : PathOf[s] \in h.paths /\ s \in begun
    BY <1>1, <1>4
  <2>3. \A a, b \in h.timers : a = b
    BY <1>1, <1>3, ServerShows
  <2> QED
    BY <2>1, <2>2, <2>3 DEF Replies
<1> QED
  BY <1>4, <1>5, <1>6, <1>7, <1>8

(* What a tab's refresh comes to, while nothing else changes.                *)
LEMMA RefreshFits ==
  ASSUME SyncInv, DeviceInv', UNCHANGED <<serverVars, sent, keys>>, NEW t \in Tabs,
         NEW r, HomeFits(r, store[DeviceOf[t]], DeviceOf[t]),
         refresh' = [refresh EXCEPT ![t] = r], UNCHANGED <<store, drain, begun>>
  PROVE  SyncInv' /\ [R!Next]_(R!vars)
<1>1. RegInv /\ ServerFits /\ DeviceInv
  BY DEF SyncInv
<1>2. /\ Advances /\ RegInv' /\ ServerFits' /\ [R!Next]_(R!vars)
      /\ \A s : (Acked(s)' <=> Acked(s)) /\ (Closed(s)' <=> Closed(s))
  <2>1. /\ sent' \subseteq Requests /\ \A s \in begun' : Origin[s] \in Devices
        /\ \A m \in sent' : m.op.session \in begun' /\ (m.live => m.op.kind = "start")
    BY <1>1 DEF ServerFits
  <2> QED
    BY <1>1, <2>1, ServerStays
<1>3. \A u \in Tabs : DrainFits(drain[u])'
  BY <1>1, <1>2, AnswerStaysTrue DEF SyncInv
<1>4. ASSUME NEW u \in Tabs PROVE HomeFits(refresh[u], store[DeviceOf[u]], DeviceOf[u])'
  <2>1. PICK q : q = refresh'[u] /\ HomeFits(q, store[DeviceOf[u]], DeviceOf[u])
    BY <1>1 DEF SyncInv, DeviceInv
  <2> QED
    BY <1>2, <2>1 DEF HomeFits, QueuedFor, Queued
<1>5. ASSUME NEW s \in begun' PROVE HoldFits(store[Origin[s]], s)'
  <2>1. PICK st : st = store'[Origin[s]] /\ HoldFits(st, s)
    BY DEF SyncInv
  <2> QED
    BY <1>2, <2>1, HoldStays
<1>6. \A d \in Devices : CountFits(store[d], begun)'
  BY DEF SyncInv, CountFits, Held, QueuedFor, Queued
<1> QED
  BY <1>2, <1>3, <1>4, <1>5, <1>6 DEF SyncInv

(* A refresh begins, or is given up.                                         *)
LEMMA ReadingFits ==
  ASSUME SyncInv, NEW t \in Tabs, BeginRefresh(t) \/ DropRefresh(t),
         UNCHANGED <<serverVars, sent, keys>>
  PROVE  SyncInv' /\ [R!Next]_(R!vars)
<1>1. PICK r : refresh' = [refresh EXCEPT ![t] = r] /\ (r = None \/ r.reply = None)
  BY DEF BeginRefresh, DropRefresh
<1>2. UNCHANGED <<store, drain, begun>> /\ DeviceInv'
  BY BeginRefreshKeeps, DropRefreshKeeps DEF BeginRefresh, DropRefresh, SyncInv
<1>3. HomeFits(r, store[DeviceOf[t]], DeviceOf[t])
  BY <1>1 DEF HomeFits
<1> QED
  BY <1>1, <1>2, <1>3, RefreshFits

(* Home is read.                                                             *)
LEMMA ReadHomeFits ==
  ASSUME SyncInv, NEW t \in Tabs, ReadHome(t, Home), UNCHANGED <<serverVars, sent, keys>>
  PROVE  SyncInv' /\ [R!Next]_(R!vars)
<1> DEFINE d == DeviceOf[t]
           st == store[d]
<1>1. PICK h : h = Home
  OBVIOUS
<1>2. /\ h \in Replies
      /\ h.counted \cup h.timers \subseteq begun /\ h.counted \cap h.timers = {}
      /\ \A s \in h.timers : Acked(s)
      /\ \A s \in TimerIds \ h.timers : PathOf[s] \in h.paths /\ Acked(s) => Closed(s)
  BY <1>1, HomeShows
<1> DEFINE r == [refresh[t] EXCEPT !.reply = h]
<1>3. /\ refresh' = [refresh EXCEPT ![t] = r] /\ UNCHANGED <<store, drain, begun>>
      /\ refresh[t] # None
  BY <1>1 DEF ReadHome
<1>4. DeviceInv'
  BY <1>1, <1>2, ReadHomeKeeps DEF SyncInv
<1>5. r.reply = h
  BY <1>3 DEF SyncInv, DeviceInv, Refreshes
<1> HIDE DEF r
<1>6. ASSUME NEW s \in st.timers \ h.timers, Origin[s] = d, QueuedFor(st, s) = {}, PathOf[s] \in h.paths
      PROVE  Closed(s)
  <2>1. st \in Snapshots /\ d \in Devices
    BY TabStore DEF SyncInv
  <2>2. s \in TimerIds /\ Held(st, s)
    BY <2>1 DEF Held, Snapshots
  <2>3. HoldFits(st, s)
    BY <1>6, <2>1, <2>2 DEF SyncInv, CountFits
  <2>4. StartOf(s) \notin Queued(st)
    BY <1>6 DEF QueuedFor, StartOf, Operation
  <2> QED
    BY <1>2, <1>6, <2>2, <2>3, <2>4 DEF HoldFits
<1>7. HomeFits(r, st, d)
  BY <1>2, <1>5, <1>6 DEF HomeFits
<1> QED
  BY <1>3, <1>4, <1>7, RefreshFits

(* What a refresh makes of the totals and timers: the reply's on the Paths   *)
(* where nothing waits, its own on the others.                               *)
LEMMA RefreshedParts ==
  ASSUME NEW st \in Snapshots, NEW reply,
         NEW free, \A p : p \in free <=> p \in reply.paths /\ ~Busy(st, p)
  PROVE  /\ \A s : s \in Refreshed(st, reply).timers <=>
              IF PathOf[s] \in free THEN s \in reply.timers ELSE s \in st.timers
         /\ \A s : s \in Refreshed(st, reply).counted <=>
              IF PathOf[s] \in free THEN s \in reply.counted ELSE s \in st.counted
         /\ \A s : s \in Refreshed(st, reply).unreflected <=>
              s \in st.unreflected /\ PathOf[s] \notin free
<1> DEFINE counted == {s \in st.counted : PathOf[s] \notin free} \cup {s \in reply.counted : PathOf[s] \in free}
           timers == {s \in st.timers : PathOf[s] \notin free} \cup {s \in reply.timers : PathOf[s] \in free}
           unreflected == {s \in st.unreflected : PathOf[s] \notin free}
           y == [st EXCEPT !.counted = counted, !.unreflected = unreflected, !.timers = timers]
<1>1. Refreshed(st, reply) = y
  <2>1. free = {p \in reply.paths : ~Busy(st, p)}
    OBVIOUS
  <2> QED
    BY <2>1 DEF Refreshed, Unreflected
<1> HIDE DEF counted, timers, unreflected
<1>2. y.timers = timers /\ y.counted = counted /\ y.unreflected = unreflected
  BY DEF Snapshots
<1> QED
  BY <1>1, <1>2 DEF counted, timers, unreflected

(* Home is adopted: nothing of the device's own was saved since it was read. *)
LEMMA RetainHomeFits ==
  ASSUME SyncInv, NEW t \in Tabs, RetainHome(t), UNCHANGED <<serverVars, sent, keys>>
  PROVE  SyncInv' /\ [R!Next]_(R!vars)
<1> DEFINE d == DeviceOf[t]
           st == store[d]
           reply == refresh[t].reply
           free == {p \in reply.paths : ~Busy(st, p)}
<1>1. PICK x \in Snapshots :
           /\ store' = [store EXCEPT ![d] = x]
           /\ x.operations = st.operations /\ x.corrections = st.corrections
           /\ x.notices = st.notices
           /\ x.timers = Refreshed(st, reply).timers
           /\ x.counted = Refreshed(st, reply).counted
           /\ x.unreflected = Refreshed(st, reply).unreflected
  BY RetainHomeMoves DEF SyncInv
<1>2. /\ d \in Devices /\ st \in Snapshots /\ CountFits(st, begun) /\ DeviceInv'
  BY TabStore, RetainHomeKeeps DEF SyncInv
<1>3. /\ \A s : s \in x.timers <=>
           IF PathOf[s] \in free THEN s \in reply.timers ELSE s \in st.timers
      /\ \A s : s \in x.counted <=>
           IF PathOf[s] \in free THEN s \in reply.counted ELSE s \in st.counted
      /\ \A s : s \in x.unreflected <=> s \in st.unreflected /\ PathOf[s] \notin free
      /\ \A s \in TimerIds : PathOf[s] \in free => s \notin st.corrections /\ QueuedFor(st, s) = {}
  <2>1. \A p : p \in free <=> p \in reply.paths /\ ~Busy(st, p)
    OBVIOUS
  <2> HIDE DEF free, reply, st, d
  <2>2. st \in Snapshots
    BY <1>2
  <2>3. \A s : s \in Refreshed(st, reply).timers <=>
           IF PathOf[s] \in free THEN s \in reply.timers ELSE s \in st.timers
    BY <2>1, <2>2, RefreshedParts
  <2>4. \A s : s \in Refreshed(st, reply).counted <=>
           IF PathOf[s] \in free THEN s \in reply.counted ELSE s \in st.counted
    BY <2>1, <2>2, RefreshedParts
  <2>5. \A s : s \in Refreshed(st, reply).unreflected <=> s \in st.unreflected /\ PathOf[s] \notin free
    BY <2>1, <2>2, RefreshedParts
  <2>6. \A s \in TimerIds : PathOf[s] \in free => s \notin st.corrections /\ QueuedFor(st, s) = {}
    BY <2>1 DEF Busy, On, QueuedFor
  <2> QED
    BY <1>1, <2>3, <2>4, <2>5, <2>6
<1>4. /\ UNCHANGED <<drain, begun>> /\ refresh[t] # None /\ reply # None
      /\ Fresh(st, refresh[t].expected)
      /\ refresh' = [u \in Tabs |->
            IF u = t THEN None
            ELSE IF DeviceOf[u] = d /\ refresh[u] # None
            THEN [refresh[u] EXCEPT !.clean = FALSE] ELSE refresh[u]]
  BY DEF RetainHome
<1>5. refresh[t].clean /\ HomeFits(refresh[t], st, d)
  BY <1>4 DEF SyncInv, DeviceInv, ReadFits
<1>6. /\ reply.counted \cup reply.timers \subseteq begun /\ reply.counted \cap reply.timers = {}
      /\ \A s \in reply.timers : Acked(s)
      /\ \A s \in st.timers \ reply.timers :
           Origin[s] = d /\ QueuedFor(st, s) = {} /\ PathOf[s] \in reply.paths => Closed(s)
  BY <1>4, <1>5 DEF HomeFits
<1>7. free \subseteq reply.paths
  OBVIOUS
<1> HIDE DEF free, reply, st, d
<1>8. \A s : QueuedFor(x, s) = QueuedFor(st, s)
  BY <1>1 DEF QueuedFor, Queued
<1>9. CountFits(x, begun')
  <2>1. x.counted \subseteq begun /\ x.counted \cap x.unreflected = {}
    BY <1>2, <1>3, <1>6 DEF CountFits
  <2>2. ASSUME NEW s \in TimerIds, Held(x, s) PROVE s \in begun \ x.counted
    <3>1. CASE PathOf[s] \in free
      <4>1. s \in x.timers
        BY <1>1, <1>3, <1>8, <2>2, <3>1 DEF Held
      <4> QED
        BY <1>3, <1>6, <3>1, <4>1
    <3>2. CASE PathOf[s] \notin free
      <4>1. Held(st, s)
        BY <1>1, <1>3, <1>8, <2>2, <3>2 DEF Held
      <4> QED
        BY <1>2, <1>3, <3>2, <4>1 DEF CountFits
    <3> QED
      BY <3>1, <3>2
  <2> QED
    BY <1>4, <2>1, <2>2 DEF CountFits
<1>10. ASSUME NEW s \in begun', Origin[s] = d PROVE HoldFits(x, s)
  <2>1. s \in begun /\ s \in TimerIds /\ HoldFits(st, s)
    BY <1>4, <1>10 DEF SyncInv, DeviceInv, st
  <2>2. CASE PathOf[s] \in free
    <3>1. QueuedFor(x, s) = {} /\ s \notin x.corrections /\ (s \in x.timers <=> s \in reply.timers)
      BY <1>1, <1>3, <1>8, <2>1, <2>2
    <3>2. StartOf(s) \notin Queued(x)
      BY <3>1 DEF QueuedFor, StartOf, Operation
    <3>3. CASE s \in reply.timers
      BY <1>6, <3>1, <3>2, <3>3 DEF HoldFits, Held
    <3>4. CASE s \notin reply.timers /\ s \in st.timers
      BY <1>3, <1>6, <1>7, <1>10, <2>1, <2>2, <3>1, <3>2, <3>4 DEF HoldFits
    <3>5. CASE s \notin reply.timers /\ s \notin st.timers
      <4>1. ~Held(st, s)
        BY <1>3, <2>1, <2>2, <3>5 DEF Held
      <4>2. Notified(st, s) => Notified(x, s)
        BY <1>1 DEF Notified
      <4> QED
        BY <2>1, <3>1, <3>2, <3>5, <4>1, <4>2 DEF HoldFits
    <3> QED
      BY <3>3, <3>4, <3>5
  <2>3. CASE PathOf[s] \notin free
    <3>1. Untouched(x, st, s)
      BY <1>1, <1>3, <1>8, <2>3 DEF Untouched
    <3> QED
      BY <1>1, <2>1, <3>1, UntouchedFits
  <2> QED
    BY <2>2, <2>3
<1>11. ASSUME NEW u \in Tabs
       PROVE  \/ refresh'[u] = None
              \/ refresh'[u] = refresh[u] /\ DeviceOf[u] # d
              \/ /\ refresh[u] # None /\ ~refresh'[u].clean
                 /\ refresh'[u].reply = refresh[u].reply
  <2>1. CASE u # t /\ DeviceOf[u] = d /\ refresh[u] # None
    <3>1. refresh[u] \in Refreshes /\ refresh'[u] = [refresh[u] EXCEPT !.clean = FALSE]
      BY <1>4, <2>1 DEF SyncInv, DeviceInv
    <3> QED
      BY <2>1, <3>1 DEF Refreshes
  <2>2. CASE ~(u # t /\ DeviceOf[u] = d /\ refresh[u] # None)
    BY <1>4, <2>2
  <2> QED
    BY <2>1, <2>2
<1> QED
  BY <1>1, <1>2, <1>4, <1>9, <1>10, <1>11, SnapshotFits

----------------------------------------------------------------------------
(* Theorems *)

(* At first no device holds and no server knows anything.                    *)
LEMMA SyncInvHoldsInitially == SyncInit => SyncInv
<1> SUFFICES ASSUME SyncInit PROVE SyncInv
  OBVIOUS
<1>1. /\ store = [d \in Devices |-> NewSnapshot] /\ drain = [t \in Tabs |-> None]
      /\ refresh = [t \in Tabs |-> None] /\ begun = {} /\ sent = {} /\ keys = {}
      /\ started = StartedAt
  BY DEF SyncInit, DeviceInit
<1>2. DeviceInv /\ RegInv
  BY DeviceInvHoldsInitially, RegistryHolds DEF SyncInit
<1>3. \A s \in TimerIds : registry[s].outcome = "none"
  BY DEF SyncInit, R!Init, R!NoRow, R!Row, R!Sessions
<1>4. ServerFits
  BY <1>1, <1>3 DEF ServerFits
<1>5. \A t \in Tabs : DrainFits(drain[t]) /\ HomeFits(refresh[t], store[DeviceOf[t]], DeviceOf[t])
  BY <1>1 DEF DrainFits, HomeFits
<1>6. CountFits(NewSnapshot, {})
  <2>1. /\ Len(NewSnapshot.operations) = 0 /\ NewSnapshot.timers = {} /\ NewSnapshot.corrections = {}
        /\ NewSnapshot.counted = {}
    BY DEF NewSnapshot
  <2>2. Queued(NewSnapshot) = {}
    BY <2>1 DEF Queued
  <2> QED
    BY <2>1, <2>2 DEF CountFits, Held, QueuedFor
<1>7. \A d \in Devices : CountFits(store[d], begun)
  BY <1>1, <1>6
<1> QED
  BY <1>1, <1>2, <1>4, <1>5, <1>7 DEF SyncInv

(* Each step keeps the invariant and is a step of the server's timers.       *)
LEMMA SyncStep ==
  ASSUME SyncInv, [SyncNext]_syncVars
  PROVE  SyncInv' /\ [R!Next]_(R!vars)
<1>1. CASE UNCHANGED syncVars
  <2>1. UNCHANGED <<store, drain, refresh, begun, tries, reads, serverVars, sent, keys>>
    BY <1>1 DEF syncVars, deviceVars
  <2>2. /\ sent' \subseteq Requests /\ \A s \in begun' : Origin[s] \in Devices
        /\ \A m \in sent' : m.op.session \in begun' /\ (m.live => m.op.kind = "start")
    BY <2>1 DEF SyncInv, ServerFits
  <2>3. Advances /\ RegInv' /\ ServerFits' /\ [R!Next]_(R!vars)
    BY <2>1, <2>2, ServerStays DEF SyncInv
  <2>4. DeviceInv'
    BY <2>1, ReplayKeeps DEF SyncInv, DeviceInv
  <2>5. \A u \in Tabs : DrainFits(drain[u])'
    BY <2>1, <2>3, AnswerStaysTrue DEF SyncInv
  <2> QED
    BY <2>1, <2>3, <2>4, <2>5, ServerMoves
<1>2. CASE \E t \in Tabs : LocalStep(t)
  <2>1. PICK t \in Tabs : LocalStep(t)
    BY <1>2
  <2>2. UNCHANGED <<serverVars, sent, keys>>
    BY <2>1 DEF LocalStep
  <2>3. CASE Command(t)
    BY <2>2, <2>3, StartFits, StopFits, CorrectFits DEF Command
  <2>4. CASE Answered(t)
    BY <2>2, <2>4, SettleFits DEF Answered
  <2>5. CASE GiveUp(t)
    BY <2>2, <2>5, GiveUpFits
  <2>6. CASE BeginRefresh(t) \/ DropRefresh(t)
    BY <2>2, <2>6, ReadingFits
  <2>7. CASE ReadHome(t, Home)
    BY <2>2, <2>7, ReadHomeFits
  <2>8. CASE RetainHome(t)
    BY <2>2, <2>8, RetainHomeFits
  <2> QED
    BY <2>1, <2>3, <2>4, <2>5, <2>6, <2>7, <2>8 DEF LocalStep
<1>3. CASE \E t \in Tabs : Send(t) \/ Deliver(t)
  BY <1>3, SendFits, DeliverFits
<1>4. CASE DeliverUnheard
  BY <1>4, UnheardFits
<1>5. CASE R!ServerStep /\ UNCHANGED <<deviceVars, sent, keys>>
  BY <1>5, ServerStepFits
<1> QED
  BY <1>1, <1>2, <1>3, <1>4, <1>5 DEF SyncNext

(* The invariant of the devices and the server together.                     *)
THEOREM SyncInvariant == SyncSpec => []SyncInv
<1>1. SyncInv /\ [SyncNext]_syncVars => SyncInv'
  BY SyncStep
<1> QED
  BY <1>1, SyncInvHoldsInitially, PTL DEF SyncSpec

(* No refresh and no lost answer makes a device count a session twice        *)
(* (offline-tracking.ts:288).                                                *)
THEOREM NothingCountedTwice == SyncSpec => []CountedOnce
<1>1. SyncInv => CountedOnce
  <2> SUFFICES ASSUME SyncInv, NEW d \in Devices
               PROVE  store[d].counted \cap
                        (store[d].unreflected \cup Pending(store[d]) \cup store[d].timers) = {}
    BY DEF CountedOnce
  <2>1. store[d] \in Snapshots /\ CountFits(store[d], begun)
    BY DEF SyncInv, DeviceInv
  <2>2. \A s \in Pending(store[d]) \cup store[d].timers : s \in TimerIds /\ Held(store[d], s)
    <3>1. \A o \in Queued(store[d]) : o.session \in TimerIds
      BY <2>1, OperationKinds DEF Queued, Snapshots
    <3> QED
      BY <2>1, <3>1 DEF Pending, Held, QueuedFor, Snapshots
  <2> QED
    BY <2>1, <2>2 DEF CountFits
<1> QED
  BY <1>1, SyncInvariant, PTL

(* A session that its device no longer holds is settled at the server, went  *)
(* with the membership, or the user was told.                                *)
THEOREM EverySessionAccounted == SyncSpec => []Accounted
<1>1. SyncInv => Accounted
  <2> SUFFICES ASSUME SyncInv, NEW s \in begun, ~Held(store[Origin[s]], s)
               PROVE  \/ registry[s].outcome \in R!TerminalOutcomes \cup {"archive_pending"}
                      \/ s \in erased
                      \/ Told(s)
    BY DEF Accounted
  <2>1. Closed(s) \/ Notified(store[Origin[s]], s)
    BY DEF SyncInv, HoldFits
  <2> QED
    BY <2>1 DEF Closed, Over, Terminal, R!TerminalOutcomes, Notified, Told
<1> QED
  BY <1>1, SyncInvariant, PTL

(* Each step of the composition is a step of the devices, whose assumptions  *)
(* about answers and readings this server meets.                             *)
LEMMA SyncIsDevice ==
  ASSUME SyncInv, [SyncNext]_syncVars
  PROVE  [DeviceNext]_deviceVars
<1>1. CASE UNCHANGED syncVars
  BY <1>1 DEF syncVars
<1>2. ASSUME NEW t \in Tabs, LocalStep(t) PROVE DeviceNext
  <2>1. CASE Command(t)
    BY <2>1 DEF Command, UserStep, DeviceStep, DeviceNext
  <2>2. CASE Answered(t)
    BY <2>2 DEF Answered, DeviceStep, DeviceNext
  <2>3. CASE ReadHome(t, Home)
    <3>1. PICK h : h = Home
      OBVIOUS
    <3> QED
      BY <2>3, <3>1, HomeShows DEF DeviceNext
  <2>4. CASE GiveUp(t) \/ BeginRefresh(t) \/ RetainHome(t) \/ DropRefresh(t)
    BY <2>4 DEF DeviceStep, DeviceNext
  <2> QED
    BY <1>2, <2>1, <2>2, <2>3, <2>4 DEF LocalStep
<1>3. ASSUME NEW t \in Tabs, Send(t) PROVE DeviceNext
  BY <1>3 DEF Send, DeviceStep, DeviceNext
<1>4. ASSUME NEW t \in Tabs, Deliver(t) PROVE DeviceNext
  BY <1>4, DeliverFits DEF DeviceNext
<1>5. CASE DeliverUnheard \/ UNCHANGED deviceVars
  BY <1>5 DEF DeliverUnheard
<1> QED
  BY <1>1, <1>2, <1>3, <1>4, <1>5 DEF SyncNext

(* The composition implements the devices alone: the server and the network  *)
(* give no answer and no reading that OfflineTracking does not expect.       *)
THEOREM DevicesImplemented == SyncSpec => DeviceSpec
<1>1. SyncInit => DeviceInit
  BY DEF SyncInit
<1>2. SyncInv /\ [SyncNext]_syncVars => [DeviceNext]_deviceVars
  BY SyncIsDevice
<1> QED
  BY <1>1, <1>2, SyncInvariant, PTL DEF SyncSpec, DeviceSpec

(* It implements the server alone: the devices and the network bring no      *)
(* command that TimerRegistry does not expect.                               *)
THEOREM ServerImplemented == SyncSpec => R!Spec
<1>1. SyncInit => R!Init
  BY DEF SyncInit
<1>2. SyncInv /\ [SyncNext]_syncVars => [R!Next]_(R!vars)
  BY SyncStep
<1> QED
  BY <1>1, <1>2, SyncInvariant, PTL DEF SyncSpec, R!Spec

(* End to end, whatever the devices do and whatever the network delays,      *)
(* repeats or loses, the server settles each session of each device once and *)
(* records it once: the composition implements SessionLedger, since it is a  *)
(* behaviour of the server alone, which implements the ledger.               *)
THEOREM SessionsSettleOnce == SyncSpec => RP!SettlesOnce
<1>1. SyncInit => RP!Init
  BY SameServer DEF SyncInit
<1>2. SyncInv /\ [SyncNext]_syncVars => [RP!Next]_(RP!vars)
  BY SyncStep, SameServer
<1>3. SyncSpec => RP!Spec
  BY <1>1, <1>2, SyncInvariant, PTL DEF SyncSpec, RP!Spec
<1>4. RP!Spec => RP!SettlesOnce
  BY RP!RegistryImplementsLedger, RegistryConstants
<1> QED
  BY <1>3, <1>4, PTL
=============================================================================
