------------------------ MODULE OfflineTrackingProofs ------------------------
(***************************************************************************)
(* What the durable tracking of a device keeps, for every value of the     *)
(* constants: the order of its queue, what an answer may touch and which   *)
(* refresh is adopted.                                                     *)
(***************************************************************************)
EXTENDS OfflineTracking, WellFoundedInduction, TLAPS

USE TrackingAssumption

----------------------------------------------------------------------------
(* The queue without some operations *)

(* Induction, for a set of numbers.                                          *)
LEMMA Induction ==
  ASSUME NEW S, 0 \in S, \A n \in Nat : n \in S => n + 1 \in S
  PROVE  Nat \subseteq S
<1> DEFINE Missing == Nat \ S
<1> SUFFICES ASSUME Missing # {} PROVE FALSE
  OBVIOUS
<1>1. PICK m \in Missing : \A k \in Missing : ~(<<k, m>> \in OpToRel(<, Nat))
  BY NatLessThanWellFounded, WFMin
<1>2. \A k \in Missing : ~(k < m)
  BY <1>1 DEF OpToRel
<1>3. m # 0 /\ m \in Nat
  OBVIOUS
<1>4. m - 1 \in S /\ m - 1 \in Nat
  BY <1>2, <1>3
<1> QED
  BY <1>3, <1>4

(* One step of the filter Without runs over the queue, and its whole run.    *)
Filter(ops, gone, i, f) ==
    IF i = 0 THEN <<>>
    ELSE IF ops[i] \in gone THEN f[i - 1] ELSE Append(f[i - 1], ops[i])
Filters(ops, gone, n, f) == f = [i \in 0..n |-> Filter(ops, gone, i, f)]

(* The filter runs over a queue of any length.                               *)
LEMMA FilterExists ==
  ASSUME NEW ops, NEW gone
  PROVE  \A n \in Nat : \E f : Filters(ops, gone, n, f)
<1> DEFINE S == {n \in Nat : \E f : Filters(ops, gone, n, f)}
<1>1. 0 \in S
  <2> DEFINE f == [i \in 0..0 |-> <<>>]
  <2>1. Filters(ops, gone, 0, f)
    BY DEF Filters, Filter
  <2> QED
    BY <2>1
<1>2. ASSUME NEW n \in Nat, n \in S PROVE n + 1 \in S
  <2>1. PICK g : Filters(ops, gone, n, g)
    BY <1>2
  <2> DEFINE m == n + 1
             f == [i \in 0..m |-> IF i = m THEN Filter(ops, gone, m, g) ELSE g[i]]
  <2>2. \A i \in 0..n : f[i] = g[i] /\ f[i] = Filter(ops, gone, i, g)
    <3>1. \A i \in 0..n : g[i] = Filter(ops, gone, i, g)
      BY <2>1 DEF Filters
    <3>2. \A i \in 0..n : i \in 0..m /\ i # m
      OBVIOUS
    <3> QED
      BY <3>1, <3>2
  <2>3. ASSUME NEW i \in 0..m PROVE f[i] = Filter(ops, gone, i, f)
    <3>1. f[i] = Filter(ops, gone, i, g)
      <4>1. CASE i = m
        BY <4>1
      <4>2. CASE i # m
        <5>1. i \in 0..n
          BY <4>2
        <5> QED
          BY <2>2, <5>1
      <4> QED
        BY <4>1, <4>2
    <3>2. i = 0 \/ (i - 1 \in 0..n /\ f[i - 1] = g[i - 1])
      BY <2>2
    <3> QED
      BY <3>1, <3>2 DEF Filter
  <2>4. f = [i \in 0..m |-> f[i]]
    OBVIOUS
  <2>5. Filters(ops, gone, m, f)
    <3> HIDE DEF f
    <3> QED
      BY <2>3, <2>4 DEF Filters
  <2> QED
    BY <2>5
<1> HIDE DEF S
<1>3. Nat \subseteq S
  BY <1>1, <1>2, Induction
<1> QED
  BY <1>3 DEF S

(* What Without leaves is what its filter ends with.                         *)
LEMMA WithoutFilters ==
  ASSUME NEW st, NEW gone, Len(st.operations) \in Nat
  PROVE  \E f : /\ Filters(st.operations, gone, Len(st.operations), f)
                /\ Without(st, gone) = f[Len(st.operations)]
<1> DEFINE ops == st.operations
           kept[i \in 0..Len(ops)] ==
             IF i = 0 THEN <<>>
             ELSE IF ops[i] \in gone THEN kept[i - 1] ELSE Append(kept[i - 1], ops[i])
<1>1. PICK f : Filters(ops, gone, Len(ops), f)
  BY FilterExists
<1>2. f = [i \in 0..Len(ops) |->
             IF i = 0 THEN <<>>
             ELSE IF ops[i] \in gone THEN f[i - 1] ELSE Append(f[i - 1], ops[i])]
  BY <1>1 DEF Filters, Filter
<1>3. kept = [i \in 0..Len(ops) |->
                IF i = 0 THEN <<>>
                ELSE IF ops[i] \in gone THEN kept[i - 1] ELSE Append(kept[i - 1], ops[i])]
  BY <1>2
<1>4. Filters(ops, gone, Len(ops), kept)
  BY <1>3 DEF Filters, Filter
<1> QED
  BY <1>4 DEF Without

(* The rest r of a queue: operations of its first n positions that are not   *)
(* gone, all of them, in their order.                                        *)
Rest(ops, gone, n, r, pos) ==
    /\ pos \in [1..Len(r) -> 1..n]
    /\ \A k \in 1..Len(r) : r[k] = ops[pos[k]] /\ ops[pos[k]] \notin gone
    /\ \A j, k \in 1..Len(r) : j < k => pos[j] < pos[k]
    /\ \A i \in 1..n : ops[i] \notin gone => \E k \in 1..Len(r) : pos[k] = i

(* One operation more is left out or put at the end.                         *)
LEMMA RestGrows ==
  ASSUME NEW T, NEW ops \in Seq(T), NEW gone, NEW n \in Nat, n + 1 <= Len(ops),
         NEW r \in Seq(T), NEW pos, Rest(ops, gone, n, r, pos),
         NEW q, \/ ops[n + 1] \in gone /\ q = r
                \/ ops[n + 1] \notin gone /\ q = Append(r, ops[n + 1])
  PROVE  q \in Seq(T) /\ \E p : Rest(ops, gone, n + 1, q, p)
<1>1. n + 1 \in 1..Len(ops) /\ ops[n + 1] \in T /\ Len(r) \in Nat
  OBVIOUS
<1>2. CASE ops[n + 1] \in gone
  <2>1. pos \in [1..Len(r) -> 1..(n + 1)]
    BY DEF Rest
  <2>2. \A i \in 1..(n + 1) : ops[i] \notin gone => i \in 1..n
    BY <1>2
  <2>3. Rest(ops, gone, n + 1, r, pos)
    BY <2>1, <2>2 DEF Rest
  <2> QED
    BY <1>2, <2>3
<1>3. CASE ops[n + 1] \notin gone
  <2> DEFINE l == Len(r) + 1
             p == [k \in 1..l |-> IF k = l THEN n + 1 ELSE pos[k]]
  <2>1. q \in Seq(T) /\ Len(q) = l /\ q[l] = ops[n + 1] /\ \A k \in 1..Len(r) : q[k] = r[k]
    <3>1. q = Append(r, ops[n + 1]) /\ ops[n + 1] \in T
      BY <1>1, <1>3
    <3> QED
      BY <3>1
  <2>2. \A k \in 1..Len(r) : pos[k] \in 1..n
    BY DEF Rest
  <2>3. /\ p \in [1..l -> 1..(n + 1)] /\ p[l] = n + 1 /\ l \in Nat /\ l \in 1..l
        /\ \A k \in 1..Len(r) : k \in 1..l /\ p[k] = pos[k]
        /\ \A k \in 1..l : k = l \/ k \in 1..Len(r)
    BY <1>1, <2>2
  <2> HIDE DEF p, l
  <2>4. \A k \in 1..l : q[k] = ops[p[k]] /\ ops[p[k]] \notin gone
    BY <1>3, <2>1, <2>3 DEF Rest
  <2>5. \A j, k \in 1..l : j < k => p[j] < p[k]
    <3> SUFFICES ASSUME NEW j \in 1..l, NEW k \in 1..l, j < k PROVE p[j] < p[k]
      OBVIOUS
    <3>1. j \in 1..Len(r) /\ p[j] = pos[j] /\ pos[j] \in 1..n
      BY <1>1, <2>2, <2>3 DEF l
    <3>2. CASE k = l
      BY <2>3, <3>1, <3>2
    <3>3. CASE k # l
      BY <2>3, <3>1, <3>3 DEF Rest
    <3> QED
      BY <3>2, <3>3
  <2>6. ASSUME NEW i \in 1..(n + 1), ops[i] \notin gone PROVE \E k \in 1..l : p[k] = i
    <3>1. CASE i = n + 1
      BY <2>3, <3>1
    <3>2. CASE i # n + 1
      <4>1. i \in 1..n
        BY <3>2
      <4>2. PICK k \in 1..Len(r) : pos[k] = i
        BY <2>6, <4>1 DEF Rest
      <4> QED
        BY <2>3, <4>2
    <3> QED
      BY <3>1, <3>2
  <2>7. Rest(ops, gone, n + 1, q, p)
    BY <2>1, <2>3, <2>4, <2>5, <2>6 DEF Rest
  <2> QED
    BY <2>1, <2>7
<1> QED
  BY <1>2, <1>3

(* Without leaves the operations that are not gone, in their order.          *)
LEMMA WithoutLeavesRest ==
  ASSUME NEW T, NEW st, st.operations \in Seq(T), NEW gone
  PROVE  /\ Without(st, gone) \in Seq(T)
         /\ \E pos : Rest(st.operations, gone, Len(st.operations), Without(st, gone), pos)
<1> DEFINE ops == st.operations
           Good(n, r) == r \in Seq(T) /\ \E pos : Rest(ops, gone, n, r, pos)
<1>1. Len(ops) \in Nat
  OBVIOUS
<1>2. PICK f : Filters(ops, gone, Len(ops), f) /\ Without(st, gone) = f[Len(ops)]
  BY <1>1, WithoutFilters
<1>3. \A i \in 0..Len(ops) : f[i] = Filter(ops, gone, i, f)
  BY <1>2 DEF Filters
<1> DEFINE S == {n \in Nat : n <= Len(ops) => Good(n, f[n])}
<1>4. 0 \in S
  <2>1. f[0] = <<>>
    BY <1>1, <1>3 DEF Filter
  <2>2. <<>> \in [1..0 -> 1..0] /\ Len(<<>>) = 0 /\ <<>> \in Seq(T)
    OBVIOUS
  <2>3. Rest(ops, gone, 0, <<>>, <<>>)
    BY <2>2 DEF Rest
  <2> QED
    BY <2>1, <2>2, <2>3
<1>5. ASSUME NEW n \in Nat, n \in S PROVE n + 1 \in S
  <2> SUFFICES ASSUME n + 1 <= Len(ops) PROVE Good(n + 1, f[n + 1])
    OBVIOUS
  <2>1. n <= Len(ops) /\ n + 1 \in 0..Len(ops) /\ n + 1 # 0 /\ (n + 1) - 1 = n
    BY <1>1
  <2>2. f[n + 1] = IF ops[n + 1] \in gone THEN f[n] ELSE Append(f[n], ops[n + 1])
    BY <1>3, <2>1 DEF Filter
  <2>3. PICK pos : f[n] \in Seq(T) /\ Rest(ops, gone, n, f[n], pos)
    BY <1>5, <2>1
  <2>4. ops \in Seq(T) /\ n + 1 <= Len(ops)
    OBVIOUS
  <2> HIDE DEF ops
  <2>5. \/ ops[n + 1] \in gone /\ f[n + 1] = f[n]
        \/ ops[n + 1] \notin gone /\ f[n + 1] = Append(f[n], ops[n + 1])
    BY <2>2
  <2> QED
    BY <2>3, <2>4, <2>5, RestGrows
<1> HIDE DEF S
<1>6. Nat \subseteq S
  BY <1>4, <1>5, Induction
<1> QED
  BY <1>1, <1>2, <1>6 DEF S
----------------------------------------------------------------------------
(* The invariant *)

Ranges == [after : Nat, through : Nat]
Snapshots ==
    [revision : Nat, range : Ranges \cup {None}, paths : SUBSET Paths,
     unavailable : SUBSET Paths, timers : SUBSET TimerIds,
     operations : Seq(Operations), corrections : SUBSET TimerIds,
     notices : SUBSET Notices, unreflected : SUBSET TimerIds,
     counted : SUBSET TimerIds]
Drains == [op : Operations, answer : Answers \cup {None}, running : BOOLEAN]
Homes == [paths : SUBSET Paths, counted : SUBSET TimerIds, timers : SUBSET TimerIds]
Refreshes == [expected : Nat, clean : BOOLEAN, reply : Homes \cup {None}]

(* A start comes before the one end of its session.                          *)
Chained(ops) ==
    \A i, j \in 1..Len(ops) :
      i < j /\ ops[i].session = ops[j].session =>
        ops[i].kind = "start" /\ ops[j].kind # "start"

(* The queue is causal, what runs waits for nothing but the replay of its    *)
(* start, and a Path runs one timer.                                         *)
Orderly(st) ==
    /\ Chained(st.operations)
    /\ \A op \in Queued(st) : op.session \in st.timers => op.kind = "start"
    /\ st.timers \cap st.corrections = {}
    /\ \A a, b \in st.timers : PathOf[a] = PathOf[b] => a = b

(* The revisions of downloaded history lie behind the present one.           *)
RangeFits(st) ==
    st.range # None => st.range.after < st.range.through /\ st.range.through <= st.revision

(* A device holds no session of its own before it begins.                    *)
HeldHasBegun(st, d, sessions) ==
    \A s \in TimerIds : Origin[s] = d /\ Held(st, s) => s \in sessions

(* A read shows what has begun, and a refresh is clean as long as its read   *)
(* would be adopted.                                                         *)
ReadFits(r, st) ==
    /\ r.expected <= st.revision
    /\ r.clean <=> Fresh(st, r.expected)
    /\ r.reply # None => r.reply \in Replies

DeviceInv ==
    /\ store \in [Devices -> Snapshots]
    /\ drain \in [Tabs -> Drains \cup {None}]
    /\ refresh \in [Tabs -> Refreshes \cup {None}]
    /\ begun \subseteq TimerIds
    /\ tries \in [TimerIds -> 0..MaxTries]
    /\ \A d \in Devices :
          /\ Orderly(store[d]) /\ RangeFits(store[d])
          /\ HeldHasBegun(store[d], d, begun)
    /\ \A t \in Tabs : refresh[t] # None => ReadFits(refresh[t], store[DeviceOf[t]])

(* No device holds anything before its first session.                        *)
LEMMA DeviceInvHoldsInitially == DeviceInit => DeviceInv
<1> SUFFICES ASSUME DeviceInit PROVE DeviceInv
  OBVIOUS
<1>1. NewSnapshot \in Snapshots
  BY DEF NewSnapshot, Snapshots
<1>2. /\ Len(NewSnapshot.operations) = 0 /\ NewSnapshot.timers = {} /\ NewSnapshot.corrections = {}
      /\ NewSnapshot.range = None
  BY DEF NewSnapshot
<1>3. Queued(NewSnapshot) = {}
  BY <1>2 DEF Queued
<1>4. Orderly(NewSnapshot) /\ RangeFits(NewSnapshot)
  BY <1>2, <1>3 DEF Orderly, Chained, RangeFits
<1>5. \A s \in TimerIds : ~Held(NewSnapshot, s)
  BY <1>2, <1>3 DEF Held, QueuedFor
<1>6. tries \in [TimerIds -> 0..MaxTries]
  BY DEF DeviceInit
<1> QED
  BY <1>1, <1>4, <1>5, <1>6 DEF DeviceInit, DeviceInv, HeldHasBegun

(* A change of the snapshot that keeps it in order refuses every read that   *)
(* was asked for before.                                                     *)
LEMMA CommitKeeps ==
  ASSUME DeviceInv, NEW d \in Devices, NEW x \in Snapshots, Commit(d, x),
         x.revision = store[d].revision, x.range = store[d].range, Orderly(x),
         begun \subseteq begun', begun' \subseteq TimerIds, HeldHasBegun(x, d, begun'),
         drain' \in [Tabs -> Drains \cup {None}], tries' \in [TimerIds -> 0..MaxTries]
  PROVE  DeviceInv'
<1> DEFINE y == [x EXCEPT !.revision = x.revision + 1]
<1>1. /\ store' = [store EXCEPT ![d] = y]
      /\ refresh' = [t \in Tabs |-> IF DeviceOf[t] = d /\ refresh[t] # None
                                    THEN [refresh[t] EXCEPT !.clean = FALSE] ELSE refresh[t]]
  BY DEF Commit
<1>2. /\ y \in Snapshots /\ y.revision = store[d].revision + 1 /\ y.range = store[d].range
      /\ y.timers = x.timers /\ y.operations = x.operations /\ y.corrections = x.corrections
  <2>1. x.revision \in Nat /\ x.revision + 1 \in Nat
    BY DEF Snapshots
  <2>2. y \in Snapshots
    BY <2>1 DEF Snapshots
  <2> QED
    BY <2>2 DEF Snapshots
<1> HIDE DEF y
<1>3. /\ store' \in [Devices -> Snapshots] /\ store'[d] = y
      /\ \A e \in Devices \ {d} : store'[e] = store[e]
  BY <1>1, <1>2 DEF DeviceInv
<1>4. Queued(y) = Queued(x) /\ \A s : Held(y, s) <=> Held(x, s)
  BY <1>2 DEF Queued, Held, QueuedFor
<1>5. Orderly(y) /\ RangeFits(y) /\ HeldHasBegun(y, d, begun')
  <2>1. Orderly(y) /\ HeldHasBegun(y, d, begun')
    BY <1>2, <1>4 DEF Orderly, HeldHasBegun
  <2>2. RangeFits(y)
    BY <1>2 DEF DeviceInv, RangeFits, Snapshots, Ranges
  <2> QED
    BY <2>1, <2>2
<1>6. \A e \in Devices \ {d} : HeldHasBegun(store[e], e, begun')
  BY DEF DeviceInv, HeldHasBegun
<1>7. \A r \in Replies : r \in Replies'
  BY DEF Replies
<1>8. refresh' \in [Tabs -> Refreshes \cup {None}]
  BY ZenonT(60), <1>1 DEF DeviceInv, Refreshes
<1>9. ASSUME NEW t \in Tabs, refresh'[t] # None
      PROVE  ReadFits(refresh[t], store[DeviceOf[t]])'
  <2>1. DeviceOf[t] \in Devices /\ refresh[t] # None /\ refresh[t] \in Refreshes
    BY <1>1, <1>9 DEF DeviceInv
  <2>2. ReadFits(refresh[t], store[DeviceOf[t]])
    BY <2>1 DEF DeviceInv
  <2>3. CASE DeviceOf[t] = d
    <3>1. refresh'[t] = [refresh[t] EXCEPT !.clean = FALSE]
      BY <1>1, <2>1, <2>3
    <3>2. /\ refresh'[t].expected = refresh[t].expected /\ refresh'[t].reply = refresh[t].reply
          /\ ~refresh'[t].clean
      BY <2>1, <3>1 DEF Refreshes
    <3>3. ~Fresh(y, refresh[t].expected) /\ refresh[t].expected <= y.revision
      <4>1. refresh[t].expected \in Nat /\ store[d].revision \in Nat
        BY <2>1 DEF Refreshes, DeviceInv, Snapshots
      <4>2. RevisionRange(y) = None
        BY <1>2, <4>1 DEF DeviceInv, RangeFits, RevisionRange, Snapshots, Ranges
      <4> QED
        BY <1>2, <2>2, <2>3, <4>1, <4>2 DEF ReadFits, Fresh
    <3> QED
      BY <1>3, <1>7, <2>2, <2>3, <3>2, <3>3 DEF ReadFits, Fresh, RevisionRange
  <2>4. CASE DeviceOf[t] # d
    <3>1. refresh'[t] = refresh[t] /\ store'[DeviceOf[t]] = store[DeviceOf[t]]
      BY <1>1, <1>3, <2>1, <2>4
    <3> QED
      BY <1>7, <2>2, <3>1 DEF ReadFits, Fresh, RevisionRange
  <2> QED
    BY <2>3, <2>4
<1> QED
  BY <1>3, <1>5, <1>6, <1>8, <1>9 DEF DeviceInv
----------------------------------------------------------------------------
(* Changes of the snapshot *)

(* A change that keeps the order and holds no session it did not hold.       *)
Follows(x, st) ==
    /\ x \in Snapshots /\ Orderly(x)
    /\ x.revision = st.revision /\ x.range = st.range
    /\ \A s \in TimerIds : Held(x, s) => Held(st, s)

(* What the device holds of a session stays as it is.                        *)
Untouched(x, st, s) ==
    /\ QueuedFor(x, s) = QueuedFor(st, s)
    /\ s \in x.timers <=> s \in st.timers
    /\ s \in x.corrections <=> s \in st.corrections

(* Without takes exactly what it is told, and the rest stays causal.         *)
LEMMA WithoutStaysChained ==
  ASSUME NEW st \in Snapshots, Chained(st.operations), NEW gone,
         NEW x, x.operations = Without(st, gone)
  PROVE  /\ x.operations \in Seq(Operations) /\ Chained(x.operations)
         /\ Queued(x) = Queued(st) \ gone
<1> DEFINE ops == st.operations
           rest == Without(st, gone)
<1>1. ops \in Seq(Operations)
  BY DEF Snapshots
<1>2. rest \in Seq(Operations) /\ \E pos : Rest(ops, gone, Len(ops), rest, pos)
  BY <1>1, WithoutLeavesRest
<1>3. PICK pos : Rest(ops, gone, Len(ops), rest, pos)
  BY <1>2
<1> HIDE DEF rest, ops
<1>4. /\ \A k \in 1..Len(rest) : pos[k] \in 1..Len(ops) /\ rest[k] = ops[pos[k]] /\ rest[k] \notin gone
      /\ \A j, k \in 1..Len(rest) : j < k => pos[j] < pos[k]
      /\ \A i \in 1..Len(ops) : ops[i] \notin gone => \E k \in 1..Len(rest) : pos[k] = i
  BY <1>3 DEF Rest
<1>5. Chained(rest)
  <2> SUFFICES ASSUME NEW j \in 1..Len(rest), NEW k \in 1..Len(rest), j < k,
                      rest[j].session = rest[k].session
               PROVE  rest[j].kind = "start" /\ rest[k].kind # "start"
    BY DEF Chained
  <2>1. Chained(ops)
    BY DEF ops
  <2>2. /\ pos[j] \in 1..Len(ops) /\ pos[k] \in 1..Len(ops) /\ pos[j] < pos[k]
        /\ rest[j] = ops[pos[j]] /\ rest[k] = ops[pos[k]]
    BY <1>4
  <2> QED
    BY <2>1, <2>2 DEF Chained
<1>6. {rest[k] : k \in 1..Len(rest)} = {ops[i] : i \in 1..Len(ops)} \ gone
  <2>1. ASSUME NEW i \in 1..Len(ops), ops[i] \notin gone PROVE \E k \in 1..Len(rest) : rest[k] = ops[i]
    BY <1>4, <2>1
  <2>2. {ops[i] : i \in 1..Len(ops)} \ gone \subseteq {rest[k] : k \in 1..Len(rest)}
    BY <2>1
  <2>3. {rest[k] : k \in 1..Len(rest)} \subseteq {ops[i] : i \in 1..Len(ops)} \ gone
    BY SMTT(30), <1>4
  <2> QED
    BY <2>2, <2>3
<1> QED
  BY <1>2, <1>5, <1>6 DEF Queued, ops, rest

(* An end may follow the start of its session, a start an empty queue.       *)
LEMMA AppendStaysChained ==
  ASSUME NEW st \in Snapshots, Chained(st.operations), NEW op \in Operations,
         \A o \in QueuedFor(st, op.session) : o.kind = "start" /\ op.kind # "start",
         NEW x, x.operations = Append(st.operations, op)
  PROVE  /\ x.operations \in Seq(Operations) /\ Chained(x.operations)
         /\ Queued(x) = Queued(st) \cup {op}
<1> DEFINE ops == st.operations
           n == Len(ops)
<1>1. ops \in Seq(Operations) /\ n \in Nat
  BY DEF Snapshots
<1>2. x.operations \in Seq(Operations) /\ Len(x.operations) = n + 1 /\ x.operations[n + 1] = op
  BY <1>1
<1>3. \A i \in 1..n : x.operations[i] = ops[i]
  BY <1>1
<1>4. \A i \in 1..n : ops[i].session = op.session => ops[i].kind = "start" /\ op.kind # "start"
  BY DEF QueuedFor, Queued
<1> HIDE DEF ops, n
<1>5. Chained(x.operations)
  <2> SUFFICES ASSUME NEW i \in 1..(n + 1), NEW j \in 1..(n + 1), i < j,
                      x.operations[i].session = x.operations[j].session
               PROVE  x.operations[i].kind = "start" /\ x.operations[j].kind # "start"
    BY <1>2 DEF Chained
  <2>1. i \in 1..n
    BY <1>1
  <2>2. CASE j = n + 1
    BY <1>2, <1>3, <1>4, <2>1, <2>2
  <2>3. CASE j # n + 1
    <3>1. j \in 1..n
      BY <1>1, <2>3
    <3> QED
      BY <1>3, <2>1, <3>1 DEF Chained, ops, n
  <2> QED
    BY <2>2, <2>3
<1>6. Queued(x) = {ops[i] : i \in 1..n} \cup {op}
  <2>1. \A i \in 1..(n + 1) : i \in 1..n \/ i = n + 1
    BY <1>1
  <2>2. \A i \in 1..n : i \in 1..(n + 1)
    BY <1>1
  <2>3. n + 1 \in 1..(n + 1)
    BY <1>1
  <2> QED
    BY SMTT(30), <1>2, <1>3, <2>1, <2>2, <2>3 DEF Queued
<1> QED
  BY <1>2, <1>5, <1>6 DEF Queued, ops, n

(* The kinds of operations.                                                  *)
LEMMA OperationKinds ==
  /\ \A s \in TimerIds : Operation("start", s, None, None, 0) \in Operations
  /\ \A s \in TimerIds, e \in Instants : Operation("stop", s, None, e, 0) \in Operations
  /\ \A s \in TimerIds, b, e \in Instants, n \in 1..MaxTries :
        Operation("correct", s, b, e, n) \in Operations
  /\ \A op \in Operations : op.session \in TimerIds
  /\ \A kind, s, b, e, n : /\ Operation(kind, s, b, e, n).kind = kind
                           /\ Operation(kind, s, b, e, n).session = s
<1>1. \A kind, s, b, e, n : /\ Operation(kind, s, b, e, n).kind = kind
                            /\ Operation(kind, s, b, e, n).session = s
  BY DEF Operation
<1>2. \A s \in TimerIds : Operation("start", s, None, None, 0) \in Operations
  BY DEF Operations
<1>3. \A s \in TimerIds, e \in Instants : Operation("stop", s, None, e, 0) \in Operations
  BY DEF Operations
<1>4. \A s \in TimerIds, b, e \in Instants, n \in 1..MaxTries :
        Operation("correct", s, b, e, n) \in Operations
  BY DEF Operations
<1>5. \A op \in Operations : op.session \in TimerIds
  BY <1>1 DEF Operations
<1> QED
  BY <1>1, <1>2, <1>3, <1>4, <1>5

(* The stop of a running timer touches no other session.                     *)
LEMMA StopFollows ==
  ASSUME NEW st \in Snapshots, Orderly(st), NEW s \in st.timers, NEW end \in Instants
  PROVE  /\ Follows(QueueStop(st, s, end), st)
         /\ \A r \in TimerIds \ {s} : Untouched(QueueStop(st, s, end), st, r)
<1>1. s \in TimerIds
  BY DEF Snapshots
<1>2. CASE end <= StartedAt[s]
  <2> DEFINE x == [st EXCEPT !.timers = st.timers \ {s}, !.corrections = st.corrections \cup {s}]
  <2>1. /\ QueueStop(st, s, end) = x /\ x \in Snapshots
        /\ x.timers = st.timers \ {s} /\ x.corrections = st.corrections \cup {s}
        /\ x.operations = st.operations /\ x.revision = st.revision /\ x.range = st.range
    BY <1>1, <1>2 DEF QueueStop, Snapshots
  <2> HIDE DEF x
  <2>2. Queued(x) = Queued(st)
    BY <2>1 DEF Queued
  <2> QED
    BY <2>1, <2>2 DEF Follows, Untouched, Orderly, Held, QueuedFor
<1>3. CASE ~(end <= StartedAt[s])
  <2> DEFINE op == Operation("stop", s, None, end, 0)
             x == [st EXCEPT !.timers = st.timers \ {s}, !.operations = Append(st.operations, op)]
  <2>1. op \in Operations /\ op.session = s /\ op.kind = "stop"
    BY <1>1, OperationKinds
  <2> HIDE DEF op
  <2>2. Append(st.operations, op) \in Seq(Operations)
    BY <2>1 DEF Snapshots
  <2>3. /\ QueueStop(st, s, end) = x /\ x \in Snapshots
        /\ x.timers = st.timers \ {s} /\ x.corrections = st.corrections
        /\ x.operations = Append(st.operations, op) /\ x.revision = st.revision /\ x.range = st.range
    BY <1>1, <1>3, <2>2 DEF QueueStop, Snapshots, op
  <2> HIDE DEF x
  <2>4. \A o \in QueuedFor(st, op.session) : o.kind = "start" /\ op.kind # "start"
    BY <2>1 DEF Orderly, QueuedFor
  <2>5. Chained(x.operations) /\ Queued(x) = Queued(st) \cup {op}
    <3>1. Chained(st.operations) /\ x.operations = Append(st.operations, op)
      BY <2>3 DEF Orderly
    <3> QED
      BY <2>1, <2>4, <3>1, AppendStaysChained
  <2> QED
    BY <2>1, <2>3, <2>5 DEF Follows, Untouched, Orderly, Held, QueuedFor
<1> QED
  BY <1>2, <1>3

(* A change after a change that both keep the order.                         *)
LEMMA FollowsTwice ==
  ASSUME NEW x, NEW y, NEW z, Follows(y, x), Follows(z, y)
  PROVE  Follows(z, x)
BY DEF Follows

(* An entry that the server recorded is counted until a refresh has it.      *)
LEMMA LearnedFollows ==
  ASSUME NEW st \in Snapshots, Orderly(st), NEW s \in TimerIds, NEW answer
  PROVE  LET x == Learned(st, s, answer)
         IN  /\ Follows(x, st) /\ Queued(x) = Queued(st)
             /\ x.timers = st.timers /\ x.corrections = st.corrections
<1> DEFINE x == Learned(st, s, answer)
<1>1. /\ x \in Snapshots /\ x.operations = st.operations /\ x.timers = st.timers
      /\ x.corrections = st.corrections /\ x.revision = st.revision /\ x.range = st.range
  <2> DEFINE y == [st EXCEPT !.unreflected = st.unreflected \cup {s}]
  <2>1. /\ y \in Snapshots /\ y.operations = st.operations /\ y.timers = st.timers
        /\ y.corrections = st.corrections /\ y.revision = st.revision /\ y.range = st.range
    BY DEF Snapshots
  <2>2. x = y \/ x = st
    BY DEF Learned
  <2> HIDE DEF x, y
  <2> QED
    BY <2>1, <2>2
<1> HIDE DEF x
<1>2. Queued(x) = Queued(st)
  BY <1>1 DEF Queued
<1>3. Follows(x, st)
  BY <1>1, <1>2 DEF Follows, Orderly, Held, QueuedFor
<1> QED
  BY <1>1, <1>2, <1>3 DEF x

(* An accepted command leaves the queue; nothing else but its session moves. *)
LEMMA AcceptedFollows ==
  ASSUME NEW st \in Snapshots, Orderly(st), NEW op \in Queued(st), NEW answer, NEW end \in Instants
  PROVE  /\ Follows(Accepted(st, op, answer, end), st)
         /\ \A r \in TimerIds \ {op.session} : Untouched(Accepted(st, op, answer, end), st, r)
<1> DEFINE s == op.session
           gone == IF answer.terminal THEN QueuedFor(st, s) ELSE {op}
           kept == IF answer.terminal THEN st.timers \ {s} ELSE st.timers
           x == [st EXCEPT !.operations = Without(st, gone), !.timers = kept]
<1>1. Accepted(st, op, answer, end) = IF answer.mustStop /\ s \in kept THEN QueueStop(x, s, end) ELSE x
  BY DEF Accepted
<1>2. op \in Operations /\ s \in TimerIds /\ gone \subseteq QueuedFor(st, s) /\ kept \subseteq st.timers
  <2>1. op \in Operations
    BY DEF Queued, Snapshots
  <2> QED
    BY <2>1, OperationKinds DEF QueuedFor
<1> HIDE DEF s, gone, kept
<1>3. Without(st, gone) \in Seq(Operations)
  BY WithoutLeavesRest DEF Snapshots
<1>4. /\ x \in Snapshots /\ x.operations = Without(st, gone) /\ x.timers = kept
      /\ x.corrections = st.corrections /\ x.revision = st.revision /\ x.range = st.range
  BY <1>2, <1>3 DEF Snapshots
<1> HIDE DEF x
<1>5. Chained(x.operations) /\ Queued(x) = Queued(st) \ gone
  BY <1>4, WithoutStaysChained DEF Orderly
<1>6. Follows(x, st)
  BY <1>2, <1>4, <1>5 DEF Follows, Orderly, Held, QueuedFor
<1>7. \A r \in TimerIds \ {s} : Untouched(x, st, r)
  BY <1>2, <1>4, <1>5 DEF Untouched, QueuedFor, kept
<1>8. CASE answer.mustStop /\ s \in kept
  <2>1. Follows(QueueStop(x, s, end), x) /\ \A r \in TimerIds \ {s} : Untouched(QueueStop(x, s, end), x, r)
    BY <1>4, <1>6, <1>8, StopFollows DEF Follows
  <2>2. Follows(QueueStop(x, s, end), st)
    BY <1>6, <2>1, FollowsTwice
  <2> QED
    BY <1>1, <1>7, <1>8, <2>1, <2>2 DEF Untouched, s
<1>9. CASE ~(answer.mustStop /\ s \in kept)
  BY <1>1, <1>6, <1>7, <1>9 DEF s
<1> QED
  BY <1>8, <1>9

(* What a rejection reaches: its session, or with the membership its Path.   *)
Reached(op, answer, r) ==
    r = op.session \/ (answer.reason = "membership" /\ PathOf[r] = PathOf[op.session])

(* A rejected command takes with it what it reaches.                         *)
LEMMA RejectedFollows ==
  ASSUME NEW st \in Snapshots, Orderly(st), NEW op \in Queued(st), NEW answer,
         answer.reason \in Reasons
  PROVE  /\ Follows(Rejected(st, op, answer), st)
         /\ \A r \in TimerIds : Reached(op, answer, r) \/ Untouched(Rejected(st, op, answer), st, r)
<1> DEFINE s == op.session
           Over(r) == Reached(op, answer, r)
           gone == {o \in Queued(st) : Over(o.session)}
           timers == {r \in st.timers : ~Over(r)}
           review == IF op.kind = "correct" /\ answer.reason = "validation" THEN {s} ELSE {}
           corrections == {r \in st.corrections : ~Over(r)} \cup review
           unavailable == IF answer.reason = "membership" THEN st.unavailable \cup {PathOf[s]}
                          ELSE st.unavailable
           notices == st.notices \cup {[session |-> s, reason |-> answer.reason]}
           x == [st EXCEPT !.operations = Without(st, gone), !.timers = timers,
                           !.corrections = corrections, !.unavailable = unavailable,
                           !.notices = notices]
<1>1. Rejected(st, op, answer) = x
  BY DEF Rejected, Reached
<1>2. op \in Operations /\ s \in TimerIds /\ PathOf[s] \in Paths
  <2>1. op \in Operations
    BY DEF Queued, Snapshots
  <2> QED
    BY <2>1, OperationKinds
<1>3. /\ Without(st, gone) \in Seq(Operations)
      /\ timers \subseteq TimerIds /\ corrections \subseteq TimerIds
      /\ unavailable \subseteq Paths /\ notices \subseteq Notices
  <2>1. Without(st, gone) \in Seq(Operations)
    BY WithoutLeavesRest DEF Snapshots
  <2>2. timers \subseteq TimerIds /\ corrections \subseteq TimerIds
    BY <1>2 DEF Snapshots
  <2>3. unavailable \subseteq Paths /\ notices \subseteq Notices
    BY <1>2 DEF Snapshots, Notices
  <2> QED
    BY <2>1, <2>2, <2>3
<1> HIDE DEF gone, timers, corrections, unavailable, notices
<1>4. /\ x \in Snapshots /\ x.operations = Without(st, gone) /\ x.timers = timers
      /\ x.corrections = corrections /\ x.revision = st.revision /\ x.range = st.range
  BY <1>3 DEF Snapshots
<1> HIDE DEF x
<1>5. Chained(x.operations) /\ Queued(x) = Queued(st) \ gone
  BY <1>4, WithoutStaysChained DEF Orderly
<1>6. Over(s) /\ \A r \in TimerIds : Held(x, r) => Held(st, r)
  BY <1>4, <1>5 DEF Held, QueuedFor, timers, corrections, Reached
<1>7. Orderly(x)
  BY <1>4, <1>5, <1>6 DEF Orderly, timers, corrections
<1>8. \A r \in TimerIds : Over(r) \/ Untouched(x, st, r)
  BY <1>4, <1>5, <1>6 DEF Untouched, QueuedFor, gone, timers, corrections
<1> QED
  BY <1>1, <1>4, <1>6, <1>7, <1>8 DEF Follows

(* What an answer says.                                                      *)
LEMMA AnswerReasons ==
  \A answer \in Answers : answer.reason = None \/ answer.reason \in Reasons
BY DEF Answers, Answer, Reasons

(* An answer moves what it reaches, and only while its command is queued.    *)
LEMMA SettledFollows ==
  ASSUME NEW st \in Snapshots, Orderly(st), NEW op \in Operations, NEW answer \in Answers,
         NEW end \in Instants
  PROVE  /\ Follows(Settled(st, op, answer, end), st)
         /\ \A r \in TimerIds :
              (Reached(op, answer, r) /\ op \in Queued(st)) \/ Untouched(Settled(st, op, answer, end), st, r)
<1> DEFINE x == Settled(st, op, answer, end)
           y == Learned(st, op.session, answer)
<1>1. CASE op \notin Queued(st)
  <2>1. x = st
    BY <1>1 DEF Settled
  <2> QED
    BY <2>1 DEF Follows, Untouched
<1>2. CASE op \in Queued(st)
  <2>1. op.session \in TimerIds
    BY OperationKinds
  <2>2. /\ Follows(y, st) /\ Queued(y) = Queued(st)
        /\ y.timers = st.timers /\ y.corrections = st.corrections
    BY <2>1, LearnedFollows
  <2>3. x = IF answer.reason = None THEN Accepted(y, op, answer, end) ELSE Rejected(y, op, answer)
    BY <1>2 DEF Settled, SettledUnchecked
  <2> HIDE DEF x, y
  <2>4. y \in Snapshots /\ Orderly(y) /\ op \in Queued(y)
    BY <1>2, <2>2 DEF Follows
  <2>5. \A r : Untouched(x, y, r) => Untouched(x, st, r)
    BY <2>2 DEF Untouched, QueuedFor
  <2>6. CASE answer.reason = None
    <3>1. Follows(x, y) /\ \A r \in TimerIds \ {op.session} : Untouched(x, y, r)
      BY <2>3, <2>4, <2>6, AcceptedFollows
    <3>2. Follows(x, st)
      BY <2>2, <3>1, FollowsTwice
    <3> QED
      BY <1>2, <2>5, <3>1, <3>2 DEF Reached, x
  <2>7. CASE answer.reason # None
    <3>1. answer.reason \in Reasons
      BY <2>7, AnswerReasons
    <3>2. Follows(x, y) /\ \A r \in TimerIds : Reached(op, answer, r) \/ Untouched(x, y, r)
      BY <2>3, <2>4, <2>7, <3>1, RejectedFollows
    <3>3. Follows(x, st)
      BY <2>2, <3>2, FollowsTwice
    <3> QED
      BY <1>2, <2>5, <3>2, <3>3 DEF x
  <2> QED
    BY <2>6, <2>7
<1> QED
  BY <1>1, <1>2

----------------------------------------------------------------------------
(* The steps *)

(* The snapshot a tab works on.                                              *)
LEMMA TabStore ==
  ASSUME DeviceInv, NEW t \in Tabs
  PROVE  /\ DeviceOf[t] \in Devices /\ store[DeviceOf[t]] \in Snapshots
         /\ Orderly(store[DeviceOf[t]]) /\ RangeFits(store[DeviceOf[t]])
         /\ HeldHasBegun(store[DeviceOf[t]], DeviceOf[t], begun)
BY DEF DeviceInv

(* A session begins on its device, on a Path where none runs.                *)
LEMMA StartKeeps ==
  ASSUME DeviceInv, NEW t \in Tabs, NEW s \in TimerIds, StartTimer(t, s)
  PROVE  DeviceInv'
<1> DEFINE d == DeviceOf[t]
           st == store[d]
           op == Operation("start", s, None, None, 0)
           x == [st EXCEPT !.timers = st.timers \cup {s}, !.operations = Append(st.operations, op)]
<1>1. /\ Commit(d, x) /\ begun' = begun \cup {s} /\ drain' = drain /\ tries' = tries
      /\ Origin[s] = d /\ s \notin begun /\ On(PathOf[s], st.timers) = {}
  BY DEF StartTimer, MayStart
<1>2. st \in Snapshots /\ d \in Devices /\ Orderly(st) /\ HeldHasBegun(st, d, begun)
  BY TabStore
<1>3. op \in Operations /\ op.session = s /\ op.kind = "start"
  BY OperationKinds
<1> HIDE DEF op
<1>4. Append(st.operations, op) \in Seq(Operations)
  BY <1>2, <1>3 DEF Snapshots
<1> HIDE DEF st, d
<1>5. /\ x \in Snapshots /\ x.timers = st.timers \cup {s} /\ x.corrections = st.corrections
      /\ x.operations = Append(st.operations, op) /\ x.revision = st.revision /\ x.range = st.range
  BY <1>2, <1>4 DEF Snapshots
<1> HIDE DEF x
<1>6. s \notin st.timers /\ s \notin st.corrections /\ QueuedFor(st, s) = {}
  BY <1>1, <1>2 DEF HeldHasBegun, Held
<1>7. Chained(x.operations) /\ Queued(x) = Queued(st) \cup {op}
  <2>1. Chained(st.operations) /\ \A o \in QueuedFor(st, op.session) : o.kind = "start" /\ op.kind # "start"
    BY <1>2, <1>3, <1>6 DEF Orderly
  <2> QED
    BY ZenonT(60), <1>2, <1>3, <1>5, <2>1, AppendStaysChained
<1>8. Orderly(x)
  <2>1. \A o \in Queued(x) : o.session \in x.timers => o.kind = "start"
    BY <1>2, <1>3, <1>5, <1>6, <1>7 DEF Orderly, QueuedFor
  <2>2. \A a, b \in x.timers : PathOf[a] = PathOf[b] => a = b
    BY <1>1, <1>2, <1>5 DEF Orderly, On
  <2> QED
    BY <1>2, <1>5, <1>6, <1>7, <2>1, <2>2 DEF Orderly
<1>9. HeldHasBegun(x, d, begun') /\ begun \subseteq begun' /\ begun' \subseteq TimerIds
  <2>1. \A r \in TimerIds \ {s} : Held(x, r) => Held(st, r)
    BY <1>3, <1>5, <1>7 DEF Held, QueuedFor
  <2> QED
    BY <1>1, <1>2, <2>1 DEF HeldHasBegun, DeviceInv
<1> QED
  BY <1>1, <1>2, <1>5, <1>8, <1>9, CommitKeeps DEF DeviceInv, st

(* A change that follows keeps the invariant.                                *)
LEMMA FollowingKeeps ==
  ASSUME DeviceInv, NEW d \in Devices, NEW x, Follows(x, store[d]), Commit(d, x),
         begun' = begun,
         drain' \in [Tabs -> Drains \cup {None}], tries' \in [TimerIds -> 0..MaxTries]
  PROVE  DeviceInv'
<1>1. HeldHasBegun(x, d, begun') /\ begun \subseteq begun' /\ begun' \subseteq TimerIds
  BY DEF Follows, HeldHasBegun, DeviceInv
<1> QED
  BY <1>1, CommitKeeps DEF Follows

(* A stop ends its session, or waits for a correction.                       *)
LEMMA StopKeeps ==
  ASSUME DeviceInv, NEW t \in Tabs, NEW s \in TimerIds, NEW end \in Instants, StopTimer(t, s, end)
  PROVE  DeviceInv'
<1> DEFINE d == DeviceOf[t]
           x == QueueStop(store[d], s, end)
<1>1. s \in store[d].timers /\ Commit(d, x) /\ begun' = begun /\ drain' = drain /\ tries' = tries
  BY DEF StopTimer
<1>2. d \in Devices /\ Follows(x, store[d])
  BY <1>1, TabStore, StopFollows
<1> HIDE DEF x, d
<1> QED
  BY <1>1, <1>2, FollowingKeeps DEF DeviceInv

(* An answer, also to a command that was settled before.                     *)
LEMMA SettleKeeps ==
  ASSUME DeviceInv, NEW t \in Tabs, NEW end \in Instants, Settle(t, end)
  PROVE  DeviceInv'
<1> DEFINE d == DeviceOf[t]
           x == Settled(store[d], drain[t].op, drain[t].answer, end)
<1>1. /\ Commit(d, x) /\ begun' = begun /\ tries' = tries
      /\ drain' = [drain EXCEPT ![t] = None] /\ drain[t] # None /\ drain[t].answer # None
  BY DEF Settle
<1>2. drain[t].op \in Operations /\ drain[t].answer \in Answers
  BY <1>1 DEF DeviceInv, Drains
<1>3. d \in Devices /\ Follows(x, store[d])
  BY <1>2, TabStore, SettledFollows
<1>4. drain' \in [Tabs -> Drains \cup {None}]
  BY <1>1 DEF DeviceInv
<1> HIDE DEF x, d
<1> QED
  BY <1>1, <1>3, <1>4, FollowingKeeps DEF DeviceInv

(* A correction takes the place of what was queued.                          *)
LEMMA CorrectKeeps ==
  ASSUME DeviceInv, NEW t \in Tabs, NEW s \in TimerIds, NEW start \in Instants,
         NEW end \in Instants, Correct(t, s, start, end)
  PROVE  DeviceInv'
<1> DEFINE d == DeviceOf[t]
           st == store[d]
           op == Operation("correct", s, start, end, tries[s] + 1)
           y == [st EXCEPT !.operations = Without(st, QueuedFor(st, s))]
           x == [st EXCEPT !.corrections = st.corrections \ {s}, !.operations = Append(y.operations, op)]
<1>1. st \in Snapshots /\ d \in Devices /\ Orderly(st)
  BY TabStore
<1>2. /\ Commit(d, x) /\ begun' = begun /\ drain' = drain /\ tries' = [tries EXCEPT ![s] = tries[s] + 1]
      /\ s \in st.corrections /\ tries[s] < MaxTries
  <2>1. y.operations = Without(st, QueuedFor(st, s))
    BY <1>1 DEF Snapshots
  <2> QED
    BY <2>1 DEF Correct
<1>3. tries[s] + 1 \in 1..MaxTries /\ tries' \in [TimerIds -> 0..MaxTries]
  <2>1. tries[s] \in 0..MaxTries /\ MaxTries \in Nat
    BY DEF DeviceInv
  <2> QED
    BY <1>2, <2>1 DEF DeviceInv
<1>4. op \in Operations /\ op.session = s /\ op.kind = "correct"
  BY <1>3, OperationKinds
<1> HIDE DEF op, st, d
<1>5. Without(st, QueuedFor(st, s)) \in Seq(Operations)
  BY <1>1, WithoutLeavesRest DEF Snapshots
<1>6. y \in Snapshots /\ y.operations = Without(st, QueuedFor(st, s))
  BY <1>1, <1>5 DEF Snapshots
<1> HIDE DEF y
<1>7. Chained(y.operations) /\ Queued(y) = Queued(st) \ QueuedFor(st, s)
  BY <1>1, <1>6, WithoutStaysChained DEF Orderly
<1>8. Append(y.operations, op) \in Seq(Operations)
  BY <1>4, <1>6 DEF Snapshots
<1>9. /\ x \in Snapshots /\ x.timers = st.timers /\ x.corrections = st.corrections \ {s}
      /\ x.operations = Append(y.operations, op) /\ x.revision = st.revision /\ x.range = st.range
  BY <1>1, <1>8 DEF Snapshots
<1> HIDE DEF x
<1>10. Chained(x.operations) /\ Queued(x) = Queued(y) \cup {op}
  <2>1. \A o \in QueuedFor(y, op.session) : o.kind = "start" /\ op.kind # "start"
    BY <1>4, <1>7 DEF QueuedFor
  <2> QED
    BY <1>4, <1>6, <1>7, <1>9, <2>1, AppendStaysChained
<1>11. Follows(x, st)
  <2>1. Orderly(x)
    BY <1>1, <1>2, <1>4, <1>7, <1>9, <1>10 DEF Orderly
  <2>2. \A r \in TimerIds : Held(x, r) => Held(st, r)
    BY <1>2, <1>4, <1>7, <1>9, <1>10 DEF Held, QueuedFor
  <2> QED
    BY <1>9, <2>1, <2>2 DEF Follows
<1> QED
  BY <1>1, <1>2, <1>3, <1>11, FollowingKeeps DEF DeviceInv, st

(* The next operation is one of the queue that waits for no correction.      *)
LEMMA NextOperationIsQueued ==
  ASSUME NEW st \in Snapshots, NextOperation(st) # None
  PROVE  NextOperation(st) \in Queued(st) /\ NextOperation(st) \in Operations
<1> DEFINE gone == {op \in Queued(st) : op.session \in st.corrections}
           ready == Without(st, gone)
<1>1. ready # <<>> /\ NextOperation(st) = Head(ready)
  BY DEF NextOperation
<1>2. PICK pos : ready \in Seq(Operations) /\ Rest(st.operations, gone, Len(st.operations), ready, pos)
  BY WithoutLeavesRest DEF Snapshots
<1> HIDE DEF ready
<1>3. Len(ready) \in Nat /\ 1 \in 1..Len(ready) /\ Head(ready) = ready[1] /\ ready[1] \in Operations
  BY <1>1, <1>2
<1>4. ready[1] = st.operations[pos[1]] /\ pos[1] \in 1..Len(st.operations)
  BY <1>2, <1>3 DEF Rest
<1> QED
  BY <1>1, <1>3, <1>4 DEF Queued

(* What tabs replay and read, while no snapshot changes.                     *)
LEMMA ReplayKeeps ==
  ASSUME DeviceInv, UNCHANGED <<store, refresh, begun, tries>>,
         drain' \in [Tabs -> Drains \cup {None}]
  PROVE  DeviceInv'
<1>1. Replies' = Replies
  BY DEF Replies
<1>2. \A t \in Tabs : ReadFits(refresh[t], store[DeviceOf[t]])' <=> ReadFits(refresh[t], store[DeviceOf[t]])
  BY <1>1 DEF ReadFits, Fresh, RevisionRange
<1> QED
  BY <1>2 DEF DeviceInv, HeldHasBegun, Held, QueuedFor, Queued, Orderly, RangeFits

(* What a tab's refresh comes to, while no snapshot changes.                 *)
LEMMA ReadingKeeps ==
  ASSUME DeviceInv, NEW t \in Tabs, NEW r \in Refreshes \cup {None},
         r # None => ReadFits(r, store[DeviceOf[t]]),
         refresh' = [refresh EXCEPT ![t] = r], UNCHANGED <<store, drain, begun, tries>>
  PROVE  DeviceInv'
<1>1. Replies' = Replies
  BY DEF Replies
<1>2. /\ refresh' \in [Tabs -> Refreshes \cup {None}] /\ refresh'[t] = r
      /\ \A u \in Tabs \ {t} : refresh'[u] = refresh[u]
  BY DEF DeviceInv
<1>3. ASSUME NEW u \in Tabs, refresh'[u] # None PROVE ReadFits(refresh[u], store[DeviceOf[u]])'
  <2>1. ReadFits(refresh'[u], store[DeviceOf[u]])
    BY <1>2, <1>3 DEF DeviceInv
  <2> QED
    BY <1>1, <2>1 DEF ReadFits, Fresh, RevisionRange
<1> QED
  BY <1>2, <1>3 DEF DeviceInv, HeldHasBegun, Held, QueuedFor, Queued, Orderly, RangeFits

(* A tab takes up the next operation.                                        *)
LEMMA PickKeeps ==
  ASSUME DeviceInv, NEW t \in Tabs, Pick(t)
  PROVE  DeviceInv'
<1> DEFINE st == store[DeviceOf[t]]
           op == NextOperation(st)
           r == [op |-> op, answer |-> None, running |-> op.kind = "start" /\ op.session \in st.timers]
<1>1. drain' = [drain EXCEPT ![t] = r] /\ op # None /\ UNCHANGED <<store, refresh, begun, tries>>
  BY DEF Pick
<1>2. op \in Operations
  BY <1>1, TabStore, NextOperationIsQueued
<1> HIDE DEF op
<1>3. r \in Drains
  BY <1>2 DEF Drains
<1> HIDE DEF r
<1>4. drain' \in [Tabs -> Drains \cup {None}]
  BY <1>1, <1>3 DEF DeviceInv
<1> QED
  BY <1>1, <1>4, ReplayKeeps

(* Its answer comes.                                                         *)
LEMMA ReceiveKeeps ==
  ASSUME DeviceInv, NEW t \in Tabs, NEW answer \in Answers, Receive(t, answer)
  PROVE  DeviceInv'
<1>1. /\ drain' = [drain EXCEPT ![t] = [drain[t] EXCEPT !.answer = answer]] /\ drain[t] # None
      /\ UNCHANGED <<store, refresh, begun, tries>>
  BY DEF Receive
<1>2. [drain[t] EXCEPT !.answer = answer] \in Drains
  BY <1>1 DEF DeviceInv, Drains
<1>3. drain' \in [Tabs -> Drains \cup {None}]
  BY <1>1, <1>2 DEF DeviceInv
<1> QED
  BY <1>1, <1>3, ReplayKeeps

(* Its answer is lost, or the tab closes.                                    *)
LEMMA GiveUpKeeps ==
  ASSUME DeviceInv, NEW t \in Tabs, GiveUp(t)
  PROVE  DeviceInv'
<1>1. drain' = [drain EXCEPT ![t] = None] /\ UNCHANGED <<store, refresh, begun, tries>>
  BY DEF GiveUp
<1>2. drain' \in [Tabs -> Drains \cup {None}]
  BY <1>1 DEF DeviceInv
<1> QED
  BY <1>1, <1>2, ReplayKeeps

(* A refresh remembers the present revision, which is fresh.                 *)
LEMMA BeginRefreshKeeps ==
  ASSUME DeviceInv, NEW t \in Tabs, BeginRefresh(t)
  PROVE  DeviceInv'
<1> DEFINE r == [expected |-> store[DeviceOf[t]].revision, clean |-> TRUE, reply |-> None]
<1>1. refresh' = [refresh EXCEPT ![t] = r] /\ UNCHANGED <<store, drain, begun, tries>>
  BY DEF BeginRefresh
<1>2. r \in Refreshes /\ ReadFits(r, store[DeviceOf[t]])
  <2>1. store[DeviceOf[t]].revision \in Nat
    BY TabStore DEF Snapshots
  <2> QED
    BY <2>1 DEF Refreshes, ReadFits, Fresh
<1> HIDE DEF r
<1> QED
  BY <1>1, <1>2, ReadingKeeps

(* Its read comes.                                                           *)
LEMMA ReadHomeKeeps ==
  ASSUME DeviceInv, NEW t \in Tabs, NEW reply \in Replies, ReadHome(t, reply)
  PROVE  DeviceInv'
<1> DEFINE r == [refresh[t] EXCEPT !.reply = reply]
<1>1. refresh' = [refresh EXCEPT ![t] = r] /\ UNCHANGED <<store, drain, begun, tries>> /\ refresh[t] # None
  BY DEF ReadHome
<1>2. reply \in Homes
  BY DEF Replies, Homes
<1>3. /\ r \in Refreshes /\ r.expected = refresh[t].expected /\ r.clean = refresh[t].clean
      /\ r.reply = reply
  BY <1>1, <1>2 DEF DeviceInv, Refreshes
<1> HIDE DEF r
<1>4. ReadFits(r, store[DeviceOf[t]])
  BY <1>1, <1>3 DEF DeviceInv, ReadFits
<1> QED
  BY <1>1, <1>3, <1>4, ReadingKeeps

(* A refresh fails or is refused.                                            *)
LEMMA DropRefreshKeeps ==
  ASSUME DeviceInv, NEW t \in Tabs, DropRefresh(t)
  PROVE  DeviceInv'
<1>1. refresh' = [refresh EXCEPT ![t] = None] /\ UNCHANGED <<store, drain, begun, tries>>
  BY DEF DropRefresh
<1> QED
  BY <1>1, ReadingKeeps

(* Downloaded history joins the range of revisions behind it, so that a read *)
(* stays clean across it.                                                    *)
LEMMA SaveHistoryKeeps ==
  ASSUME DeviceInv, NEW t \in Tabs, SaveHistory(t)
  PROVE  DeviceInv'
<1> DEFINE d == DeviceOf[t]
           st == store[d]
           range == RevisionRange(st)
           after == IF range = None THEN st.revision ELSE range.after
           now == [after |-> after, through |-> st.revision + 1]
           x == [st EXCEPT !.revision = st.revision + 1, !.range = now]
<1>1. store' = [store EXCEPT ![d] = x] /\ UNCHANGED <<drain, refresh, begun, tries>>
  BY DEF SaveHistory
<1>2. d \in Devices /\ st \in Snapshots /\ Orderly(st) /\ RangeFits(st) /\ HeldHasBegun(st, d, begun)
  BY TabStore
<1>3. st.revision \in Nat /\ (range # None => range \in Ranges /\ range.through = st.revision)
  BY <1>2 DEF Snapshots, RevisionRange
<1>4. after \in Nat /\ after <= st.revision /\ (range # None => range.after = after)
  BY <1>2, <1>3 DEF RangeFits, RevisionRange, Ranges
<1>5. now \in Ranges /\ now # None /\ now.after = after /\ now.through = st.revision + 1
  BY <1>3, <1>4 DEF Ranges
<1> HIDE DEF after, now
<1>6. /\ x \in Snapshots /\ x.revision = st.revision + 1 /\ x.range = now
      /\ x.timers = st.timers /\ x.operations = st.operations /\ x.corrections = st.corrections
  <2>1. st.revision + 1 \in Nat
    BY <1>3
  <2>2. x \in Snapshots
    BY <1>2, <1>5, <2>1 DEF Snapshots
  <2> QED
    BY <1>2, <2>2 DEF Snapshots
<1> HIDE DEF x
<1>7. Queued(x) = Queued(st) /\ \A s : Held(x, s) <=> Held(st, s)
  BY <1>6 DEF Queued, Held, QueuedFor
<1>8. Orderly(x) /\ RangeFits(x) /\ HeldHasBegun(x, d, begun)
  <2>1. RangeFits(x)
    BY <1>3, <1>4, <1>5, <1>6 DEF RangeFits
  <2> QED
    BY <1>2, <1>6, <1>7, <2>1 DEF Orderly, HeldHasBegun
<1>9. RevisionRange(x) = now
  BY <1>5, <1>6 DEF RevisionRange
<1>10. \A n \in Nat : n <= st.revision => (Fresh(x, n) <=> Fresh(st, n))
  BY <1>3, <1>4, <1>5, <1>6, <1>9 DEF Fresh, after
<1> HIDE DEF range, st, d
<1>11. /\ store' \in [Devices -> Snapshots] /\ store'[d] = x
       /\ \A e \in Devices \ {d} : store'[e] = store[e]
  BY <1>1, <1>2, <1>6 DEF DeviceInv
<1>12. Replies' = Replies
  BY <1>1 DEF Replies
<1>13. ASSUME NEW u \in Tabs, refresh'[u] # None PROVE ReadFits(refresh[u], store[DeviceOf[u]])'
  <2>1. refresh[u] \in Refreshes /\ ReadFits(refresh[u], store[DeviceOf[u]]) /\ DeviceOf[u] \in Devices
    BY <1>1, <1>13 DEF DeviceInv
  <2>2. ReadFits(refresh[u], store'[DeviceOf[u]])
    <3>1. CASE DeviceOf[u] = d
      <4>1. refresh[u].expected \in Nat /\ refresh[u].expected <= st.revision
        BY <2>1, <3>1 DEF Refreshes, ReadFits, st
      <4>2. refresh[u].expected <= x.revision
        BY <1>3, <1>6, <4>1
      <4>3. Fresh(x, refresh[u].expected) <=> Fresh(st, refresh[u].expected)
        BY <1>10, <4>1
      <4> QED
        BY <1>11, <2>1, <3>1, <4>2, <4>3 DEF ReadFits, st
    <3>2. CASE DeviceOf[u] # d
      BY <1>11, <2>1, <3>2
    <3> QED
      BY <3>1, <3>2
  <2> QED
    BY <1>1, <1>12, <2>2 DEF ReadFits, Fresh, RevisionRange
<1>14. \A e \in Devices : Orderly(store'[e]) /\ RangeFits(store'[e]) /\ HeldHasBegun(store'[e], e, begun)
  BY <1>8, <1>11 DEF DeviceInv
<1> QED
  BY <1>1, <1>11, <1>13, <1>14 DEF DeviceInv

(* What a refresh leaves of the snapshot: the queue, and the sessions on      *)
(* each Path where something waits.                                          *)
LEMMA RefreshedKeepsBusy ==
  ASSUME NEW st \in Snapshots, Orderly(st), NEW reply \in Replies,
         NEW x \in Snapshots, x.operations = st.operations, x.corrections = st.corrections,
         x.timers = Refreshed(st, reply).timers
  PROVE  /\ Orderly(x) /\ Queued(x) = Queued(st)
         /\ \A s \in TimerIds : Busy(st, PathOf[s]) => (s \in x.timers <=> s \in st.timers)
         /\ \A s \in x.timers : s \in st.timers \/ s \in reply.timers
<1> DEFINE free == {p \in reply.paths : ~Busy(st, p)}
<1>1. x.timers = {s \in st.timers : PathOf[s] \notin free} \cup {s \in reply.timers : PathOf[s] \in free}
  <2> DEFINE counted == {s \in st.counted : PathOf[s] \notin free} \cup {s \in reply.counted : PathOf[s] \in free}
             timers == {s \in st.timers : PathOf[s] \notin free} \cup {s \in reply.timers : PathOf[s] \in free}
             y == [st EXCEPT !.counted = counted, !.unreflected = Unreflected(st, free), !.timers = timers]
  <2>1. Refreshed(st, reply) = y
    BY DEF Refreshed
  <2> HIDE DEF counted, timers
  <2>2. y.timers = timers
    BY DEF Snapshots
  <2> QED
    BY <2>1, <2>2 DEF timers
<1>2. Queued(x) = Queued(st)
  BY DEF Queued
<1>3. \A s \in reply.timers : PathOf[s] \in free => /\ s \notin st.corrections
                                                   /\ \A op \in Queued(st) : op.session # s
  BY DEF Busy, On
<1>4. \A a, b \in reply.timers : PathOf[a] = PathOf[b] => a = b
  BY DEF Replies
<1> HIDE DEF free
<1>5. Orderly(x)
  <2>1. \A a, b \in x.timers : PathOf[a] = PathOf[b] => a = b
    BY <1>1, <1>4 DEF Orderly
  <2>2. x.timers \cap x.corrections = {}
    BY <1>1, <1>3 DEF Orderly
  <2>3. \A op \in Queued(x) : op.session \in x.timers => op.kind = "start"
    BY <1>1, <1>2, <1>3 DEF Orderly
  <2> QED
    BY <2>1, <2>2, <2>3 DEF Orderly
<1>6. \A s \in TimerIds : Busy(st, PathOf[s]) => (s \in x.timers <=> s \in st.timers)
  BY <1>1 DEF free
<1> QED
  BY <1>1, <1>2, <1>5, <1>6

(* The snapshot a refresh saves.                                             *)
LEMMA RetainHomeMoves ==
  ASSUME DeviceInv, NEW t \in Tabs, RetainHome(t)
  PROVE  \E x \in Snapshots :
           /\ store' = [store EXCEPT ![DeviceOf[t]] = x]
           /\ x.revision = store[DeviceOf[t]].revision + 1 /\ x.range = store[DeviceOf[t]].range
           /\ x.operations = store[DeviceOf[t]].operations
           /\ x.corrections = store[DeviceOf[t]].corrections
           /\ x.notices = store[DeviceOf[t]].notices
           /\ x.timers = Refreshed(store[DeviceOf[t]], refresh[t].reply).timers
           /\ x.counted = Refreshed(store[DeviceOf[t]], refresh[t].reply).counted
           /\ x.unreflected = Refreshed(store[DeviceOf[t]], refresh[t].reply).unreflected
           /\ refresh[t].reply \in Replies
<1> DEFINE d == DeviceOf[t]
           st == store[d]
           reply == refresh[t].reply
           y == Refreshed(st, reply)
           x == [y EXCEPT !.revision = st.revision + 1, !.paths = reply.paths,
                          !.unavailable = st.unavailable \ reply.paths]
<1>1. st \in Snapshots /\ d \in Devices
  BY TabStore
<1>2. reply \in Replies /\ reply \in Homes
  BY DEF RetainHome, DeviceInv, ReadFits, Replies, Homes
<1>3. /\ y \in Snapshots /\ y.revision = st.revision /\ y.range = st.range
      /\ y.operations = st.operations /\ y.corrections = st.corrections
      /\ y.unavailable = st.unavailable /\ y.notices = st.notices
  <2> DEFINE free == {p \in reply.paths : ~Busy(st, p)}
             counted == {s \in st.counted : PathOf[s] \notin free} \cup {s \in reply.counted : PathOf[s] \in free}
             timers == {s \in st.timers : PathOf[s] \notin free} \cup {s \in reply.timers : PathOf[s] \in free}
             unreflected == Unreflected(st, free)
             z == [st EXCEPT !.counted = counted, !.unreflected = unreflected, !.timers = timers]
  <2>1. y = z
    BY DEF Refreshed
  <2>2. counted \subseteq TimerIds /\ timers \subseteq TimerIds /\ unreflected \subseteq TimerIds
    BY <1>1, <1>2 DEF Snapshots, Homes, Unreflected
  <2> HIDE DEF y, counted, timers, unreflected, st, d
  <2>3. z \in Snapshots
    BY <1>1, <2>2 DEF Snapshots
  <2> QED
    BY <1>1, <2>1, <2>3 DEF Snapshots
<1>4. store' = [store EXCEPT ![d] = x]
  BY <1>3 DEF RetainHome
<1> HIDE DEF y
<1>5. x \in Snapshots
  <2>1. st.revision + 1 \in Nat /\ reply.paths \subseteq Paths /\ st.unavailable \ reply.paths \subseteq Paths
    BY <1>1, <1>2 DEF Snapshots, Homes
  <2> HIDE DEF st, reply, d
  <2> QED
    BY <1>3, <2>1 DEF Snapshots
<1>6. /\ x.revision = st.revision + 1 /\ x.range = st.range /\ x.operations = st.operations
      /\ x.corrections = st.corrections /\ x.timers = y.timers /\ x.notices = st.notices
      /\ x.counted = y.counted /\ x.unreflected = y.unreflected
  <2> HIDE DEF st, reply, d
  <2> QED
    BY <1>3, <1>5 DEF Snapshots
<1> QED
  BY <1>2, <1>4, <1>5, <1>6 DEF y

(* An adopted refresh refuses the other reads that are on their way.         *)
LEMMA RetainHomeKeeps ==
  ASSUME DeviceInv, NEW t \in Tabs, RetainHome(t)
  PROVE  DeviceInv'
<1> DEFINE d == DeviceOf[t]
           st == store[d]
           reply == refresh[t].reply
<1>1. PICK x \in Snapshots :
           /\ store' = [store EXCEPT ![d] = x]
           /\ x.revision = st.revision + 1 /\ x.range = st.range
           /\ x.operations = st.operations /\ x.corrections = st.corrections
           /\ x.timers = Refreshed(st, reply).timers
           /\ reply \in Replies
  BY RetainHomeMoves
<1>2. d \in Devices /\ st \in Snapshots /\ Orderly(st) /\ RangeFits(st) /\ HeldHasBegun(st, d, begun)
  BY TabStore
<1>3. /\ Orderly(x) /\ Queued(x) = Queued(st)
      /\ \A s \in x.timers : s \in st.timers \/ s \in reply.timers
  BY <1>1, <1>2, RefreshedKeepsBusy
<1>4. \A s \in reply.timers : s \in begun \/ Origin[s] = None
  BY <1>1 DEF Replies
<1>5. RangeFits(x) /\ HeldHasBegun(x, d, begun) /\ RevisionRange(x) = None
  <2>1. st.revision \in Nat /\ (st.range # None => st.range \in Ranges)
    BY <1>2 DEF Snapshots
  <2>2. RangeFits(x) /\ RevisionRange(x) = None
    BY <1>1, <1>2, <2>1 DEF RangeFits, RevisionRange, Ranges
  <2>3. \A s \in TimerIds : Held(x, s) => Held(st, s) \/ s \in reply.timers
    BY <1>1, <1>3 DEF Held, QueuedFor
  <2>4. HeldHasBegun(x, d, begun)
    BY <1>2, <1>4, <2>3 DEF HeldHasBegun
  <2> QED
    BY <2>2, <2>4
<1>6. /\ UNCHANGED <<drain, begun, tries>>
      /\ refresh' = [u \in Tabs |->
            IF u = t THEN None
            ELSE IF DeviceOf[u] = d /\ refresh[u] # None
            THEN [refresh[u] EXCEPT !.clean = FALSE] ELSE refresh[u]]
  BY DEF RetainHome
<1> HIDE DEF reply, st, d
<1>7. /\ store' \in [Devices -> Snapshots] /\ store'[d] = x
      /\ \A e \in Devices \ {d} : store'[e] = store[e]
  BY <1>1, <1>2 DEF DeviceInv
<1>8. refresh' \in [Tabs -> Refreshes \cup {None}]
  BY ZenonT(60), <1>6 DEF DeviceInv, Refreshes
<1>9. Replies' = Replies
  BY <1>6 DEF Replies
<1>10. ASSUME NEW u \in Tabs, refresh'[u] # None PROVE ReadFits(refresh[u], store[DeviceOf[u]])'
  <2>1. u # t /\ DeviceOf[u] \in Devices /\ refresh[u] # None /\ refresh[u] \in Refreshes
    BY <1>6, <1>10 DEF DeviceInv
  <2>2. ReadFits(refresh[u], store[DeviceOf[u]])
    BY <2>1 DEF DeviceInv
  <2>3. CASE DeviceOf[u] = d
    <3>1. refresh'[u] = [refresh[u] EXCEPT !.clean = FALSE]
      BY <1>6, <2>1, <2>3
    <3>2. /\ refresh'[u].expected = refresh[u].expected /\ refresh'[u].reply = refresh[u].reply
          /\ ~refresh'[u].clean
      BY <2>1, <3>1 DEF Refreshes
    <3>3. refresh[u].expected <= x.revision /\ ~Fresh(x, refresh[u].expected)
      <4>1. refresh[u].expected \in Nat /\ st.revision \in Nat /\ refresh[u].expected <= st.revision
        BY <1>2, <2>1, <2>2, <2>3 DEF Refreshes, Snapshots, ReadFits, st
      <4> QED
        BY <1>1, <1>5, <4>1 DEF Fresh
    <3>4. ReadFits(refresh'[u], x)
      BY <2>2, <3>2, <3>3 DEF ReadFits
    <3> QED
      BY <1>7, <1>9, <2>3, <3>4 DEF ReadFits, Fresh, RevisionRange
  <2>4. CASE DeviceOf[u] # d
    <3>1. refresh'[u] = refresh[u] /\ store'[DeviceOf[u]] = store[DeviceOf[u]]
      BY <1>6, <1>7, <2>1, <2>4
    <3> QED
      BY <1>9, <2>2, <3>1 DEF ReadFits, Fresh, RevisionRange
  <2> QED
    BY <2>3, <2>4
<1>11. \A e \in Devices : Orderly(store'[e]) /\ RangeFits(store'[e]) /\ HeldHasBegun(store'[e], e, begun)
  BY <1>3, <1>5, <1>7 DEF DeviceInv
<1> QED
  BY <1>6, <1>7, <1>8, <1>10, <1>11 DEF DeviceInv

----------------------------------------------------------------------------
(* Theorems *)

(* Each step of a tab keeps the invariant.                                   *)
LEMMA DeviceInvIsInductive == DeviceInv /\ [DeviceNext]_deviceVars => DeviceInv'
<1> SUFFICES ASSUME DeviceInv, [DeviceNext]_deviceVars PROVE DeviceInv'
  OBVIOUS
<1>1. CASE UNCHANGED deviceVars
  <2>1. UNCHANGED <<store, refresh, begun, tries>> /\ drain' = drain
    BY <1>1 DEF deviceVars
  <2> QED
    BY <2>1, ReplayKeeps DEF DeviceInv
<1>2. CASE DeviceNext
  <2>1. PICK t \in Tabs : \/ DeviceStep(t)
                          \/ \E answer \in Answers : Receive(t, answer)
                          \/ \E reply \in Replies : ReadHome(t, reply)
    BY <1>2 DEF DeviceNext
  <2>2. CASE UserStep(t)
    BY <2>2, StartKeeps, StopKeeps, CorrectKeeps DEF UserStep
  <2>3. CASE Pick(t) \/ GiveUp(t) \/ \E e \in Instants : Settle(t, e)
    BY <2>3, PickKeeps, GiveUpKeeps, SettleKeeps
  <2>4. CASE SaveHistory(t) \/ BeginRefresh(t) \/ RetainHome(t) \/ DropRefresh(t)
    BY <2>4, SaveHistoryKeeps, BeginRefreshKeeps, RetainHomeKeeps, DropRefreshKeeps
  <2>5. CASE \E answer \in Answers : Receive(t, answer)
    BY <2>5, ReceiveKeeps
  <2>6. CASE \E reply \in Replies : ReadHome(t, reply)
    BY <2>6, ReadHomeKeeps
  <2> QED
    BY <2>1, <2>2, <2>3, <2>4, <2>5, <2>6 DEF DeviceStep
<1> QED
  BY <1>1, <1>2

(* The invariant of the devices of one account.                              *)
THEOREM DeviceInvariant == DeviceSpec => []DeviceInv
<1> QED
  BY DeviceInvHoldsInitially, DeviceInvIsInductive, PTL DEF DeviceSpec

(* Every snapshot, replay and session that began is of its type, and no two  *)
(* timers of a device run on one Path.                                       *)
THEOREM DeviceTypeCorrect == DeviceSpec => []DeviceTypeOK
<1>1. ASSUME DeviceInv PROVE DeviceTypeOK
  <2>1. ASSUME NEW d \in Devices
        PROVE  LET st == store[d]
               IN  /\ st.revision \in Nat
                   /\ st.range = None \/ st.range.after < st.range.through
                   /\ Queued(st) \subseteq Operations
                   /\ st.timers \cup st.corrections \cup st.unreflected \cup st.counted \subseteq TimerIds
                   /\ st.timers \cap st.corrections = {}
                   /\ st.paths \cup st.unavailable \subseteq Paths
                   /\ st.notices \subseteq Notices
                   /\ \A a, b \in st.timers : PathOf[a] = PathOf[b] => a = b
    <3>1. store[d] \in Snapshots /\ Orderly(store[d]) /\ RangeFits(store[d])
      BY <1>1 DEF DeviceInv
    <3>2. Queued(store[d]) \subseteq Operations
      BY <3>1 DEF Queued, Snapshots
    <3> QED
      BY <3>1, <3>2 DEF Snapshots, Orderly, RangeFits
  <2>2. \A t \in Tabs : drain[t] # None => drain[t].op \in Operations /\ drain[t].answer \in Answers \cup {None}
    BY <1>1 DEF DeviceInv, Drains
  <2> QED
    BY <1>1, <2>1, <2>2 DEF DeviceTypeOK, DeviceInv
<1> QED
  BY <1>1, DeviceInvariant, PTL

(* Each session is replayed in causal order, whatever tabs, answers and      *)
(* corrections do to the queue.                                              *)
THEOREM ReplayIsCausal == DeviceSpec => []CausalOrder
<1>1. ASSUME DeviceInv PROVE CausalOrder
  <2> SUFFICES ASSUME NEW d \in Devices
               PROVE  LET ops == store[d].operations
                      IN  /\ \A i, j \in 1..Len(ops) :
                                i < j /\ ops[i].session = ops[j].session =>
                                  ops[i].kind = "start" /\ ops[j].kind # "start"
                          /\ \A i \in 1..Len(ops) : ops[i].session \in store[d].timers =>
                                ops[i].kind = "start"
    BY DEF CausalOrder
  <2>1. Orderly(store[d])
    BY <1>1 DEF DeviceInv
  <2> QED
    BY <2>1 DEF Orderly, Chained, Queued
<1> QED
  BY <1>1, DeviceInvariant, PTL

(* A read is adopted exactly if nothing but downloaded history was saved     *)
(* since it was asked for.                                                   *)
THEOREM StaleReadIsRefused == DeviceSpec => []StaleReadRefused
<1>1. DeviceInv => StaleReadRefused
  BY DEF DeviceInv, ReadFits, StaleReadRefused
<1> QED
  BY <1>1, DeviceInvariant, PTL

(* An answer moves only what it reaches, and nothing once another tab has    *)
(* settled its command.                                                      *)
THEOREM AnswersStayWithTheirSession == DeviceSpec => AnswersStayHome
<1> DEFINE Home(t, s) ==
             LET st == store[DeviceOf[t]]
                 op == drain[t].op
                 lost == drain[t].answer.reason = "membership"
                 reached == \/ s = op.session
                            \/ lost /\ PathOf[s] = PathOf[op.session]
             IN  /\ drain[t] # None /\ drain[t].answer # None /\ drain'[t] = None
                 /\ Held(st, s)
                 /\ ~(reached /\ op \in Queued(st))
                 => /\ QueuedFor(store'[DeviceOf[t]], s) = QueuedFor(st, s)
                    /\ s \in store'[DeviceOf[t]].timers <=> s \in st.timers
                    /\ s \in store'[DeviceOf[t]].corrections <=> s \in st.corrections
<1>1. ASSUME DeviceInv, [DeviceNext]_deviceVars, NEW t \in Tabs, NEW s \in TimerIds
      PROVE  Home(t, s)
  <2>1. CASE store' = store
    BY <2>1
  <2>2. ASSUME NEW end \in Instants, Settle(t, end) PROVE Home(t, s)
    <3> DEFINE d == DeviceOf[t]
               st == store[d]
               op == drain[t].op
               answer == drain[t].answer
               x == Settled(st, op, answer, end)
               y == [x EXCEPT !.revision = x.revision + 1]
    <3>1. store' = [store EXCEPT ![d] = y] /\ drain[t] # None /\ answer # None
      BY <2>2 DEF Settle, Commit
    <3>2. op \in Operations /\ answer \in Answers
      BY <1>1, <3>1 DEF DeviceInv, Drains
    <3>3. d \in Devices /\ st \in Snapshots /\ Orderly(st)
      BY <1>1, TabStore
    <3>4. /\ Follows(x, st)
          /\ (Reached(op, answer, s) /\ op \in Queued(st)) \/ Untouched(x, st, s)
      BY <3>2, <3>3, SettledFollows
    <3> HIDE DEF x
    <3>5. y.operations = x.operations /\ y.timers = x.timers /\ y.corrections = x.corrections
      BY <3>4 DEF Follows, Snapshots
    <3> HIDE DEF y
    <3>6. store'[d] = y
      BY <1>1, <3>1, <3>3 DEF DeviceInv
    <3>7. QueuedFor(y, s) = QueuedFor(x, s)
      BY <3>5 DEF QueuedFor, Queued
    <3> QED
      BY <3>4, <3>5, <3>6, <3>7 DEF Reached, Untouched
  <2>3. ASSUME drain[t] # None, drain'[t] = None, NEW u \in Tabs, NEW end \in Instants, Settle(u, end)
        PROVE  u = t
    BY <1>1, <2>3 DEF Settle, DeviceInv
  <2>4. CASE drain' = drain
    BY <2>4
  <2>5. store' = store \/ drain' = drain \/ \E u \in Tabs, end \in Instants : Settle(u, end)
    <3>1. CASE UNCHANGED deviceVars
      BY <3>1 DEF deviceVars
    <3>2. CASE DeviceNext
      <4>1. PICK u \in Tabs : \/ DeviceStep(u)
                              \/ \E answer \in Answers : Receive(u, answer)
                              \/ \E reply \in Replies : ReadHome(u, reply)
        BY <3>2 DEF DeviceNext
      <4>2. UserStep(u) => drain' = drain
        BY DEF UserStep, StartTimer, StopTimer, Correct
      <4>3. Pick(u) \/ GiveUp(u) \/ (\E answer \in Answers : Receive(u, answer)) => store' = store
        BY DEF Pick, GiveUp, Receive
      <4>4. /\ SaveHistory(u) \/ BeginRefresh(u) \/ RetainHome(u) \/ DropRefresh(u) => drain' = drain
            /\ (\E reply \in Replies : ReadHome(u, reply)) => drain' = drain
        BY DEF SaveHistory, BeginRefresh, RetainHome, DropRefresh, ReadHome
      <4> QED
        BY <4>1, <4>2, <4>3, <4>4 DEF DeviceStep
    <3> QED
      BY <1>1, <3>1, <3>2
  <2> HIDE DEF Home
  <2>6. CASE \E u \in Tabs, end \in Instants : Settle(u, end)
    <3>1. PICK u \in Tabs, end \in Instants : Settle(u, end)
      BY <2>6
    <3>2. CASE drain[t] # None /\ drain'[t] = None
      BY <2>2, <2>3, <3>1, <3>2
    <3>3. CASE ~(drain[t] # None /\ drain'[t] = None)
      BY <3>3 DEF Home
    <3> QED
      BY <3>2, <3>3
  <2> QED
    BY <2>1, <2>4, <2>5, <2>6
<1>2. DeviceInv /\ [DeviceNext]_deviceVars => [\A t \in Tabs, s \in TimerIds : Home(t, s)]_deviceVars
  BY <1>1
<1> QED
  BY <1>2, DeviceInvariant, PTL DEF DeviceSpec, AnswersStayHome

(* A refresh drops nothing that waits for the server or for its user, and    *)
(* runs no session again that was stopped.                                   *)
THEOREM PendingSurvivesRefresh == DeviceSpec => RefreshKeepsPending
<1> DEFINE Kept(t, s) ==
             LET st == store[DeviceOf[t]]
             IN  /\ RetainHome(t)
                 /\ QueuedFor(st, s) # {} \/ s \in st.corrections
                 => /\ s \in store'[DeviceOf[t]].timers <=> s \in st.timers
                    /\ Held(store'[DeviceOf[t]], s)
<1>1. ASSUME DeviceInv, NEW t \in Tabs, NEW s \in TimerIds PROVE Kept(t, s)
  <2> DEFINE d == DeviceOf[t]
             st == store[d]
             reply == refresh[t].reply
  <2> SUFFICES ASSUME RetainHome(t), QueuedFor(st, s) # {} \/ s \in st.corrections
               PROVE  (s \in store'[d].timers <=> s \in st.timers) /\ Held(store'[d], s)
    OBVIOUS
  <2>1. PICK x \in Snapshots :
           /\ store' = [store EXCEPT ![d] = x]
           /\ x.revision = st.revision + 1 /\ x.range = st.range
           /\ x.operations = st.operations /\ x.corrections = st.corrections
           /\ x.timers = Refreshed(st, reply).timers
           /\ reply \in Replies
    BY <1>1, RetainHomeMoves
  <2>2. d \in Devices /\ st \in Snapshots /\ Orderly(st)
    BY <1>1, TabStore
  <2>3. /\ Queued(x) = Queued(st)
        /\ Busy(st, PathOf[s]) => (s \in x.timers <=> s \in st.timers)
    BY <2>1, <2>2, RefreshedKeepsBusy
  <2>4. Busy(st, PathOf[s])
    BY DEF Busy, On, QueuedFor
  <2>5. store'[d] = x
    BY <1>1, <2>1, <2>2 DEF DeviceInv
  <2> QED
    BY <2>1, <2>3, <2>4, <2>5 DEF Held, QueuedFor
<1>2. DeviceInv /\ [DeviceNext]_deviceVars => [\A t \in Tabs, s \in TimerIds : Kept(t, s)]_deviceVars
  BY <1>1
<1> QED
  BY <1>2, DeviceInvariant, PTL DEF DeviceSpec, RefreshKeepsPending
=============================================================================
