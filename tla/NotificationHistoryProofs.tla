-------------------- MODULE NotificationHistoryProofs --------------------
(* The notification history of a device, for any tabs, notifications, page    *)
(* size and mutations. The inductive invariant HistoryInv relates four        *)
(* records of each tab (its owner, the request it works on, the snapshot,     *)
(* what it was told) with the server: the two safety properties follow from   *)
(* its ViewFits, the freshness of a refresh from its RefreshFits.             *)
EXTENDS NotificationHistory, TLAPS, FiniteSetTheorems, WellFoundedInduction

Pages == [items : SUBSET Items, unread : SUBSET Items, next : Cursors, all : SUBSET Items]
Calls == [kind : {"none", "page", "more", "delete", "read", "read-all"},
          at : {"none", "profile", "asked", "answered"}, stale : BOOLEAN, item : Cursors, page : Pages]
Views == [items : SUBSET Items, unread : SUBSET Items, next : Cursors,
          loaded : BOOLEAN, error : {"none", "history", "mutation"}]
Owners == [active : BOOLEAN, requested : BOOLEAN, promised : BOOLEAN, known : BOOLEAN]
Acks == [gone : SUBSET Items, read : SUBSET Items]

(* The server: what is deleted, or was never there, does not come; what is *)
(* hidden is still stored.                                                 *)
Listed ==
    /\ alive \subseteq Items /\ unread \subseteq alive /\ coming \subseteq Items \ alive
    /\ hidden \subseteq alive /\ blocked \subseteq hidden

(* What a tab was told is so on the server, and stays so.                  *)
AckFits(a) == a.gone \subseteq Gone /\ a.read \cap (unread \cup coming) = {}

(* What a tab shows was there once; it shows none of what it was told is   *)
(* gone, and all of what its first page found down to its cursor and that  *)
(* was never hidden since.                                                 *)
ViewFits(v, a, b) ==
    /\ v.unread \subseteq v.items
    /\ v.items \cap coming = {} /\ b \cap coming = {} /\ b \cap hidden = {}
    /\ v.items \cap a.gone = {} /\ v.unread \cap a.read = {}
    /\ v.next # 0 => v.loaded
    /\ v.loaded => \A i \in b \cap alive : (v.next = 0 \/ i >= v.next) => i \in v.items

(* A page has all that could be seen after its cursor, down to the next    *)
(* one.                                                                    *)
Covers(p, cursor) ==
    \A i \in p.all : (cursor = 0 \/ i < cursor) /\ (p.next = 0 \/ i >= p.next) => i \in p.items

PageFits(p, cursor, a) ==
    /\ p.items \cap coming = {} /\ p.all \cap coming = {} /\ p.all \cap hidden = {}
    /\ p.items \cap a.gone = {} /\ p.unread \cap a.read = {} /\ p.unread \subseteq p.items
    /\ Covers(p, cursor)

(* A tab works on one request, so what an answer says is still so when it  *)
(* is taken: the acknowledgements, the cursor and the list are those of    *)
(* the moment the request was made, unless it is stale. A mutation's       *)
(* answer stands for what it changed.                                      *)
CallFits(c, v, a, b) ==
    /\ c.kind = "none" => c = NoCall
    /\ c.kind = "page" => c.item = 0
    /\ c.kind \in {"delete", "read"} => c.item \in Items \ coming
    /\ c.kind = "more" /\ ~c.stale => c.item = v.next /\ c.item # 0
    /\ c.at = "answered" =>
         /\ c.kind \in {"delete", "read"} => c.page.items = {c.item}
         /\ c.kind = "delete" => c.item \in Gone
         /\ c.kind \in {"read", "read-all"} => c.page.items \cap (unread \cup coming) = {}
         /\ c.kind \in {"page", "more"} => PageFits(c.page, c.item, a)
         /\ c.kind = "more" /\ ~c.stale => b \cap alive \subseteq c.page.all

(* A promised refresh is requested, or it is the request the tab works on; *)
(* what could not be seen when it was called, nor since, cannot be now.    *)
RefreshFits(o, c, w) ==
    /\ o.requested /\ c = NoCall => ~o.active
    /\ o.active /\ c.stale => o.requested
    /\ o.active /\ o.promised /\ ~o.requested =>
         c.kind = "page" /\ (c.at = "answered" => c.page.items \cap w = {})
    /\ w \subseteq Unseen

TabFits(t) ==
    /\ AckFits(acked[t]) /\ ViewFits(view[t], acked[t], basis[t])
    /\ CallFits(call[t], view[t], acked[t], basis[t]) /\ RefreshFits(own[t], call[t], before[t])

HistoryTyped ==
    /\ Listed /\ inbox \subseteq Windows
    /\ own \in [Windows -> Owners] /\ call \in [Windows -> Calls] /\ view \in [Windows -> Views]
    /\ acked \in [Windows -> Acks] /\ basis \in [Windows -> SUBSET Items]
    /\ before \in [Windows -> SUBSET Items]

HistoryInv == HistoryTyped /\ \A t \in Windows : TabFits(t)

-----------------------------------------------------------------------------
(* A set of numbers that is not empty has a least member (the library proves  *)
(* well-foundedness; its induction rule cannot be cited).                     *)
LEMMA LeastItem ==
  ASSUME NEW T \in SUBSET Nat, T # {}
  PROVE  \E i \in T : \A j \in T : i <= j
<1> DEFINE R == OpToRel(<, Nat)
<1>1. IsWellFoundedOn(R, Nat)
  BY NatLessThanWellFounded
<1>2. \A x, y \in Nat : x < y => <<x, y>> \in R
  BY DEF OpToRel
<1> HIDE DEF R
<1>3. PICK i \in T : \A j \in T : ~(<<j, i>> \in R)
  BY <1>1, WFMin
<1>4. \A j \in T : ~(j < i)
  BY <1>2, <1>3
<1> QED
  BY <1>4

(* How many notifications of a set are newer than one.                        *)
NewerThan(i, A) == Cardinality({k \in A : k > i})

(* In the order of (created_at, id) an older notification has at least as     *)
(* many newer ones as a newer notification has, and more when the two differ. *)
LEMMA NewerOnesAreFewer ==
  ASSUME NEW A \in SUBSET Items, NEW i \in A, NEW j \in A, i <= j
  PROVE  /\ NewerThan(i, A) \in Nat /\ NewerThan(j, A) \in Nat
         /\ NewerThan(j, A) <= NewerThan(i, A)
         /\ i # j => NewerThan(j, A) < NewerThan(i, A)
<1> DEFINE I == {k \in A : k > i}
           J == {k \in A : k > j}
<1>1. i \in Nat /\ j \in Nat /\ A \subseteq Nat
  BY HistoryAssumption
<1>2. IsFiniteSet(I)
  BY HistoryAssumption, FS_Subset
<1>3. J \subseteq I
  <2> SUFFICES ASSUME NEW k \in A, k > j PROVE k > i
    OBVIOUS
  <2> QED
    BY <1>1
<1>4. /\ Cardinality(I) \in Nat /\ IsFiniteSet(J) /\ Cardinality(J) <= Cardinality(I)
      /\ Cardinality(I) = Cardinality(J) => I = J
  BY <1>2, <1>3, FS_Subset, FS_CardinalityType
<1>5. Cardinality(J) \in Nat
  BY <1>4, FS_CardinalityType
<1>6. i # j => j \in I /\ j \notin J
  BY <1>1
<1>7. NewerThan(i, A) = Cardinality(I) /\ NewerThan(j, A) = Cardinality(J)
  BY DEF NewerThan
<1> HIDE DEF I, J
<1> QED
  BY <1>4, <1>5, <1>6, <1>7

(* A set of notifications that is not empty has a newest one.                 *)
LEMMA NewestItem ==
  ASSUME NEW A \in SUBSET Items, A # {}
  PROVE  \E i \in A : NewerThan(i, A) = 0
<1> DEFINE T == {NewerThan(i, A) : i \in A}
<1>1. T \in SUBSET Nat /\ T # {}
  <2>1. \A i \in A : i <= i
    BY HistoryAssumption
  <2> QED
    BY <2>1, NewerOnesAreFewer
<1>2. PICK c \in T : \A d \in T : c <= d
  BY <1>1, LeastItem
<1>3. PICK i \in A : c = NewerThan(i, A)
  BY <1>2
<1>4. {k \in A : k > i} = {}
  <2> SUFFICES ASSUME NEW j \in A, j > i PROVE FALSE
    OBVIOUS
  <2>1. i <= j /\ i # j
    BY HistoryAssumption
  <2>2. c <= NewerThan(j, A)
    BY <1>2
  <2>3. NewerThan(i, A) \in Nat /\ NewerThan(j, A) \in Nat /\ NewerThan(j, A) < NewerThan(i, A)
    BY <2>1, NewerOnesAreFewer
  <2> QED
    BY <1>3, <2>2, <2>3
<1> QED
  BY <1>4, FS_EmptySet DEF NewerThan

(* A page of ListNotifications, for every page size: it shows notifications   *)
(* that may be seen, with their unread mark, and leaves out none between its  *)
(* cursor and the cursor it returns. Only the counting of PageSize is used;   *)
(* the list is finite.                                                        *)
LEMMA PageShows ==
  ASSUME Listed, NEW cursor \in Cursors
  PROVE  /\ Page(cursor) \in Pages /\ Covers(Page(cursor), cursor)
         /\ Page(cursor).items \subseteq Visible /\ Page(cursor).unread = Page(cursor).items \cap unread
         /\ Page(cursor).all = Visible
<1> DEFINE after == {i \in Visible : cursor = 0 \/ i < cursor}
           shown == {i \in after : NewerThan(i, after) < PageSize}
           next == IF shown = after THEN 0 ELSE CHOOSE i \in shown : \A j \in shown : i <= j
<1>1. after \in SUBSET Items /\ Visible \subseteq Items
  BY DEF Listed, Visible
<1>2. shown # after => shown # {}
  <2> SUFFICES ASSUME shown # after PROVE shown # {}
    OBVIOUS
  <2>1. PICK i \in after : NewerThan(i, after) = 0
    BY <1>1, NewestItem
  <2> QED
    BY <2>1, HistoryAssumption
<1>3. shown # after => next \in shown /\ \A j \in shown : next <= j
  BY <1>1, <1>2, LeastItem, HistoryAssumption
<1>4. next \in Cursors
  BY <1>1, <1>3 DEF Cursors
<1>5. \A i \in after : next = 0 \/ i >= next => i \in shown
  <2> SUFFICES ASSUME NEW i \in after, next = 0 \/ i >= next, i \notin shown PROVE FALSE
    OBVIOUS
  <2>1. next \in shown /\ next # 0
    BY <1>1, <1>3, HistoryAssumption
  <2>2. next \in after /\ next <= i /\ NewerThan(next, after) < PageSize
    BY <1>1, <2>1, HistoryAssumption
  <2> HIDE DEF next, after
  <2>3. NewerThan(i, after) <= NewerThan(next, after) /\ NewerThan(i, after) \in Nat
        /\ NewerThan(next, after) \in Nat
    BY <1>1, <2>2, NewerOnesAreFewer
  <2>4. NewerThan(i, after) < PageSize
    BY <2>2, <2>3, HistoryAssumption
  <2> QED
    BY <2>4
<1>6. Page(cursor) = [items |-> shown, unread |-> shown \cap unread, all |-> Visible, next |-> next]
  BY DEF Page, NewerThan
<1>7. shown \subseteq Visible /\ Visible \subseteq Items
  BY <1>1
<1> HIDE DEF shown, next
<1>8. Covers(Page(cursor), cursor)
  BY <1>5, <1>6 DEF Covers
<1> QED
  BY <1>4, <1>6, <1>7, <1>8 DEF Pages

-----------------------------------------------------------------------------
(* The empty page, request and snapshot are values of their types.            *)
LEMMA BlanksAreTyped == NoPage \in Pages /\ NoCall \in Calls /\ Blank \in Views
<1>1. 0 \in Cursors
  BY DEF Cursors
<1>2. NoPage \in Pages
  BY <1>1 DEF NoPage, Pages
<1> QED
  BY <1>1, <1>2 DEF NoCall, Blank, Calls, Views

(* What drain makes of a tab that has finished, or still works.               *)
Drained(o, c, v, o1, c1, v1) ==
    \/ c # NoCall /\ o1 = o /\ c1 = c /\ v1 = v
    \/ /\ c = NoCall /\ o.requested /\ o.active
       /\ o1 = [o EXCEPT !.requested = FALSE] /\ v1 = [v EXCEPT !.error = "none"]
       /\ c1.kind = "page" /\ c1.item = 0 /\ ~c1.stale /\ c1.at # "answered"
    \/ /\ c = NoCall /\ ~(o.requested /\ o.active)
       /\ o1 = [o EXCEPT !.promised = FALSE] /\ c1 = NoCall /\ v1 = v

(* Drain changes the records of its own tab only, in one of the three ways of *)
(* Drained.                                                                   *)
LEMMA DrainLeaves ==
  ASSUME NEW t \in Windows, NEW o \in Owners, NEW c \in Calls, NEW v \in Views, Drain(t, o, c, v)
  PROVE  \E o1 \in Owners, c1 \in Calls, v1 \in Views :
            /\ Drained(o, c, v, o1, c1, v1)
            /\ own' = [own EXCEPT ![t] = o1] /\ call' = [call EXCEPT ![t] = c1]
            /\ view' = [view EXCEPT ![t] = v1]
<1>1. CASE c # NoCall
  BY <1>1 DEF Drain, Drained
<1>2. CASE c = NoCall /\ o.requested /\ o.active
  <2> DEFINE o1 == [o EXCEPT !.requested = FALSE]
             v1 == [v EXCEPT !.error = "none"]
             c1 == Ask(t, "page", 0)
  <2>1. o1 \in Owners /\ v1 \in Views
    BY DEF Owners, Views
  <2>2. c1 \in Calls /\ c1.kind = "page" /\ c1.item = 0 /\ ~c1.stale /\ c1.at # "answered"
    BY BlanksAreTyped DEF Ask, NoCall, Calls, Cursors
  <2>3. /\ own' = [own EXCEPT ![t] = o1] /\ call' = [call EXCEPT ![t] = c1]
        /\ view' = [view EXCEPT ![t] = v1]
    BY <1>2 DEF Drain
  <2>4. Drained(o, c, v, o1, c1, v1)
    BY <1>2, <2>2 DEF Drained
  <2> HIDE DEF o1, v1, c1
  <2> QED
    BY <2>1, <2>2, <2>3, <2>4
<1>3. CASE c = NoCall /\ ~(o.requested /\ o.active)
  <2> DEFINE o1 == [o EXCEPT !.promised = FALSE]
  <2>1. o1 \in Owners
    BY DEF Owners
  <2>2. own' = [own EXCEPT ![t] = o1] /\ call' = [call EXCEPT ![t] = NoCall] /\ view' = [view EXCEPT ![t] = v]
    BY <1>3 DEF Drain
  <2>3. Drained(o, c, v, o1, NoCall, v)
    BY <1>3 DEF Drained
  <2> HIDE DEF o1
  <2> QED
    BY <2>1, <2>2, <2>3, BlanksAreTyped
<1> QED
  BY <1>1, <1>2, <1>3

(* What a tab has to satisfy before it drains: with a request at work what    *)
(* RefreshFits asks; with none, only that nothing shown there could have come *)
(* back, since drain then asks for the refresh or settles it.                 *)
RefreshDrains(o, c, w) ==
    /\ w \subseteq Unseen
    /\ c # NoCall /\ o.active /\ c.stale => o.requested
    /\ c # NoCall /\ o.active /\ o.promised /\ ~o.requested =>
         c.kind = "page" /\ (c.at = "answered" => c.page.items \cap w = {})

(* Whatever a tab hands to drain in order, drain leaves in order: with no     *)
(* request left it asks for the requested refresh, or settles the promise.    *)
LEMMA DrainedFits ==
  ASSUME NEW o \in Owners, NEW c \in Calls, NEW v \in Views,
         NEW o1 \in Owners, NEW c1 \in Calls, NEW v1 \in Views, Drained(o, c, v, o1, c1, v1),
         NEW a, NEW b, NEW w, ViewFits(v, a, b), CallFits(c, v, a, b), RefreshDrains(o, c, w)
  PROVE  ViewFits(v1, a, b) /\ CallFits(c1, v1, a, b) /\ RefreshFits(o1, c1, w)
<1>1. CASE c # NoCall /\ o1 = o /\ c1 = c /\ v1 = v
  BY <1>1 DEF RefreshFits, RefreshDrains
<1>2. CASE /\ c = NoCall /\ o.requested /\ o.active
           /\ o1 = [o EXCEPT !.requested = FALSE] /\ v1 = [v EXCEPT !.error = "none"]
           /\ c1.kind = "page" /\ c1.item = 0 /\ ~c1.stale /\ c1.at # "answered"
  <2>1. /\ v1.items = v.items /\ v1.unread = v.unread /\ v1.next = v.next /\ v1.loaded = v.loaded
        /\ ~o1.requested
    BY <1>2 DEF Views, Owners
  <2>2. ViewFits(v1, a, b)
    BY <2>1 DEF ViewFits
  <2>3. CallFits(c1, v1, a, b)
    BY <1>2 DEF CallFits
  <2>4. RefreshFits(o1, c1, w)
    BY <1>2, <2>1 DEF RefreshFits, RefreshDrains
  <2> QED
    BY <2>2, <2>3, <2>4
<1>3. CASE /\ c = NoCall /\ ~(o.requested /\ o.active)
           /\ o1 = [o EXCEPT !.promised = FALSE] /\ c1 = NoCall /\ v1 = v
  BY <1>3 DEF RefreshFits, RefreshDrains, NoCall, Owners
<1> QED
  BY <1>1, <1>2, <1>3 DEF Drained

(* A step of one tab, the server standing still, keeps the invariant when the *)
(* new records of that tab fit each other.                                    *)
LEMMA TabMoves ==
  ASSUME HistoryInv, UNCHANGED <<alive, unread, coming, hidden, blocked>>,
         inbox' \subseteq Windows, NEW t \in Windows,
         NEW o \in Owners, NEW c \in Calls, NEW v \in Views, NEW a \in Acks,
         NEW b \in SUBSET Items, NEW w \in SUBSET Items,
         own' = [own EXCEPT ![t] = o], call' = [call EXCEPT ![t] = c], view' = [view EXCEPT ![t] = v],
         acked' = [acked EXCEPT ![t] = a], basis' = [basis EXCEPT ![t] = b],
         before' = [before EXCEPT ![t] = w],
         AckFits(a), ViewFits(v, a, b), CallFits(c, v, a, b), RefreshFits(o, c, w)
  PROVE  HistoryInv'
<1>1. HistoryTyped'
  BY DEF HistoryInv, HistoryTyped, Listed
<1>2. TabFits(t)'
  BY DEF HistoryInv, HistoryTyped, TabFits, AckFits, ViewFits, CallFits, RefreshFits, PageFits,
         Covers, Gone, Unseen
<1>3. ASSUME NEW u \in Windows \ {t} PROVE TabFits(u)'
  <2>1. /\ own'[u] = own[u] /\ call'[u] = call[u] /\ view'[u] = view[u]
        /\ acked'[u] = acked[u] /\ basis'[u] = basis[u] /\ before'[u] = before[u]
    BY <1>3 DEF HistoryInv, HistoryTyped
  <2>2. TabFits(u)
    BY <1>3 DEF HistoryInv
  <2> QED
    BY <2>1, <2>2 DEF TabFits, AckFits, ViewFits, CallFits, RefreshFits, PageFits,
           Covers, Gone, Unseen
<1> QED
  BY <1>1, <1>2, <1>3 DEF HistoryInv

(* The same for a step that ends in drain.                                    *)
LEMMA DrainKeeps ==
  ASSUME HistoryInv, UNCHANGED <<alive, unread, coming, hidden, blocked>>,
         inbox' \subseteq Windows, NEW t \in Windows,
         NEW o \in Owners, NEW c \in Calls, NEW v \in Views, NEW a \in Acks,
         NEW b \in SUBSET Items, NEW w \in SUBSET Items,
         Drain(t, o, c, v), acked' = [acked EXCEPT ![t] = a], basis' = [basis EXCEPT ![t] = b],
         before' = [before EXCEPT ![t] = w],
         AckFits(a), ViewFits(v, a, b), CallFits(c, v, a, b), RefreshDrains(o, c, w)
  PROVE  HistoryInv'
<1>1. PICK o1 \in Owners, c1 \in Calls, v1 \in Views :
         /\ Drained(o, c, v, o1, c1, v1)
         /\ own' = [own EXCEPT ![t] = o1] /\ call' = [call EXCEPT ![t] = c1]
         /\ view' = [view EXCEPT ![t] = v1]
  BY DrainLeaves
<1>2. ViewFits(v1, a, b) /\ CallFits(c1, v1, a, b) /\ RefreshFits(o1, c1, w)
  BY <1>1, DrainedFits
<1> QED
  BY <1>1, <1>2, TabMoves

-----------------------------------------------------------------------------
(* A history before anything happened fits: nothing shown, asked or told.     *)
LEMMA HistoryInitFits == HistoryInit => HistoryInv
<1> SUFFICES ASSUME HistoryInit PROVE HistoryInv
  OBVIOUS
<1>1. Listed
  BY DEF HistoryInit, Listed
<1>2. PICK mounted \in SUBSET Windows :
        own = [t \in Windows |-> [active |-> t \in mounted, requested |-> FALSE,
                                  promised |-> FALSE, known |-> FALSE]]
  BY DEF HistoryInit
<1>3. own \in [Windows -> Owners] /\ \A t \in Windows : ~own[t].requested /\ ~own[t].promised
  <2>1. ASSUME NEW t \in Windows PROVE (t \in mounted) \in BOOLEAN
    OBVIOUS
  <2> QED
    BY <1>2, <2>1 DEF Owners
<1>4. HistoryTyped
  BY <1>1, <1>3, BlanksAreTyped DEF HistoryInit, HistoryTyped, Acks
<1>5. ASSUME NEW t \in Windows PROVE TabFits(t)
  <2>1. /\ call[t] = NoCall /\ view[t] = Blank /\ before[t] = {} /\ basis[t] = {}
        /\ acked[t].gone = {} /\ acked[t].read = {}
    BY DEF HistoryInit
  <2>2. AckFits(acked[t]) /\ ViewFits(view[t], acked[t], basis[t])
    BY <2>1 DEF AckFits, ViewFits, Blank
  <2>3. CallFits(call[t], view[t], acked[t], basis[t]) /\ RefreshFits(own[t], call[t], before[t])
    BY <1>3, <2>1 DEF CallFits, RefreshFits, NoCall
  <2> QED
    BY <2>2, <2>3 DEF TabFits
<1> QED
  BY <1>4, <1>5 DEF HistoryInv

(* Cursors are compared as numbers.                                           *)
LEMMA CursorsAreNumbers ==
  ASSUME NEW i \in Cursors PROVE i \in Nat
  BY HistoryAssumption DEF Cursors

(* The tab's records have their types, are what EXCEPT leaves when it puts    *)
(* them back, and fit each other.                                             *)
LEMMA TabOf ==
  ASSUME HistoryInv, NEW t \in Windows
  PROVE  /\ own[t] \in Owners /\ call[t] \in Calls /\ view[t] \in Views /\ acked[t] \in Acks
         /\ basis[t] \in SUBSET Items /\ before[t] \in SUBSET Items /\ Unseen \in SUBSET Items
         /\ own = [own EXCEPT ![t] = own[t]] /\ call = [call EXCEPT ![t] = call[t]]
         /\ view = [view EXCEPT ![t] = view[t]] /\ acked = [acked EXCEPT ![t] = acked[t]]
         /\ basis = [basis EXCEPT ![t] = basis[t]] /\ before = [before EXCEPT ![t] = before[t]]
         /\ AckFits(acked[t]) /\ ViewFits(view[t], acked[t], basis[t])
         /\ CallFits(call[t], view[t], acked[t], basis[t]) /\ RefreshFits(own[t], call[t], before[t])
         /\ inbox \subseteq Windows
  BY DEF HistoryInv, HistoryTyped, TabFits, Gone, Unseen, Listed

-----------------------------------------------------------------------------
(* A refresh that is called: requested and promised, and nothing that is   *)
(* gone or hidden by then may show.                                        *)
LEMMA RequestDrains ==
  ASSUME NEW o \in Owners, NEW c \in Calls
  PROVE  Requested(o) \in Owners /\ RefreshDrains(Requested(o), c, Unseen)
  BY DEF Requested, Owners, RefreshDrains

(* A refresh that is called (by the user, on focus, or for a signal) keeps    *)
(* the invariant, whatever the tab is working on.                             *)
LEMMA RefreshKeeps ==
  ASSUME HistoryInv, NEW t \in Windows, inbox' \subseteq inbox,
         before' = [before EXCEPT ![t] = Unseen], Drain(t, Requested(own[t]), call[t], view[t]),
         UNCHANGED <<alive, unread, coming, hidden, blocked, acked, basis>>
  PROVE  HistoryInv'
<1> DEFINE a == acked[t]
           b == basis[t]
           c == call[t]
           v == view[t]
           o == Requested(own[t])
           w == Unseen
<1>1. /\ o \in Owners /\ c \in Calls /\ v \in Views /\ a \in Acks /\ b \in SUBSET Items
      /\ w \in SUBSET Items /\ AckFits(a) /\ ViewFits(v, a, b) /\ CallFits(c, v, a, b)
      /\ RefreshDrains(o, c, w)
  BY TabOf, RequestDrains
<1>2. acked' = [acked EXCEPT ![t] = a] /\ basis' = [basis EXCEPT ![t] = b] /\ inbox' \subseteq Windows
  BY TabOf
<1>3. Drain(t, o, c, v) /\ before' = [before EXCEPT ![t] = w]
  OBVIOUS
<1> HIDE DEF a, b, c, v, o, w
<1> QED
  BY <1>1, <1>2, <1>3, DrainKeeps

(* invalidate keeps the invariant: the running request is stale from then on, *)
(* nothing is shown, and the promised refresh is requested.                   *)
LEMMA InvalidateKeeps ==
  ASSUME HistoryInv, NEW t \in Windows, InvalidateHistory(t)
  PROVE  HistoryInv'
<1> DEFINE a == acked[t]
           b == basis[t]
           c == IF call[t] = NoCall THEN NoCall ELSE [call[t] EXCEPT !.stale = TRUE]
           v == Blank
           o == Requested(own[t])
           w == Unseen
<1>1. o \in Owners /\ v \in Views /\ a \in Acks /\ b \in SUBSET Items /\ w \in SUBSET Items /\ AckFits(a)
  BY TabOf, RequestDrains, BlanksAreTyped
<1>2. c \in Calls
  BY TabOf, BlanksAreTyped DEF Calls
<1>3. acked' = [acked EXCEPT ![t] = a] /\ basis' = [basis EXCEPT ![t] = b] /\ inbox' \subseteq Windows
  BY TabOf DEF InvalidateHistory
<1>4. Drain(t, o, c, v) /\ before' = [before EXCEPT ![t] = w] /\ UNCHANGED <<alive, unread, coming, hidden, blocked>>
  BY DEF InvalidateHistory
<1>5. ViewFits(v, a, b)
  BY TabOf DEF ViewFits, Blank
<1>6. CallFits(c, v, a, b)
  BY TabOf DEF CallFits, NoCall, Calls
<1>7. RefreshDrains(o, c, w)
  BY <1>2, TabOf, RequestDrains
<1> HIDE DEF a, b, c, v, o, w
<1> QED
  BY <1>1, <1>2, <1>3, <1>4, <1>5, <1>6, <1>7, DrainKeeps

(* A request of the list or a mutation begins when the tab works on nothing. *)
LEMMA AskKeeps ==
  ASSUME HistoryInv, NEW t \in Windows, own[t].active, ~Works(t),
         NEW kind \in {"more", "delete", "read", "read-all"}, NEW i \in Cursors,
         kind = "more" => i = view[t].next /\ i # 0,
         kind \in {"delete", "read"} => i \in view[t].items,
         call' = [call EXCEPT ![t] = Ask(t, kind, i)], view' = [view EXCEPT ![t].error = "none"],
         UNCHANGED <<alive, unread, coming, hidden, blocked, own, inbox, before, acked, basis>>
  PROVE  HistoryInv'
<1> DEFINE a == acked[t]
           b == basis[t]
           c == Ask(t, kind, i)
           v == [view[t] EXCEPT !.error = "none"]
           o == own[t]
           w == before[t]
<1>1. o \in Owners /\ a \in Acks /\ b \in SUBSET Items /\ w \in SUBSET Items /\ AckFits(a)
  BY TabOf
<1>2. v \in Views /\ c \in Calls
  BY ZenonT(60), TabOf, BlanksAreTyped DEF Views, Ask, NoCall, Calls
<1>3. /\ acked' = [acked EXCEPT ![t] = a] /\ basis' = [basis EXCEPT ![t] = b]
      /\ own' = [own EXCEPT ![t] = o] /\ before' = [before EXCEPT ![t] = w]
      /\ call' = [call EXCEPT ![t] = c] /\ view' = [view EXCEPT ![t] = v]
      /\ inbox' \subseteq Windows
  BY TabOf
<1>4. /\ v.items = view[t].items /\ v.unread = view[t].unread /\ v.next = view[t].next
      /\ v.loaded = view[t].loaded
  BY TabOf DEF Views
<1>5. ViewFits(v, a, b)
  BY <1>4, TabOf DEF ViewFits
<1>6. c.kind = kind /\ c.item = i /\ c.at = "asked" /\ ~c.stale
  BY DEF Ask, NoCall
<1>7. i \in view[t].items => i \in Items \ coming
  BY TabOf DEF Views, ViewFits
<1>8. CallFits(c, v, a, b)
  BY <1>4, <1>6, <1>7 DEF CallFits
<1>9. RefreshFits(o, c, w)
  BY <1>6, TabOf DEF RefreshFits, Works, NoCall
<1> HIDE DEF a, b, c, v, o, w
<1> QED
  BY <1>1, <1>2, <1>3, <1>5, <1>8, <1>9, TabMoves

(* A tab that is closed keeps its list and its request, and asks for nothing  *)
(* more.                                                                      *)
LEMMA DisposeKeeps ==
  ASSUME HistoryInv, NEW t \in Windows, DisposeHistory(t)
  PROVE  HistoryInv'
<1> DEFINE o == [own[t] EXCEPT !.active = FALSE, !.requested = FALSE, !.promised = FALSE]
<1>1. o \in Owners /\ ~o.active
  BY ZenonT(60), TabOf DEF Owners
<1>2. RefreshFits(o, call[t], before[t])
  BY <1>1, TabOf DEF RefreshFits
<1>3. own' = [own EXCEPT ![t] = o]
  BY DEF DisposeHistory
<1>4. UNCHANGED <<alive, unread, coming, hidden, blocked, call, view, inbox, before, acked, basis>>
  BY DEF DisposeHistory
<1> HIDE DEF o
<1> QED
  BY <1>1, <1>2, <1>3, <1>4, TabOf, TabMoves

(* The profile of a request that waits for it is answered.                    *)
LEMMA IdentifyKeeps ==
  ASSUME HistoryInv, NEW t \in Windows, Identify(t)
  PROVE  HistoryInv'
<1> DEFINE o == [own[t] EXCEPT !.known = TRUE]
           c == [call[t] EXCEPT !.at = "asked"]
<1>1. o \in Owners /\ c \in Calls
  BY ZenonT(60), TabOf DEF Owners, Calls
<1>2. own' = [own EXCEPT ![t] = o] /\ call' = [call EXCEPT ![t] = c]
  BY DEF Identify
<1>3. /\ o.active = own[t].active /\ o.requested = own[t].requested /\ o.promised = own[t].promised
      /\ c.kind = call[t].kind /\ c.item = call[t].item /\ c.stale = call[t].stale /\ c.at = "asked"
      /\ call[t].at = "profile"
  BY TabOf DEF Owners, Calls, Identify
<1>4. CallFits(c, view[t], acked[t], basis[t])
  BY <1>3, TabOf DEF CallFits, NoCall
<1>5. RefreshFits(o, c, before[t])
  BY <1>3, TabOf DEF RefreshFits, NoCall
<1>6. UNCHANGED <<alive, unread, coming, hidden, blocked, view, inbox, before, acked, basis>>
  BY DEF Identify
<1> HIDE DEF o, c
<1> QED
  BY <1>1, <1>2, <1>4, <1>5, <1>6, TabOf, TabMoves

(* An answer that is taken: the records of the tab without the request. *)
LEMMA AnswerKeeps ==
  ASSUME HistoryInv, UNCHANGED <<alive, unread, coming, hidden, blocked, before>>, inbox' \subseteq Windows, NEW t \in Windows,
         call[t] # NoCall, NEW o \in Owners, NEW v \in Views, NEW a \in Acks, NEW b \in SUBSET Items,
         Drain(t, o, NoCall, v), acked' = [acked EXCEPT ![t] = a], basis' = [basis EXCEPT ![t] = b],
         AckFits(a), ViewFits(v, a, b)
  PROVE  HistoryInv'
<1> DEFINE w == before[t]
<1>1. w \in SUBSET Items /\ before' = [before EXCEPT ![t] = w]
  BY TabOf
<1>2. CallFits(NoCall, v, a, b)
  BY DEF CallFits, NoCall
<1>3. RefreshDrains(o, NoCall, w)
  BY TabOf DEF RefreshDrains, RefreshFits
<1> HIDE DEF w
<1> QED
  BY <1>1, <1>2, <1>3, BlanksAreTyped, DrainKeeps

(* mergeNotificationHistoryPage: a page that is taken leaves no hole and      *)
(* brings back nothing the tab was told is gone or read. For a later page     *)
(* this needs that its cursor is still the one it was asked with and that     *)
(* nothing alive of the first reading had been missed when the page was read. *)
LEMMA MergedFits ==
  ASSUME HistoryInv, NEW t \in Windows, call[t].at = "answered", call[t].kind \in {"page", "more"},
         ~call[t].stale
  PROVE  LET c == call[t]
             v == Merged(view[t], c.page, c.kind = "page")
             b == IF c.kind = "more" THEN basis[t] ELSE c.page.all
         IN  v \in Views /\ b \in SUBSET Items /\ ViewFits(v, acked[t], b)
<1> DEFINE c == call[t]
           p == c.page
           v == Merged(view[t], p, c.kind = "page")
           b == IF c.kind = "more" THEN basis[t] ELSE p.all
<1>1. c \in Calls /\ p \in Pages /\ view[t] \in Views /\ PageFits(p, c.item, acked[t])
  BY TabOf DEF CallFits, Calls
<1>2. v \in Views /\ b \in SUBSET Items
  BY <1>1, TabOf DEF Merged, Views, Pages
<1>3. CASE c.kind = "page"
  <2>1. v.items = p.items /\ v.unread = p.unread /\ v.next = p.next /\ v.loaded /\ b = p.all /\ c.item = 0
    BY <1>1, <1>3, TabOf DEF Merged, Views, CallFits
  <2>2. ViewFits(v, acked[t], b)
    BY <1>1, <2>1 DEF ViewFits, PageFits, Covers
  <2> QED
    BY <1>2, <2>2
<1>4. CASE c.kind = "more"
  <2>1. /\ v.items = view[t].items \cup p.items /\ v.unread = (view[t].unread \ p.items) \cup p.unread
        /\ v.next = p.next /\ v.loaded /\ b = basis[t]
    BY <1>1, <1>4 DEF Merged, Views
  <2>2. /\ c.item = view[t].next /\ c.item # 0 /\ view[t].loaded /\ b \cap alive \subseteq p.all
        /\ ViewFits(view[t], acked[t], b)
    BY <1>4, <2>1, TabOf DEF CallFits, ViewFits
  <2>3. ASSUME NEW i \in b \cap alive, v.next = 0 \/ i >= v.next PROVE i \in v.items
    <3>1. i \in Nat /\ c.item \in Nat
      <4>1. i \in Cursors /\ c.item \in Cursors
        BY <1>1, <1>2, <2>3 DEF Calls, Cursors
      <4> QED
        BY <4>1, CursorsAreNumbers
    <3>2. i >= c.item => i \in view[t].items
      BY <2>2 DEF ViewFits
    <3>3. i < c.item => i \in p.items
      BY <1>1, <2>1, <2>2, <2>3 DEF PageFits, Covers
    <3> QED
      BY <2>1, <3>1, <3>2, <3>3
  <2>4. ViewFits(v, acked[t], b)
    BY <1>1, <2>1, <2>2, <2>3 DEF ViewFits, PageFits
  <2> QED
    BY <1>2, <2>4
<1> QED
  BY <1>3, <1>4

(* A page that is taken, or ignored because it is stale or the tab is closed. *)
LEMMA TakePageKeeps ==
  ASSUME HistoryInv, NEW t \in Windows, TakePage(t)
  PROVE  HistoryInv'
<1> DEFINE v == IF Ignored(t) THEN view[t] ELSE Merged(view[t], call[t].page, call[t].kind = "page")
           b == IF Ignored(t) \/ call[t].kind = "more" THEN basis[t] ELSE call[t].page.all
<1>1. /\ call[t].at = "answered" /\ call[t].kind \in {"page", "more"} /\ Drain(t, own[t], NoCall, v)
      /\ basis' = [basis EXCEPT ![t] = b] /\ UNCHANGED <<alive, unread, coming, hidden, blocked, inbox, before, acked>>
  BY DEF TakePage
<1>2. v \in Views /\ b \in SUBSET Items /\ ViewFits(v, acked[t], b)
  BY <1>1, MergedFits, TabOf DEF Ignored
<1>3. call[t] # NoCall
  BY <1>1 DEF NoCall
<1> HIDE DEF v, b
<1> QED
  BY <1>1, <1>2, <1>3, TabOf, AnswerKeeps

(* A mutation that is acknowledged: what it removed is gone on the server,    *)
(* what it read is not unread there, so the acknowledgement is true and the   *)
(* snapshot without it fits. A list that is marked read as a whole may mark   *)
(* more than the server changed.                                              *)
LEMMA TakeMutationKeeps ==
  ASSUME HistoryInv, NEW t \in Windows, TakeMutation(t)
  PROVE  HistoryInv'
<1> DEFINE c == call[t]
           hit == IF c.kind = "read-all" THEN view[t].items ELSE {c.item}
           done == c.page.items
           o == [own[t] EXCEPT !.requested = TRUE]
<1>1. /\ c.at = "answered" /\ c.kind \in {"delete", "read", "read-all"}
      /\ UNCHANGED <<alive, unread, coming, hidden, blocked, before, basis>>
  BY DEF TakeMutation
<1>2. c # NoCall
  BY <1>1 DEF NoCall
<1>3. CASE Ignored(t)
  <2>1. Drain(t, own[t], NoCall, view[t]) /\ UNCHANGED <<inbox, acked>>
    BY <1>3 DEF TakeMutation
  <2> QED
    BY <1>1, <1>2, <2>1, TabOf, AnswerKeeps
<1>4. ASSUME ~Ignored(t) PROVE /\ inbox' \subseteq Windows /\ done \subseteq Items
                                  /\ o \in Owners /\ ~c.stale
  <2>1. inbox' \subseteq Windows
    BY <1>4, TabOf DEF TakeMutation
  <2>2. done \subseteq Items
    BY TabOf DEF Calls, Pages
  <2>3. o \in Owners
    BY TabOf DEF Owners
  <2> QED
    BY <1>4, <2>1, <2>2, <2>3 DEF Ignored
<1>5. CASE ~Ignored(t) /\ c.kind = "delete"
  <2> DEFINE v == [view[t] EXCEPT !.items = @ \ hit, !.unread = @ \ hit]
             a == [gone |-> acked[t].gone \cup done, read |-> acked[t].read]
  <2>1. Drain(t, o, NoCall, v) /\ acked' = [acked EXCEPT ![t] = a]
    BY <1>5 DEF TakeMutation
  <2>2. hit = done /\ hit \subseteq Gone /\ hit \cap alive = {}
    BY <1>1, <1>5, TabOf DEF CallFits, Gone
  <2>3. v \in Views /\ a \in Acks
    <3>1. view[t].items \ hit \in SUBSET Items /\ view[t].unread \ hit \in SUBSET Items
      BY TabOf DEF Views
    <3> HIDE DEF hit
    <3>2. v \in Views
      BY ZenonT(60), <3>1, TabOf DEF Views
    <3> QED
      BY <1>4, <1>5, <3>2, TabOf DEF Acks
  <2>4. /\ v.items = view[t].items \ hit /\ v.unread = view[t].unread \ hit
        /\ v.next = view[t].next /\ v.loaded = view[t].loaded
        /\ a.gone = acked[t].gone \cup done /\ a.read = acked[t].read
    BY TabOf DEF Views, Acks
  <2>5. AckFits(a)
    BY <2>2, <2>4, TabOf DEF AckFits
  <2>6. ViewFits(v, a, basis[t])
    BY <2>2, <2>4, TabOf DEF ViewFits
  <2> HIDE DEF o, v, a, c
  <2> QED
    BY <1>1, <1>2, <1>4, <1>5, <2>1, <2>3, <2>5, <2>6, TabOf, AnswerKeeps DEF c
<1>6. CASE ~Ignored(t) /\ c.kind # "delete"
  <2> DEFINE v == [view[t] EXCEPT !.unread = @ \ hit]
             a == [gone |-> acked[t].gone, read |-> acked[t].read \cup done]
  <2>1. Drain(t, o, NoCall, v) /\ acked' = [acked EXCEPT ![t] = a]
    <3>1. [view[t] EXCEPT !.items = @, !.unread = @ \ hit] = v
      BY TabOf DEF Views
    <3> QED
      BY <1>6, <3>1 DEF TakeMutation
  <2>2. done \cap (unread \cup coming) = {} /\ (view[t].unread \ hit) \cap done = {}
    BY <1>1, <1>6, TabOf DEF CallFits, ViewFits
  <2>3. v \in Views /\ a \in Acks
    BY <1>4, <1>6, TabOf DEF Views, Acks
  <2>4. /\ v.items = view[t].items /\ v.unread = view[t].unread \ hit
        /\ v.next = view[t].next /\ v.loaded = view[t].loaded
        /\ a.gone = acked[t].gone /\ a.read = acked[t].read \cup done
    BY TabOf DEF Views, Acks
  <2>5. AckFits(a)
    BY <2>2, <2>4, TabOf DEF AckFits
  <2>6. ViewFits(v, a, basis[t])
    BY <2>2, <2>4, TabOf DEF ViewFits
  <2> HIDE DEF o, v, a, c
  <2> QED
    BY <1>1, <1>2, <1>4, <1>6, <2>1, <2>3, <2>5, <2>6, TabOf, AnswerKeeps DEF c
<1> QED
  BY <1>3, <1>5, <1>6

(* A request that fails leaves the list as it was, with an error.             *)
LEMMA CallFailsKeeps ==
  ASSUME HistoryInv, NEW t \in Windows, CallFails(t)
  PROVE  HistoryInv'
<1> DEFINE v == IF Ignored(t) THEN view[t]
                ELSE [view[t] EXCEPT !.error = IF call[t].kind \in {"page", "more"} THEN "history" ELSE "mutation"]
<1>1. /\ Drain(t, own[t], NoCall, v) /\ call[t] # NoCall
      /\ UNCHANGED <<alive, unread, coming, hidden, blocked, inbox, before, acked, basis>>
  BY DEF CallFails, Works
<1>2. v \in Views
  BY TabOf DEF Views
<1>3. /\ v.items = view[t].items /\ v.unread = view[t].unread
      /\ v.next = view[t].next /\ v.loaded = view[t].loaded
  BY TabOf DEF Views
<1>4. ViewFits(v, acked[t], basis[t])
  BY <1>3, TabOf DEF ViewFits
<1> HIDE DEF v
<1> QED
  BY <1>1, <1>2, <1>4, TabOf, AnswerKeeps

-----------------------------------------------------------------------------
(* The server moves: what is gone stays gone, only what is still to come   *)
(* may come, unread, and nothing that stays is hidden or shown again.      *)
ServerMoves ==
    /\ Listed' /\ coming' \subseteq coming
    /\ alive' \subseteq alive \cup coming /\ unread' \subseteq unread \cup coming
    /\ hidden' = hidden \cap alive'

(* What fits a tab still fits after the server moved: a deletion is for good, *)
(* a reading is for good, and what arrives was neither shown nor              *)
(* acknowledged.                                                              *)
LEMMA StaysFit ==
  ASSUME ServerMoves, Listed, NEW o, NEW c, NEW v, NEW a, NEW b, NEW w,
         AckFits(a), ViewFits(v, a, b), CallFits(c, v, a, b), RefreshFits(o, c, w)
  PROVE  /\ (Gone \subseteq Gone') /\ (Unseen \subseteq Unseen') /\ AckFits(a)' /\ ViewFits(v, a, b)'
         /\ CallFits(c, v, a, b)' /\ RefreshFits(o, c, w)'
<1>1. Gone \subseteq Gone'
  BY DEF ServerMoves, Gone
<1>2. AckFits(a)'
  BY <1>1 DEF ServerMoves, AckFits
<1>3. ViewFits(v, a, b)'
  BY DEF ServerMoves, ViewFits
<1>4. PageFits(c.page, c.item, a) => PageFits(c.page, c.item, a)'
  BY DEF ServerMoves, PageFits, Covers
<1>5. CallFits(c, v, a, b)'
  BY <1>1, <1>4 DEF ServerMoves, CallFits, ViewFits
<1>6. Unseen \subseteq Unseen'
  BY <1>1 DEF ServerMoves, Unseen, Gone, Listed
<1>7. RefreshFits(o, c, w)'
  BY <1>6 DEF RefreshFits
<1> QED
  BY <1>1, <1>2, <1>3, <1>5, <1>6, <1>7

(* A step of the server alone keeps the invariant.                            *)
LEMMA ServerKeeps ==
  ASSUME HistoryInv, ServerMoves, UNCHANGED <<own, inbox, before, acked, basis, view, call>>
  PROVE  HistoryInv'
<1>1. HistoryTyped'
  BY DEF HistoryInv, HistoryTyped, ServerMoves
<1>2. ASSUME NEW t \in Windows PROVE TabFits(t)'
  <2>1. Listed /\ TabFits(t)
    BY DEF HistoryInv, HistoryTyped
  <2> DEFINE o == own[t]
             c == call[t]
             v == view[t]
             a == acked[t]
             b == basis[t]
             w == before[t]
  <2>2. AckFits(a)' /\ ViewFits(v, a, b)' /\ CallFits(c, v, a, b)' /\ RefreshFits(o, c, w)'
    BY <2>1, StaysFit DEF TabFits
  <2> QED
    BY <2>2 DEF TabFits
<1> QED
  BY <1>1, <1>2 DEF HistoryInv

(* Serving a request moves the server as ServerMoves says.                    *)
LEMMA ServeMovesTheServer ==
  ASSUME HistoryInv, NEW t \in Windows, Serve(t)
  PROVE  /\ ServerMoves /\ UNCHANGED <<coming, own, view, inbox, before, acked, basis>>
         /\ call[t].kind \in {"page", "more"} => UNCHANGED <<alive, unread, hidden>>
         /\ call[t].kind \notin {"page", "more"} => Changed(call[t]) \in SUBSET Items
         /\ call[t].kind \in {"delete", "read"} => Changed(call[t]) = {call[t].item}
         /\ call[t].kind = "delete" => call[t].item \notin alive'
         /\ call[t].kind \in {"read", "read-all"} => Changed(call[t]) \cap (unread' \cup coming') = {}
<1>1. Listed /\ call[t].at = "asked" /\ call[t] \in Calls
      /\ CallFits(call[t], view[t], acked[t], basis[t])
  BY TabOf DEF HistoryInv, HistoryTyped, Serve
<1>2. /\ UNCHANGED <<coming, own, view, inbox, before, acked, basis>>
      /\ hidden' = hidden \cap alive' /\ blocked' = blocked \cap alive'
  BY DEF Serve
<1>3. CASE call[t].kind = "delete"
  <2>1. /\ alive' = alive \ {call[t].item} /\ unread' = unread \ {call[t].item}
        /\ call[t].item \in alive /\ Changed(call[t]) = {call[t].item}
    BY <1>3 DEF Serve, Changed
  <2> QED
    BY <1>1, <1>2, <1>3, <2>1 DEF Listed, ServerMoves
<1>4. CASE call[t].kind = "read"
  <2>1. /\ alive' = alive /\ unread' = unread \ {call[t].item}
        /\ call[t].item \in alive /\ Changed(call[t]) = {call[t].item}
    BY <1>4 DEF Serve, Changed
  <2> QED
    BY <1>1, <1>2, <1>4, <2>1 DEF Listed, ServerMoves
<1>5. CASE call[t].kind = "read-all"
  <2>1. alive' = alive /\ unread' = unread \ Changed(call[t]) /\ Changed(call[t]) = alive \ blocked
    BY <1>5 DEF Serve, Changed
  <2> QED
    BY <1>1, <1>2, <1>5, <2>1 DEF Listed, ServerMoves
<1>6. CASE call[t].kind \in {"page", "more"}
  <2>1. alive' = alive /\ unread' = unread
    BY <1>6 DEF Serve
  <2> QED
    BY <1>1, <1>2, <1>6, <2>1 DEF Listed, ServerMoves
<1>7. call[t].kind # "none"
  BY <1>1 DEF CallFits, NoCall
<1> QED
  BY <1>1, <1>3, <1>4, <1>5, <1>6, <1>7 DEF Calls

(* What the server answers fits the tab that asked, at the moment it answers. *)
LEMMA ServedFits ==
  ASSUME Listed, ServerMoves, UNCHANGED coming, NEW o, NEW k \in Calls, NEW v, NEW a, NEW b, NEW w, NEW p, NEW c,
         c.kind = k.kind, c.item = k.item, c.stale = k.stale, c.at = "answered", c.page = p,
         c # NoCall, k # NoCall,
         AckFits(a), ViewFits(v, a, b), CallFits(k, v, a, b), RefreshFits(o, k, w),
         k.kind \in {"page", "more"} =>
            /\ UNCHANGED <<alive, unread, hidden>> /\ Covers(p, k.item) /\ p.items \subseteq Visible
            /\ p.unread = p.items \cap unread /\ p.all = Visible,
         k.kind \in {"delete", "read"} => p.items = {k.item},
         k.kind = "delete" => k.item \notin alive',
         k.kind \in {"read", "read-all"} => p.items \cap (unread' \cup coming') = {}
  PROVE  CallFits(c, v, a, b)' /\ RefreshFits(o, c, w)'
<1>1. AckFits(a)' /\ ViewFits(v, a, b)' /\ CallFits(k, v, a, b)' /\ RefreshFits(o, k, w)'
      /\ Gone \subseteq Gone'
  BY StaysFit
<1>2. k.kind \in {"page", "more"} => PageFits(p, k.item, a)' /\ b \cap alive \subseteq p.all
  BY DEF PageFits, Covers, AckFits, ViewFits, Gone, Visible, Listed
<1>3. k.kind = "delete" => k.item \in Gone'
  BY DEF CallFits, Gone
<1>4. CallFits(c, v, a, b)'
  BY <1>1, <1>2, <1>3 DEF CallFits, NoCall
<1>5. k.kind \in {"page", "more"} => p.items \cap w = {}
  BY DEF RefreshFits, Gone, Unseen, Visible
<1>6. RefreshFits(o, c, w)'
  BY <1>1, <1>5 DEF RefreshFits
<1> QED
  BY <1>4, <1>6

(* Serving a request keeps the invariant.                                     *)
LEMMA ServeKeeps ==
  ASSUME HistoryInv, NEW t \in Windows, Serve(t)
  PROVE  HistoryInv'
<1> DEFINE k == call[t]
           p == IF k.kind \in {"page", "more"} THEN Page(k.item)
                ELSE [NoPage EXCEPT !.items = Changed(k)]
           c == [k EXCEPT !.at = "answered", !.page = p]
<1>1. /\ ServerMoves /\ UNCHANGED <<coming, own, view, inbox, before, acked, basis>>
      /\ k.kind \in {"page", "more"} => UNCHANGED <<alive, unread, hidden>>
      /\ k.kind \notin {"page", "more"} => Changed(k) \in SUBSET Items
      /\ k.kind \in {"delete", "read"} => Changed(k) = {k.item}
      /\ k.kind = "delete" => k.item \notin alive'
      /\ k.kind \in {"read", "read-all"} => Changed(k) \cap (unread' \cup coming') = {}
  BY ServeMovesTheServer
<1>2. Listed /\ k \in Calls /\ k.at = "asked"
  BY TabOf DEF HistoryInv, HistoryTyped, Serve
<1>3. p \in Pages /\ (k.kind \notin {"page", "more"} => p.items = Changed(k))
  BY <1>1, <1>2, PageShows, BlanksAreTyped DEF Calls, Pages
<1>4. /\ c \in Calls /\ c.kind = k.kind /\ c.item = k.item /\ c.stale = k.stale
      /\ c.at = "answered" /\ c.page = p
  BY <1>2, <1>3 DEF Calls
<1>5. call' = [call EXCEPT ![t] = c]
  BY DEF Serve
<1>6. k.kind \in {"page", "more"} =>
        /\ Covers(p, k.item) /\ p.items \subseteq Visible
        /\ p.unread = p.items \cap unread /\ p.all = Visible
  BY <1>2, PageShows DEF Calls
<1> HIDE DEF p, c
<1>7. c # NoCall /\ k # NoCall
  <2>1. NoCall.at = "none"
    BY DEF NoCall
  <2> QED
    BY <1>2, <1>4, <2>1
<1>8. HistoryTyped'
  BY <1>1, <1>4, <1>5 DEF HistoryInv, HistoryTyped, ServerMoves
<1>9. TabFits(t)'
  <2>1. AckFits(acked[t]) /\ ViewFits(view[t], acked[t], basis[t])
        /\ CallFits(k, view[t], acked[t], basis[t]) /\ RefreshFits(own[t], k, before[t])
    BY TabOf
  <2> DEFINE a == acked[t]
             b == basis[t]
             v == view[t]
             o == own[t]
             w == before[t]
  <2>2. AckFits(a)' /\ ViewFits(v, a, b)'
    BY <1>1, <1>2, <2>1, StaysFit
  <2>3. PICK c0 : c0 = c
    OBVIOUS
  <2>4. call'[t] = c0
    BY <1>5, <2>3, TabOf DEF HistoryInv, HistoryTyped
  <2>5. CallFits(c0, v, a, b)' /\ RefreshFits(o, c0, w)'
    BY <1>1, <1>2, <1>3, <1>4, <1>6, <1>7, <2>1, <2>3, ServedFits
  <2> QED
    BY <2>2, <2>4, <2>5 DEF TabFits
<1>10. ASSUME NEW u \in Windows \ {t} PROVE TabFits(u)'
  <2>1. TabFits(u) /\ call'[u] = call[u]
    BY <1>5 DEF HistoryInv, HistoryTyped
  <2> DEFINE a == acked[u]
             b == basis[u]
             v == view[u]
             o == own[u]
             w == before[u]
             d == call[u]
  <2>2. AckFits(a)' /\ ViewFits(v, a, b)' /\ CallFits(d, v, a, b)' /\ RefreshFits(o, d, w)'
    BY <1>1, <1>2, <2>1, StaysFit DEF TabFits
  <2> QED
    BY <2>2 DEF TabFits
<1> QED
  BY <1>8, <1>9, <1>10 DEF HistoryInv

(* A notification that is hidden, its row kept: no list is bound to show it   *)
(* any more, neither a list on the screen nor a page on its way.              *)
LEMMA HideKeeps ==
  ASSUME HistoryInv, NEW i \in Items, Hide(i)
  PROVE  HistoryInv'
<1>1. /\ i \in alive /\ hidden' = hidden \cup {i} /\ blocked' \in {blocked \cup {i}, blocked \ {i}}
      /\ call' = [t \in Windows |-> [call[t] EXCEPT !.page.all = @ \ {i}]]
      /\ basis' = [t \in Windows |-> basis[t] \ {i}]
      /\ UNCHANGED <<alive, unread, coming, own, view, inbox, before, acked>>
  BY DEF Hide
<1>2. ASSUME NEW t \in Windows PROVE call'[t] \in Calls /\ basis'[t] \in SUBSET Items /\ TabFits(t)'
  <2> PICK d, b : d = call'[t] /\ b = basis'[t]
    OBVIOUS
  <2> DEFINE c == call[t]
  <2>1. /\ own[t] \in Owners /\ c \in Calls /\ view[t] \in Views /\ basis[t] \in SUBSET Items
        /\ AckFits(acked[t]) /\ ViewFits(view[t], acked[t], basis[t])
        /\ CallFits(c, view[t], acked[t], basis[t]) /\ RefreshFits(own[t], c, before[t])
    BY TabOf
  <2>2. b = basis[t] \ {i} /\ d = [c EXCEPT !.page.all = @ \ {i}]
    BY <1>1
  <2>3. /\ d.kind = c.kind /\ d.at = c.at /\ d.stale = c.stale /\ d.item = c.item
        /\ d.page.items = c.page.items /\ d.page.unread = c.page.unread /\ d.page.next = c.page.next
        /\ d.page.all = c.page.all \ {i} /\ d \in Calls
    BY <2>1, <2>2 DEF Calls, Pages
  <2>4. c.kind = "none" => d = NoCall
    <3>1. c.kind = "none" => c = NoCall
      BY <2>1 DEF CallFits
    <3> QED
      BY <2>2, <3>1 DEF NoCall, NoPage
  <2>5. d = NoCall => c = NoCall
    BY <2>1, <2>3 DEF CallFits, NoCall
  <2>6. AckFits(acked[t])'
    BY <1>1, <2>1 DEF AckFits, Gone
  <2>7. ViewFits(view[t], acked[t], b)'
    BY <1>1, <2>1, <2>2 DEF ViewFits
  <2>8. PageFits(c.page, c.item, acked[t]) => PageFits(d.page, d.item, acked[t])'
    BY <1>1, <2>3 DEF PageFits, Covers
  <2>9. CallFits(d, view[t], acked[t], b)'
    BY <1>1, <2>1, <2>2, <2>3, <2>4, <2>8 DEF CallFits, Gone
  <2>10. RefreshFits(own[t], d, before[t])'
    BY <1>1, <2>1, <2>3, <2>5 DEF RefreshFits, Unseen, Gone
  <2> QED
    BY <2>1, <2>2, <2>3, <2>6, <2>7, <2>9, <2>10 DEF TabFits
<1>3. HistoryTyped'
  BY <1>1, <1>2 DEF HistoryInv, HistoryTyped, Listed
<1> QED
  BY <1>2, <1>3 DEF HistoryInv

(* A notification that may be seen again returns as it was: what a tab was    *)
(* told is read is so, and a refresh that is under way may show it.           *)
LEMMA RevealKeeps ==
  ASSUME HistoryInv, NEW i \in Items, Reveal(i)
  PROVE  HistoryInv'
<1>1. /\ i \in hidden /\ hidden' = hidden \ {i} /\ blocked' = blocked \ {i}
      /\ before' = [t \in Windows |-> before[t] \ {i}]
      /\ UNCHANGED <<alive, unread, coming, own, call, view, inbox, acked, basis>>
  BY DEF Reveal
<1>2. HistoryTyped'
  BY <1>1 DEF HistoryInv, HistoryTyped, Listed
<1>3. ASSUME NEW t \in Windows PROVE TabFits(t)'
  <2>1. TabFits(t) /\ before'[t] = before[t] \ {i}
    BY <1>1 DEF HistoryInv
  <2>2. AckFits(acked[t])' /\ ViewFits(view[t], acked[t], basis[t])'
    BY <1>1, <2>1 DEF TabFits, AckFits, ViewFits, Gone
  <2>3. CallFits(call[t], view[t], acked[t], basis[t])'
    BY <1>1, <2>1 DEF TabFits, CallFits, PageFits, Covers, Gone
  <2>4. RefreshFits(own[t], call[t], before[t])'
    BY <1>1, <2>1 DEF TabFits, RefreshFits, Unseen, Gone
  <2> QED
    BY <2>2, <2>3, <2>4 DEF TabFits
<1> QED
  BY <1>2, <1>3 DEF HistoryInv

-----------------------------------------------------------------------------
(* Every step keeps the invariant.                                            *)
LEMMA HistoryInvIsInductive == HistoryInv /\ [HistoryNext]_historyVars => HistoryInv'
<1> SUFFICES ASSUME HistoryInv, [HistoryNext]_historyVars PROVE HistoryInv'
  OBVIOUS
<1>1. CASE UNCHANGED historyVars
  BY <1>1
     DEF historyVars, HistoryInv, HistoryTyped, Listed, TabFits, AckFits, ViewFits, CallFits,
         PageFits,
     Covers, RefreshFits, Gone, Unseen
<1>2. ASSUME NEW t \in Windows, Refresh(t) PROVE HistoryInv'
  BY <1>2, RefreshKeeps DEF Refresh
<1>3. ASSUME NEW t \in Windows, HearChange(t) PROVE HistoryInv'
  <2>1. UNCHANGED <<alive, unread, coming, hidden, blocked, acked, basis>> /\ inbox' \subseteq inbox
    BY <1>3 DEF HearChange
  <2>2. CASE own[t].active
    BY <1>3, <2>1, <2>2, RefreshKeeps DEF HearChange
  <2>3. CASE ~own[t].active
    <3>1. UNCHANGED <<own, call, view, before>>
      BY <1>3, <2>3 DEF HearChange
    <3> QED
      BY <2>1, <3>1
         DEF HistoryInv, HistoryTyped, Listed, TabFits, AckFits, ViewFits, CallFits, PageFits,
         Covers, RefreshFits, Gone, Unseen
  <2> QED
    BY <2>2, <2>3
<1>4. ASSUME NEW t \in Windows, InvalidateHistory(t) PROVE HistoryInv'
  BY <1>4, InvalidateKeeps
<1>5. ASSUME NEW t \in Windows, NEW kind \in Kinds, NEW i \in Cursors, Mutate(t, kind, i)
      PROVE  HistoryInv'
  <2>1. kind \in {"delete", "read", "read-all"}
    BY HistoryAssumption
  <2> QED
    BY <1>5, <2>1, AskKeeps DEF Mutate
<1>6. ASSUME NEW t \in Windows, LoadMore(t) PROVE HistoryInv'
  <2>1. view[t].next \in Cursors
    BY TabOf DEF Views
  <2> QED
    BY <1>6, <2>1, AskKeeps DEF LoadMore
<1>7. ASSUME NEW t \in Windows, DisposeHistory(t) PROVE HistoryInv'
  BY <1>7, DisposeKeeps
<1>8. ASSUME NEW t \in Windows, Progress(t) PROVE HistoryInv'
  BY <1>8, ServeKeeps, IdentifyKeeps, TakePageKeeps, TakeMutationKeeps, CallFailsKeeps DEF Progress
<1>9. ASSUME NEW i \in Items, Arrive(i) \/ Vanish(i) PROVE HistoryInv'
  <2>1. ServerMoves
    BY <1>9 DEF Arrive, Vanish, ServerMoves, HistoryInv, HistoryTyped, Listed
  <2> QED
    BY <1>9, <2>1, ServerKeeps DEF Arrive, Vanish
<1>10. ASSUME NEW i \in Items, Hide(i) \/ Reveal(i) PROVE HistoryInv'
  BY <1>10, HideKeeps, RevealKeeps
<1> QED
  BY <1>1, <1>2, <1>3, <1>4, <1>5, <1>6, <1>7, <1>8, <1>9, <1>10 DEF HistoryNext, Acts

(* HistoryInv holds of every reachable state, for any number of tabs,         *)
(* notifications, page size and mutations.                                    *)
THEOREM HistoryInvariant == HistorySpec => []HistoryInv
  BY HistoryInitFits, HistoryInvIsInductive, PTL DEF HistorySpec

(* The state of the history has its types.                                    *)
THEOREM HistoryTypeCorrect == HistorySpec => []HistoryTypeOK
<1>1. ASSUME HistoryInv PROVE HistoryTypeOK
  <2>1. own \in [Windows -> Owners] /\ inbox \subseteq Windows /\ Listed
    BY <1>1 DEF HistoryInv, HistoryTyped
  <2>2. ASSUME NEW t \in Windows
        PROVE  /\ call[t].kind \in {"none", "page", "more", "delete", "read", "read-all"}
               /\ call[t].at \in {"none", "profile", "asked", "answered"}
               /\ call[t].stale \in BOOLEAN /\ call[t].item \in Cursors
               /\ view[t] \in Views /\ view[t].unread \subseteq view[t].items
               /\ own[t].requested /\ call[t] = NoCall => ~own[t].active
    <3>1. call[t] \in Calls /\ ViewFits(view[t], acked[t], basis[t]) /\ RefreshFits(own[t], call[t], before[t])
          /\ view[t] \in Views
      BY <1>1, TabOf
    <3> QED
      BY <3>1 DEF Calls, ViewFits, RefreshFits
  <2> QED
    BY <2>1, <2>2 DEF HistoryTypeOK, Owners, Views, Listed
<1> QED
  BY <1>1, HistoryInvariant, PTL

(* What a tab was told is deleted or read never shows again as it was         *)
(* (AcknowledgedStays), however its refreshes, pages and signals overlap:     *)
(* mergeNotificationHistoryPage and applyNotificationMutation, serialized by  *)
(* working.                                                                   *)
THEOREM AcknowledgedNeverReturns == HistorySpec => []AcknowledgedStays
<1>1. ASSUME HistoryInv PROVE AcknowledgedStays
  BY <1>1, TabOf DEF ViewFits, AcknowledgedStays
<1> QED
  BY <1>1, HistoryInvariant, PTL

(* A list shows all its first page's reading found down to its cursor and     *)
(* still there (NoHoles): loadMore continues where the list ends, for every   *)
(* page size.                                                                 *)
THEOREM ListHasNoHoles == HistorySpec => []NoHoles
<1>1. ASSUME HistoryInv PROVE NoHoles
  BY <1>1, TabOf DEF ViewFits, NoHoles
<1> QED
  BY <1>1, HistoryInvariant, PTL

-----------------------------------------------------------------------------
(* A refresh settles only where its own page is taken, or fails. *)
SettlesFresh(t) ==
    own[t].promised /\ ~own'[t].promised /\ own'[t].active =>
        view'[t].error # "none" \/ view'[t].items \cap before[t] = {}

(* Drain settles a promise freshly when the tab that hands it over shows      *)
(* nothing gone, shows an error, or still has the refresh requested.          *)
LEMMA DrainSettlesFresh ==
  ASSUME HistoryInv, NEW t \in Windows, NEW o \in Owners, NEW c \in Calls, NEW v \in Views, Drain(t, o, c, v),
         o.active = own[t].active, own[t].promised => o.promised,
         c = NoCall /\ own[t].promised /\ o.active /\ ~o.requested =>
            v.error # "none" \/ v.items \cap before[t] = {}
  PROVE  /\ SettlesFresh(t)
         /\ \A u \in Windows \ {t} : own'[u] = own[u]
<1>1. PICK o1 \in Owners, c1 \in Calls, v1 \in Views :
         /\ Drained(o, c, v, o1, c1, v1)
         /\ own' = [own EXCEPT ![t] = o1] /\ call' = [call EXCEPT ![t] = c1]
         /\ view' = [view EXCEPT ![t] = v1]
  BY DrainLeaves
<1>2. own'[t] = o1 /\ view'[t] = v1 /\ \A u \in Windows \ {t} : own'[u] = own[u]
  BY <1>1 DEF HistoryInv, HistoryTyped
<1>3. own[t].promised /\ ~o1.promised /\ o1.active => v1.error # "none" \/ v1.items \cap before[t] = {}
  BY <1>1 DEF Drained, Owners
<1> QED
  BY <1>2, <1>3 DEF SettlesFresh

(* When a refresh settles, what was gone when it was called does not show, or *)
(* an error does (RefreshIsFresh): a refresh called while an older one is     *)
(* being answered waits for one that is asked afterwards.                     *)
THEOREM RefreshIsNeverStale == HistorySpec => RefreshIsFresh
<1> DEFINE Fresh ==
      \A t \in Windows : own[t].promised /\ ~own'[t].promised /\ own'[t].active =>
           view'[t].error # "none" \/ view'[t].items \cap before[t] = {}
<1>1. HistoryInv /\ [HistoryNext]_historyVars => [Fresh]_historyVars
  <2> SUFFICES ASSUME HistoryInv, HistoryNext PROVE Fresh
    OBVIOUS
  <2>1. CASE UNCHANGED own
    BY <2>1
  <2>2. ASSUME NEW t \in Windows, SettlesFresh(t), \A u \in Windows \ {t} : own'[u] = own[u] PROVE Fresh
    BY <2>2 DEF SettlesFresh
  <2>3. ASSUME NEW t \in Windows, NEW c \in Calls, NEW v \in Views, Drain(t, Requested(own[t]), c, v)
        PROVE  Fresh
    <3>1. /\ Requested(own[t]) \in Owners /\ Requested(own[t]).active = own[t].active
          /\ Requested(own[t]).requested /\ Requested(own[t]).promised
      BY TabOf DEF Requested, Owners
    <3>2. SettlesFresh(t) /\ \A u \in Windows \ {t} : own'[u] = own[u]
      BY <2>3, <3>1, DrainSettlesFresh
    <3> QED
      BY <2>2, <3>2
  <2>4. ASSUME NEW t \in Windows, Refresh(t) \/ HearChange(t) PROVE Fresh
    BY <2>1, <2>3, <2>4, TabOf DEF Refresh, HearChange
  <2>5. ASSUME NEW t \in Windows, InvalidateHistory(t) PROVE Fresh
    <3>1. (IF call[t] = NoCall THEN NoCall ELSE [call[t] EXCEPT !.stale = TRUE]) \in Calls
      BY TabOf DEF Calls
    <3> QED
      BY <2>3, <2>5, <3>1, BlanksAreTyped DEF InvalidateHistory
  <2>6. ASSUME NEW t \in Windows, DisposeHistory(t) PROVE Fresh
    BY <2>6, TabOf DEF DisposeHistory, HistoryInv, HistoryTyped, Owners
  <2>7. ASSUME NEW t \in Windows, Identify(t) PROVE Fresh
    BY <2>7, TabOf DEF Identify, HistoryInv, HistoryTyped, Owners
  <2>8. ASSUME NEW t \in Windows, TakePage(t) PROVE Fresh
    <3> DEFINE v == IF Ignored(t) THEN view[t] ELSE Merged(view[t], call[t].page, call[t].kind = "page")
    <3>1. call[t].at = "answered" /\ call[t].kind \in {"page", "more"} /\ Drain(t, own[t], NoCall, v)
      BY <2>8 DEF TakePage
    <3>2. v \in Views
      BY <3>1, MergedFits, TabOf DEF Ignored
    <3>3. own[t].promised /\ own[t].active /\ ~own[t].requested => v.items \cap before[t] = {}
      BY <3>1, TabOf DEF RefreshFits, Ignored, Merged, Views
    <3> HIDE DEF v
    <3>4. SettlesFresh(t) /\ \A u \in Windows \ {t} : own'[u] = own[u]
      BY <3>1, <3>2, <3>3, BlanksAreTyped, TabOf, DrainSettlesFresh
    <3> QED
      BY <2>2, <3>4
  <2>9. ASSUME NEW t \in Windows, TakeMutation(t) PROVE Fresh
    <3> DEFINE hit == IF call[t].kind = "read-all" THEN view[t].items ELSE {call[t].item}
               o == IF Ignored(t) THEN own[t] ELSE [own[t] EXCEPT !.requested = TRUE]
               v == IF Ignored(t) THEN view[t]
                    ELSE [view[t] EXCEPT !.items = IF call[t].kind = "delete" THEN @ \ hit ELSE @,
                                         !.unread = @ \ hit]
    <3>1. call[t].kind \in {"delete", "read", "read-all"} /\ Drain(t, o, NoCall, v)
      BY <2>9 DEF TakeMutation
    <3>2. o \in Owners /\ o.active = own[t].active /\ o.promised = own[t].promised
      BY TabOf DEF Owners
    <3>3. v \in Views
      <4>1. view[t].items \ hit \in SUBSET Items /\ view[t].unread \ hit \in SUBSET Items
        BY TabOf DEF Views
      <4> HIDE DEF hit
      <4> QED
        BY ZenonT(60), <4>1, TabOf DEF Views
    <3>4. own[t].promised /\ o.active => o.requested
      BY <3>1, TabOf DEF RefreshFits, Ignored, Owners
    <3> HIDE DEF o, v
    <3>5. SettlesFresh(t) /\ \A u \in Windows \ {t} : own'[u] = own[u]
      BY <3>1, <3>2, <3>3, <3>4, BlanksAreTyped, DrainSettlesFresh
    <3> QED
      BY <2>2, <3>5
  <2>10. ASSUME NEW t \in Windows, CallFails(t) PROVE Fresh
    <3> DEFINE v == IF Ignored(t) THEN view[t]
                    ELSE [view[t] EXCEPT !.error = IF call[t].kind \in {"page", "more"}
                                                   THEN "history" ELSE "mutation"]
    <3>1. Drain(t, own[t], NoCall, v)
      BY <2>10 DEF CallFails
    <3>2. v \in Views /\ (~Ignored(t) => v.error # "none")
      BY TabOf DEF Views
    <3>3. own[t].active /\ Ignored(t) => own[t].requested
      BY TabOf DEF RefreshFits, Ignored
    <3> HIDE DEF v
    <3>4. SettlesFresh(t) /\ \A u \in Windows \ {t} : own'[u] = own[u]
      BY <3>1, <3>2, <3>3, BlanksAreTyped, TabOf, DrainSettlesFresh
    <3> QED
      BY <2>2, <3>4
  <2> QED
    BY <2>1, <2>4, <2>5, <2>6, <2>7, <2>8, <2>9, <2>10
       DEF HistoryNext, Acts, Progress, Mutate, LoadMore, Serve, Arrive, Vanish, Hide, Reveal
<1> QED
  BY <1>1, HistoryInvariant, PTL DEF HistorySpec, RefreshIsFresh
=============================================================================
