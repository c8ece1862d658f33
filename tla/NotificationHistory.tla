------------------------- MODULE NotificationHistory -------------------------
(* The notification history of one account in the tabs of one browser: the   *)
(* owner of a tab's list, which works on one request at a time and keeps one *)
(* more refresh for afterwards, the pages and mutations it asks the server   *)
(* for, and the channel through which tabs tell each other of a change.      *)
(* Notifications are numbered in the order of (created_at, id); they may be  *)
(* committed in another one.                                                 *)
EXTENDS Naturals, FiniteSets

CONSTANTS
    Windows, Items, PageSize,
    Kinds        \* the mutations that are used

ASSUME HistoryAssumption ==
    /\ Items \subseteq Nat \ {0} /\ IsFiniteSet(Items) /\ PageSize \in Nat \ {0}
    /\ Kinds \subseteq {"delete", "read", "read-all"}

VARIABLES
    alive,    \* the notifications that are stored and not deleted
    unread,   \* those of them without read_at
    coming,   \* notifications that are not committed yet
    hidden,   \* those of alive the account may not see at present
    blocked,  \* those of hidden between whose two accounts there is a block
    own,      \* per tab: active, requested, promised (completion), known (ownerId and its channel)
    call,     \* per tab, the request it works on
    view,     \* per tab, the snapshot it shows
    inbox,    \* the tabs a signal is on its way to
    before,   \* per tab, what the account could not see when a refresh was last called, nor since
    acked,    \* per tab, the deletions and readings it was told of
    basis     \* per tab, what could be seen when its first page was read, and ever since

historyVars == <<alive, unread, coming, hidden, blocked, own, call, view, inbox, before, acked, basis>>

(* An answer: a page, or (items) what a mutation changed. all is no part of *)
(* it: what could be seen when the page was read, and ever since.            *)
NoPage == [items |-> {}, unread |-> {}, next |-> 0, all |-> {}]
NoCall == [kind |-> "none", at |-> "none", stale |-> FALSE, item |-> 0, page |-> NoPage]
Blank == [items |-> {}, unread |-> {}, next |-> 0, loaded |-> FALSE, error |-> "none"]
Cursors == Items \cup {0}

HistoryTypeOK ==
    /\ alive \subseteq Items /\ unread \subseteq alive /\ coming \subseteq Items \ alive
    /\ hidden \subseteq alive /\ blocked \subseteq hidden
    /\ own \in [Windows -> [active : BOOLEAN, requested : BOOLEAN, promised : BOOLEAN, known : BOOLEAN]]
    /\ \A t \in Windows :
        /\ call[t].kind \in {"none", "page", "more", "delete", "read", "read-all"}
        /\ call[t].at \in {"none", "profile", "asked", "answered"}
        /\ call[t].stale \in BOOLEAN /\ call[t].item \in Cursors
        /\ view[t] \in [items : SUBSET Items, unread : SUBSET Items, next : Cursors,
                        loaded : BOOLEAN, error : {"none", "history", "mutation"}]
        /\ view[t].unread \subseteq view[t].items
        /\ own[t].requested /\ call[t] = NoCall => ~own[t].active
    /\ inbox \subseteq Windows

HistoryInit ==
    /\ \E S, C \in SUBSET Items : alive = S /\ coming = C \ S /\ unread \in SUBSET S
    /\ hidden = {} /\ blocked = {}
    /\ \E mounted \in SUBSET Windows :
        own = [t \in Windows |-> [active |-> t \in mounted, requested |-> FALSE,
                                  promised |-> FALSE, known |-> FALSE]]
    /\ call = [t \in Windows |-> NoCall]
    /\ view = [t \in Windows |-> Blank]
    /\ inbox = {}
    /\ before = [t \in Windows |-> {}] /\ basis = [t \in Windows |-> {}]
    /\ acked = [t \in Windows |-> [gone |-> {}, read |-> {}]]

-----------------------------------------------------------------------------
(* ListNotifications: the newest notifications after a cursor that may be    *)
(* seen (visibleNotificationPredicate), and a cursor when there are more.    *)
Visible == alive \ hidden
Page(cursor) ==
    LET after == {i \in Visible : cursor = 0 \/ i < cursor}
        shown == {i \in after : Cardinality({j \in after : j > i}) < PageSize} IN
    [items |-> shown, unread |-> shown \cap unread, all |-> Visible,
     next |-> IF shown = after THEN 0 ELSE CHOOSE i \in shown : \A j \in shown : i <= j]

Ask(t, kind, item) ==
    [NoCall EXCEPT !.kind = kind, !.item = item,
                   !.at = IF kind = "page" /\ ~own[t].known THEN "profile" ELSE "asked"]

(* drain: a requested refresh starts unless the tab is working; with nothing *)
(* requested the promise of a refresh is settled.                            *)
DrainUnlessFailed(t, o, c, v) ==
    IF c = NoCall /\ o.requested /\ o.active
    THEN /\ own' = [own EXCEPT ![t] = [o EXCEPT !.requested = FALSE]]
         /\ call' = [call EXCEPT ![t] = Ask(t, "page", 0)]
         /\ view' = [view EXCEPT ![t] = [v EXCEPT !.error = "none"]]
    ELSE /\ own' = [own EXCEPT ![t] = [o EXCEPT !.promised = @ /\ (c # NoCall \/ v.error # "none")]]
         /\ call' = [call EXCEPT ![t] = c]
         /\ view' = [view EXCEPT ![t] = v]
Drain(t, o, c, v) ==
    IF c # NoCall
    THEN /\ own' = [own EXCEPT ![t] = o]
         /\ call' = [call EXCEPT ![t] = c]
         /\ view' = [view EXCEPT ![t] = v]
    ELSE IF o.requested /\ o.active
    THEN /\ own' = [own EXCEPT ![t] = [o EXCEPT !.requested = FALSE]]
         /\ call' = [call EXCEPT ![t] = Ask(t, "page", 0)]
         /\ view' = [view EXCEPT ![t] = [v EXCEPT !.error = "none"]]
    ELSE /\ own' = [own EXCEPT ![t] = [o EXCEPT !.promised = FALSE]]
         /\ call' = [call EXCEPT ![t] = NoCall]
         /\ view' = [view EXCEPT ![t] = v]

Requested(o) == [o EXCEPT !.requested = TRUE, !.promised = TRUE]
Gone == Items \ (alive \cup coming)
Unseen == Gone \cup hidden

(* refresh: at the start, on focus, by the user, or for a signal.            *)
RefreshByJoining(t) ==
    /\ own[t].active
    /\ before' = [before EXCEPT ![t] = Unseen]
    /\ Drain(t, IF call[t] = NoCall THEN Requested(own[t]) ELSE [own[t] EXCEPT !.promised = TRUE],
             call[t], view[t])
    /\ UNCHANGED <<alive, unread, coming, hidden, blocked, inbox, acked, basis>>
Refresh(t) ==
    /\ own[t].active
    /\ before' = [before EXCEPT ![t] = Unseen]
    /\ Drain(t, Requested(own[t]), call[t], view[t])
    /\ UNCHANGED <<alive, unread, coming, hidden, blocked, inbox, acked, basis>>

HearChange(t) ==
    /\ t \in inbox
    /\ inbox' = inbox \ {t}
    /\ IF own[t].active
       THEN /\ before' = [before EXCEPT ![t] = Unseen]
            /\ Drain(t, Requested(own[t]), call[t], view[t])
       ELSE UNCHANGED <<own, call, view, before>>
    /\ UNCHANGED <<alive, unread, coming, hidden, blocked, acked, basis>>

(* invalidate: a new generation with nothing shown, and a refresh for it.    *)
InvalidateHistory(t) ==
    /\ own[t].active
    /\ before' = [before EXCEPT ![t] = Unseen]
    /\ Drain(t, Requested(own[t]),
             IF call[t] = NoCall THEN NoCall ELSE [call[t] EXCEPT !.stale = TRUE], Blank)
    /\ UNCHANGED <<alive, unread, coming, hidden, blocked, inbox, acked, basis>>

Works(t) == call[t] # NoCall

LoadMore(t) ==
    /\ own[t].active /\ ~Works(t) /\ view[t].next # 0
    /\ call' = [call EXCEPT ![t] = Ask(t, "more", view[t].next)]
    /\ view' = [view EXCEPT ![t].error = "none"]
    /\ UNCHANGED <<alive, unread, coming, hidden, blocked, own, inbox, before, acked, basis>>

MutateBeside(t, kind, i) ==
    /\ own[t].active
    /\ kind = "delete" /\ i \in view[t].items \cap alive
    /\ alive' = alive \ {i} /\ unread' = unread \ {i}
    /\ hidden' = hidden \ {i} /\ blocked' = blocked \ {i}
    /\ view' = [view EXCEPT ![t].items = @ \ {i}, ![t].unread = @ \ {i}]
    /\ acked' = [acked EXCEPT ![t].gone = @ \cup {i}]
    /\ UNCHANGED <<coming, own, call, inbox, before, basis>>
Mutate(t, kind, i) ==
    /\ own[t].active /\ ~Works(t)
    /\ IF kind = "read-all" THEN i = 0 ELSE i \in view[t].items
    /\ call' = [call EXCEPT ![t] = Ask(t, kind, i)]
    /\ view' = [view EXCEPT ![t].error = "none"]
    /\ UNCHANGED <<alive, unread, coming, hidden, blocked, own, inbox, before, acked, basis>>

DisposeHistory(t) ==
    /\ own[t].active
    /\ own' = [own EXCEPT ![t] = [@ EXCEPT !.active = FALSE, !.requested = FALSE, !.promised = FALSE]]
    /\ UNCHANGED <<alive, unread, coming, hidden, blocked, call, view, inbox, before, acked, basis>>

-----------------------------------------------------------------------------
(* The server.                                                               *)
Arrive(i) ==
    /\ i \in coming
    /\ coming' = coming \ {i}
    /\ alive' = alive \cup {i} /\ unread' = unread \cup {i}
    /\ UNCHANGED <<hidden, blocked, own, call, view, inbox, before, acked, basis>>

(* Deleted on another device, or with what it is about.                      *)
Vanish(i) ==
    /\ i \in alive
    /\ alive' = alive \ {i} /\ unread' = unread \ {i}
    /\ hidden' = hidden \ {i} /\ blocked' = blocked \ {i}
    /\ UNCHANGED <<coming, own, call, view, inbox, before, acked, basis>>

(* Whether a notification may be seen is asked with every query: a block, a  *)
(* lost follow or membership, or the audience of a Path hides it and keeps   *)
(* the row; it returns as it was when the reason ends.                       *)
Hide(i) ==
    /\ i \in alive
    /\ hidden' = hidden \cup {i}
    /\ blocked' \in {blocked \cup {i}, blocked \ {i}}
    /\ call' = [t \in Windows |-> [call[t] EXCEPT !.page.all = @ \ {i}]]
    /\ basis' = [t \in Windows |-> basis[t] \ {i}]
    /\ UNCHANGED <<alive, unread, coming, own, view, inbox, before, acked>>
Reveal(i) ==
    /\ i \in hidden
    /\ hidden' = hidden \ {i} /\ blocked' = blocked \ {i}
    /\ before' = [t \in Windows |-> before[t] \ {i}]
    /\ UNCHANGED <<alive, unread, coming, own, call, view, inbox, acked, basis>>

(* A mutation passes over what a block hides, and over nothing else          *)
(* (notificationPairVisiblePredicate).                                       *)
Changed(c) == IF c.kind = "read-all" THEN alive \ blocked ELSE {c.item}

(* A list, or one transaction of notification_mutations.go.                  *)
Serve(t) ==
    LET c == call[t] IN
    /\ c.at = "asked"
    /\ c.kind \in {"delete", "read"} => c.item \in alive \ blocked
    /\ call' = [call EXCEPT ![t].at = "answered",
                            ![t].page = IF c.kind \in {"page", "more"} THEN Page(c.item)
                                        ELSE [NoPage EXCEPT !.items = Changed(c)]]
    /\ alive' = IF c.kind = "delete" THEN alive \ Changed(c) ELSE alive
    /\ unread' = IF c.kind \in {"page", "more"} THEN unread ELSE unread \ Changed(c)
    /\ hidden' = hidden \cap alive' /\ blocked' = blocked \cap alive'
    /\ UNCHANGED <<coming, own, view, inbox, before, acked, basis>>

-----------------------------------------------------------------------------
(* The profile says whose history it is; the channel opens before the list   *)
(* is read.                                                                  *)
Identify(t) ==
    /\ call[t].at = "profile" /\ own[t].active
    /\ own' = [own EXCEPT ![t].known = TRUE]
    /\ call' = [call EXCEPT ![t].at = "asked"]
    /\ UNCHANGED <<alive, unread, coming, hidden, blocked, view, inbox, before, acked, basis>>

Ignored(t) == call[t].stale \/ ~own[t].active

(* mergeNotificationHistoryPage                                              *)
MergedUnread(v, p, first) ==
    [v EXCEPT !.items = IF first THEN p.items ELSE v.items \cup p.items,
              !.unread = (v.unread \ p.items) \cup p.unread, !.next = p.next, !.loaded = TRUE]
MergedByReplacing(v, p, first) ==
    [v EXCEPT !.items = p.items, !.unread = p.unread, !.next = p.next, !.loaded = TRUE]
Merged(v, p, first) ==
    [v EXCEPT !.items = IF first THEN p.items ELSE v.items \cup p.items,
              !.unread = IF first THEN p.unread ELSE (v.unread \ p.items) \cup p.unread,
              !.next = p.next, !.loaded = TRUE]

TakePage(t) ==
    LET c == call[t] IN
    /\ c.at = "answered" /\ c.kind \in {"page", "more"}
    /\ Drain(t, own[t], NoCall,
             IF Ignored(t) THEN view[t] ELSE Merged(view[t], c.page, c.kind = "page"))
    /\ basis' = [basis EXCEPT ![t] = IF Ignored(t) \/ c.kind = "more" THEN @ ELSE c.page.all]
    /\ UNCHANGED <<alive, unread, coming, hidden, blocked, inbox, before, acked>>

(* applyNotificationMutation; the other tabs are told, and the list is read  *)
(* again.                                                                    *)
TakeMutationQuietly(t) ==
    LET c == call[t]
        v == view[t]
        hit == IF c.kind = "read-all" THEN v.items ELSE {c.item} IN
    /\ c.at = "answered" /\ c.kind \in {"delete", "read", "read-all"}
    /\ IF Ignored(t)
       THEN Drain(t, own[t], NoCall, v) /\ UNCHANGED acked
       ELSE /\ Drain(t, [own[t] EXCEPT !.requested = TRUE], NoCall,
                     [v EXCEPT !.items = IF c.kind = "delete" THEN @ \ hit ELSE @, !.unread = @ \ hit])
            /\ acked' = [acked EXCEPT ![t].gone = IF c.kind = "delete" THEN @ \cup c.page.items ELSE @]
    /\ UNCHANGED <<alive, unread, coming, hidden, blocked, inbox, before, basis>>
TakeMutation(t) ==
    LET c == call[t]
        v == view[t]
        hit == IF c.kind = "read-all" THEN v.items ELSE {c.item} IN
    /\ c.at = "answered" /\ c.kind \in {"delete", "read", "read-all"}
    /\ IF Ignored(t)
       THEN Drain(t, own[t], NoCall, v) /\ UNCHANGED <<inbox, acked>>
       ELSE /\ Drain(t, [own[t] EXCEPT !.requested = TRUE], NoCall,
                     [v EXCEPT !.items = IF c.kind = "delete" THEN @ \ hit ELSE @, !.unread = @ \ hit])
            /\ inbox' = inbox \cup {u \in Windows \ {t} : own[u].known /\ own[u].active}
            /\ acked' = [acked EXCEPT ![t] = IF c.kind = "delete"
                                              THEN [gone |-> @.gone \cup c.page.items, read |-> @.read]
                                              ELSE [gone |-> @.gone, read |-> @.read \cup c.page.items]]
    /\ UNCHANGED <<alive, unread, coming, hidden, blocked, before, basis>>

(* Refused, cancelled, lost before the server or after it, or disposed.      *)
CallFails(t) ==
    /\ Works(t)
    /\ Drain(t, own[t], NoCall,
             IF Ignored(t) THEN view[t]
             ELSE [view[t] EXCEPT !.error = IF call[t].kind \in {"page", "more"} THEN "history" ELSE "mutation"])
    /\ UNCHANGED <<alive, unread, coming, hidden, blocked, inbox, before, acked, basis>>

-----------------------------------------------------------------------------
(* What a user or the page does, and what then happens.                      *)
Acts(t) ==
    \/ Refresh(t) \/ InvalidateHistory(t)
    \/ \E kind \in Kinds, i \in Cursors : Mutate(t, kind, i)

Progress(t) == Serve(t) \/ Identify(t) \/ TakePage(t) \/ TakeMutation(t) \/ CallFails(t)

HistoryNext ==
    \/ \E t \in Windows :
        \/ Acts(t) \/ HearChange(t) \/ LoadMore(t) \/ DisposeHistory(t) \/ Progress(t)
    \/ \E i \in Items : Arrive(i) \/ Vanish(i) \/ Hide(i) \/ Reveal(i)

HistorySpec == HistoryInit /\ [][HistoryNext]_historyVars

(* Requests end, with an answer or a failure, and messages are delivered.    *)
HistoryFairness == \A t \in Windows : WF_historyVars(Progress(t)) /\ WF_historyVars(HearChange(t))
-----------------------------------------------------------------------------
(* What a tab was told is deleted or read does not come back as it was with  *)
(* a page that was read before, whatever refreshes, pages and signals        *)
(* overlapped with the mutation (working serializes them), and though a      *)
(* notification may be hidden and shown again. What a block hid from a       *)
(* read-all was not read: it may return unread.                              *)
AcknowledgedStays ==
    \A t \in Windows : view[t].items \cap acked[t].gone = {} /\ view[t].unread \cap acked[t].read = {}

(* A list has no holes: everything its first page's reading found, down to   *)
(* its cursor, is shown if it could be seen ever since, however much was     *)
(* deleted, added, hidden or shown again between pages.                      *)
NoHoles ==
    \A t \in Windows : view[t].loaded =>
        {i \in basis[t] \cap alive : view[t].next = 0 \/ i >= view[t].next} \subseteq view[t].items

(* When a refresh settles, the tab shows nothing that was gone or hidden     *)
(* when it was called and was not shown again since, or says that it failed: *)
(* no older answer passes for the new one.                                   *)
RefreshIsFresh ==
    [][\A t \in Windows : own[t].promised /\ ~own'[t].promised /\ own'[t].active =>
           view'[t].error # "none" \/ view'[t].items \cap before[t] = {}]_historyVars

(* Nobody asks for more for ever.                                            *)
Calm == <>[][\A t \in Windows : ~Acts(t)]_historyVars

(* Who waits for a refresh is answered, when new ones do not keep it going:  *)
(* also for one that was called while the tab worked on something else.      *)
RefreshSettles == Calm => \A t \in Windows : own[t].promised ~> ~own[t].promised

(* A deletion one tab was told of reaches every other one: it shows the      *)
(* notification no more, or an error, or is closed; a tab that is starting   *)
(* up meanwhile too.                                                         *)
TabsConverge == Calm =>
    \A t \in Windows : \A u \in Windows \ {t} : \A i \in Items :
        i \in acked[t].gone ~> i \notin view[u].items \/ view[u].error # "none" \/ ~own[u].active
=============================================================================
