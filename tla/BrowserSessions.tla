-------------------------- MODULE BrowserSessions --------------------------
(* The web session shared by the tabs of one browser: the durable record     *)
(* with its revision and family behind a lock, the tickets that fence a late *)
(* answer, the single-flight rotation behind a second lock, sign-in through  *)
(* a redirect, and every way a session ends.  A tab's ticket is current when *)
(* it is the last one the tab issued (holder) and the record still has the   *)
(* revision it was issued for.                                               *)
EXTENDS Naturals, FiniteSets

CONSTANTS Tabs, Lifetimes, TabOf, Accounts, Tokens, None, MaxRev

ASSUME SessionAssumption ==
    /\ TabOf \in [Lifetimes -> Tabs]
    /\ None \notin Tabs \cup Lifetimes \cup Accounts \cup Tokens /\ Tokens # {}
    /\ MaxRev \in Nat \ {0}

VARIABLES
    record,    \* the origin's session record; without a token, owner is the retained account
    live,      \* tokens the server accepts
    account,   \* the account a minted token signs in, None before it is minted
    family,    \* the record family a token belongs to, 0 before a sign-in stored it
    kept,      \* the tokens that were ever stored
    holder,    \* per tab, the operation that holds its latest ticket
    control,   \* per mounted studio, SessionController.current
    rotation,  \* per mounted studio, its refresh
    binding,   \* per mounted studio, its bindOwner
    signing,   \* per tab, its sign-in through the provider
    dropping,  \* per tab, the discards that wait for the record lock
    revoking,  \* revocations on their way to the server
    ended,     \* families a discard removed from the record
    asked,     \* families somebody wanted to end
    strays     \* tokens whose answer was lost on the way

sessionVars == <<record, live, account, family, kept, holder, control, rotation, binding,
                 signing, dropping, revoking, ended, asked, strays>>

IdleRotation == [pc |-> "idle", prev |-> None, next |-> None, owner |-> None, rev |-> 0]
IdleBinding == [pc |-> "idle", tok |-> None, rev |-> 0]
NotSigning == [pc |-> "none", tok |-> None, rev |-> 0]

SessionTypeOK ==
    /\ record \in [rev : 0..MaxRev, fam : 0..MaxRev,
                   tok : Tokens \cup {None}, owner : Accounts \cup {None}]
    /\ live \subseteq Tokens /\ revoking \subseteq Tokens /\ strays \subseteq Tokens
    /\ account \in [Tokens -> Accounts \cup {None}]
    /\ family \in [Tokens -> 0..MaxRev] /\ kept \subseteq Tokens
    /\ holder \in [Tabs -> (Lifetimes \X {"refresh", "bind"}) \cup {<<"sign">>, None}]
    /\ control \in [Lifetimes -> [tok : Tokens \cup {None}, owner : Accounts \cup {None},
                                  born : BOOLEAN]]
    /\ rotation \in [Lifetimes -> [pc : {"idle", "queued", "sent", "answered", "writing", "written"},
                                   prev : Tokens \cup {None}, next : Tokens \cup {None},
                                   owner : Accounts \cup {None}, rev : 0..MaxRev]]
    /\ binding \in [Lifetimes -> [pc : {"idle", "read", "writing"},
                                  tok : Tokens \cup {None}, rev : 0..MaxRev]]
    /\ signing \in [Tabs -> [pc : {"none", "away", "exchange", "minted", "writing", "written"},
                             tok : Tokens \cup {None}, rev : 0..MaxRev]]
    /\ dropping \in [Tabs -> SUBSET [fam : 0..MaxRev, owner : Accounts \cup {None}]]
    /\ ended \subseteq 0..MaxRev /\ asked \subseteq 0..MaxRev
    /\ \A l, k \in Lifetimes :       \* refreshExclusive
        {rotation[l].pc, rotation[k].pc} \cap {"idle", "queued"} = {} => l = k

(* Tokens are drawn at random and only compared: which one does not matter.  *)
SomeToken == CHOOSE x \in Tokens : TRUE

(* A browser with one signed-in account, whose owner may not be bound yet,   *)
(* or with none.                                                             *)
SessionInit ==
    \E tok \in {SomeToken, None}, a \in Accounts, bound \in BOOLEAN :
        /\ record = [rev |-> 1, fam |-> 1, tok |-> tok,
                     owner |-> IF tok # None /\ bound THEN a ELSE None]
        /\ live = {tok} \ {None}
        /\ account = [x \in Tokens |-> IF x = tok THEN a ELSE None]
        /\ family = [x \in Tokens |-> IF x = tok THEN 1 ELSE 0]
        /\ kept = {tok} \ {None}
        /\ holder = [t \in Tabs |-> None]
        /\ control = [l \in Lifetimes |-> [tok |-> None, owner |-> None, born |-> FALSE]]
        /\ rotation = [l \in Lifetimes |-> IdleRotation]
        /\ binding = [l \in Lifetimes |-> IdleBinding]
        /\ signing = [t \in Tabs |-> NotSigning]
        /\ dropping = [t \in Tabs |-> {}]
        /\ revoking = {} /\ ended = {} /\ asked = {} /\ strays = {}

-----------------------------------------------------------------------------
Of(t) == {l \in Lifetimes : TabOf[l] = t}
Alive(l) == control[l].tok # None
Unminted == {x \in Tokens : account[x] = None}
Fresh == CHOOSE x \in Tokens : account[x] = None

(* What a tab reads: nothing while it is clearing.                           *)
StoreTok(t) == IF dropping[t] # {} THEN None ELSE record.tok

TicketHeld(t, who, rev) == holder[t] = who
TicketCurrent(t, who, rev) == holder[t] = who /\ record.rev = rev

(* Every write has a fresh revision; a sign-in and a discard open a family.  *)
Written(fam, tok, owner) ==
    [rev |-> record.rev + 1, fam |-> IF fam = 0 THEN record.rev + 1 ELSE fam,
     tok |-> tok, owner |-> owner]

(* SessionController.invalidate: the controller ends; with clear the tab's   *)
(* tickets end too and the family waits to be discarded.                     *)
Invalidate(l, clear, retain) ==
    LET t == TabOf[l] IN
    /\ control' = [control EXCEPT ![l].tok = None, ![l].owner = None]
    /\ IF clear
       THEN /\ holder' = [holder EXCEPT ![t] = None]
            /\ dropping' = [dropping EXCEPT ![t] = @ \cup
                   {[fam |-> record.fam,
                     owner |-> IF retain THEN control[l].owner ELSE None]}]
            /\ asked' = asked \cup {record.fam}
       ELSE UNCHANGED <<holder, dropping, asked>>

(* A refresh that threw: a controller that is still there is invalidated.    *)
Abandon(l, retain) ==
    /\ rotation' = [rotation EXCEPT ![l] = IdleRotation]
    /\ IF Alive(l) THEN Invalidate(l, StoreTok(TabOf[l]) = rotation[l].prev, retain)
                   ELSE UNCHANGED <<control, holder, dropping, asked>>

-----------------------------------------------------------------------------
(* A studio mounts over the stored session; the tab's former one is disposed.*)
Mount(l) ==
    LET t == TabOf[l] IN
    /\ ~control[l].born /\ StoreTok(t) # None
    /\ signing[t].pc = "none"
    /\ control' = [x \in Lifetimes |->
           CASE x = l -> [tok |-> record.tok, owner |-> record.owner, born |-> TRUE]
             [] x # l /\ TabOf[x] = t -> [control[x] EXCEPT !.tok = None, !.owner = None]
             [] OTHER -> control[x]]
    /\ UNCHANGED <<record, live, account, family, kept, holder, rotation, binding, signing,
                   dropping, revoking, ended, asked, strays>>

(* Any use of the token of a controller whose session left the store.        *)
NoticeReplaced(l) ==
    /\ Alive(l) /\ StoreTok(TabOf[l]) # control[l].tok
    /\ Invalidate(l, FALSE, FALSE)
    /\ UNCHANGED <<record, live, account, family, kept, rotation, binding, signing, revoking, ended, strays>>

Expire(l) ==
    /\ Alive(l) /\ StoreTok(TabOf[l]) = control[l].tok
    /\ live' = live \ {control[l].tok}
    /\ Invalidate(l, TRUE, TRUE)
    /\ UNCHANGED <<record, account, family, kept, rotation, binding, signing, revoking, ended, strays>>

(* reject: a request made with the controller's token was answered 401.      *)
Reject(l) ==
    /\ Alive(l) /\ control[l].tok \notin live
    /\ Invalidate(l, StoreTok(TabOf[l]) = control[l].tok, TRUE)
    /\ UNCHANGED <<record, live, account, family, kept, rotation, binding, signing, revoking, ended, strays>>

SignOut(l) ==
    /\ Alive(l) /\ StoreTok(TabOf[l]) = control[l].tok
    /\ Invalidate(l, TRUE, FALSE)
    /\ revoking' = revoking \cup {control[l].tok}
    /\ UNCHANGED <<record, live, account, family, kept, rotation, binding, signing, ended, strays>>

(* discardFamily, under the record lock.                                     *)
DiscardAny(t) ==
    \E d \in dropping[t] :
        /\ dropping' = [dropping EXCEPT ![t] = @ \ {d}]
        /\ record.rev < MaxRev
        /\ record' = Written(0, None, d.owner)
        /\ ended' = ended \cup {d.fam}
        /\ UNCHANGED <<live, account, family, kept, holder, control, rotation, binding, signing,
                       revoking, asked, strays>>
Discard(t) ==
    \E d \in dropping[t] :
        /\ dropping' = [dropping EXCEPT ![t] = @ \ {d}]
        /\ IF record.fam = d.fam
           THEN /\ record.rev < MaxRev
                /\ record' = Written(0, None, d.owner)
                /\ ended' = ended \cup {d.fam}
           ELSE UNCHANGED <<record, ended>>
        /\ UNCHANGED <<live, account, family, kept, holder, control, rotation, binding, signing,
                       revoking, asked, strays>>

(* discardOwner: the end of an account's deletion.                           *)
DiscardOwner(a) ==
    /\ record.owner = a /\ record.rev < MaxRev
    /\ record' = Written(0, None, None)
    /\ ended' = ended \cup {record.fam}
    /\ asked' = asked \cup {record.fam}
    /\ UNCHANGED <<live, account, family, kept, holder, control, rotation, binding, signing,
                   dropping, revoking, strays>>

-----------------------------------------------------------------------------
StartRefresh(l) ==
    /\ Alive(l) /\ StoreTok(TabOf[l]) = control[l].tok
    /\ rotation[l].pc = "idle"
    /\ rotation' = [rotation EXCEPT ![l] = [IdleRotation EXCEPT !.pc = "queued", !.prev = control[l].tok]]
    /\ UNCHANGED <<record, live, account, family, kept, holder, control, binding, signing,
                   dropping, revoking, ended, asked, strays>>

Rotating == {l \in Lifetimes : rotation[l].pc \notin {"idle", "queued"}}

(* refreshExclusive was granted: check again, then ask the server.           *)
EnterRefreshUnlocked(l) ==
    /\ rotation[l].pc = "queued"
    /\ Alive(l) /\ StoreTok(TabOf[l]) = rotation[l].prev
    /\ rotation' = [rotation EXCEPT ![l].pc = "sent"]
    /\ UNCHANGED <<record, live, account, family, kept, holder, control, binding, signing,
                   dropping, revoking, ended, asked, strays>>
EnterRefreshAnyway(l) ==
    /\ rotation[l].pc = "queued" /\ Rotating = {}
    /\ rotation' = [rotation EXCEPT ![l].pc = "sent"]
    /\ UNCHANGED <<record, live, account, family, kept, holder, control, binding, signing,
                   dropping, revoking, ended, asked, strays>>
EnterRefresh(l) ==
    /\ rotation[l].pc = "queued" /\ Rotating = {}
    /\ IF Alive(l) /\ StoreTok(TabOf[l]) = rotation[l].prev
       THEN /\ rotation' = [rotation EXCEPT ![l].pc = "sent"]
            /\ UNCHANGED <<control, holder, dropping, asked>>
       ELSE Abandon(l, FALSE)
    /\ UNCHANGED <<record, live, account, family, kept, binding, signing, revoking, ended, strays>>

(* RotateSession: the old token dies as the new one is born.                 *)
Rotate(l) ==
    /\ rotation[l].pc = "sent" /\ rotation[l].prev \in live
    /\ Unminted # {}
    /\ live' = (live \ {rotation[l].prev}) \cup {Fresh}
    /\ account' = [account EXCEPT ![Fresh] = account[rotation[l].prev]]
    /\ family' = [family EXCEPT ![Fresh] = family[rotation[l].prev]]
    /\ rotation' = [rotation EXCEPT ![l].pc = "answered", ![l].next = Fresh]
    /\ UNCHANGED <<record, kept, holder, control, binding, signing, dropping, revoking,
                   ended, asked, strays>>

RotationRefused(l) ==
    /\ rotation[l].pc = "sent" /\ rotation[l].prev \notin live
    /\ Abandon(l, TRUE)
    /\ UNCHANGED <<record, live, account, family, kept, binding, signing, revoking, ended, strays>>

(* The request or its answer is lost: the session is kept and tried again.   *)
RotationLost(l) ==
    /\ rotation[l].pc \in {"sent", "answered"}
    /\ strays' = strays \cup ({rotation[l].next} \ {None})
    /\ rotation' = [rotation EXCEPT ![l] = IdleRotation]
    /\ UNCHANGED <<record, live, account, family, kept, holder, control, binding, signing,
                   dropping, revoking, ended, asked>>

(* The answer: revoked when the session changed meanwhile, else on its way   *)
(* into the record with a ticket of its own.                                 *)
Receive(l) ==
    LET t == TabOf[l] IN
    /\ rotation[l].pc = "answered"
    /\ IF Alive(l) /\ StoreTok(t) = rotation[l].prev
       THEN /\ holder' = [holder EXCEPT ![t] = <<l, "refresh">>]
            /\ rotation' = [rotation EXCEPT ![l].pc = "writing", ![l].rev = record.rev,
                                            ![l].owner = control[l].owner]
            /\ UNCHANGED <<control, dropping, asked, revoking>>
       ELSE /\ revoking' = revoking \cup {rotation[l].next}
            /\ Abandon(l, FALSE)
    /\ UNCHANGED <<record, live, account, family, kept, binding, signing, ended, strays>>

(* The write was refused: the replacement is revoked unless it is stored.    *)
GiveUpSilently(l) == Abandon(l, FALSE) /\ UNCHANGED revoking
GiveUpWrite(l) ==
    /\ revoking' = revoking \cup ({rotation[l].next} \ {StoreTok(TabOf[l])})
    /\ Abandon(l, FALSE)

WriteRefresh(l) ==
    LET r == rotation[l] IN
    /\ r.pc = "writing"
    /\ IF TicketCurrent(TabOf[l], <<l, "refresh">>, r.rev)
       THEN /\ record.rev < MaxRev
            /\ record' = Written(record.fam, r.next, r.owner)
            /\ kept' = kept \cup {r.next}
            /\ rotation' = [rotation EXCEPT ![l].pc = "written", ![l].rev = record.rev + 1]
            /\ UNCHANGED <<control, holder, dropping, asked, revoking>>
       ELSE GiveUpWrite(l) /\ UNCHANGED <<record, kept>>
    /\ UNCHANGED <<live, account, family, binding, signing, ended, strays>>

AdoptRefresh(l) ==
    LET r == rotation[l] IN
    /\ r.pc = "written"
    /\ IF ~TicketCurrent(TabOf[l], <<l, "refresh">>, r.rev) THEN GiveUpWrite(l)
       ELSE /\ rotation' = [rotation EXCEPT ![l] = IdleRotation]
            /\ control' = IF Alive(l) THEN [control EXCEPT ![l].tok = r.next, ![l].owner = r.owner]
                                      ELSE control
            /\ UNCHANGED <<holder, dropping, asked, revoking>>
    /\ UNCHANGED <<record, live, account, family, kept, binding, signing, ended, strays>>

-----------------------------------------------------------------------------
(* The profile of a session whose owner is not known yet.                    *)
ReadProfile(l) ==
    /\ Alive(l) /\ control[l].owner = None /\ binding[l].pc = "idle"
    /\ control[l].tok \in live
    /\ binding' = [binding EXCEPT ![l] = [IdleBinding EXCEPT !.pc = "read", !.tok = control[l].tok]]
    /\ UNCHANGED <<record, live, account, family, kept, holder, control, rotation, signing,
                   dropping, revoking, ended, asked, strays>>

(* bindOwner: only for the token the profile was read with.                  *)
BindOwner(l) ==
    LET t == TabOf[l] b == binding[l] IN
    /\ b.pc = "read"
    /\ IF control[l].tok = b.tok /\ StoreTok(t) = b.tok
       THEN /\ holder' = [holder EXCEPT ![t] = <<l, "bind">>]
            /\ binding' = [binding EXCEPT ![l].pc = "writing", ![l].rev = record.rev]
       ELSE /\ binding' = [binding EXCEPT ![l] = IdleBinding]
            /\ UNCHANGED holder
    /\ UNCHANGED <<record, live, account, family, kept, control, rotation, signing,
                   dropping, revoking, ended, asked, strays>>

WriteBinding(l) ==
    LET b == binding[l] IN
    /\ b.pc = "writing"
    /\ binding' = [binding EXCEPT ![l] = IdleBinding]
    /\ IF TicketCurrent(TabOf[l], <<l, "bind">>, b.rev)
       THEN /\ record.rev < MaxRev
            /\ record' = Written(record.fam, b.tok, account[b.tok])
            /\ control' = IF control[l].tok = b.tok
                          THEN [control EXCEPT ![l].owner = account[b.tok]] ELSE control
       ELSE UNCHANGED <<record, control>>
    /\ UNCHANGED <<live, account, family, kept, holder, rotation, signing, dropping, revoking,
                   ended, asked, strays>>

-----------------------------------------------------------------------------
(* The page goes away: nothing of it but the sign-in intent survives.        *)
Unload(t) ==
    /\ control' = [l \in Lifetimes |-> IF l \in Of(t) THEN [control[l] EXCEPT !.tok = None, !.owner = None]
                                       ELSE control[l]]
    /\ strays' = strays \cup ({rotation[l].next : l \in Of(t)} \ {None})
    /\ rotation' = [l \in Lifetimes |-> IF l \in Of(t) THEN IdleRotation ELSE rotation[l]]
    /\ binding' = [l \in Lifetimes |-> IF l \in Of(t) THEN IdleBinding ELSE binding[l]]
    /\ dropping' = [dropping EXCEPT ![t] = {}]
    /\ holder' = [holder EXCEPT ![t] = None]

Close(t) ==
    /\ \E l \in Of(t) : Alive(l) \/ rotation[l].pc # "idle"
    /\ Unload(t)
    /\ UNCHANGED <<record, live, account, family, kept, signing, revoking, ended, asked>>

(* beginSignIn remembers the revision and leaves for the provider.           *)
BeginSignIn(t) ==
    /\ signing[t].pc = "none" /\ \A l \in Of(t) : ~Alive(l)
    /\ signing' = [signing EXCEPT ![t] = [NotSigning EXCEPT !.pc = "away", !.rev = record.rev]]
    /\ Unload(t)
    /\ UNCHANGED <<record, live, account, family, kept, revoking, ended, asked>>

(* The callback: only the revision sign-in began with still owns it.         *)
Callback(t) ==
    /\ signing[t].pc = "away"
    /\ holder' = [holder EXCEPT ![t] = <<"sign">>]
    /\ signing' = [signing EXCEPT ![t] =
           IF record.rev = signing[t].rev THEN [@ EXCEPT !.pc = "exchange"] ELSE NotSigning]
    /\ UNCHANGED <<record, live, account, family, kept, control, rotation, binding, dropping,
                   revoking, ended, asked, strays>>

Exchange(t) ==
    /\ signing[t].pc = "exchange"
    /\ Unminted # {}
    /\ live' = live \cup {Fresh}
    /\ \E a \in Accounts : account' = [account EXCEPT ![Fresh] = a]
    /\ signing' = [signing EXCEPT ![t].pc = "minted", ![t].tok = Fresh]
    /\ UNCHANGED <<record, family, kept, holder, control, rotation, binding, dropping, revoking,
                   ended, asked, strays>>

(* exchangeApplicationSession: a superseded credential is revoked.           *)
Superseded(t) ==
    /\ revoking' = revoking \cup {signing[t].tok}
    /\ signing' = [signing EXCEPT ![t] = NotSigning]

Exchanged(t) ==
    /\ signing[t].pc = "minted"
    /\ IF TicketCurrent(t, <<"sign">>, signing[t].rev)
       THEN /\ signing' = [signing EXCEPT ![t].pc = "writing"]
            /\ UNCHANGED revoking
       ELSE Superseded(t)
    /\ UNCHANGED <<record, live, account, family, kept, holder, control, rotation, binding,
                   dropping, ended, asked, strays>>

WriteSignInLabelled(t) ==
    /\ signing[t].pc = "writing"
    /\ IF TicketCurrent(t, <<"sign">>, signing[t].rev)
       THEN /\ record.rev < MaxRev
            /\ record' = Written(0, signing[t].tok, record.owner)
            /\ family' = [family EXCEPT ![signing[t].tok] = record.rev + 1]
            /\ kept' = kept \cup {signing[t].tok}
            /\ signing' = [signing EXCEPT ![t].pc = "written", ![t].rev = record.rev + 1]
            /\ UNCHANGED revoking
       ELSE Superseded(t) /\ UNCHANGED <<record, family, kept>>
    /\ UNCHANGED <<live, account, holder, control, rotation, binding, dropping, ended, asked, strays>>
WriteSignIn(t) ==
    /\ signing[t].pc = "writing"
    /\ IF TicketCurrent(t, <<"sign">>, signing[t].rev)
       THEN /\ record.rev < MaxRev
            /\ record' = Written(0, signing[t].tok, None)
            /\ family' = [family EXCEPT ![signing[t].tok] = record.rev + 1]
            /\ kept' = kept \cup {signing[t].tok}
            /\ signing' = [signing EXCEPT ![t].pc = "written", ![t].rev = record.rev + 1]
            /\ UNCHANGED revoking
       ELSE Superseded(t) /\ UNCHANGED <<record, family, kept>>
    /\ UNCHANGED <<live, account, holder, control, rotation, binding, dropping, ended, asked, strays>>

EnterStudio(t) ==
    /\ signing[t].pc = "written"
    /\ IF TicketCurrent(t, <<"sign">>, signing[t].rev)
       THEN /\ signing' = [signing EXCEPT ![t] = NotSigning]
            /\ UNCHANGED revoking
       ELSE Superseded(t)
    /\ UNCHANGED <<record, live, account, family, kept, holder, control, rotation, binding,
                   dropping, ended, asked, strays>>

(* The server's answer to a revocation; nobody waits for it.                 *)
Revoke(tok) ==
    /\ tok \in revoking
    /\ revoking' = revoking \ {tok}
    /\ live' = live \ {tok}
    /\ UNCHANGED <<record, account, family, kept, holder, control, rotation, binding, signing,
                   dropping, ended, asked, strays>>

-----------------------------------------------------------------------------
StudioStep(l) ==
    \/ StartRefresh(l) \/ EnterRefresh(l) \/ Rotate(l) \/ RotationRefused(l) \/ RotationLost(l)
    \/ Receive(l) \/ WriteRefresh(l) \/ AdoptRefresh(l)
    \/ ReadProfile(l) \/ BindOwner(l) \/ WriteBinding(l)

SessionNext ==
    \/ \E l \in Lifetimes :
        Mount(l) \/ NoticeReplaced(l) \/ Expire(l) \/ Reject(l) \/ SignOut(l) \/ StudioStep(l)
    \/ \E t \in Tabs :
        \/ Discard(t) \/ Close(t) \/ BeginSignIn(t) \/ Callback(t) \/ Exchange(t)
        \/ Exchanged(t) \/ WriteSignIn(t) \/ EnterStudio(t)
    \/ \E a \in Accounts : DiscardOwner(a)
    \/ \E tok \in Tokens : Revoke(tok)

SessionSpec == SessionInit /\ [][SessionNext]_sessionVars
-----------------------------------------------------------------------------
(* An old answer never brings back a session that ended: no token of a       *)
(* discarded family returns to the record (SessionRecordCoordinator.commit). *)
EndedStaysEnded == record.tok # None => family[record.tok] \notin ended

(* A record is taken from an account only when somebody ended that very      *)
(* session, or by a sign-in that began while it was there: neither a late    *)
(* logout or rejection nor an old callback touches a replacement.            *)
ReplacementSurvives ==
    [][record'.fam # record.fam /\ record.tok # None =>
          \/ record.fam \in asked'
          \/ \E t \in Tabs : signing[t].pc = "writing" /\ signing[t].rev = record.rev]_sessionVars

(* No tab presents a token another tab has already rotated: the refusal     *)
(* would end a session whose replacement is stored and accepted.             *)
RotatedOnce ==
    \A l \in Lifetimes : rotation[l].pc = "sent" /\ rotation[l].prev \notin live =>
        ~(record.tok \in live /\ family[record.tok] = family[rotation[l].prev])

(* A credential that was minted and never stored, because its session ended *)
(* or changed meanwhile, is revoked: none is dropped while the server still  *)
(* accepts it.                                                               *)
NothingStranded ==
    \A tok \in (live \ kept) \ strays :
        \/ tok \in revoking
        \/ \E l \in Lifetimes : rotation[l].next = tok
        \/ \E t \in Tabs : signing[t].tok = tok

(* A session is labelled with the account it signs in, whatever profile      *)
(* answer arrives late: bindOwner never relabels a replacement.              *)
OwnerIsTheTokens ==
    /\ record.tok # None /\ record.owner # None => account[record.tok] = record.owner
    /\ \A l \in Lifetimes : Alive(l) /\ control[l].owner # None =>
           account[control[l].tok] = control[l].owner

(* The record of a browser is of a session that goes on, under the account   *)
(* it belongs to, whatever logout, renewal and profile answers crossed.      *)
RecordIsTrue == EndedStaysEnded /\ OwnerIsTheTokens
=============================================================================
