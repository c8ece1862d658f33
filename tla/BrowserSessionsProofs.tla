----------------------- MODULE BrowserSessionsProofs -----------------------
(* The web session of a browser, for any tabs, studios, accounts, tokens and *)
(* any number of writes of its record.                                       *)
EXTENDS BrowserSessions, TLAPS

(* The sets the parts of the state are of.                                   *)
Revs == 0..MaxRev
MaybeToken == Tokens \cup {None}
Owners == Accounts \cup {None}
Records == [rev : Revs, fam : Revs, tok : MaybeToken, owner : Owners]
Controls == [tok : MaybeToken, owner : Owners, born : BOOLEAN]
Rotations == [pc : {"idle", "queued", "sent", "answered", "writing", "written"},
              prev : MaybeToken, next : MaybeToken, owner : Owners, rev : Revs]
Bindings == [pc : {"idle", "read", "writing"}, tok : MaybeToken, rev : Revs]
Signings == [pc : {"none", "away", "exchange", "minted", "writing", "written"},
             tok : MaybeToken, rev : Revs]
Holders == (Lifetimes \X {"refresh", "bind"}) \cup {<<"sign">>, None}
Drops == [fam : Revs, owner : Owners]

(* A renewal that holds the lock.                                            *)
Busy(r) == r.pc \notin {"idle", "queued"}

(* The record is of a family nobody discarded, under the account its token   *)
(* signs in; a new family is later than every one before.                    *)
RecordFits ==
    /\ 0 < record.fam /\ record.fam <= record.rev
    /\ record.fam \notin ended /\ ended \subseteq 0..record.rev
    /\ record.tok # None => record.tok \in kept /\ family[record.tok] = record.fam
    /\ record.tok # None /\ record.owner # None => account[record.tok] = record.owner

(* A token that was stored was minted, and no token is of a family to come.  *)
TokensFit ==
    \A x \in Tokens : family[x] <= record.rev /\ (x \in kept => account[x] # None)

(* A controller works with a token that was stored, under its account.       *)
ControlFits(c) ==
    c.tok # None => /\ c.born /\ c.tok \in kept
                    /\ c.owner # None => account[c.tok] = c.owner

(* A renewal replaces the token of its controller by one of the same family  *)
(* and account, which is stored only by its own write; while it is asked for *)
(* the record has the token it replaces, none, or one of another family; and *)
(* a write that is not overtaken replaces just that token.                   *)
RotationFits(r, c) ==
    /\ r.pc # "idle" => c.born /\ r.prev \in kept /\ c.tok \in {r.prev, None}
    /\ r.pc \in {"idle", "queued", "sent"} => r.next = None
    /\ r.pc \in {"answered", "writing", "written"} =>
         /\ r.next \in Tokens /\ account[r.next] = account[r.prev] /\ family[r.next] = family[r.prev]
         /\ r.next \in kept <=> r.pc = "written"
    /\ r.pc \in {"writing", "written"} /\ r.owner # None => r.owner = account[r.next]
    /\ r.pc = "writing" => r.rev <= record.rev
    /\ r.pc = "writing" /\ r.rev = record.rev => record.tok = r.prev
    /\ r.pc = "sent" => record.tok \in {r.prev, None} \/ family[record.tok] # family[r.prev]

(* A profile answer labels the token it was read with, or nothing.           *)
BindingFits(b) ==
    /\ b.pc # "idle" => b.tok \in kept
    /\ b.pc = "writing" => b.rev <= record.rev
    /\ b.pc = "writing" /\ b.rev = record.rev => record.tok = b.tok

(* A sign-in holds no token before it is minted, a token that is not stored  *)
(* until its write, and a stored one after it.                               *)
SigningFits(s) ==
    /\ s.pc \in {"none", "away", "exchange"} => s.tok = None
    /\ s.pc \in {"minted", "writing"} => s.tok \in Tokens \ kept /\ account[s.tok] # None
    /\ s.pc = "written" => s.tok \in kept

(* A token on its way from a sign-in is on no other way.                     *)
Apart ==
    \A t \in Tabs : signing[t].pc \in {"minted", "writing"} =>
      /\ \A u \in Tabs : u # t => signing[u].tok # signing[t].tok
      /\ \A l \in Lifetimes : rotation[l].next # signing[t].tok

(* Only a family that somebody wanted to end waits to be discarded.          *)
FencesFit ==
    /\ holder \in [Tabs -> Holders] /\ dropping \in [Tabs -> SUBSET Drops] /\ asked \subseteq Revs
    /\ \A t \in Tabs : \A d \in dropping[t] : d.fam \in asked

(* The types of the rest, and that one renewal at a time holds its lock.     *)
Typed ==
    /\ record \in Records /\ account \in [Tokens -> Owners] /\ family \in [Tokens -> Revs]
    /\ live \subseteq Tokens /\ revoking \subseteq Tokens /\ strays \subseteq Tokens /\ kept \subseteq Tokens
    /\ control \in [Lifetimes -> Controls] /\ rotation \in [Lifetimes -> Rotations]
    /\ binding \in [Lifetimes -> Bindings] /\ signing \in [Tabs -> Signings]
    /\ \A l, k \in Lifetimes : Busy(rotation[l]) /\ Busy(rotation[k]) => l = k

(* A studio: its controller, its renewal and its profile answer.             *)
StudioFits(l) ==
    ControlFits(control[l]) /\ RotationFits(rotation[l], control[l]) /\ BindingFits(binding[l])

(* The inductive invariant.  The three safety properties follow from         *)
(* RecordFits, ControlFits and RotationFits, and the fence of a discard from *)
(* FencesFit.                                                                *)
SessionInv ==
    /\ Typed /\ RecordFits /\ TokensFit /\ FencesFit
    /\ \A l \in Lifetimes : StudioFits(l)
    /\ \A t \in Tabs : SigningFits(signing[t])
    /\ Apart /\ NothingStranded

-----------------------------------------------------------------------------
(* What is idle has the types of the rest and holds no token.                *)
LEMMA RestIsTyped ==
    /\ None \notin Tokens /\ None \notin Accounts
    /\ IdleRotation \in Rotations /\ IdleBinding \in Bindings /\ NotSigning \in Signings
    /\ IdleRotation.pc = "idle" /\ IdleRotation.next = None
    /\ IdleBinding.pc = "idle" /\ NotSigning.pc = "none" /\ NotSigning.tok = None
<1>1. 0 \in Revs
  BY SessionAssumption DEF Revs
<1> QED
  BY <1>1, SessionAssumption
     DEF IdleRotation, IdleBinding, NotSigning, Rotations, Bindings, Signings, MaybeToken, Owners

(* A browser starts with the invariant, signed in or not, its owner bound or *)
(* not.                                                                      *)
LEMMA SessionInitFits == SessionInit => SessionInv
<1> SUFFICES ASSUME SessionInit PROVE SessionInv
  OBVIOUS
<1>1. PICK tok \in {SomeToken, None}, a \in Accounts, bound \in BOOLEAN :
        /\ record = [rev |-> 1, fam |-> 1, tok |-> tok,
                     owner |-> IF tok # None /\ bound THEN a ELSE None]
        /\ live = {tok} \ {None}
        /\ account = [x \in Tokens |-> IF x = tok THEN a ELSE None]
        /\ family = [x \in Tokens |-> IF x = tok THEN 1 ELSE 0]
        /\ kept = {tok} \ {None}
        /\ holder = [t \in Tabs |-> None]
        /\ control = [l \in Lifetimes |-> [tok |-> None, owner |-> None, born |-> FALSE]]
        /\ rotation = [l \in Lifetimes |-> IdleRotation]
        /\ binding = [l \in Lifetimes |-> IdleBinding]
        /\ signing = [t \in Tabs |-> NotSigning]
        /\ dropping = [t \in Tabs |-> {}]
        /\ revoking = {} /\ ended = {} /\ asked = {} /\ strays = {}
  BY DEF SessionInit
<1>2. tok \in MaybeToken /\ 0 \in Revs /\ 1 \in Revs
  BY SessionAssumption DEF SomeToken, MaybeToken, Revs
<1>3. Typed
  <2>1. /\ record \in Records /\ account \in [Tokens -> Owners] /\ family \in [Tokens -> Revs]
        /\ control \in [Lifetimes -> Controls]
    BY <1>1, <1>2 DEF Records, Owners, Controls, MaybeToken
  <2>2. /\ rotation \in [Lifetimes -> Rotations] /\ binding \in [Lifetimes -> Bindings]
        /\ signing \in [Tabs -> Signings]
        /\ \A l \in Lifetimes : ~Busy(rotation[l])
    BY <1>1, RestIsTyped DEF Busy
  <2>3. live \subseteq Tokens /\ kept \subseteq Tokens
    BY <1>1, <1>2 DEF MaybeToken
  <2> QED
    BY <1>1, <2>1, <2>2, <2>3 DEF Typed
<1>4. RecordFits /\ TokensFit
  BY <1>1, <1>2, RestIsTyped DEF RecordFits, TokensFit, MaybeToken
<1>5. FencesFit
  BY <1>1 DEF FencesFit, Holders
<1>6. (\A l \in Lifetimes : StudioFits(l)) /\ (\A t \in Tabs : SigningFits(signing[t])) /\ Apart
  BY <1>1, RestIsTyped DEF StudioFits, ControlFits, RotationFits, BindingFits, SigningFits, Apart
<1>7. NothingStranded
  BY <1>1 DEF NothingStranded
<1> QED
  BY <1>3, <1>4, <1>5, <1>6, <1>7 DEF SessionInv

-----------------------------------------------------------------------------
(* The invariant of one studio, with the types of its parts.                 *)
LEMMA StudioOf ==
  ASSUME SessionInv, NEW l \in Lifetimes
  PROVE  /\ control[l] \in Controls /\ rotation[l] \in Rotations /\ binding[l] \in Bindings
         /\ ControlFits(control[l]) /\ RotationFits(rotation[l], control[l]) /\ BindingFits(binding[l])
         /\ control = [control EXCEPT ![l] = control[l]]
         /\ rotation = [rotation EXCEPT ![l] = rotation[l]]
         /\ binding = [binding EXCEPT ![l] = binding[l]]
         /\ TabOf[l] \in Tabs /\ record \in Records
         /\ None \notin Tokens /\ None \notin Accounts
  BY SessionAssumption DEF SessionInv, Typed, StudioFits

(* A step of one studio that leaves the record alone: it keeps the invariant *)
(* when its new parts fit, when a renewal becomes busy only while none is,   *)
(* and when a replacement it lets go of is stored, revoked or lost on the    *)
(* network.                                                                  *)
LEMMA StudioMoves ==
  ASSUME SessionInv, NEW l \in Lifetimes, NEW c \in Controls, NEW r \in Rotations, NEW b \in Bindings,
         control' = [control EXCEPT ![l] = c], rotation' = [rotation EXCEPT ![l] = r],
         binding' = [binding EXCEPT ![l] = b],
         UNCHANGED <<record, account, family, kept, signing, ended>>,
         live' \subseteq live, strays \subseteq strays', strays' \subseteq Tokens,
         revoking \subseteq revoking', revoking' \subseteq Tokens, FencesFit',
         ControlFits(c), RotationFits(r, c), BindingFits(b),
         Busy(r) => Busy(rotation[l]) \/ Rotating = {},
         r.next \in {rotation[l].next, None},
         r.next = rotation[l].next \/ rotation[l].next \in {None} \cup kept \cup revoking' \cup strays'
  PROVE  SessionInv'
<1>1. /\ control'[l] = c /\ rotation'[l] = r /\ binding'[l] = b
      /\ \A k \in Lifetimes : k # l => control'[k] = control[k] /\ rotation'[k] = rotation[k]
                                       /\ binding'[k] = binding[k]
  BY DEF SessionInv, Typed
<1>2. Typed'
  <2>1. \A k \in Lifetimes : k # l /\ Busy(rotation[k]) => ~Busy(r)
    BY DEF Rotating, Busy, SessionInv, Typed
  <2>2. \A j, k \in Lifetimes : Busy(rotation'[j]) /\ Busy(rotation'[k]) => j = k
    BY <1>1, <2>1 DEF SessionInv, Typed
  <2> QED
    BY <2>2 DEF SessionInv, Typed, Busy
<1>3. RecordFits' /\ TokensFit'
  BY DEF SessionInv, RecordFits, TokensFit
<1>4. ASSUME NEW k \in Lifetimes PROVE StudioFits(k)'
  BY <1>1, <1>4 DEF SessionInv, StudioFits, ControlFits, RotationFits, BindingFits
<1>5. (\A t \in Tabs : SigningFits(signing[t])') /\ Apart'
  <2>1. \A k \in Lifetimes : rotation'[k].next \in {rotation[k].next, None}
    BY <1>1
  <2>2. \A t \in Tabs : signing[t].pc \in {"minted", "writing"} => signing[t].tok # None
    BY RestIsTyped DEF SessionInv, SigningFits
  <2> QED
    BY <2>1, <2>2 DEF SessionInv, SigningFits, Apart
<1>6. NothingStranded'
  BY <1>1 DEF SessionInv, NothingStranded, Typed
<1> QED
  BY <1>2, <1>3, <1>4, <1>5, <1>6 DEF SessionInv

(* A controller after invalidate.                                            *)
Ended(c) == [c EXCEPT !.tok = None, !.owner = None]

(* A controller that ended fits whatever its renewal is at.                  *)
LEMMA EndedFits ==
  ASSUME NEW c \in Controls
  PROVE  /\ Ended(c) \in Controls /\ Ended(c).tok = None /\ Ended(c).born = c.born
         /\ ControlFits(Ended(c))
         /\ \A r \in Rotations : RotationFits(r, c) => RotationFits(r, Ended(c))
<1>1. Ended(c) \in Controls /\ Ended(c).tok = None /\ Ended(c).born = c.born
  BY DEF Ended, Controls, MaybeToken, Owners
<1> QED
  BY <1>1 DEF ControlFits, RotationFits

(* invalidate ends the controller, and only asks to discard the family that  *)
(* the record has.                                                           *)
LEMMA InvalidateEnds ==
  ASSUME SessionInv, NEW l \in Lifetimes, NEW clear, NEW retain, Invalidate(l, clear, retain)
  PROVE  control' = [control EXCEPT ![l] = Ended(control[l])] /\ FencesFit'
<1>1. control' = [control EXCEPT ![l] = Ended(control[l])]
  BY StudioOf DEF Invalidate, Ended
<1>2. FencesFit'
  <2>1. CASE UNCHANGED <<holder, dropping, asked>>
    BY <2>1 DEF SessionInv, FencesFit
  <2>2. CASE ~UNCHANGED <<holder, dropping, asked>>
    <3> DEFINE t == TabOf[l]
    <3>1. PICK o \in Owners :
            /\ holder' = [holder EXCEPT ![t] = None]
            /\ dropping' = [dropping EXCEPT ![t] = @ \cup {[fam |-> record.fam, owner |-> o]}]
            /\ asked' = asked \cup {record.fam}
      BY <2>2, StudioOf DEF Invalidate, Controls, Owners
    <3> DEFINE d == [fam |-> record.fam, owner |-> o]
    <3>2. d \in Drops /\ d.fam = record.fam /\ record.fam \in Revs /\ t \in Tabs
      BY StudioOf DEF Drops, Records
    <3> HIDE DEF d, t
    <3>3. holder' \in [Tabs -> Holders] /\ dropping' \in [Tabs -> SUBSET Drops] /\ asked' \subseteq Revs
      BY <3>1, <3>2 DEF SessionInv, FencesFit, Holders, d
    <3>4. ASSUME NEW u \in Tabs, NEW e \in dropping'[u] PROVE e.fam \in asked'
      BY <3>1, <3>2, <3>4 DEF SessionInv, FencesFit, d
    <3> QED
      BY <3>3, <3>4 DEF FencesFit
  <2> QED
    BY <2>1, <2>2
<1> QED
  BY <1>1, <1>2

(* A renewal that failed is abandoned once its replacement is stored,        *)
(* revoked or was never minted.                                              *)
LEMMA AbandonKeeps ==
  ASSUME SessionInv, NEW l \in Lifetimes, NEW retain, Abandon(l, retain),
         UNCHANGED <<record, live, account, family, kept, binding, signing, ended, strays>>,
         revoking \subseteq revoking', revoking' \subseteq Tokens,
         rotation[l].next \in {None} \cup kept \cup revoking'
  PROVE  SessionInv'
<1>1. PICK c \in Controls :
        control' = [control EXCEPT ![l] = c] /\ ControlFits(c) /\ FencesFit' /\ c.tok = None
  <2>1. CASE Alive(l)
    BY <2>1, InvalidateEnds, EndedFits, StudioOf DEF Abandon
  <2>2. CASE ~Alive(l)
    BY <2>2, StudioOf DEF Abandon, Alive, SessionInv, FencesFit
  <2> QED
    BY <2>1, <2>2
<1>2. RotationFits(IdleRotation, c) /\ ~Busy(IdleRotation)
  BY RestIsTyped DEF RotationFits, Busy
<1>3. rotation' = [rotation EXCEPT ![l] = IdleRotation]
  BY DEF Abandon
<1> QED
  BY <1>1, <1>2, <1>3, RestIsTyped, StudioOf, StudioMoves DEF SessionInv, Typed

(* An operation that only ends its controller, or does nothing to it.        *)
LEMMA EndKeeps ==
  ASSUME SessionInv, NEW l \in Lifetimes, NEW clear, NEW retain, Invalidate(l, clear, retain),
         UNCHANGED <<record, account, family, kept, rotation, binding, signing, ended, strays>>,
         live' \subseteq live, revoking \subseteq revoking', revoking' \subseteq Tokens
  PROVE  SessionInv'
<1>1. PICK c \in Controls :
        /\ control' = [control EXCEPT ![l] = c] /\ ControlFits(c) /\ FencesFit'
        /\ RotationFits(rotation[l], c)
  BY InvalidateEnds, EndedFits, StudioOf
<1> QED
  BY <1>1, StudioOf, StudioMoves DEF SessionInv, Typed

(* Expiry, a refused request, signing out and noticing a replaced session.   *)
LEMMA EndingsKeep ==
  ASSUME SessionInv, NEW l \in Lifetimes, NoticeReplaced(l) \/ Expire(l) \/ Reject(l) \/ SignOut(l)
  PROVE  SessionInv'
<1>1. CASE NoticeReplaced(l)
  BY <1>1, EndKeeps DEF NoticeReplaced, SessionInv, Typed
<1>2. CASE Expire(l)
  BY <1>2, EndKeeps DEF Expire, SessionInv, Typed
<1>3. CASE Reject(l)
  BY <1>3, EndKeeps DEF Reject, SessionInv, Typed
<1>4. CASE SignOut(l)
  <2>1. control[l].tok \in Tokens
    BY <1>4, StudioOf DEF SignOut, Alive, Controls, MaybeToken
  <2> QED
    BY <1>4, <2>1, EndKeeps DEF SignOut, SessionInv, Typed
<1> QED
  BY <1>1, <1>2, <1>3, <1>4

-----------------------------------------------------------------------------
(* A renewal queues with the token of its controller, which was stored.      *)
LEMMA StartRefreshKeeps ==
  ASSUME SessionInv, NEW l \in Lifetimes, StartRefresh(l)
  PROVE  SessionInv'
<1> DEFINE r == [IdleRotation EXCEPT !.pc = "queued", !.prev = control[l].tok]
<1>1. r \in Rotations /\ r.pc = "queued" /\ r.prev = control[l].tok /\ r.next = None
  BY RestIsTyped, StudioOf DEF Rotations, Controls, IdleRotation
<1>2. rotation' = [rotation EXCEPT ![l] = r]
  BY DEF StartRefresh
<1> HIDE DEF r
<1>3. RotationFits(r, control[l]) /\ ~Busy(r)
  BY <1>1, StudioOf DEF RotationFits, ControlFits, StartRefresh, Alive, Busy
<1>4. rotation[l].next = None
  BY StudioOf DEF StartRefresh, RotationFits
<1>5. FencesFit'
  BY DEF StartRefresh, SessionInv, FencesFit
<1> QED
  BY <1>1, <1>2, <1>3, <1>4, <1>5, StudioOf, StudioMoves DEF StartRefresh, SessionInv, Typed

(* The token is compared again once refreshExclusive is granted: what is     *)
(* asked for is the token the record still has.                              *)
LEMMA EnterRefreshKeeps ==
  ASSUME SessionInv, NEW l \in Lifetimes, EnterRefresh(l)
  PROVE  SessionInv'
<1>1. rotation[l].pc = "queued" /\ rotation[l].next = None /\ Rotating = {}
  BY StudioOf DEF EnterRefresh, RotationFits
<1>2. CASE Alive(l) /\ StoreTok(TabOf[l]) = rotation[l].prev
  <2> DEFINE r == [rotation[l] EXCEPT !.pc = "sent"]
  <2>1. /\ r \in Rotations /\ r.pc = "sent" /\ r.prev = rotation[l].prev /\ r.next = None
        /\ rotation' = [rotation EXCEPT ![l] = r]
    BY <1>1, <1>2, StudioOf DEF EnterRefresh, Rotations
  <2> HIDE DEF r
  <2>2. record.tok = r.prev
    BY <1>1, <1>2, <2>1, StudioOf DEF StoreTok, RotationFits, SessionInv, Typed
  <2>3. RotationFits(r, control[l])
    BY <1>1, <2>1, <2>2, StudioOf DEF RotationFits
  <2>4. FencesFit'
    BY <1>2 DEF EnterRefresh, SessionInv, FencesFit
  <2> QED
    BY <1>1, <1>2, <2>1, <2>3, <2>4, StudioOf, StudioMoves DEF EnterRefresh, SessionInv, Typed
<1>3. CASE ~(Alive(l) /\ StoreTok(TabOf[l]) = rotation[l].prev)
  BY <1>1, <1>3, AbandonKeeps DEF EnterRefresh, SessionInv, Typed
<1> QED
  BY <1>2, <1>3

(* A renewal that the server refuses or the network loses.                   *)
LEMMA RotationEndsKeep ==
  ASSUME SessionInv, NEW l \in Lifetimes, RotationRefused(l) \/ RotationLost(l)
  PROVE  SessionInv'
<1>1. CASE RotationRefused(l)
  BY <1>1, AbandonKeeps, StudioOf DEF RotationRefused, RotationFits, SessionInv, Typed
<1>2. CASE RotationLost(l)
  <2>1. RotationFits(IdleRotation, control[l]) /\ ~Busy(IdleRotation)
    BY RestIsTyped DEF RotationFits, Busy
  <2>2. strays' \subseteq Tokens /\ FencesFit'
    BY <1>2, StudioOf DEF RotationLost, SessionInv, Typed, FencesFit, Rotations, MaybeToken
  <2> QED
    BY <1>2, <2>1, <2>2, RestIsTyped, StudioOf, StudioMoves DEF RotationLost, SessionInv, Typed
<1> QED
  BY <1>1, <1>2

(* The answer takes its ticket from the record that still has the token it   *)
(* replaces; any other answer is revoked.                                    *)
LEMMA ReceiveKeeps ==
  ASSUME SessionInv, NEW l \in Lifetimes, Receive(l)
  PROVE  SessionInv'
<1>1. /\ rotation[l].pc = "answered" /\ rotation[l].next \in Tokens
      /\ UNCHANGED <<record, live, account, family, kept, binding, signing, ended, strays>>
  BY StudioOf DEF Receive, RotationFits
<1>2. CASE Alive(l) /\ StoreTok(TabOf[l]) = rotation[l].prev
  <2> DEFINE r == [rotation[l] EXCEPT !.pc = "writing", !.rev = record.rev, !.owner = control[l].owner]
  <2>1. /\ r \in Rotations /\ r.pc = "writing" /\ r.prev = rotation[l].prev /\ r.next = rotation[l].next
        /\ r.rev = record.rev /\ r.owner = control[l].owner
    BY ZenonT(60), StudioOf DEF Rotations, Records, Controls
  <2>2. rotation' = [rotation EXCEPT ![l] = r] /\ UNCHANGED <<control, dropping, asked, revoking>>
    BY <1>2, StudioOf DEF Receive
  <2> HIDE DEF r
  <2>3. record.tok = r.prev /\ r.rev <= record.rev
    BY <1>1, <1>2, <2>1, StudioOf DEF StoreTok, RotationFits, SessionInv, Typed, Records, Revs
  <2>4. r.owner # None => r.owner = account[r.next]
    BY <1>1, <1>2, <2>1, StudioOf DEF RotationFits, ControlFits, Alive
  <2>5. RotationFits(r, control[l])
    BY <1>1, <2>1, <2>3, <2>4, StudioOf DEF RotationFits
  <2>6. FencesFit'
    <3>1. holder' = [holder EXCEPT ![TabOf[l]] = <<l, "refresh">>]
      BY <1>2 DEF Receive
    <3>2. <<l, "refresh">> \in Holders
      BY DEF Holders
    <3> QED
      BY <2>2, <3>1, <3>2 DEF SessionInv, FencesFit
  <2>7. Busy(rotation[l])
    BY <1>1 DEF Busy
  <2> QED
    BY <1>1, <2>1, <2>2, <2>5, <2>6, <2>7, StudioOf, StudioMoves DEF SessionInv, Typed
<1>3. CASE ~(Alive(l) /\ StoreTok(TabOf[l]) = rotation[l].prev)
  BY <1>1, <1>3, AbandonKeeps DEF Receive, SessionInv, Typed
<1> QED
  BY <1>2, <1>3

(* A refused write revokes the replacement unless the record has it.         *)
LEMMA GiveUpKeeps ==
  ASSUME SessionInv, NEW l \in Lifetimes, GiveUpWrite(l), rotation[l].pc \in {"writing", "written"},
         UNCHANGED <<record, live, account, family, kept, binding, signing, ended, strays>>
  PROVE  SessionInv'
<1>1. rotation[l].next \in Tokens
  BY StudioOf DEF RotationFits
<1>2. rotation[l].next \in kept \cup revoking'
  BY <1>1, StudioOf DEF GiveUpWrite, StoreTok, SessionInv, RecordFits
<1> QED
  BY <1>1, <1>2, AbandonKeeps DEF GiveUpWrite, SessionInv, Typed

(* The controller takes over the replacement its own write stored.           *)
LEMMA AdoptRefreshKeeps ==
  ASSUME SessionInv, NEW l \in Lifetimes, AdoptRefresh(l)
  PROVE  SessionInv'
<1> DEFINE r == rotation[l]
<1>1. /\ r.pc = "written" /\ UNCHANGED <<record, live, account, family, kept, binding, signing, ended, strays>>
  BY DEF AdoptRefresh
<1>2. CASE ~TicketCurrent(TabOf[l], <<l, "refresh">>, r.rev)
  BY <1>1, <1>2, GiveUpKeeps DEF AdoptRefresh
<1>3. CASE TicketCurrent(TabOf[l], <<l, "refresh">>, r.rev)
  <2>1. /\ rotation' = [rotation EXCEPT ![l] = IdleRotation] /\ UNCHANGED <<holder, dropping, asked, revoking>>
        /\ control' = IF Alive(l) THEN [control EXCEPT ![l].tok = r.next, ![l].owner = r.owner] ELSE control
    BY <1>3 DEF AdoptRefresh
  <2>2. r.next \in kept /\ (r.owner # None => account[r.next] = r.owner) /\ control[l].born
    BY <1>1, StudioOf DEF RotationFits
  <2>3. PICK c \in Controls : control' = [control EXCEPT ![l] = c] /\ ControlFits(c)
    <3>1. CASE Alive(l)
      <4> DEFINE c == [control[l] EXCEPT !.tok = r.next, !.owner = r.owner]
      <4>1. control' = [control EXCEPT ![l] = c]
        BY <2>1, <3>1
      <4>2. c \in Controls
        BY StudioOf DEF Controls, Rotations
      <4>3. ControlFits(c)
        BY <2>2, StudioOf DEF Controls, ControlFits
      <4> QED
        BY <4>1, <4>2, <4>3
    <3>2. CASE ~Alive(l)
      BY <2>1, <3>2, StudioOf
    <3> QED
      BY <3>1, <3>2
  <2>4. RotationFits(IdleRotation, c) /\ ~Busy(IdleRotation)
    BY RestIsTyped DEF RotationFits, Busy
  <2>5. FencesFit'
    BY <2>1 DEF SessionInv, FencesFit
  <2> QED
    BY <1>1, <2>1, <2>2, <2>3, <2>4, <2>5, RestIsTyped, StudioOf, StudioMoves DEF SessionInv, Typed
<1> QED
  BY <1>2, <1>3

(* A profile is asked for with the token of the controller, and its label is *)
(* fenced by the record that still has it.                                   *)
LEMMA AskProfileKeeps ==
  ASSUME SessionInv, NEW l \in Lifetimes, ReadProfile(l) \/ BindOwner(l)
  PROVE  SessionInv'
<1>1. UNCHANGED <<record, live, account, family, kept, control, rotation, signing, dropping, revoking,
                  ended, asked, strays>>
  BY DEF ReadProfile, BindOwner
<1>2. CASE ReadProfile(l)
  <2> DEFINE b == [IdleBinding EXCEPT !.pc = "read", !.tok = control[l].tok]
  <2>1. b \in Bindings /\ BindingFits(b)
    BY <1>2, RestIsTyped, StudioOf
       DEF ReadProfile, Alive, Bindings, Controls, IdleBinding, BindingFits, ControlFits
  <2>2. binding' = [binding EXCEPT ![l] = b] /\ FencesFit'
    BY <1>2 DEF ReadProfile, SessionInv, FencesFit
  <2> HIDE DEF b
  <2> QED
    BY <1>1, <2>1, <2>2, StudioOf, StudioMoves DEF SessionInv, Typed
<1>3. CASE BindOwner(l)
  <2>1. FencesFit'
    <3>1. <<l, "bind">> \in Holders
      BY DEF Holders
    <3> QED
      BY <1>1, <1>3, <3>1 DEF BindOwner, SessionInv, FencesFit
  <2>2. PICK b \in Bindings : binding' = [binding EXCEPT ![l] = b] /\ BindingFits(b)
    <3>1. CASE binding' = [binding EXCEPT ![l] = IdleBinding]
      BY <3>1, RestIsTyped DEF BindingFits
    <3>2. CASE binding' # [binding EXCEPT ![l] = IdleBinding]
      <4> DEFINE b == [binding[l] EXCEPT !.pc = "writing", !.rev = record.rev]
      <4>1. /\ b \in Bindings
            /\ b.pc = "writing" /\ b.rev = record.rev /\ b.tok = binding[l].tok
        BY StudioOf DEF Bindings, Records
      <4>4. binding' = [binding EXCEPT ![l] = b]
        BY <1>3, <3>2 DEF BindOwner
      <4>2. b.tok \in kept /\ StoreTok(TabOf[l]) = b.tok
        BY <1>3, <3>2, StudioOf DEF BindOwner, BindingFits, Bindings
      <4>3. BindingFits(b)
        BY <4>1, <4>2, StudioOf DEF BindingFits, StoreTok, SessionInv, Typed, Records, Revs
      <4> QED
        BY <4>1, <4>3, <4>4
    <3> QED
      BY <3>1, <3>2
  <2> QED
    BY <1>1, <2>1, <2>2, StudioOf, StudioMoves DEF SessionInv, Typed
<1> QED
  BY <1>2, <1>3

(* What a studio relies on of the record and the tokens.                     *)
LEMMA StudioStays ==
  ASSUME SessionInv, NEW k \in Lifetimes, kept \subseteq kept',
         control'[k] = control[k], rotation'[k] = rotation[k], binding'[k] = binding[k],
         rotation[k].next \in kept' => rotation[k].next \in kept,
         \A x \in Tokens : account[x] # None => account'[x] = account[x],
         \A x \in kept \cup {rotation[k].next} : x \in Tokens => family'[x] = family[x],
         record' = record \/ record'.rev = record.rev + 1,
         rotation[k].pc = "sent" => \/ record'.tok \in {record.tok, rotation[k].prev, None}
                                    \/ family'[record'.tok] # family[rotation[k].prev]
  PROVE  StudioFits(k)'
<1> DEFINE c == control[k]
           r == rotation[k]
           b == binding[k]
<1>1. /\ c \in Controls /\ r \in Rotations /\ b \in Bindings /\ record \in Records /\ kept \subseteq Tokens
      /\ ControlFits(c) /\ RotationFits(r, c) /\ BindingFits(b)
      /\ (\A x \in kept : account[x] # None /\ x # None)
  BY StudioOf, SessionAssumption DEF SessionInv, Typed, TokensFit
<1>2. record.rev \in Nat /\ r.rev \in Nat /\ b.rev \in Nat
  BY <1>1 DEF Records, Rotations, Bindings, Revs
<1>3. ControlFits(c)'
  BY <1>1 DEF ControlFits
<1>4. BindingFits(b)'
  BY <1>1, <1>2 DEF BindingFits
<1>5. RotationFits(r, c)'
  <2>1. r.pc # "idle" => r.prev \in kept' /\ account'[r.prev] = account[r.prev] /\ family'[r.prev] = family[r.prev]
    BY <1>1 DEF RotationFits
  <2>2. r.pc \in {"answered", "writing", "written"} =>
          /\ r.next \in Tokens /\ account'[r.next] = account[r.next] /\ family'[r.next] = family[r.next]
          /\ r.next \in kept' <=> r.next \in kept
    BY <1>1 DEF RotationFits
  <2>3. r.pc = "writing" => r.rev <= record'.rev /\ (r.rev = record'.rev => record' = record)
    BY <1>1, <1>2 DEF RotationFits
  <2>4. r.pc = "sent" => record'.tok \in {r.prev, None} \/ family'[record'.tok] # family'[r.prev]
    <3> SUFFICES ASSUME r.pc = "sent", record'.tok = record.tok, record.tok # None
                 PROVE  record'.tok = r.prev \/ family'[record'.tok] # family'[r.prev]
      BY <2>1
    <3>1. record.tok \in kept
      BY DEF SessionInv, RecordFits
    <3> QED
      BY <1>1, <2>1, <3>1 DEF RotationFits
  <2> QED
    BY <1>1, <2>1, <2>2, <2>3, <2>4 DEF RotationFits
<1> QED
  BY <1>3, <1>4, <1>5 DEF StudioFits

(* A token the server mints is on no way yet.                                *)
LEMMA FreshIsNew ==
  ASSUME SessionInv, Unminted # {}
  PROVE  /\ Fresh \in Tokens /\ account[Fresh] = None /\ Fresh \notin kept /\ Fresh # None
         /\ \A l \in Lifetimes : rotation[l].next # Fresh
         /\ \A t \in Tabs : signing[t].tok # Fresh
<1>1. Fresh \in Tokens /\ account[Fresh] = None
  BY DEF Fresh, Unminted
<1>2. Fresh \notin kept /\ Fresh # None
  BY <1>1, SessionAssumption DEF SessionInv, TokensFit
<1>3. ASSUME NEW l \in Lifetimes PROVE rotation[l].next # Fresh
  BY <1>1, <1>2, StudioOf DEF RotationFits, SessionInv, TokensFit, Typed, Rotations
<1>4. ASSUME NEW t \in Tabs PROVE signing[t].tok # Fresh
  <2>1. signing[t] \in Signings /\ SigningFits(signing[t])
    BY DEF SessionInv, Typed
  <2> QED
    BY <1>1, <1>2, <2>1 DEF Signings, SigningFits
<1> QED
  BY <1>1, <1>2, <1>3, <1>4

(* The replacement has the family and the account of the token it replaces.  *)
LEMMA RotateKeeps ==
  ASSUME SessionInv, NEW l \in Lifetimes, Rotate(l)
  PROVE  SessionInv'
<1>1. PICK f \in Tokens :
        /\ f = Fresh /\ account[f] = None /\ f \notin kept /\ f # None
        /\ (\A k \in Lifetimes : rotation[k].next # f) /\ (\A t \in Tabs : signing[t].tok # f)
  BY FreshIsNew DEF Rotate
<1> DEFINE p == rotation[l].prev
<1>2. /\ rotation[l].pc = "sent" /\ p \in live /\ live' = (live \ {p}) \cup {f}
      /\ account' = [account EXCEPT ![f] = account[p]] /\ family' = [family EXCEPT ![f] = family[p]]
      /\ UNCHANGED <<record, kept, holder, control, binding, signing, dropping, revoking, ended, asked, strays>>
  BY <1>1 DEF Rotate
<1>3. PICK r \in Rotations :
        r.pc = "answered" /\ r.next = f /\ r.prev = p /\ rotation' = [rotation EXCEPT ![l] = r]
  <2> DEFINE r == [rotation[l] EXCEPT !.pc = "answered", !.next = f]
  <2>1. r \in Rotations
    BY StudioOf DEF Rotations, MaybeToken
  <2>2. r.pc = "answered" /\ r.next = f /\ r.prev = p
    BY StudioOf DEF Rotations
  <2>3. rotation' = [rotation EXCEPT ![l] = r]
    BY <1>1 DEF Rotate
  <2> QED
    BY <2>1, <2>2, <2>3
<1>4. p \in kept /\ p \in Tokens /\ p # f /\ rotation[l].next = None
  BY <1>1, <1>2, StudioOf DEF RotationFits, SessionInv, Typed
<1> HIDE DEF p
<1>5. /\ \A x \in Tokens : x # f => account'[x] = account[x] /\ family'[x] = family[x]
      /\ account'[f] = account[p] /\ family'[f] = family[p] /\ rotation'[l] = r
      /\ \A k \in Lifetimes : k # l => rotation'[k] = rotation[k]
  BY <1>1, <1>2, <1>3, <1>4 DEF SessionInv, Typed
<1>6. Typed'
  <2>1. account' \in [Tokens -> Owners] /\ family' \in [Tokens -> Revs] /\ live' \subseteq Tokens
    BY <1>1, <1>2, <1>4 DEF SessionInv, Typed
  <2>2. Busy(rotation[l]) /\ Busy(r)
    BY <1>2, <1>3 DEF Busy
  <2>3. \A j, k \in Lifetimes : Busy(rotation'[j]) /\ Busy(rotation'[k]) => j = k
    BY <1>5, <2>2 DEF SessionInv, Typed
  <2> QED
    BY <1>2, <1>3, <2>1, <2>3 DEF SessionInv, Typed, Busy
<1>7. RecordFits' /\ TokensFit'
  <2>1. record.tok # None => record.tok \in Tokens /\ record.tok # f
    BY <1>1, StudioOf DEF SessionInv, RecordFits, Typed
  <2> QED
    BY <1>1, <1>2, <1>4, <1>5, <2>1 DEF SessionInv, RecordFits, TokensFit
<1>8. FencesFit'
  BY <1>2 DEF SessionInv, FencesFit
<1>9. ASSUME NEW k \in Lifetimes PROVE StudioFits(k)'
  <2>1. CASE k # l
    BY <1>1, <1>2, <1>5, <2>1, StudioStays
  <2>2. CASE k = l
    <3>0. PICK c \in Controls, b \in Bindings : c = control[l] /\ b = binding[l]
      BY StudioOf
    <3>1. ControlFits(c)'
      BY <1>1, <1>2, <1>5, <3>0, StudioOf DEF ControlFits, SessionInv, Typed
    <3>2. r.prev \in kept /\ c.born /\ c.tok \in {r.prev, None}
      BY <1>2, <1>3, <1>4, <3>0, StudioOf DEF RotationFits, p
    <3>3. RotationFits(r, c)'
      BY <1>1, <1>2, <1>3, <1>4, <1>5, <3>2 DEF RotationFits
    <3>4. BindingFits(b)'
      BY <1>2, <3>0, StudioOf DEF BindingFits
    <3> QED
      BY <1>2, <1>5, <2>2, <3>0, <3>1, <3>3, <3>4 DEF StudioFits
  <2> QED
    BY <2>1, <2>2
<1>10. (\A t \in Tabs : SigningFits(signing[t])') /\ Apart'
  <2>1. ASSUME NEW t \in Tabs PROVE SigningFits(signing[t])'
    BY <1>1, <1>2, <1>5 DEF SessionInv, SigningFits
  <2>2. Apart'
    BY <1>1, <1>2, <1>3, <1>5 DEF SessionInv, Apart
  <2> QED
    BY <2>1, <2>2
<1>11. NothingStranded'
  <2> SUFFICES ASSUME NEW tok \in (live' \ kept) \ strays
               PROVE  \/ tok \in revoking \/ \E k \in Lifetimes : rotation'[k].next = tok
                      \/ \E t \in Tabs : signing[t].tok = tok
    BY <1>2 DEF NothingStranded
  <2>1. CASE tok = f
    BY <1>3, <1>5, <2>1
  <2>2. CASE tok # f
    <3>1. tok \in (live \ kept) \ strays /\ tok # None
      BY <1>2, <2>2, StudioOf DEF SessionInv, Typed
    <3> QED
      BY <1>4, <1>5, <3>1 DEF SessionInv, NothingStranded
  <2> QED
    BY <2>1, <2>2
<1> QED
  BY <1>2, <1>6, <1>7, <1>8, <1>9, <1>10, <1>11 DEF SessionInv

-----------------------------------------------------------------------------
(* The revision of the next write is a family that no token has and nobody   *)
(* discarded.                                                                *)
LEMMA LaterFamily ==
  ASSUME SessionInv
  PROVE  /\ record.rev \in Nat /\ record.fam \in Nat /\ 0 < record.rev + 1
         /\ record.rev + 1 \notin ended \cup {record.fam}
         /\ ended \cup {record.fam} \subseteq 0..(record.rev + 1)
         /\ \A x \in Tokens : family[x] \in Nat /\ family[x] <= record.rev + 1 /\ family[x] # record.rev + 1
         /\ record.rev < MaxRev => record.rev + 1 \in Revs
<1>1. /\ record.rev \in Nat /\ record.fam \in Nat /\ record.fam <= record.rev /\ MaxRev \in Nat
      /\ ended \subseteq 0..record.rev
  BY SessionAssumption DEF SessionInv, Typed, RecordFits, Records, Revs
<1>2. \A x \in Tokens : family[x] \in Nat /\ family[x] <= record.rev
  BY DEF SessionInv, Typed, TokensFit, Revs
<1>3. 0 < record.rev + 1 /\ record.rev + 1 \notin ended \cup {record.fam}
  BY <1>1
<1>4. ended \cup {record.fam} \subseteq 0..(record.rev + 1)
  <2>1. \A x \in 0..record.rev : x \in 0..(record.rev + 1)
    BY <1>1
  <2>2. record.fam \in 0..(record.rev + 1)
    BY <1>1
  <2> QED
    BY <1>1, <2>1, <2>2
<1>5. record.rev < MaxRev => record.rev + 1 \in Revs
  BY <1>1 DEF Revs
<1>6. \A x \in Tokens : family[x] <= record.rev + 1 /\ family[x] # record.rev + 1
  BY <1>1, <1>2
<1> QED
  BY <1>1, <1>2, <1>3, <1>4, <1>5, <1>6

(* A write of the record, and what must hold of it.                          *)
LEMMA RecordMoves ==
  ASSUME SessionInv, NEW rec \in Records, record' = rec, rec.rev = record.rev + 1, RecordFits', FencesFit',
         UNCHANGED <<live, account, family, kept, control, rotation, binding, signing, revoking, strays>>,
         rec.tok = None
  PROVE  SessionInv'
<1>1. Typed'
  BY DEF SessionInv, Typed
<1>2. record.rev \in Nat
  BY DEF SessionInv, Typed, Records, Revs
<1>3. TokensFit'
  BY <1>2 DEF SessionInv, Typed, TokensFit, Revs
<1>4. ASSUME NEW k \in Lifetimes PROVE StudioFits(k)'
  BY StudioStays
<1>5. (\A t \in Tabs : SigningFits(signing[t])') /\ Apart' /\ NothingStranded'
  BY DEF SessionInv, SigningFits, Apart, NothingStranded
<1> QED
  BY <1>1, <1>3, <1>4, <1>5 DEF SessionInv

(* A discard removes its own family only, and opens a later one.             *)
LEMMA DiscardKeeps ==
  ASSUME SessionInv, NEW t \in Tabs, Discard(t)
  PROVE  SessionInv'
<1>1. PICK d \in dropping[t] :
        /\ dropping' = [dropping EXCEPT ![t] = @ \ {d}]
        /\ IF record.fam = d.fam
           THEN /\ record.rev < MaxRev
                /\ record' = Written(0, None, d.owner)
                /\ ended' = ended \cup {d.fam}
           ELSE UNCHANGED <<record, ended>>
        /\ UNCHANGED <<live, account, family, kept, holder, control, rotation, binding, signing,
                       revoking, asked, strays>>
  BY DEF Discard
<1>2. FencesFit'
  BY <1>1 DEF SessionInv, FencesFit
<1>3. d \in Drops
  BY DEF SessionInv, FencesFit
<1>4. CASE record.fam = d.fam
  <2>1. /\ record' \in Records /\ record'.rev = record.rev + 1 /\ record'.fam = record.rev + 1
        /\ record'.tok = None
    BY <1>1, <1>3, <1>4, SessionAssumption
       DEF Written, Records, Drops, MaybeToken, SessionInv, Typed, Revs, Owners
  <2>2. RecordFits'
    BY <1>1, <1>4, <2>1, LaterFamily DEF RecordFits
  <2> QED
    BY <1>1, <1>2, <2>1, <2>2, RecordMoves
<1>5. CASE record.fam # d.fam
  <2>1. UNCHANGED <<record, live, account, family, kept, control, rotation, binding, signing, revoking, ended, strays>>
    BY <1>1, <1>5
  <2> QED
    BY <1>2, <2>1
       DEF SessionInv, Typed, RecordFits, TokensFit, StudioFits, ControlFits, RotationFits,
       BindingFits, SigningFits, Apart, NothingStranded
<1> QED
  BY <1>4, <1>5

(* The end of a deletion removes the session of its account, and opens a     *)
(* later family.                                                             *)
LEMMA DiscardOwnerKeeps ==
  ASSUME SessionInv, NEW a \in Accounts, DiscardOwner(a)
  PROVE  SessionInv'
<1>1. /\ record' \in Records /\ record'.rev = record.rev + 1 /\ record'.fam = record.rev + 1
      /\ record'.tok = None
  BY SessionAssumption
     DEF DiscardOwner, Written, Records, MaybeToken, SessionInv, Typed, Revs, Owners
<1>2. RecordFits'
  BY <1>1, LaterFamily DEF DiscardOwner, RecordFits
<1>3. FencesFit'
  BY DEF DiscardOwner, SessionInv, FencesFit, Typed, Records
<1> QED
  BY <1>1, <1>2, <1>3, RecordMoves DEF DiscardOwner

(* A renewal that was not overtaken replaces in the record just the token it *)
(* renewed, in the same family; no other renewal is on its way, since one is *)
(* at a time.                                                                *)
LEMMA WriteRefreshKeeps ==
  ASSUME SessionInv, NEW l \in Lifetimes, WriteRefresh(l)
  PROVE  SessionInv'
<1>1. /\ rotation[l].pc = "writing"
      /\ UNCHANGED <<live, account, family, binding, signing, ended, strays>>
  BY DEF WriteRefresh
<1>2. CASE ~TicketCurrent(TabOf[l], <<l, "refresh">>, rotation[l].rev)
  BY <1>1, <1>2, GiveUpKeeps DEF WriteRefresh
<1>3. CASE TicketCurrent(TabOf[l], <<l, "refresh">>, rotation[l].rev)
  <2>1. PICK n \in MaybeToken, q \in MaybeToken, o \in Owners :
          n = rotation[l].next /\ q = rotation[l].prev /\ o = rotation[l].owner
    BY StudioOf DEF Rotations
  <2>2. /\ record.rev < MaxRev /\ record.rev = rotation[l].rev
        /\ record' = Written(record.fam, n, o) /\ kept' = kept \cup {n}
        /\ rotation' = [rotation EXCEPT ![l].pc = "written", ![l].rev = record.rev + 1]
        /\ UNCHANGED <<control, holder, dropping, asked, revoking>>
    BY <1>3, <2>1 DEF WriteRefresh, TicketCurrent
  <2>3. /\ n \in Tokens /\ n \notin kept /\ account[n] = account[q] /\ family[n] = family[q]
        /\ q \in kept /\ record.tok = q /\ (o # None => o = account[n]) /\ control[l].tok \in {q, None}
        /\ control[l].born
    BY <1>1, <2>1, <2>2, StudioOf DEF RotationFits
  <2>4. /\ q \in Tokens /\ q # None /\ family[q] = record.fam /\ n # q /\ record.rev \in Nat
        /\ record.rev + 1 \in Revs /\ 0 < record.fam
    BY <2>2, <2>3, StudioOf, LaterFamily DEF SessionInv, RecordFits, Typed
  <2>5. /\ record' \in Records /\ record'.rev = record.rev + 1 /\ record'.fam = record.fam
        /\ record'.tok = n /\ record'.owner = o
    BY <2>1, <2>2, <2>4, StudioOf DEF Written, Records
  <2>6. PICK r \in Rotations :
          /\ r.pc = "written" /\ r.prev = q /\ r.next = n /\ r.owner = o
          /\ rotation' = [rotation EXCEPT ![l] = r]
    <3> DEFINE r == [rotation[l] EXCEPT !.pc = "written", !.rev = record.rev + 1]
    <3>1. r \in Rotations
      BY <2>4, StudioOf DEF Rotations
    <3>2. r.pc = "written" /\ r.prev = q /\ r.next = n /\ r.owner = o
      BY <2>1, StudioOf DEF Rotations
    <3>3. rotation' = [rotation EXCEPT ![l] = r]
      BY <2>2
    <3> QED
      BY <3>1, <3>2, <3>3
  <2>7. rotation'[l] = r /\ \A k \in Lifetimes : k # l => rotation'[k] = rotation[k]
    BY <2>6 DEF SessionInv, Typed
  <2>8. Typed'
    <3>1. Busy(rotation[l]) /\ Busy(r)
      BY <1>1, <2>6 DEF Busy
    <3>2. \A j, k \in Lifetimes : Busy(rotation'[j]) /\ Busy(rotation'[k]) => j = k
      BY <2>7, <3>1 DEF SessionInv, Typed
    <3>3. rotation' \in [Lifetimes -> Rotations] /\ kept' \subseteq Tokens
      BY ZenonT(60), <2>2, <2>3, <2>6 DEF SessionInv, Typed
    <3> QED
      BY <1>1, <2>2, <2>5, <3>2, <3>3 DEF SessionInv, Typed, Busy
  <2>9. RecordFits'
    <3>1. /\ 0 < record'.fam /\ record'.fam <= record'.rev /\ record'.fam \notin ended'
          /\ ended' \subseteq 0..record'.rev
      BY <1>1, <2>4, <2>5, LaterFamily DEF SessionInv, RecordFits
    <3>2. n \in kept' /\ family'[n] = record'.fam /\ (o # None => account'[n] = o)
      BY <1>1, <2>2, <2>3, <2>4, <2>5
    <3> QED
      BY <2>5, <3>1, <3>2 DEF RecordFits
  <2>10. TokensFit'
    BY <1>1, <2>2, <2>3, <2>4, <2>5 DEF SessionInv, TokensFit, Typed, Revs
  <2>11. FencesFit'
    BY <2>2 DEF SessionInv, FencesFit
  <2>12. ASSUME NEW k \in Lifetimes PROVE StudioFits(k)'
    <3>1. CASE k # l
      <4>1. rotation[k].pc \in {"idle", "queued"}
        BY <1>1, <3>1 DEF SessionInv, Typed, Busy
      <4>2. rotation[k].next = None
        BY <4>1, StudioOf DEF RotationFits
      <4>3. rotation[k].next \notin kept'
        BY <2>2, <2>3, <4>2, StudioOf DEF SessionInv, Typed
      <4> QED
        BY <1>1, <2>2, <2>5, <2>7, <3>1, <4>1, <4>2, <4>3, StudioStays
    <3>2. CASE k = l
      <4>1. PICK c \in Controls, b \in Bindings : c = control[l] /\ b = binding[l]
        BY StudioOf
      <4>2. ControlFits(c)'
        BY <1>1, <2>2, <4>1, StudioOf DEF ControlFits
      <4>3. RotationFits(r, c)'
        BY <1>1, <2>2, <2>3, <2>6, <4>1 DEF RotationFits
      <4>4. BindingFits(b)'
        BY <2>2, <2>4, <2>5, <4>1, StudioOf DEF BindingFits, Bindings, Revs
      <4> QED
        BY <1>1, <2>2, <2>7, <3>2, <4>1, <4>2, <4>3, <4>4 DEF StudioFits
    <3> QED
      BY <3>1, <3>2
  <2>13. (\A t \in Tabs : SigningFits(signing[t])') /\ Apart'
    <3>1. ASSUME NEW t \in Tabs PROVE SigningFits(signing[t])'
      <4>1. signing[t].pc \in {"minted", "writing"} => signing[t].tok # n
        BY <2>1 DEF SessionInv, Apart
      <4> QED
        BY <1>1, <2>2, <4>1 DEF SessionInv, SigningFits
    <3>2. Apart'
      BY <1>1, <2>1, <2>6, <2>7 DEF SessionInv, Apart
    <3> QED
      BY <3>1, <3>2
  <2>14. NothingStranded'
    <3>1. \A k \in Lifetimes : rotation'[k].next = rotation[k].next
      BY <2>1, <2>6, <2>7
    <3>2. (live' \ kept') \ strays' \subseteq (live \ kept) \ strays
      BY <1>1, <2>2
    <3>3. UNCHANGED <<revoking, signing>>
      BY <1>1, <2>2
    <3> QED
      BY <3>1, <3>2, <3>3 DEF SessionInv, NothingStranded
  <2> QED
    BY <2>8, <2>9, <2>10, <2>11, <2>12, <2>13, <2>14 DEF SessionInv
<1> QED
  BY <1>2, <1>3

(* A studio mounts over the token and the owner of the record, and ends the  *)
(* former one of its tab.                                                    *)
LEMMA MountKeeps ==
  ASSUME SessionInv, NEW l \in Lifetimes, Mount(l)
  PROVE  SessionInv'
<1> DEFINE mounted == [tok |-> record.tok, owner |-> record.owner, born |-> TRUE]
<1>1. /\ ~control[l].born /\ record.tok # None
      /\ control' = [x \in Lifetimes |->
           CASE x = l -> mounted
             [] x # l /\ TabOf[x] = TabOf[l] -> Ended(control[x])
             [] OTHER -> control[x]]
      /\ UNCHANGED <<record, live, account, family, kept, holder, rotation, binding, signing,
                     dropping, revoking, ended, asked, strays>>
  BY StudioOf DEF Mount, StoreTok, Ended
<1>2. mounted \in Controls /\ ControlFits(mounted)
  BY <1>1, StudioOf DEF Controls, Records, ControlFits, SessionInv, RecordFits
<1>3. rotation[l].pc = "idle"
  BY <1>1, StudioOf DEF RotationFits
<1>4. control'[l] = mounted /\ \A k \in Lifetimes : k # l => control'[k] \in {control[k], Ended(control[k])}
  BY <1>1
<1> HIDE DEF mounted
<1>5. control' \in [Lifetimes -> Controls]
  <2>1. \A k \in Lifetimes : control'[k] \in Controls
    BY <1>2, <1>4, EndedFits, StudioOf
  <2> QED
    BY <1>1, <2>1
<1>6. Typed'
  BY <1>1, <1>5 DEF SessionInv, Typed, Busy
<1>7. RecordFits' /\ TokensFit' /\ FencesFit' /\ Apart' /\ NothingStranded'
      /\ \A t \in Tabs : SigningFits(signing[t])'
  BY <1>1 DEF SessionInv, RecordFits, TokensFit, FencesFit, Apart, NothingStranded, SigningFits
<1>8. ASSUME NEW k \in Lifetimes PROVE StudioFits(k)'
  <2>1. PICK c \in Controls : c = control'[k] /\ ControlFits(c) /\ RotationFits(rotation[k], c)
    <3>1. CASE k = l
      BY <1>2, <1>3, <1>4, <3>1, StudioOf DEF RotationFits
    <3>2. CASE k # l
      BY <1>4, <3>2, EndedFits, StudioOf
    <3> QED
      BY <3>1, <3>2
  <2>2. BindingFits(binding[k])
    BY StudioOf
  <2> QED
    BY <1>1, <2>1, <2>2 DEF StudioFits, ControlFits, RotationFits, BindingFits
<1> QED
  BY <1>6, <1>7, <1>8 DEF SessionInv

(* A label that was not overtaken names the account of the very token the    *)
(* record has.                                                               *)
LEMMA WriteBindingKeeps ==
  ASSUME SessionInv, NEW l \in Lifetimes, WriteBinding(l)
  PROVE  SessionInv'
<1>1. /\ binding[l].pc = "writing" /\ binding' = [binding EXCEPT ![l] = IdleBinding]
      /\ UNCHANGED <<live, account, family, kept, holder, rotation, signing, dropping, revoking,
                     ended, asked, strays>>
  BY DEF WriteBinding
<1>2. FencesFit' /\ BindingFits(IdleBinding)
  BY <1>1, RestIsTyped DEF SessionInv, FencesFit, BindingFits
<1>3. CASE ~TicketCurrent(TabOf[l], <<l, "bind">>, binding[l].rev)
  BY ZenonT(60), <1>1, <1>2, <1>3, RestIsTyped, StudioOf, StudioMoves DEF WriteBinding, SessionInv, Typed
<1>4. CASE TicketCurrent(TabOf[l], <<l, "bind">>, binding[l].rev)
  <2>1. PICK n \in Tokens : n = binding[l].tok /\ n \in kept /\ n # None
    BY <1>1, StudioOf DEF BindingFits, SessionInv, Typed
  <2>2. /\ record.rev < MaxRev /\ record.rev = binding[l].rev /\ record' = Written(record.fam, n, account[n])
        /\ control' = IF control[l].tok = n THEN [control EXCEPT ![l].owner = account[n]] ELSE control
    BY <1>4, <2>1 DEF WriteBinding, TicketCurrent
  <2>3. /\ record.tok = n /\ family[n] = record.fam /\ 0 < record.fam
        /\ account[n] \in Owners
    BY <1>1, <2>1, <2>2, StudioOf DEF BindingFits, SessionInv, RecordFits, Typed
  <2>4. /\ record' \in Records /\ record'.rev = record.rev + 1 /\ record'.fam = record.fam
        /\ record'.tok = n /\ record'.owner = account[n]
    BY <2>1, <2>2, <2>3, LaterFamily, StudioOf DEF Written, Records, MaybeToken
  <2>5. PICK c \in Controls :
          /\ control' = [control EXCEPT ![l] = c] /\ ControlFits(c)
          /\ c.tok = control[l].tok /\ c.born = control[l].born
    <3>1. CASE control[l].tok = n
      <4> DEFINE c == [control[l] EXCEPT !.owner = account[n]]
      <4>1. c \in Controls /\ c.tok = control[l].tok /\ c.born = control[l].born /\ c.owner = account[n]
        BY <2>3, StudioOf DEF Controls
      <4>2. control' = [control EXCEPT ![l] = c]
        BY <2>2, <3>1
      <4>3. ControlFits(c)
        BY <3>1, <4>1, StudioOf DEF ControlFits
      <4> QED
        BY <4>1, <4>2, <4>3
    <3>2. CASE control[l].tok # n
      BY <2>2, <3>2, StudioOf
    <3> QED
      BY <3>1, <3>2
  <2>6. /\ control'[l] = c /\ binding'[l] = IdleBinding
        /\ \A k \in Lifetimes : k # l => control'[k] = control[k] /\ binding'[k] = binding[k]
    BY <1>1, <2>5 DEF SessionInv, Typed
  <2>7. Typed'
    <3>1. control' \in [Lifetimes -> Controls] /\ binding' \in [Lifetimes -> Bindings]
      BY <1>1, <2>5, RestIsTyped DEF SessionInv, Typed
    <3> QED
      BY <1>1, <2>4, <3>1 DEF SessionInv, Typed, Busy
  <2>8. RecordFits' /\ TokensFit'
    <3>1. /\ 0 < record'.fam /\ record'.fam <= record'.rev /\ record'.fam \notin ended'
          /\ ended' \subseteq 0..record'.rev
      BY <1>1, <2>3, <2>4, LaterFamily DEF SessionInv, RecordFits
    <3>2. TokensFit'
      BY <1>1, <2>4, LaterFamily DEF SessionInv, TokensFit
    <3> QED
      BY <1>1, <2>1, <2>3, <2>4, <3>1, <3>2 DEF RecordFits
  <2>9. ASSUME NEW k \in Lifetimes PROVE StudioFits(k)'
    <3>1. CASE k # l
      BY <1>1, <2>3, <2>4, <2>6, <3>1, StudioStays
    <3>2. CASE k = l
      <4>1. PICK r \in Rotations : r = rotation[l]
        BY StudioOf
      <4>2. ControlFits(c)' /\ BindingFits(IdleBinding)'
        BY <1>1, <2>5, RestIsTyped DEF ControlFits, BindingFits
      <4>3. RotationFits(r, c)
        BY <2>5, <4>1, StudioOf DEF RotationFits
      <4>4. r.pc = "writing" => r.rev <= record.rev /\ r.rev \in Nat
        BY <4>1, <4>3 DEF RotationFits, Rotations, Revs
      <4>5. RotationFits(r, c)'
        BY <1>1, <2>3, <2>4, <4>3, <4>4, LaterFamily DEF RotationFits
      <4> QED
        BY <1>1, <2>6, <3>2, <4>1, <4>2, <4>5 DEF StudioFits
    <3> QED
      BY <3>1, <3>2
  <2>10. (\A t \in Tabs : SigningFits(signing[t])') /\ Apart' /\ NothingStranded'
    BY <1>1 DEF SessionInv, SigningFits, Apart, NothingStranded
  <2> QED
    BY <1>2, <2>7, <2>8, <2>9, <2>10 DEF SessionInv
<1> QED
  BY <1>3, <1>4

(* The sign-in of a tab moves on, and what it lets go of is revoked.         *)
LEMMA SigningMoves ==
  ASSUME SessionInv, NEW t \in Tabs, NEW s \in Signings, signing' = [signing EXCEPT ![t] = s],
         UNCHANGED <<record, live, account, family, kept, control, rotation, binding, ended, strays>>,
         FencesFit', revoking \subseteq revoking', revoking' \subseteq Tokens, SigningFits(s),
         s.pc \in {"minted", "writing"} => signing[t].pc \in {"minted", "writing"},
         \/ s.tok = signing[t].tok
         \/ s.tok = None /\ signing[t].tok \in {None} \cup kept \cup revoking'
  PROVE  SessionInv'
<1>1. signing'[t] = s /\ \A u \in Tabs : u # t => signing'[u] = signing[u]
  BY DEF SessionInv, Typed
<1>2. Typed'
  BY DEF SessionInv, Typed, Busy
<1>3. RecordFits' /\ TokensFit' /\ \A l \in Lifetimes : StudioFits(l)'
  BY DEF SessionInv, RecordFits, TokensFit, StudioFits, ControlFits, RotationFits, BindingFits
<1>4. ASSUME NEW u \in Tabs PROVE SigningFits(signing[u])'
  BY <1>1, <1>4 DEF SessionInv, SigningFits
<1>5. Apart'
  BY <1>1, RestIsTyped DEF SessionInv, Apart, SigningFits
<1>6. NothingStranded'
  BY <1>1, RestIsTyped DEF SessionInv, NothingStranded, Typed
<1> QED
  BY <1>2, <1>3, <1>4, <1>5, <1>6 DEF SessionInv

-----------------------------------------------------------------------------
(* The invariant of the sign-in of one tab.                                  *)
LEMMA SigningOf ==
  ASSUME SessionInv, NEW t \in Tabs
  PROVE  signing[t] \in Signings /\ SigningFits(signing[t]) /\ None \notin Tokens
         /\ \A x \in kept : x \in Tokens
  BY SessionAssumption DEF SessionInv, Typed

(* The callback, the fence before the write and the fence after it.          *)
LEMMA SignInsKeep ==
  ASSUME SessionInv, NEW t \in Tabs, Callback(t) \/ Exchanged(t) \/ EnterStudio(t)
  PROVE  SessionInv'
<1>1. CASE Callback(t)
  <2>1. PICK s \in Signings :
          /\ signing' = [signing EXCEPT ![t] = s] /\ s.tok = None /\ SigningFits(s)
          /\ s.pc \in {"exchange", "none"}
    <3>1. signing[t].tok = None
      BY <1>1, SigningOf DEF Callback, SigningFits
    <3>2. CASE record.rev = signing[t].rev
      <4> DEFINE s == [signing[t] EXCEPT !.pc = "exchange"]
      <4>1. s \in Signings /\ s.pc = "exchange" /\ s.tok = None
        BY <3>1, SigningOf DEF Signings
      <4>2. signing' = [signing EXCEPT ![t] = s]
        BY <1>1, <3>2 DEF Callback
      <4>3. SigningFits(s)
        BY <4>1 DEF SigningFits
      <4> QED
        BY <4>1, <4>2, <4>3
    <3>3. CASE record.rev # signing[t].rev
      BY <1>1, <3>3, RestIsTyped DEF Callback, SigningFits
    <3> QED
      BY <3>2, <3>3
  <2>2. signing[t].tok = None
    BY <1>1, SigningOf DEF Callback, SigningFits
  <2>3. FencesFit'
    BY <1>1 DEF Callback, SessionInv, FencesFit, Holders
  <2> QED
    BY <1>1, <2>1, <2>2, <2>3, SigningMoves DEF Callback, SessionInv, Typed
<1>2. ASSUME Superseded(t), signing[t].pc \in {"minted", "written"},
             UNCHANGED <<record, live, account, family, kept, holder, control, rotation, binding, dropping,
                         ended, asked, strays>>
      PROVE  SessionInv'
  <2>1. signing[t].tok \in Tokens
    BY <1>2, SigningOf DEF SigningFits
  <2>2. FencesFit' /\ SigningFits(NotSigning)
    BY <1>2, RestIsTyped DEF SessionInv, FencesFit, SigningFits
  <2> QED
    BY <1>2, <2>1, <2>2, RestIsTyped, SigningMoves DEF Superseded, SessionInv, Typed
<1>3. CASE Exchanged(t)
  <2>1. CASE ~TicketCurrent(t, <<"sign">>, signing[t].rev)
    BY <1>2, <1>3, <2>1 DEF Exchanged
  <2>2. CASE TicketCurrent(t, <<"sign">>, signing[t].rev)
    <3> DEFINE s == [signing[t] EXCEPT !.pc = "writing"]
    <3>1. s \in Signings /\ s.pc = "writing" /\ s.tok = signing[t].tok
      BY SigningOf DEF Signings
    <3>2. signing' = [signing EXCEPT ![t] = s]
      BY <1>3, <2>2 DEF Exchanged
    <3> HIDE DEF s
    <3>3. SigningFits(s)
      BY <1>3, <3>1, SigningOf DEF Exchanged, SigningFits
    <3>4. FencesFit'
      BY <1>3 DEF Exchanged, SessionInv, FencesFit
    <3> QED
      BY <1>3, <2>2, <3>1, <3>2, <3>3, <3>4, SigningMoves DEF Exchanged, SessionInv, Typed
  <2> QED
    BY <2>1, <2>2
<1>4. CASE EnterStudio(t)
  <2>1. CASE ~TicketCurrent(t, <<"sign">>, signing[t].rev)
    BY <1>2, <1>4, <2>1 DEF EnterStudio
  <2>2. CASE TicketCurrent(t, <<"sign">>, signing[t].rev)
    <3>1. signing[t].tok \in kept /\ SigningFits(NotSigning)
      BY <1>4, SigningOf, RestIsTyped DEF EnterStudio, SigningFits
    <3>2. FencesFit'
      BY <1>4 DEF EnterStudio, SessionInv, FencesFit
    <3> QED
      BY <1>4, <2>2, <3>1, <3>2, RestIsTyped, SigningMoves DEF EnterStudio, SessionInv, Typed
  <2> QED
    BY <2>1, <2>2
<1> QED
  BY <1>1, <1>3, <1>4

(* The token of a sign-in is new, so it is on no other way.                  *)
LEMMA ExchangeKeeps ==
  ASSUME SessionInv, NEW t \in Tabs, Exchange(t)
  PROVE  SessionInv'
<1>1. PICK f \in Tokens :
        /\ f = Fresh /\ account[f] = None /\ f \notin kept /\ f # None
        /\ (\A k \in Lifetimes : rotation[k].next # f) /\ (\A u \in Tabs : signing[u].tok # f)
  BY FreshIsNew DEF Exchange
<1>2. /\ signing[t].pc = "exchange" /\ live' = live \cup {f}
      /\ UNCHANGED <<record, family, kept, holder, control, rotation, binding, dropping, revoking,
                     ended, asked, strays>>
  BY <1>1 DEF Exchange
<1>3. PICK a \in Accounts : account' = [account EXCEPT ![f] = a] /\ a # None
  BY <1>1, SessionAssumption DEF Exchange
<1>4. PICK s \in Signings : s.pc = "minted" /\ s.tok = f /\ signing' = [signing EXCEPT ![t] = s]
  <2> DEFINE s == [signing[t] EXCEPT !.pc = "minted", !.tok = f]
  <2>1. s \in Signings /\ s.pc = "minted" /\ s.tok = f
    BY SigningOf DEF Signings, MaybeToken
  <2>2. signing' = [signing EXCEPT ![t] = s]
    BY <1>1 DEF Exchange
  <2> QED
    BY <2>1, <2>2
<1>5. /\ account'[f] = a /\ \A x \in Tokens : x # f => account'[x] = account[x]
      /\ signing'[t] = s /\ \A u \in Tabs : u # t => signing'[u] = signing[u]
  BY <1>3, <1>4 DEF SessionInv, Typed
<1>6. Typed'
  <2>1. /\ account' \in [Tokens -> Owners] /\ live' \subseteq Tokens
        /\ signing' \in [Tabs -> Signings]
    BY <1>2, <1>3, <1>4 DEF SessionInv, Typed, Owners
  <2> QED
    BY <1>2, <2>1 DEF SessionInv, Typed, Busy
<1>7. RecordFits' /\ TokensFit' /\ FencesFit'
  <2>1. record.tok # None => record.tok \in Tokens /\ record.tok # f
    BY <1>1 DEF SessionInv, RecordFits, Typed
  <2> QED
    BY <1>1, <1>2, <1>3, <1>5, <2>1 DEF SessionInv, RecordFits, TokensFit, FencesFit
<1>8. ASSUME NEW k \in Lifetimes PROVE StudioFits(k)'
  BY <1>1, <1>2, <1>5, StudioStays
<1>9. ASSUME NEW u \in Tabs PROVE SigningFits(signing[u])'
  <2>1. CASE u = t
    BY <1>1, <1>2, <1>3, <1>4, <1>5, <2>1 DEF SigningFits
  <2>2. CASE u # t
    <3>1. PICK z \in Signings : z = signing[u] /\ SigningFits(z) /\ z.tok # f
      BY <1>1, SigningOf
    <3>2. SigningFits(z)'
      BY <1>2, <1>5, <3>1 DEF SigningFits
    <3> QED
      BY <1>5, <2>2, <3>1, <3>2
  <2> QED
    BY <2>1, <2>2
<1>10. Apart'
  BY <1>1, <1>2, <1>4, <1>5 DEF SessionInv, Apart
<1>11. NothingStranded'
  <2>1. signing[t].tok = None
    BY <1>2, SigningOf DEF SigningFits
  <2> SUFFICES ASSUME NEW tok \in (live' \ kept) \ strays
               PROVE  \/ tok \in revoking \/ \E k \in Lifetimes : rotation[k].next = tok
                      \/ \E u \in Tabs : signing'[u].tok = tok
    BY <1>2 DEF NothingStranded
  <2>2. CASE tok = f
    BY <1>4, <1>5, <2>2
  <2>3. CASE tok # f
    <3>1. tok \in (live \ kept) \ strays /\ tok # None
      BY <1>2, <2>3, SessionAssumption DEF SessionInv, Typed
    <3> QED
      BY <1>5, <2>1, <3>1 DEF SessionInv, NothingStranded
  <2> QED
    BY <2>2, <2>3
<1> QED
  BY <1>6, <1>7, <1>8, <1>9, <1>10, <1>11 DEF SessionInv

(* The server revoked a token: whoever still holds it was told to revoke it. *)
LEMMA RevokeKeeps ==
  ASSUME SessionInv, NEW tok \in Tokens, Revoke(tok)
  PROVE  SessionInv'
<1>1. /\ revoking' = revoking \ {tok} /\ live' = live \ {tok}
      /\ UNCHANGED <<record, account, family, kept, holder, control, rotation, binding, signing,
                     dropping, ended, asked, strays>>
  BY DEF Revoke
<1>2. Typed' /\ RecordFits' /\ TokensFit' /\ FencesFit' /\ Apart'
  BY <1>1 DEF SessionInv, Typed, Busy, RecordFits, TokensFit, FencesFit, Apart
<1>3. (\A l \in Lifetimes : StudioFits(l)') /\ \A t \in Tabs : SigningFits(signing[t])'
  BY <1>1 DEF SessionInv, StudioFits, ControlFits, RotationFits, BindingFits, SigningFits
<1>4. NothingStranded'
  BY <1>1 DEF SessionInv, NothingStranded
<1> QED
  BY <1>2, <1>3, <1>4 DEF SessionInv

(* The page of a tab goes away, with what its sign-in becomes meanwhile.     *)
LEMMA UnloadKeeps ==
  ASSUME SessionInv, NEW t \in Tabs, Unload(t), NEW s \in Signings, signing' = [signing EXCEPT ![t] = s],
         SigningFits(s), s.tok = signing[t].tok,
         s.pc \in {"minted", "writing"} => signing[t].pc \in {"minted", "writing"},
         UNCHANGED <<record, live, account, family, kept, revoking, ended, asked>>
  PROVE  SessionInv'
<1>1. \A l \in Lifetimes :
        /\ control'[l] = IF l \in Of(t) THEN Ended(control[l]) ELSE control[l]
        /\ rotation'[l] = IF l \in Of(t) THEN IdleRotation ELSE rotation[l]
        /\ binding'[l] = IF l \in Of(t) THEN IdleBinding ELSE binding[l]
  BY DEF Unload, Ended
<1>2. /\ signing'[t] = s /\ \A u \in Tabs : u # t => signing'[u] = signing[u]
      /\ strays' = strays \cup ({rotation[l].next : l \in Of(t)} \ {None})
  BY DEF Unload, SessionInv, Typed
<1>3. strays' \subseteq Tokens /\ strays \subseteq strays'
  <2>1. \A l \in Of(t) : rotation[l].next \in MaybeToken
    BY StudioOf DEF Of, Rotations
  <2> QED
    BY <1>2, <2>1 DEF MaybeToken, SessionInv, Typed
<1>4. ASSUME NEW l \in Lifetimes
      PROVE  /\ control'[l] \in Controls /\ rotation'[l] \in Rotations /\ binding'[l] \in Bindings
             /\ Busy(rotation'[l]) => Busy(rotation[l])
             /\ StudioFits(l)'
  <2>1. PICK c \in Controls, r \in Rotations, b \in Bindings :
          /\ c = control'[l] /\ r = rotation'[l] /\ b = binding'[l]
          /\ ControlFits(c) /\ RotationFits(r, c) /\ BindingFits(b)
          /\ Busy(r) => Busy(rotation[l])
    <3>1. CASE l \in Of(t)
      <4>1. RotationFits(IdleRotation, Ended(control[l])) /\ BindingFits(IdleBinding) /\ ~Busy(IdleRotation)
        BY RestIsTyped DEF RotationFits, BindingFits, Busy
      <4> QED
        BY <1>1, <3>1, <4>1, RestIsTyped, StudioOf, EndedFits
    <3>2. CASE l \notin Of(t)
      BY <1>1, <3>2, StudioOf
    <3> QED
      BY <3>1, <3>2
  <2> QED
    BY <2>1 DEF StudioFits, ControlFits, RotationFits, BindingFits
<1>5. Typed'
  <2>1. /\ control' \in [Lifetimes -> Controls] /\ rotation' \in [Lifetimes -> Rotations]
        /\ binding' \in [Lifetimes -> Bindings]
    BY <1>4 DEF Unload
  <2>2. \A j, k \in Lifetimes : Busy(rotation'[j]) /\ Busy(rotation'[k]) => j = k
    BY <1>4 DEF SessionInv, Typed
  <2> QED
    BY <1>3, <2>1, <2>2 DEF SessionInv, Typed, Busy
<1>6. RecordFits' /\ TokensFit'
  BY DEF SessionInv, RecordFits, TokensFit
<1>7. FencesFit'
  BY DEF Unload, SessionInv, FencesFit, Holders
<1>8. ASSUME NEW u \in Tabs PROVE SigningFits(signing[u])'
  BY <1>2 DEF SessionInv, SigningFits
<1>9. Apart'
  <2>1. \A l \in Lifetimes : rotation'[l].next \in {rotation[l].next, None}
    BY <1>1, RestIsTyped
  <2>2. \A u \in Tabs : signing[u].pc \in {"minted", "writing"} => signing[u].tok # None
    BY RestIsTyped DEF SessionInv, SigningFits
  <2> QED
    BY <1>2, <2>1, <2>2 DEF SessionInv, Apart
<1>10. NothingStranded'
  <2> SUFFICES ASSUME NEW tok \in (live \ kept) \ strays'
               PROVE  \/ tok \in revoking \/ \E k \in Lifetimes : rotation'[k].next = tok
                      \/ \E u \in Tabs : signing'[u].tok = tok
    BY DEF NothingStranded
  <2>1. tok \in (live \ kept) \ strays /\ tok # None
    BY <1>3, SessionAssumption DEF SessionInv, Typed
  <2>2. CASE \E k \in Lifetimes : rotation[k].next = tok
    BY <1>1, <1>2, <2>1, <2>2 DEF Of
  <2>3. CASE \E u \in Tabs : signing[u].tok = tok
    BY <1>2, <2>3
  <2> QED
    BY <2>1, <2>2, <2>3 DEF SessionInv, NothingStranded
<1> QED
  BY <1>4, <1>5, <1>6, <1>7, <1>8, <1>9, <1>10 DEF SessionInv

(* A tab that closes or leaves for the provider: a replacement whose answer  *)
(* it waited for is lost on the way.                                         *)
LEMMA LeavingsKeep ==
  ASSUME SessionInv, NEW t \in Tabs, Close(t) \/ BeginSignIn(t)
  PROVE  SessionInv'
<1>1. CASE Close(t)
  <2>1. signing' = [signing EXCEPT ![t] = signing[t]]
    BY <1>1 DEF Close, SessionInv, Typed
  <2> QED
    BY <1>1, <2>1, SigningOf, UnloadKeeps DEF Close
<1>2. CASE BeginSignIn(t)
  <2> DEFINE s == [NotSigning EXCEPT !.pc = "away", !.rev = record.rev]
  <2>1. s \in Signings /\ s.pc = "away" /\ s.tok = None
    BY RestIsTyped DEF Signings, SessionInv, Typed, Records, NotSigning
  <2>2. signing' = [signing EXCEPT ![t] = s] /\ signing[t].pc = "none"
    BY <1>2 DEF BeginSignIn
  <2> HIDE DEF s
  <2>3. SigningFits(s) /\ signing[t].tok = None
    BY <2>1, <2>2, SigningOf DEF SigningFits
  <2> QED
    BY <1>2, <2>1, <2>2, <2>3, UnloadKeeps DEF BeginSignIn
<1> QED
  BY <1>1, <1>2

(* A sign-in that was not overtaken opens a family of its own, later than    *)
(* that of every token a studio knows.                                       *)
LEMMA WriteSignInKeeps ==
  ASSUME SessionInv, NEW t \in Tabs, WriteSignIn(t)
  PROVE  SessionInv'
<1>1. PICK n \in Tokens :
        /\ n = signing[t].tok /\ n \notin kept /\ account[n] # None /\ n # None
        /\ signing[t].pc = "writing"
        /\ \A u \in Tabs : u # t => signing[u].tok # n
        /\ \A l \in Lifetimes : rotation[l].next # n
  BY SigningOf DEF WriteSignIn, SigningFits, SessionInv, Apart
<1>2. UNCHANGED <<live, account, holder, control, rotation, binding, dropping, ended, asked, strays>>
  BY DEF WriteSignIn
<1>3. FencesFit'
  BY <1>2 DEF SessionInv, FencesFit
<1>4. CASE ~TicketCurrent(t, <<"sign">>, signing[t].rev)
  <2>1. SigningFits(NotSigning)
    BY RestIsTyped DEF SigningFits
  <2> QED
    BY <1>1, <1>2, <1>3, <1>4, <2>1, RestIsTyped, SigningMoves
       DEF WriteSignIn, Superseded, SessionInv, Typed
<1>5. CASE TicketCurrent(t, <<"sign">>, signing[t].rev)
  <2>1. /\ record.rev < MaxRev /\ record' = Written(0, n, None)
        /\ family' = [family EXCEPT ![n] = record.rev + 1] /\ kept' = kept \cup {n}
        /\ UNCHANGED revoking
    BY <1>1, <1>5 DEF WriteSignIn
  <2>2. /\ record' \in Records /\ record'.rev = record.rev + 1 /\ record'.fam = record.rev + 1
        /\ record'.tok = n /\ record'.owner = None
    BY <2>1, LaterFamily DEF Written, Records, MaybeToken, Owners
  <2>3. PICK s \in Signings : s.pc = "written" /\ s.tok = n /\ signing' = [signing EXCEPT ![t] = s]
    <3> DEFINE s == [signing[t] EXCEPT !.pc = "written", !.rev = record.rev + 1]
    <3>1. s \in Signings
      BY <2>1, LaterFamily, SigningOf DEF Signings
    <3>2. s.pc = "written" /\ s.tok = n
      BY <1>1, SigningOf DEF Signings
    <3>3. signing' = [signing EXCEPT ![t] = s]
      BY <1>5 DEF WriteSignIn
    <3> QED
      BY <3>1, <3>2, <3>3
  <2>4. /\ signing'[t] = s /\ \A u \in Tabs : u # t => signing'[u] = signing[u]
        /\ family'[n] = record.rev + 1 /\ \A x \in Tokens : x # n => family'[x] = family[x]
    BY <2>1, <2>3 DEF SessionInv, Typed
  <2>5. Typed'
    <3>1. /\ family' \in [Tokens -> Revs] /\ kept' \subseteq Tokens
          /\ signing' \in [Tabs -> Signings]
      BY <2>1, <2>3, LaterFamily DEF SessionInv, Typed
    <3> QED
      BY <1>2, <2>1, <2>2, <3>1 DEF SessionInv, Typed, Busy
  <2>6. RecordFits'
    <3>1. 0 < record.rev + 1 /\ record.rev + 1 <= record.rev + 1 /\ record.rev + 1 \notin ended
          /\ ended \subseteq 0..(record.rev + 1)
      BY LaterFamily
    <3> QED
      BY <1>2, <2>1, <2>2, <2>4, <3>1 DEF RecordFits
  <2>7. TokensFit'
    <3>1. \A x \in Tokens : family'[x] <= record.rev + 1
      BY <2>4, LaterFamily
    <3> QED
      BY <1>1, <1>2, <2>1, <2>2, <3>1 DEF SessionInv, TokensFit
  <2>8. ASSUME NEW k \in Lifetimes PROVE StudioFits(k)'
    <3>1. rotation[k].next # n /\ \A x \in kept \cup {rotation[k].next} : x \in Tokens => family'[x] = family[x]
      BY <1>1, <2>4
    <3>2. rotation[k].pc = "sent" => family'[record'.tok] # family[rotation[k].prev]
      BY <2>2, <2>4, LaterFamily, StudioOf DEF RotationFits, SessionInv, Typed
    <3> QED
      BY <1>2, <2>1, <2>2, <3>1, <3>2, StudioStays
  <2>9. ASSUME NEW u \in Tabs PROVE SigningFits(signing[u])'
    <3>1. CASE u = t
      BY <2>1, <2>3, <2>4, <3>1 DEF SigningFits
    <3>2. CASE u # t
      <4>1. PICK z \in Signings : z = signing[u] /\ SigningFits(z) /\ z.tok # n
        BY <1>1, <3>2, SigningOf
      <4>2. SigningFits(z)'
        BY <1>2, <2>1, <4>1 DEF SigningFits
      <4> QED
        BY <2>4, <3>2, <4>1, <4>2
    <3> QED
      BY <3>1, <3>2
  <2>10. Apart'
    BY <1>1, <1>2, <2>3, <2>4 DEF SessionInv, Apart
  <2>11. NothingStranded'
    <3>1. (live' \ kept') \ strays' \subseteq (live \ kept) \ strays /\ n \notin (live' \ kept') \ strays'
      BY <1>2, <2>1
    <3>2. \A tok \in Tokens : tok # n /\ (\E u \in Tabs : signing[u].tok = tok)
                                => \E u \in Tabs : signing'[u].tok = tok
      BY <1>1, <2>4
    <3>3. live' \subseteq Tokens
      BY <1>2 DEF SessionInv, Typed
    <3> QED
      BY <1>2, <2>1, <3>1, <3>2, <3>3 DEF SessionInv, NothingStranded
  <2> QED
    BY <1>3, <2>5, <2>6, <2>7, <2>8, <2>9, <2>10, <2>11 DEF SessionInv
<1> QED
  BY <1>4, <1>5

-----------------------------------------------------------------------------
(* Every operation of a tab, of the coordinator and of the server keeps the  *)
(* invariant.                                                                *)
LEMMA SessionInvIsInductive == SessionInv /\ [SessionNext]_sessionVars => SessionInv'
<1> SUFFICES ASSUME SessionInv, [SessionNext]_sessionVars PROVE SessionInv'
  OBVIOUS
<1>1. ASSUME NEW l \in Lifetimes, Mount(l) PROVE SessionInv'
  BY <1>1, MountKeeps
<1>2. ASSUME NEW l \in Lifetimes, NoticeReplaced(l) \/ Expire(l) \/ Reject(l) \/ SignOut(l)
      PROVE  SessionInv'
  BY <1>2, EndingsKeep
<1>3. ASSUME NEW l \in Lifetimes, StudioStep(l) PROVE SessionInv'
  BY <1>3, StartRefreshKeeps, EnterRefreshKeeps, RotateKeeps, RotationEndsKeep, ReceiveKeeps,
     WriteRefreshKeeps, AdoptRefreshKeeps, AskProfileKeeps, WriteBindingKeeps DEF StudioStep
<1>4. ASSUME NEW t \in Tabs, Discard(t) PROVE SessionInv'
  BY <1>4, DiscardKeeps
<1>5. ASSUME NEW t \in Tabs, Close(t) \/ BeginSignIn(t) PROVE SessionInv'
  BY <1>5, LeavingsKeep
<1>6. ASSUME NEW t \in Tabs, Callback(t) \/ Exchanged(t) \/ EnterStudio(t) PROVE SessionInv'
  BY <1>6, SignInsKeep
<1>7. ASSUME NEW t \in Tabs, Exchange(t) PROVE SessionInv'
  BY <1>7, ExchangeKeeps
<1>8. ASSUME NEW t \in Tabs, WriteSignIn(t) PROVE SessionInv'
  BY <1>8, WriteSignInKeeps
<1>9. ASSUME NEW a \in Accounts, DiscardOwner(a) PROVE SessionInv'
  BY <1>9, DiscardOwnerKeeps
<1>10. ASSUME NEW tok \in Tokens, Revoke(tok) PROVE SessionInv'
  BY <1>10, RevokeKeeps
<1>11. CASE UNCHANGED sessionVars
  <2>1. /\ UNCHANGED <<record, live, account, family, kept, holder, control, rotation>>
        /\ UNCHANGED <<binding, signing, dropping, revoking, ended, asked, strays>>
    BY <1>11 DEF sessionVars
  <2>2. Typed' /\ RecordFits' /\ TokensFit' /\ FencesFit' /\ Apart' /\ NothingStranded'
    BY <2>1 DEF SessionInv, Typed, RecordFits, TokensFit, FencesFit, Apart, NothingStranded
  <2>3. (\A l \in Lifetimes : StudioFits(l)') /\ \A t \in Tabs : SigningFits(signing[t])'
    BY <2>1 DEF SessionInv, StudioFits, ControlFits, RotationFits, BindingFits, SigningFits
  <2> QED
    BY <2>2, <2>3 DEF SessionInv
<1> QED
  BY <1>1, <1>2, <1>3, <1>4, <1>5, <1>6, <1>7, <1>8, <1>9, <1>10, <1>11 DEF SessionNext

(* Everything the session code relies on holds in every state of a browser.  *)
THEOREM SessionInvariant == SessionSpec => []SessionInv
  BY SessionInitFits, SessionInvIsInductive, PTL DEF SessionSpec

(* The state of a browser has its types, and no two studios rotate at once   *)
(* (refreshExclusive holds the second lock).                                 *)
THEOREM SessionTypeCorrect == SessionSpec => []SessionTypeOK
<1>1. SessionInv => SessionTypeOK
  <2> SUFFICES ASSUME SessionInv PROVE SessionTypeOK
    OBVIOUS
  <2>1. /\ record \in Records /\ account \in [Tokens -> Owners] /\ family \in [Tokens -> Revs]
        /\ control \in [Lifetimes -> Controls] /\ rotation \in [Lifetimes -> Rotations]
        /\ binding \in [Lifetimes -> Bindings] /\ signing \in [Tabs -> Signings]
        /\ live \subseteq Tokens /\ revoking \subseteq Tokens /\ strays \subseteq Tokens /\ kept \subseteq Tokens
    BY DEF SessionInv, Typed
  <2>2. holder \in [Tabs -> Holders] /\ dropping \in [Tabs -> SUBSET Drops] /\ asked \subseteq Revs
    BY DEF SessionInv, FencesFit
  <2>3. ended \subseteq Revs
    <3>1. record.rev \in 0..MaxRev /\ MaxRev \in Nat /\ ended \subseteq 0..record.rev
      BY <2>1, SessionAssumption DEF Records, Revs, SessionInv, RecordFits
    <3>2. \A x \in 0..record.rev : x \in 0..MaxRev
      BY <3>1
    <3> QED
      BY <3>1, <3>2 DEF Revs
  <2>4. ASSUME NEW l \in Lifetimes, NEW k \in Lifetimes,
               {rotation[l].pc, rotation[k].pc} \cap {"idle", "queued"} = {}
        PROVE  l = k
    BY <2>4 DEF SessionInv, Typed, Busy
  <2> QED
    BY <2>1, <2>2, <2>3, <2>4 DEF SessionTypeOK, Records, Controls, Rotations, Bindings, Signings,
       Holders, Drops, MaybeToken, Owners, Revs
<1> QED
  BY <1>1, SessionInvariant, PTL

(* The record of a browser is never of a session that was discarded, and the *)
(* account it names, like the one of every studio, is the one its token      *)
(* signs in, whatever logout, renewal and profile answers crossed.           *)
THEOREM RecordStaysTrue == SessionSpec => []RecordIsTrue
<1>1. SessionInv => RecordIsTrue
  <2> SUFFICES ASSUME SessionInv PROVE RecordIsTrue
    OBVIOUS
  <2>1. EndedStaysEnded
    BY DEF SessionInv, RecordFits, EndedStaysEnded
  <2>2. OwnerIsTheTokens
    BY DEF SessionInv, RecordFits, StudioFits, ControlFits, Alive, OwnerIsTheTokens
  <2> QED
    BY <2>1, <2>2 DEF RecordIsTrue
<1> QED
  BY <1>1, SessionInvariant, PTL

(* No tab asks the server to rotate a token that another tab has rotated     *)
(* while the replacement is stored and accepted: the refusal would end it.   *)
THEOREM TokenRotatedOnce == SessionSpec => []RotatedOnce
<1>1. SessionInv => RotatedOnce
  <2> SUFFICES ASSUME SessionInv, NEW l \in Lifetimes, rotation[l].pc = "sent", rotation[l].prev \notin live,
                      record.tok \in live, family[record.tok] = family[rotation[l].prev]
               PROVE  FALSE
    BY DEF RotatedOnce
  <2>1. record.tok = rotation[l].prev \/ record.tok = None
    BY StudioOf DEF RotationFits
  <2> QED
    BY <2>1, StudioOf DEF SessionInv, Typed
<1> QED
  BY <1>1, SessionInvariant, PTL

(* A credential that was minted and never stored is on its way to be stored  *)
(* or revoked, unless the network lost its answer: no renewal or sign-in     *)
(* that was overtaken drops it while the server still accepts it.            *)
THEOREM NothingLeftStranded == SessionSpec => []NothingStranded
<1>1. SessionInv => NothingStranded
  BY DEF SessionInv
<1> QED
  BY <1>1, SessionInvariant, PTL

(* A write that only renews or labels the session leaves its family.         *)
LEMMA FamilyMoves ==
  ASSUME SessionInv, SessionNext, record'.fam # record.fam
  PROVE  \/ \E t \in Tabs : Discard(t) \/ WriteSignIn(t)
         \/ \E a \in Accounts : DiscardOwner(a)
<1>1. record.fam # 0
  BY DEF SessionInv, RecordFits
<1>2. ASSUME NEW l \in Lifetimes, WriteRefresh(l) \/ WriteBinding(l) PROVE FALSE
  BY <1>1, <1>2 DEF WriteRefresh, WriteBinding, Written
<1>3. ASSUME NEW l \in Lifetimes,
             Mount(l) \/ NoticeReplaced(l) \/ Expire(l) \/ Reject(l) \/ SignOut(l) \/ StudioStep(l)
      PROVE  FALSE
  BY <1>2, <1>3 DEF Mount, NoticeReplaced, Expire, Reject, SignOut, StudioStep, StartRefresh,
     EnterRefresh, Rotate, RotationRefused, RotationLost, Receive, AdoptRefresh, ReadProfile, BindOwner
<1>4. ASSUME NEW t \in Tabs,
             Close(t) \/ BeginSignIn(t) \/ Callback(t) \/ Exchange(t) \/ Exchanged(t) \/ EnterStudio(t)
      PROVE  FALSE
  BY <1>4 DEF Close, BeginSignIn, Callback, Exchange, Exchanged, EnterStudio
<1>5. ASSUME NEW tok \in Tokens, Revoke(tok) PROVE FALSE
  BY <1>5 DEF Revoke
<1> QED
  BY <1>3, <1>4, <1>5 DEF SessionNext

(* A session leaves the record only when somebody ended that very session,   *)
(* or by a sign-in that began while it was there.                            *)
THEOREM ReplacementIsSpared == SessionSpec => ReplacementSurvives
<1>1. ASSUME SessionInv, [SessionNext]_sessionVars, record'.fam # record.fam, record.tok # None
      PROVE  \/ record.fam \in asked'
             \/ \E t \in Tabs : signing[t].pc = "writing" /\ signing[t].rev = record.rev
  <2>1. \/ \E t \in Tabs : Discard(t) \/ WriteSignIn(t)
        \/ \E a \in Accounts : DiscardOwner(a)
    BY <1>1, FamilyMoves DEF sessionVars
  <2>2. ASSUME NEW t \in Tabs, Discard(t) PROVE record.fam \in asked'
    BY <1>1, <2>2 DEF Discard, SessionInv, FencesFit
  <2>3. ASSUME NEW t \in Tabs, WriteSignIn(t)
        PROVE  signing[t].pc = "writing" /\ signing[t].rev = record.rev
    BY <1>1, <2>3 DEF WriteSignIn, TicketCurrent
  <2>4. ASSUME NEW a \in Accounts, DiscardOwner(a) PROVE record.fam \in asked'
    BY <2>4 DEF DiscardOwner
  <2> QED
    BY <2>1, <2>2, <2>3, <2>4
<1> QED
  BY <1>1, SessionInvariant, PTL DEF SessionSpec, ReplacementSurvives
=============================================================================
