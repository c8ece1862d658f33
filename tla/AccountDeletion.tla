--------------------------- MODULE AccountDeletion ---------------------------
(* The deletion of one account: every client that may carry it out, the      *)
(* durable intent, write fence and data of each device, the request that may *)
(* be lost or arrive late, and the server's external journal, which commits  *)
(* the deletion to what an interrupted transaction did not do.               *)
EXTENDS Naturals, FiniteSets

CONSTANTS
    Clients,     \* open tabs or running apps
    Devices, DeviceOf,
    Native,      \* the devices whose notifications must be captured first
    NoAccount,
    MaxSecret    \* bound: the receipt secrets that are ever drawn

ASSUME DeletionAssumption ==
    /\ DeviceOf \in [Clients -> Devices] /\ Native \subseteq Devices
    /\ \A c, e \in Clients : DeviceOf[c] = DeviceOf[e] /\ DeviceOf[c] \in Native => c = e
    /\ MaxSecret \in Nat /\ NoAccount \notin {"owner", "other"}

VARIABLES
    intent,      \* per device, the journal's intent or NoIntent
    captured,    \* per device, whether the surface snapshot is saved
    fenced,      \* per device, the account's write fence
    data,        \* per device, whether it stores anything of the account
    session,     \* per device, whose credential it stores
    task,        \* per client, its run of AccountDeletion
    open,        \* per client, whether the account's pages may still write
    request,     \* per client, its DELETE request
    secrets,     \* how many secrets were drawn
    admitted,    \* the secret of the record in the external journal, 0 without one
    removed,     \* the accounts the server removed
    expired,     \* whether the receipt is past its thirty days
    finished     \* per device, the secrets it reported as completed

deletionVars == <<intent, captured, fenced, data, session, task, open, request,
                  secrets, admitted, removed, expired, finished>>

Owner == "owner"
Other == "other"
Secret == 0..MaxSecret
NoIntent == [secret |-> 0, phase |-> "none"]
Resting == [pc |-> "idle", kind |-> "none", secret |-> 0, phase |-> "none"]
NoRequest == [st |-> "none", secret |-> 0, who |-> NoAccount]

DeletionTypeOK ==
    /\ intent \in [Devices -> [secret : Secret, phase : {"none", "pending", "confirmed"}]]
    /\ captured \in [Devices -> BOOLEAN] /\ fenced \in [Devices -> BOOLEAN]
    /\ data \in [Devices -> BOOLEAN] /\ open \in [Clients -> BOOLEAN]
    /\ session \in [Devices -> {Owner, Other, NoAccount}]
    /\ task \in [Clients -> [pc : {"idle", "ended", "read", "capture", "save", "fence", "receipt", "remove",
                                   "sent", "again", "advance", "purge", "clear", "forget"},
                             kind : {"none", "confirm", "resume", "prepare"},
                             secret : Secret, phase : {"none", "pending", "confirmed"}]]
    /\ request \in [Clients -> [st : {"none", "sent", "known", "accepted", "done", "refused"},
                                secret : Secret, who : {Owner, Other, NoAccount}]]
    /\ secrets \in Secret /\ admitted \in Secret /\ removed \subseteq {Owner, Other}
    /\ expired \in BOOLEAN /\ finished \in [Devices -> SUBSET Secret]
    /\ \A d \in Devices : intent[d] # NoIntent => fenced[d]

DeletionInit ==
    /\ intent = [d \in Devices |-> NoIntent]
    /\ captured = [d \in Devices |-> FALSE]
    /\ fenced = [d \in Devices |-> FALSE]
    /\ data = [d \in Devices |-> TRUE]
    /\ session = [d \in Devices |-> Owner]
    /\ task = [c \in Clients |-> Resting]
    /\ open = [c \in Clients |-> TRUE]
    /\ request = [c \in Clients |-> NoRequest]
    /\ secrets = 0 /\ admitted = 0 /\ removed = {} /\ expired = FALSE
    /\ finished = [d \in Devices |-> {}]

-----------------------------------------------------------------------------
server == <<admitted, removed, expired>>
stored == <<intent, captured, fenced, data, session, finished>>

At(c, pc) == task[c].pc = pc
AtRest(c) == task[c].pc \in {"idle", "ended"}
Goto(c, pc) == task' = [task EXCEPT ![c].pc = pc]
Fail(c) == task' = [task EXCEPT ![c] = Resting]
GoWith(c, pc, i) ==
    task' = [task EXCEPT ![c] = [pc |-> pc, kind |-> @.kind, secret |-> i.secret, phase |-> i.phase]]

(* An answer nobody waits for is dropped.                                    *)
Unheard(c) ==
    request' = [request EXCEPT ![c] = IF @.st \in {"done", "refused"} THEN NoRequest ELSE @]
Answer(c, st) ==
    request' = [request EXCEPT ![c] = IF At(c, "sent") THEN [@ EXCEPT !.st = st] ELSE NoRequest]

(* The run of a client; a second one of the same kind joins it (single).     *)
Begin(c, kind) ==
    /\ AtRest(c)
    /\ kind = "confirm" => session[DeviceOf[c]] = Owner
    /\ task' = [task EXCEPT ![c] = [Resting EXCEPT !.pc = "read", !.kind = kind]]
    /\ UNCHANGED <<stored, server, open, request, secrets>>

ReadIntent(c) ==
    LET i == intent[DeviceOf[c]] IN
    /\ At(c, "read")
    /\ CASE i # NoIntent -> GoWith(c, "fence", i) /\ UNCHANGED secrets
         [] i = NoIntent /\ task[c].kind = "confirm" ->
               /\ secrets < MaxSecret
               /\ secrets' = secrets + 1
               /\ GoWith(c, IF DeviceOf[c] \in Native THEN "capture" ELSE "save",
                         [secret |-> secrets + 1, phase |-> "pending"])
         [] OTHER -> Fail(c) /\ UNCHANGED secrets
    /\ UNCHANGED <<stored, server, open, request>>

(* deletionSurfaceJournal: the identifiers are kept before the intent is.    *)
CaptureLater(c) ==
    /\ At(c, "capture")
    /\ Goto(c, "save")
    /\ UNCHANGED <<stored, server, open, request, secrets>>
Capture(c) ==
    LET d == DeviceOf[c] IN
    /\ At(c, "capture")
    /\ IF captured[d] \/ session[d] = Owner
       THEN captured' = [captured EXCEPT ![d] = TRUE] /\ Goto(c, "save")
       ELSE Fail(c) /\ UNCHANGED captured
    /\ UNCHANGED <<intent, fenced, data, session, finished, server, open, request, secrets>>

(* What save leaves in the journal: the first secret, which only advances.   *)
KeptNewest(d, i) == i
Kept(d, i) ==
    IF intent[d] # NoIntent /\ (intent[d].secret # i.secret \/ intent[d].phase = "confirmed")
    THEN intent[d] ELSE i

SaveUnfenced(c) ==
    LET d == DeviceOf[c]
        i == Kept(d, [secret |-> task[c].secret, phase |-> "pending"]) IN
    /\ At(c, "save")
    /\ intent' = [intent EXCEPT ![d] = i]
    /\ GoWith(c, "fence", i)
    /\ UNCHANGED <<captured, fenced, data, session, finished, server, open, request, secrets>>
SaveIntent(c) ==
    LET d == DeviceOf[c]
        i == Kept(d, [secret |-> task[c].secret, phase |-> "pending"]) IN
    /\ At(c, "save")
    /\ intent' = [intent EXCEPT ![d] = i]
    /\ fenced' = [fenced EXCEPT ![d] = TRUE]
    /\ GoWith(c, "fence", i)
    /\ UNCHANGED <<captured, data, session, finished, server, open, request, secrets>>

(* The fence also stops the pages of this client.                            *)
FenceAndProve(c) ==
    /\ At(c, "fence")
    /\ fenced' = [fenced EXCEPT ![DeviceOf[c]] = TRUE]
    /\ open' = [open EXCEPT ![c] = FALSE]
    /\ Goto(c, IF task[c].phase = "confirmed" THEN "purge" ELSE "receipt")
    /\ UNCHANGED <<intent, captured, data, session, finished, server, request, secrets>>
Fence(c) ==
    /\ At(c, "fence")
    /\ fenced' = [fenced EXCEPT ![DeviceOf[c]] = TRUE]
    /\ open' = [open EXCEPT ![c] = FALSE]
    /\ Goto(c, IF task[c].kind = "prepare" \/ task[c].phase = "confirmed" THEN "purge" ELSE "receipt")
    /\ UNCHANGED <<intent, captured, data, session, finished, server, request, secrets>>

(* ConfirmAccountDeletion: only the very secret, and not for ever.           *)
HasAnyReceipt(c) == Owner \in removed /\ ~expired
HasReceipt(c) == Owner \in removed /\ ~expired /\ admitted = task[c].secret

AskReceipt(c) ==
    /\ At(c, "receipt")
    /\ CASE HasReceipt(c) -> Goto(c, "advance")
         [] ~HasReceipt(c) /\ session[DeviceOf[c]] = Owner -> Goto(c, "remove")
         [] OTHER -> Fail(c)
    /\ UNCHANGED <<stored, server, open, request, secrets>>

(* The request carries the credential of its moment.                         *)
SendRemove(c) ==
    /\ At(c, "remove")
    /\ request' = [request EXCEPT ![c] = [st |-> "sent", secret |-> task[c].secret,
                                          who |-> session[DeviceOf[c]]]]
    /\ Goto(c, "sent")
    /\ UNCHANGED <<stored, server, open, secrets>>

HearRemoved(c) ==
    /\ At(c, "sent") /\ request[c].st = "done"
    /\ Goto(c, "advance") /\ Unheard(c)
    /\ UNCHANGED <<stored, server, open, secrets>>

(* Refused, timed out or lost: the receipt tells whether it was done.        *)
RemoveFails(c) ==
    /\ At(c, "sent")
    /\ Goto(c, "again") /\ Unheard(c)
    /\ UNCHANGED <<stored, server, open, secrets>>

AskAgain(c) ==
    /\ At(c, "again")
    /\ IF HasReceipt(c) THEN Goto(c, "advance") ELSE Fail(c)
    /\ UNCHANGED <<stored, server, open, request, secrets>>

(* The confirmation counts when the journal holds it under this secret.      *)
Advance(c) ==
    LET d == DeviceOf[c]
        i == Kept(d, [secret |-> task[c].secret, phase |-> "confirmed"]) IN
    /\ At(c, "advance")
    /\ IF d \in Native /\ ~captured[d] /\ session[d] # Owner
       THEN Fail(c) /\ UNCHANGED <<intent, fenced, captured>>
       ELSE /\ intent' = [intent EXCEPT ![d] = i]
            /\ fenced' = [fenced EXCEPT ![d] = TRUE]
            /\ captured' = [captured EXCEPT ![d] = d \in Native]
            /\ IF i.secret = task[c].secret /\ i.phase = "confirmed"
               THEN Goto(c, "purge") ELSE Fail(c)
    /\ UNCHANGED <<data, session, finished, server, open, request, secrets>>

(* Without its snapshot a native device removes nothing.                     *)
Purge(c) ==
    LET d == DeviceOf[c] IN
    /\ At(c, "purge")
    /\ IF d \in Native /\ ~captured[d]
       THEN Fail(c) /\ UNCHANGED <<data, fenced>>
       ELSE /\ data' = [data EXCEPT ![d] = FALSE]
            /\ fenced' = [fenced EXCEPT ![d] = TRUE]
            /\ IF task[c].kind = "prepare" THEN Fail(c) ELSE Goto(c, "clear")
    /\ UNCHANGED <<intent, captured, session, finished, server, open, request, secrets>>

ClearSession(c) ==
    LET d == DeviceOf[c] IN
    /\ At(c, "clear")
    /\ session' = [session EXCEPT ![d] = IF @ = Owner THEN NoAccount ELSE @]
    /\ Goto(c, "forget")
    /\ UNCHANGED <<intent, captured, fenced, data, finished, server, open, request, secrets>>

Forget(c) ==
    LET d == DeviceOf[c] IN
    /\ At(c, "forget")
    /\ intent' = [intent EXCEPT ![d] = NoIntent]
    /\ captured' = [captured EXCEPT ![d] = FALSE]
    /\ fenced' = [fenced EXCEPT ![d] = fenced[d] \/ d \notin Native]
    /\ finished' = [finished EXCEPT ![d] = @ \cup {task[c].secret}]
    /\ Fail(c)
    /\ UNCHANGED <<data, session, server, open, request, secrets>>

(* The app is killed, or a storage or network call throws.                   *)
Quit(c) ==
    /\ ~AtRest(c)
    /\ task' = [task EXCEPT ![c] = [Resting EXCEPT !.pc = "ended"]]
    /\ Unheard(c)
    /\ open' = [open EXCEPT ![c] = FALSE]
    /\ UNCHANGED <<stored, server, secrets>>

-----------------------------------------------------------------------------
(* A page opens over a session; it shows and keeps the account's data until  *)
(* it is stopped, even when another tab replaced the session.                *)
OpenPages(c) ==
    /\ AtRest(c) /\ ~open[c]
    /\ session[DeviceOf[c]] = Owner
    /\ open' = [open EXCEPT ![c] = TRUE]
    /\ UNCHANGED <<stored, server, task, request, secrets>>

(* A commit or a refresh of Home: the transaction reads the fence itself.    *)
MayStoreStill(d) == TRUE
MayStore(d) == ~fenced[d]

Store(c) ==
    LET d == DeviceOf[c] IN
    /\ open[c] /\ MayStore(d)
    /\ data' = [data EXCEPT ![d] = TRUE]
    /\ UNCHANGED <<intent, captured, fenced, session, finished, server, task, open, request, secrets>>

(* Sign-out, or a refused credential; then anybody with an account signs in. *)
ChangeSession(d) ==
    /\ \/ session[d] # NoAccount /\ session' = [session EXCEPT ![d] = NoAccount]
       \/ /\ session[d] = NoAccount
          /\ \E a \in {Owner, Other} \ removed :
                /\ a = Owner => admitted = 0
                /\ session' = [session EXCEPT ![d] = a]
    /\ UNCHANGED <<intent, captured, fenced, data, finished, server, task, open, request, secrets>>

-----------------------------------------------------------------------------
(* DeleteAccount: the credential must be valid, and of the reviewed account. *)
ReviewedByAnyone(c) == request[c].who # NoAccount
Reviewed(c) == request[c].who = Owner

Authenticate(c) ==
    /\ request[c].st = "sent"
    /\ IF Reviewed(c) /\ Owner \notin removed /\ admitted = 0
       THEN request' = [request EXCEPT ![c].st = "known"]
       ELSE Answer(c, "refused")
    /\ UNCHANGED <<stored, server, task, open, secrets>>

(* The external record: a competing secret never replaces the accepted one.  *)
Admissible(c) == admitted \in {0, request[c].secret}

Admit(c) ==
    /\ request[c].st = "known"
    /\ IF Admissible(c)
       THEN /\ admitted' = request[c].secret
            /\ request' = [request EXCEPT ![c].st = "accepted"]
       ELSE Answer(c, "refused") /\ UNCHANGED admitted
    /\ UNCHANGED <<stored, task, open, secrets, removed, expired>>

(* The transaction may fail after the record was admitted, or find the       *)
(* account gone.                                                             *)
Commit(c) ==
    /\ request[c].st = "accepted"
    /\ \/ /\ Owner \notin removed
          /\ removed' = removed \cup {request[c].who}
          /\ Answer(c, "done")
       \/ Answer(c, "refused") /\ UNCHANGED removed
    /\ UNCHANGED <<stored, task, open, secrets, admitted, expired>>

(* The recovery pass of the server.                                          *)
Reapply ==
    /\ admitted # 0 /\ Owner \notin removed
    /\ removed' = removed \cup {Owner}
    /\ UNCHANGED <<stored, task, open, request, secrets, admitted, expired>>

ExpireReceipt ==
    /\ Owner \in removed /\ ~expired
    /\ expired' = TRUE
    /\ UNCHANGED <<stored, task, open, request, secrets, admitted, removed>>

-----------------------------------------------------------------------------
Work(c) ==
    \/ ReadIntent(c) \/ Capture(c) \/ SaveIntent(c) \/ Fence(c) \/ AskReceipt(c)
    \/ SendRemove(c) \/ HearRemoved(c) \/ RemoveFails(c) \/ AskAgain(c) \/ Advance(c)
    \/ Purge(c) \/ ClearSession(c) \/ Forget(c)

DeletionNext ==
    \/ \E c \in Clients :
        \/ \E kind \in {"confirm", "resume", "prepare"} : Begin(c, kind)
        \/ Work(c) \/ Quit(c) \/ OpenPages(c) \/ Store(c)
        \/ Authenticate(c) \/ Admit(c) \/ Commit(c)
    \/ \E d \in Devices : ChangeSession(d)
    \/ Reapply \/ ExpireReceipt

DeletionSpec == DeletionInit /\ [][DeletionNext]_deletionVars
-----------------------------------------------------------------------------
(* The server never holds a deletion whose secret is lost: it is in the      *)
(* journal of the device that sent it, or that device has finished, so the   *)
(* outcome can be proved after every crash (AccountDeletionPorts.journal).   *)
SecretIsKept ==
    admitted # 0 =>
        \E d \in Devices : intent[d].secret = admitted \/ admitted \in finished[d]

(* Completion is recorded and reported only after the server removed the     *)
(* account under this device's own secret, and the journal is forgotten only *)
(* when its session is gone.  Removal follows the reviewed account, not the  *)
(* credential of the moment: whoever signed in meanwhile keeps the account.  *)
CompletionIsProven ==
    /\ Other \notin removed
    /\ \A c \in Clients : At(c, "forget") => session[DeviceOf[c]] # Owner
    /\ \A d \in Devices :
            /\ intent[d].phase = "confirmed" => Owner \in removed /\ admitted = intent[d].secret
            /\ finished[d] # {} => Owner \in removed /\ admitted \in finished[d]

(* A device loses the account's data only while a confirmed wish is in its   *)
(* journal, and no open page, other tab or late answer stores any again.     *)
DataFollowsIntent ==
    [][\A d \in Devices : data'[d] # data[d] => data[d] /\ intent[d] # NoIntent]_deletionVars

(* One start that is not cut off: no crash, and nothing before the recovery. *)
Undisturbed ==
    <>[][\A c \in Clients : ~(Quit(c) \/ Begin(c, "confirm") \/ Begin(c, "resume") \/ OpenPages(c))]_deletionVars

(* A confirmed wish clears the device with the next undisturbed start, even  *)
(* when the receipt is never proven and the credential is gone.              *)
IntentClears ==
    Undisturbed => \A d \in Devices : intent[d] # NoIntent ~> ~data[d]
=============================================================================
