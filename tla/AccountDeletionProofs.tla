------------------------ MODULE AccountDeletionProofs ------------------------
(***************************************************************************)
(* Theorems about AccountDeletion, for any number of clients on any number *)
(* of devices and any number of drawn secrets: the types, that the secret  *)
(* of a recorded deletion is never lost, that completion is proven, and    *)
(* that data goes only with a confirmed wish and does not come back.       *)
(*                                                                         *)
(* The argument is about secrets.  Until the server has a record, every    *)
(* run and every request of a device carries the secret of its journal, so *)
(* whichever request is admitted first, its secret is in a journal; from   *)
(* then on the record never changes, and a journal that holds its secret   *)
(* gives it up only to the list of finished ones.  Whatever runs on the    *)
(* strength of a removal carries the secret of the record.                 *)
(***************************************************************************)
EXTENDS AccountDeletion, TLAPS


-----------------------------------------------------------------------------
(* The types                                                                *)

Intents == [secret : Secret, phase : {"none", "pending", "confirmed"}]
Stages == {"idle", "ended", "read", "capture", "save", "fence", "receipt", "remove",
           "sent", "again", "advance", "purge", "clear", "forget"}
Runs == [pc : Stages, kind : {"none", "confirm", "resume", "prepare"},
         secret : Secret, phase : {"none", "pending", "confirmed"}]
Calls == [st : {"none", "sent", "known", "accepted", "done", "refused"},
          secret : Secret, who : {Owner, Other, NoAccount}]

(* Initially each variable has its type.                                    *)
LEMMA DeletionTypeInit == DeletionInit => DeletionTypeOK
<1> SUFFICES ASSUME DeletionInit PROVE DeletionTypeOK
  OBVIOUS
<1>1. 0 \in Secret
  BY DeletionAssumption DEF Secret
<1>2. intent \in [Devices -> [secret : Secret, phase : {"none", "pending", "confirmed"}]]
  BY <1>1 DEF DeletionInit, NoIntent
<1>3. task \in [Clients -> [pc : Stages,
                            kind : {"none", "confirm", "resume", "prepare"},
                            secret : Secret, phase : {"none", "pending", "confirmed"}]]
  BY <1>1 DEF DeletionInit, Resting, Stages
<1>4. request \in [Clients -> [st : {"none", "sent", "known", "accepted", "done", "refused"},
                                secret : Secret, who : {Owner, Other, NoAccount}]]
  BY <1>1 DEF DeletionInit, NoRequest
<1> QED
  BY <1>1, <1>2, <1>3, <1>4 DEF DeletionInit, DeletionTypeOK, Stages

(* A step keeps the types; that a removal takes only an account of the two  *)
(* needs that an accepted request was made by the reviewed one.             *)
LEMMA DeletionTypeNext ==
    /\ DeletionTypeOK /\ [DeletionNext]_deletionVars
    /\ \A c \in Clients : request[c].st = "accepted" => request[c].who = Owner
    => DeletionTypeOK'
<1> SUFFICES ASSUME DeletionTypeOK, [DeletionNext]_deletionVars,
                    \A c \in Clients : request[c].st = "accepted" => request[c].who = Owner
             PROVE DeletionTypeOK'
  OBVIOUS
<1> USE DeletionAssumption DEF stored, server, Stages
<1>a. /\ intent \in [Devices -> Intents] /\ task \in [Clients -> Runs] /\ request \in [Clients -> Calls]
      /\ DeviceOf \in [Clients -> Devices]
  BY DEF DeletionTypeOK, Intents, Runs, Calls
<1>b. NoIntent \in Intents /\ Resting \in Runs /\ NoRequest \in Calls
  BY DEF Intents, Runs, Calls, NoIntent, Resting, NoRequest, Secret
<1>c. \A c \in Clients : Unheard(c) => request' \in [Clients -> Calls]
  BY <1>a, <1>b DEF Unheard, Calls
<1>d. \A c \in Clients, st \in {"done", "refused"} : Answer(c, st) => request' \in [Clients -> Calls]
  BY <1>a, <1>b DEF Answer, Calls
<1>e. \A c \in Clients : Fail(c) => task' \in [Clients -> Runs]
  BY <1>a, <1>b DEF Fail
<1>f. \A c \in Clients, pc \in Stages : Goto(c, pc) => task' \in [Clients -> Runs]
  BY SMTT(30), <1>a DEF Goto, Runs
<1>g. \A c \in Clients, i \in Intents, pc \in {"capture", "save", "fence"} :
        GoWith(c, pc, i) => task' \in [Clients -> Runs]
  BY <1>a DEF GoWith, Runs, Intents
<1>1. CASE UNCHANGED deletionVars
  BY <1>1 DEF DeletionTypeOK, deletionVars
<1>2. ASSUME NEW c \in Clients, NEW kind \in {"confirm", "resume", "prepare"}, Begin(c, kind)
      PROVE DeletionTypeOK'
  <2>1. [Resting EXCEPT !.pc = "read", !.kind = kind] \in Runs
    BY <1>b DEF Runs
  <2>2. task' \in [Clients -> Runs]
    BY <1>a, <1>2, <2>1 DEF Begin
  <2> QED
    BY <1>2, <2>2 DEF Begin, DeletionTypeOK, Runs
<1>3. ASSUME NEW c \in Clients, ReadIntent(c) PROVE DeletionTypeOK'
  <2>0. intent[DeviceOf[c]] \in Intents
    BY <1>a
  <2> SUFFICES (task' \in [Clients -> Runs] /\ secrets' \in Secret)
    BY <1>3 DEF ReadIntent, DeletionTypeOK, Runs
  <2>a. CASE intent[DeviceOf[c]] # NoIntent
    BY <1>g, <1>3, <2>0, <2>a DEF ReadIntent, DeletionTypeOK
  <2>b. CASE intent[DeviceOf[c]] = NoIntent /\ task[c].kind = "confirm"
    <3>1. secrets + 1 \in Secret
      BY <1>3, <2>b DEF ReadIntent, Secret, DeletionTypeOK
    <3>2. secrets' \in Secret
      BY <1>3, <2>b, <3>1 DEF ReadIntent
    <3>3. [secret |-> secrets + 1, phase |-> "pending"] \in Intents
      BY <3>1 DEF Intents
    <3>4. GoWith(c, IF DeviceOf[c] \in Native THEN "capture" ELSE "save",
                 [secret |-> secrets + 1, phase |-> "pending"])
      BY <1>3, <2>b DEF ReadIntent
    <3> QED
      BY <1>g, <3>2, <3>3, <3>4
  <2>c. CASE intent[DeviceOf[c]] = NoIntent /\ task[c].kind # "confirm"
    BY <1>e, <1>3, <2>c DEF ReadIntent, DeletionTypeOK
  <2> QED
    BY <2>a, <2>b, <2>c
<1>4. ASSUME NEW c \in Clients, Capture(c) PROVE DeletionTypeOK'
  <2>1. task' \in [Clients -> Runs]
    BY <1>a, <1>b, <1>e, <1>f, <1>4 DEF Capture
  <2> QED
    BY <1>4, <2>1 DEF Capture, DeletionTypeOK, Runs
<1>5. ASSUME NEW c \in Clients, SaveIntent(c) PROVE DeletionTypeOK'
  <2> DEFINE saved == [secret |-> task[c].secret, phase |-> "pending"]
             i == Kept(DeviceOf[c], saved)
  <2>1. i \in Intents
    BY <1>a DEF Kept, Intents, Runs
  <2>2. intent' = [intent EXCEPT ![DeviceOf[c]] = i] /\ GoWith(c, "fence", i)
    BY <1>5 DEF SaveIntent
  <2> HIDE DEF i
  <2>5. task' \in [Clients -> Runs] /\ intent' \in [Devices -> Intents]
    BY <1>a, <1>g, <2>1, <2>2
  <2>6. fenced' \in [Devices -> BOOLEAN] /\ \A d \in Devices : intent'[d] # NoIntent => fenced'[d]
    BY <1>a, <1>5, <2>2 DEF SaveIntent, DeletionTypeOK
  <2> QED
    BY <1>5, <2>5, <2>6 DEF SaveIntent, DeletionTypeOK, Runs, Intents
<1>6. ASSUME NEW c \in Clients, Fence(c) PROVE DeletionTypeOK'
  <2>1. task' \in [Clients -> Runs]
    BY <1>a, <1>b, <1>e, <1>f, <1>6 DEF Fence
  <2> QED
    BY <1>6, <2>1 DEF Fence, DeletionTypeOK, Runs
<1>7. ASSUME NEW c \in Clients, AskReceipt(c) PROVE DeletionTypeOK'
  <2>1. task' \in [Clients -> Runs]
    BY <1>a, <1>b, <1>e, <1>f, <1>7 DEF AskReceipt
  <2> QED
    BY <1>7, <2>1 DEF AskReceipt, DeletionTypeOK, Runs
<1>8. ASSUME NEW c \in Clients, SendRemove(c) PROVE DeletionTypeOK'
  <2>1. task' \in [Clients -> Runs] /\ request' \in [Clients -> Calls]
    BY <1>a, <1>f, <1>8 DEF SendRemove, Runs, Calls, DeletionTypeOK
  <2> QED
    BY <1>8, <2>1 DEF SendRemove, DeletionTypeOK, Runs, Calls
<1>9. ASSUME NEW c \in Clients, HearRemoved(c) PROVE DeletionTypeOK'
  <2>1. task' \in [Clients -> Runs] /\ request' \in [Clients -> Calls]
    BY <1>b, <1>c, <1>f, <1>9 DEF HearRemoved
  <2> QED
    BY <1>9, <2>1 DEF HearRemoved, DeletionTypeOK, Runs, Calls
<1>10. ASSUME NEW c \in Clients, RemoveFails(c) PROVE DeletionTypeOK'
  <2>1. task' \in [Clients -> Runs] /\ request' \in [Clients -> Calls]
    BY <1>b, <1>c, <1>f, <1>10 DEF RemoveFails
  <2> QED
    BY <1>10, <2>1 DEF RemoveFails, DeletionTypeOK, Runs, Calls
<1>11. ASSUME NEW c \in Clients, AskAgain(c) PROVE DeletionTypeOK'
  <2>1. task' \in [Clients -> Runs]
    BY <1>a, <1>b, <1>e, <1>f, <1>11 DEF AskAgain
  <2> QED
    BY <1>11, <2>1 DEF AskAgain, DeletionTypeOK, Runs
<1>12. ASSUME NEW c \in Clients, Advance(c) PROVE DeletionTypeOK'
  <2> DEFINE proven == [secret |-> task[c].secret, phase |-> "confirmed"]
             i == Kept(DeviceOf[c], proven)
  <2>1. i \in Intents
    BY <1>a DEF Kept, Intents, Runs
  <2>2. task' \in [Clients -> Runs] /\ intent' \in [Devices -> Intents]
    BY <1>a, <1>e, <1>f, <1>12, <2>1 DEF Advance
  <2> QED
    <3>1. \A d \in Devices : intent'[d] # NoIntent => fenced'[d]
      BY <1>a, <1>12 DEF Advance, DeletionTypeOK
    <3>2. fenced' \in [Devices -> BOOLEAN]
      BY <1>12 DEF Advance, DeletionTypeOK
    <3>3. captured' \in [Devices -> BOOLEAN]
      <4> DEFINE native == DeviceOf[c] \in Native
      <4>1. native \in BOOLEAN
        OBVIOUS
      <4>2. captured' = captured \/ captured' = [captured EXCEPT ![DeviceOf[c]] = native]
        BY <1>12 DEF Advance
      <4> HIDE DEF native
      <4> QED
        BY <4>1, <4>2 DEF DeletionTypeOK
    <3> QED
      BY <1>12, <2>2, <3>1, <3>2, <3>3 DEF Advance, DeletionTypeOK, Runs, Intents
<1>13. ASSUME NEW c \in Clients, Purge(c) PROVE DeletionTypeOK'
  <2>1. task' \in [Clients -> Runs]
    BY <1>a, <1>b, <1>e, <1>f, <1>13 DEF Purge
  <2> QED
    BY ZenonT(60), <1>13, <2>1 DEF Purge, DeletionTypeOK, Runs
<1>14. ASSUME NEW c \in Clients, ClearSession(c) PROVE DeletionTypeOK'
  <2>1. task' \in [Clients -> Runs]
    BY <1>a, <1>b, <1>e, <1>f, <1>14 DEF ClearSession
  <2> QED
    BY <1>14, <2>1 DEF ClearSession, DeletionTypeOK, Runs
<1>15. ASSUME NEW c \in Clients, Forget(c) PROVE DeletionTypeOK'
  <2>1. task' \in [Clients -> Runs] /\ intent' \in [Devices -> Intents]
    BY <1>a, <1>b, <1>e, <1>15 DEF Forget
  <2>2. finished' \in [Devices -> SUBSET Secret]
    BY <1>a, <1>15 DEF Forget, Runs, DeletionTypeOK
  <2> QED
    BY <1>15, <2>1, <2>2 DEF Forget, DeletionTypeOK, Runs, Intents
<1>16. ASSUME NEW c \in Clients, Quit(c) PROVE DeletionTypeOK'
  <2>1. task' \in [Clients -> Runs] /\ request' \in [Clients -> Calls]
    BY <1>a, <1>b, <1>c, <1>16 DEF Quit, Runs
  <2> QED
    BY <1>16, <2>1 DEF Quit, DeletionTypeOK, Runs, Calls
<1>17. ASSUME NEW c \in Clients, OpenPages(c) PROVE DeletionTypeOK'
  BY <1>17 DEF OpenPages, DeletionTypeOK
<1>18. ASSUME NEW c \in Clients, Store(c) PROVE DeletionTypeOK'
  BY <1>18 DEF Store, DeletionTypeOK
<1>19. ASSUME NEW c \in Clients, Authenticate(c) PROVE DeletionTypeOK'
  <2>1. request' \in [Clients -> Calls]
    BY <1>a, <1>d, <1>19 DEF Authenticate, Calls
  <2> QED
    BY <1>19, <2>1 DEF Authenticate, DeletionTypeOK, Calls
<1>20. ASSUME NEW c \in Clients, Admit(c) PROVE DeletionTypeOK'
  <2>1. request' \in [Clients -> Calls] /\ admitted' \in Secret
    <3>1. CASE Admissible(c)
      BY SMTT(30), <1>a, <1>20, <3>1 DEF Admit, Calls
    <3>2. CASE ~Admissible(c)
      BY <1>d, <1>20, <3>2 DEF Admit, DeletionTypeOK
    <3> QED
      BY <3>1, <3>2
  <2> QED
    BY <1>20, <2>1 DEF Admit, DeletionTypeOK, Calls
<1>21. ASSUME NEW c \in Clients, Commit(c) PROVE DeletionTypeOK'
  <2>1. request' \in [Clients -> Calls]
    BY <1>d, <1>21 DEF Commit
  <2>2. removed' \subseteq {Owner, Other}
    BY <1>a, <1>21 DEF Commit, DeletionTypeOK, Calls
  <2> QED
    BY <1>21, <2>1, <2>2 DEF Commit, DeletionTypeOK, Calls
<1>22. ASSUME NEW d \in Devices, ChangeSession(d) PROVE DeletionTypeOK'
  BY <1>22 DEF ChangeSession, DeletionTypeOK
<1>23. CASE Reapply
  BY <1>23 DEF Reapply, DeletionTypeOK
<1>24. CASE ExpireReceipt
  BY <1>24 DEF ExpireReceipt, DeletionTypeOK
<1> QED
  BY <1>1, <1>2, <1>3, <1>4, <1>5, <1>6, <1>7, <1>8, <1>9, <1>10, <1>11, <1>12, <1>13, <1>14, <1>15,
     <1>16, <1>17, <1>18, <1>19, <1>20, <1>21, <1>22, <1>23, <1>24
     DEF DeletionNext, Work

-----------------------------------------------------------------------------
(* What ties the runs, the requests and the record to the journals          *)

(* The runs that work for an intent they read from the journal or saved.   *)
Fresh == {"capture", "save"}
Working == {"fence", "receipt", "remove", "sent", "again", "advance", "purge"}
Over == {"clear", "forget"}

(* The runs that go on only because the account is removed.                *)
Proven(t) ==
    \/ t.pc \in {"advance"} \cup Over
    \/ t.pc = "purge" /\ t.kind # "prepare"
    \/ t.pc = "fence" /\ t.phase = "confirmed"

(* An intent has a secret; a confirmed one has the secret of the record.   *)
IntentFits ==
    \A d \in Devices :
      /\ intent[d] # NoIntent => intent[d].secret # 0
      /\ intent[d].phase = "confirmed" =>
            Owner \in removed /\ admitted = intent[d].secret

(* Until the server has a record, a run works for what is in the journal.  *)
RunFits(t, d) ==
    /\ t.pc \in Fresh \cup Working \cup Over => t.secret # 0
    /\ t.pc \in Working \cup Over => admitted # 0 \/ intent[d].secret = t.secret
    /\ Proven(t) => Owner \in removed /\ admitted = t.secret
    /\ t.pc = "forget" => session[d] # Owner

TaskFits == \A c \in Clients : RunFits(task[c], DeviceOf[c])

(* So does its request, also one whose client has stopped waiting for it.  *)
RequestFits ==
    \A c \in Clients :
      /\ request[c].st # "none" =>
           /\ request[c].secret # 0
           /\ admitted # 0 \/ intent[DeviceOf[c]].secret = request[c].secret
      /\ request[c].st \in {"known", "accepted", "done"} => request[c].who = Owner
      /\ request[c].st \in {"accepted", "done"} => admitted = request[c].secret
      /\ request[c].st = "done" => Owner \in removed
      /\ At(c, "sent") => request[c].secret = task[c].secret

RecordFits ==
    /\ Other \notin removed /\ (Owner \in removed => admitted # 0)
    /\ SecretIsKept
    /\ \A d \in Devices :
         finished[d] # {} => Owner \in removed /\ admitted \in finished[d]

Links == IntentFits /\ TaskFits /\ RequestFits /\ RecordFits

(* The types that the links need.                                           *)
Shapes ==
    /\ DeviceOf \in [Clients -> Devices]
    /\ intent \in [Devices -> Intents]
    /\ task \in [Clients -> Runs]
    /\ request \in [Clients -> Calls]
    /\ session \in [Devices -> {Owner, Other, NoAccount}]
    /\ finished \in [Devices -> SUBSET Secret]
    /\ admitted \in Secret /\ secrets \in Secret

(* The part of the type invariant that the links are about.                 *)
LEMMA TypeFixesShapes == DeletionTypeOK => Shapes
  BY DeletionAssumption DEF DeletionTypeOK, Shapes, Intents, Runs, Stages, Calls


(* Only the run of one client moves on, to a place it may be at.            *)
LEMMA MovingKeepsLinks ==
  ASSUME Shapes, Links, NEW c \in Clients, NEW t \in Runs,
         task' = [task EXCEPT ![c] = t],
         UNCHANGED <<intent, session, request, admitted, removed, finished>>,
         RunFits(t, DeviceOf[c]), t.pc # "sent"
  PROVE  Links'
<1> USE DEF Shapes
<1>1. task'[c] = t /\ \A e \in Clients \ {c} : task'[e] = task[e]
  OBVIOUS
<1>2. IntentFits' /\ RecordFits'
  BY DEF Links, IntentFits, RecordFits, SecretIsKept
<1>3. TaskFits'
  BY <1>1 DEF Links, TaskFits, RunFits, Proven, Working, Over, Fresh
<1>4. RequestFits'
  BY <1>1 DEF Links, RequestFits, At
<1> QED
  BY <1>2, <1>3, <1>4 DEF Links

(* A run that gives up rests, and nothing ties a resting run.               *)
LEMMA FailingKeepsLinks ==
  ASSUME Shapes, Links, NEW c \in Clients, Fail(c),
         UNCHANGED <<intent, session, request, admitted, removed, finished>>
  PROVE  Links'
<1>1. Resting \in Runs
  BY DeletionAssumption DEF Resting, Runs, Stages, Secret
<1>2. RunFits(Resting, DeviceOf[c]) /\ Resting.pc # "sent"
  BY DEF Resting, RunFits, Proven, Working, Over, Fresh
<1> QED
  BY <1>1, <1>2, MovingKeepsLinks DEF Fail

(* A run that goes on to another stage with its secret.                     *)
LEMMA GoingKeepsLinks ==
  ASSUME Shapes, Links, NEW c \in Clients, NEW pc \in Stages \ {"sent"}, Goto(c, pc),
         UNCHANGED <<intent, session, request, admitted, removed, finished>>,
         RunFits([task[c] EXCEPT !.pc = pc], DeviceOf[c])
  PROVE  Links'
<1> DEFINE t == [task[c] EXCEPT !.pc = pc]
<1>1. t \in Runs /\ t.pc # "sent"
  BY DEF Shapes, Runs
<1>2. task' = [task EXCEPT ![c] = t] /\ RunFits(t, DeviceOf[c])
  BY DEF Goto
<1> HIDE DEF t
<1> QED
  BY <1>1, <1>2, MovingKeepsLinks

(* A run begins without a secret.                                           *)
LEMMA BeginKeepsLinks ==
  ASSUME Shapes, Links, NEW c \in Clients, NEW kind \in {"confirm", "resume", "prepare"}, Begin(c, kind)
  PROVE  Links'
<1>1. [Resting EXCEPT !.pc = "read", !.kind = kind] \in Runs
  <2>1. Resting \in Runs
    BY DeletionAssumption DEF Resting, Runs, Stages, Secret
  <2> QED
    BY <2>1 DEF Runs, Stages
<1>2. RunFits([Resting EXCEPT !.pc = "read", !.kind = kind], DeviceOf[c])
  BY DEF Resting, RunFits, Proven, Fresh, Working, Over
<1>3. [Resting EXCEPT !.pc = "read", !.kind = kind].pc # "sent"
  BY DEF Resting
<1> QED
  BY <1>1, <1>2, <1>3, MovingKeepsLinks DEF Begin, stored, server

(* captureSurface: the run goes on with its secret, or gives up.            *)
LEMMA CaptureKeepsLinks ==
  ASSUME Shapes, Links, NEW c \in Clients, Capture(c)
  PROVE  Links'
<1>1. CASE Fail(c)
  BY <1>1, FailingKeepsLinks DEF Capture, server
<1>2. CASE Goto(c, "save")
  <2>0. "save" \in Stages \ {"sent"}
    BY DEF Stages
  <2>1. RunFits([task[c] EXCEPT !.pc = "save"], DeviceOf[c])
    BY DEF Capture, At, Shapes, Runs, Links, TaskFits, RunFits, Proven, Fresh, Working, Over
  <2> QED
    BY <1>2, <2>0, <2>1, GoingKeepsLinks DEF Capture, server
<1> QED
  BY <1>1, <1>2 DEF Capture

(* A run takes the intent of the journal, or draws a secret nobody holds.   *)
LEMMA ReadIntentKeepsLinks ==
  ASSUME Shapes, Links, NEW c \in Clients, ReadIntent(c)
  PROVE  Links'
<1>0. UNCHANGED <<intent, session, request, admitted, removed, finished>>
  BY DEF ReadIntent, stored, server
<1>1. CASE intent[DeviceOf[c]] # NoIntent
  <2> DEFINE t == [pc |-> "fence", kind |-> task[c].kind,
                   secret |-> intent[DeviceOf[c]].secret, phase |-> intent[DeviceOf[c]].phase]
  <2>1. t \in Runs
    BY DEF Runs, Stages, Shapes, Intents
  <2>3. RunFits(t, DeviceOf[c])
    BY <1>1 DEF Shapes, Intents, Links, IntentFits, RunFits, Proven, Fresh, Working, Over
  <2>2. task' = [task EXCEPT ![c] = t] /\ t.pc # "sent"
    BY <1>1 DEF ReadIntent, GoWith
  <2> HIDE DEF t
  <2> QED
    BY <1>0, <2>1, <2>2, <2>3, MovingKeepsLinks
<1>2. CASE intent[DeviceOf[c]] = NoIntent /\ task[c].kind = "confirm"
  <2>1. PICK pc \in {"capture", "save"} :
          GoWith(c, pc, [secret |-> secrets + 1, phase |-> "pending"])
    BY <1>2 DEF ReadIntent
  <2> DEFINE t == [pc |-> pc, kind |-> task[c].kind, secret |-> secrets + 1, phase |-> "pending"]
  <2>2. t \in Runs
    BY <1>2, DeletionAssumption DEF ReadIntent, Runs, Stages, Shapes, Secret
  <2>4. RunFits(t, DeviceOf[c])
    BY DEF Shapes, Secret, RunFits, Proven, Fresh, Working, Over
  <2>3. task' = [task EXCEPT ![c] = t] /\ t.pc # "sent"
    BY <2>1 DEF GoWith
  <2> HIDE DEF t
  <2> QED
    BY <1>0, <2>2, <2>3, <2>4, MovingKeepsLinks
<1>3. CASE Fail(c)
  BY <1>0, <1>3, FailingKeepsLinks
<1> QED
  BY <1>1, <1>2, <1>3 DEF ReadIntent

(* A receipt proves the removal under the secret of the run.                *)
LEMMA AskReceiptKeepsLinks ==
  ASSUME Shapes, Links, NEW c \in Clients, AskReceipt(c)
  PROVE  Links'
<1>0. UNCHANGED <<intent, session, request, admitted, removed, finished>>
  BY DEF AskReceipt, stored, server
<1>1. CASE Fail(c)
  BY <1>0, <1>1, FailingKeepsLinks
<1>2. CASE HasReceipt(c) /\ Goto(c, "advance")
  <2>0. "advance" \in Stages \ {"sent"}
    BY DEF Stages
  <2>1. RunFits([task[c] EXCEPT !.pc = "advance"], DeviceOf[c])
    BY <1>2
       DEF AskReceipt, HasReceipt, At, Shapes, Runs, Links, TaskFits, RunFits, Proven, Fresh,
           Working, Over
  <2> QED
    BY <1>0, <1>2, <2>0, <2>1, GoingKeepsLinks
<1>3. CASE Goto(c, "remove")
  <2>0. "remove" \in Stages \ {"sent"}
    BY DEF Stages
  <2>1. RunFits([task[c] EXCEPT !.pc = "remove"], DeviceOf[c])
    BY DEF AskReceipt, At, Shapes, Runs, Links, TaskFits, RunFits, Proven, Fresh, Working, Over
  <2> QED
    BY <1>0, <1>3, <2>0, <2>1, GoingKeepsLinks
<1> QED
  BY <1>1, <1>2, <1>3 DEF AskReceipt

(* So does the receipt asked for after a failed request.                    *)
LEMMA AskAgainKeepsLinks ==
  ASSUME Shapes, Links, NEW c \in Clients, AskAgain(c)
  PROVE  Links'
<1>0. UNCHANGED <<intent, session, request, admitted, removed, finished>>
  BY DEF AskAgain, stored, server
<1>1. CASE Fail(c)
  BY <1>0, <1>1, FailingKeepsLinks
<1>2. CASE HasReceipt(c) /\ Goto(c, "advance")
  <2>0. "advance" \in Stages \ {"sent"}
    BY DEF Stages
  <2>1. RunFits([task[c] EXCEPT !.pc = "advance"], DeviceOf[c])
    BY <1>2
       DEF AskAgain, HasReceipt, At, Shapes, Runs, Links, TaskFits, RunFits, Proven, Fresh,
           Working, Over
  <2> QED
    BY <1>0, <1>2, <2>0, <2>1, GoingKeepsLinks
<1> QED
  BY <1>1, <1>2 DEF AskAgain

(* A purge ends a prepared run, and leads a proven one to its clearing.     *)
LEMMA PurgeKeepsLinks ==
  ASSUME Shapes, Links, NEW c \in Clients, Purge(c)
  PROVE  Links'
<1>0. UNCHANGED <<intent, session, request, admitted, removed, finished>>
  BY DEF Purge, server
<1>1. CASE Fail(c)
  BY <1>0, <1>1, FailingKeepsLinks
<1>2. CASE task[c].kind # "prepare" /\ Goto(c, "clear")
  <2>0. "clear" \in Stages \ {"sent"}
    BY DEF Stages
  <2>1. RunFits([task[c] EXCEPT !.pc = "clear"], DeviceOf[c])
    BY <1>2 DEF Purge, At, Shapes, Runs, Links, TaskFits, RunFits, Proven, Fresh, Working, Over
  <2> QED
    BY <1>0, <1>2, <2>0, <2>1, GoingKeepsLinks
<1> QED
  BY <1>1, <1>2 DEF Purge

(* Only a confirmed or a prepared run goes from the fence to the purge.     *)
LEMMA FenceKeepsLinks ==
  ASSUME Shapes, Links, NEW c \in Clients, Fence(c)
  PROVE  Links'
<1>0. UNCHANGED <<intent, session, request, admitted, removed, finished>>
  BY DEF Fence, server
<1>1. PICK pc \in {"purge", "receipt"} :
        /\ Goto(c, pc)
        /\ pc = "purge" => task[c].kind = "prepare" \/ task[c].phase = "confirmed"
  BY DEF Fence
<1>2. pc \in Stages \ {"sent"}
  BY DEF Stages
<1>3. RunFits([task[c] EXCEPT !.pc = pc], DeviceOf[c])
  BY <1>1 DEF Fence, At, Shapes, Runs, Links, TaskFits, RunFits, Proven, Fresh, Working, Over
<1> QED
  BY <1>0, <1>1, <1>2, <1>3, GoingKeepsLinks

(* The run works on with what save left in the journal: the first secret.   *)
LEMMA SaveIntentKeepsLinks ==
  ASSUME Shapes, Links, NEW c \in Clients, SaveIntent(c)
  PROVE  Links'
<1> USE DeletionAssumption DEF Shapes, Secret, Links, Intents, Runs, Calls, SaveIntent, Kept, GoWith, NoIntent, server
<1>1. IntentFits'
  BY DEF IntentFits, TaskFits, RunFits, RequestFits, Proven, Fresh, Working, Over, At
<1>2. TaskFits'
  BY DEF IntentFits, TaskFits, RunFits, RequestFits, Proven, Fresh, Working, Over, At
<1>3. RequestFits'
  BY DEF IntentFits, TaskFits, RunFits, RequestFits, Proven, Fresh, Working, Over, At
<1>4. RecordFits'
  BY DEF IntentFits, TaskFits, RunFits, RequestFits, Proven, Fresh, Working, Over, At, RecordFits,
         SecretIsKept
<1> QED
  BY <1>1, <1>2, <1>3, <1>4

(* A request carries the secret that its run took from the journal.         *)
LEMMA SendRemoveKeepsLinks ==
  ASSUME Shapes, Links, NEW c \in Clients, SendRemove(c)
  PROVE  Links'
<1> USE DeletionAssumption DEF Shapes, Secret, Links, Intents, Runs, Calls, SendRemove, stored, server, Goto
<1>1. IntentFits'
  BY DEF IntentFits, TaskFits, RunFits, RequestFits, Proven, Fresh, Working, Over, At
<1>2. TaskFits'
  BY DEF IntentFits, TaskFits, RunFits, RequestFits, Proven, Fresh, Working, Over, At
<1>3. RequestFits'
  BY DEF IntentFits, TaskFits, RunFits, RequestFits, Proven, Fresh, Working, Over, At
<1>4. RecordFits'
  BY DEF IntentFits, TaskFits, RunFits, RequestFits, Proven, Fresh, Working, Over, At, RecordFits,
         SecretIsKept
<1> QED
  BY <1>1, <1>2, <1>3, <1>4

(* The answer of a removal is of this very secret.                          *)
LEMMA HearRemovedKeepsLinks ==
  ASSUME Shapes, Links, NEW c \in Clients, HearRemoved(c)
  PROVE  Links'
<1> USE DeletionAssumption DEF Shapes, Secret, Links, Intents, Runs, Calls, HearRemoved, stored, server, Goto, Unheard, NoRequest
<1>1. IntentFits'
  BY DEF IntentFits, TaskFits, RunFits, RequestFits, Proven, Fresh, Working, Over, At
<1>2. TaskFits'
  BY DEF IntentFits, TaskFits, RunFits, RequestFits, Proven, Fresh, Working, Over, At
<1>3. RequestFits'
  BY DEF IntentFits, TaskFits, RunFits, RequestFits, Proven, Fresh, Working, Over, At
<1>4. RecordFits'
  BY DEF IntentFits, TaskFits, RunFits, RequestFits, Proven, Fresh, Working, Over, At, RecordFits,
         SecretIsKept
<1> QED
  BY <1>1, <1>2, <1>3, <1>4

(* A run that hears nothing keeps its secret and asks for the receipt.      *)
LEMMA RemoveFailsKeepsLinks ==
  ASSUME Shapes, Links, NEW c \in Clients, RemoveFails(c)
  PROVE  Links'
<1> USE DeletionAssumption DEF Shapes, Secret, Links, Intents, Runs, Calls, RemoveFails, stored, server, Goto, Unheard, NoRequest
<1>1. IntentFits'
  BY DEF IntentFits, TaskFits, RunFits, RequestFits, Proven, Fresh, Working, Over, At
<1>2. TaskFits'
  BY DEF IntentFits, TaskFits, RunFits, RequestFits, Proven, Fresh, Working, Over, At
<1>3. RequestFits'
  BY DEF IntentFits, TaskFits, RunFits, RequestFits, Proven, Fresh, Working, Over, At
<1>4. RecordFits'
  BY DEF IntentFits, TaskFits, RunFits, RequestFits, Proven, Fresh, Working, Over, At, RecordFits,
         SecretIsKept
<1> QED
  BY <1>1, <1>2, <1>3, <1>4

(* A confirmation is saved only over the secret of the record: an intent with *)
(* another secret stays, and then the run gives up.                         *)
LEMMA AdvanceKeepsLinks ==
  ASSUME Shapes, Links, NEW c \in Clients, Advance(c)
  PROVE  Links'
<1> USE DEF Shapes
<1>0. UNCHANGED <<session, request, admitted, removed, finished>> /\ At(c, "advance")
  BY DEF Advance, server
<1>1. CASE Fail(c) /\ UNCHANGED intent
  BY <1>0, <1>1, FailingKeepsLinks
<1> DEFINE i == Kept(DeviceOf[c], [secret |-> task[c].secret, phase |-> "confirmed"])
<1>2. CASE /\ intent' = [intent EXCEPT ![DeviceOf[c]] = i]
           /\ Goto(c, "purge") \/ Fail(c)
  <2>1. Owner \in removed /\ admitted = task[c].secret /\ admitted # 0
    BY <1>0 DEF At, Links, TaskFits, RunFits, Proven, Working
  <2>2. i = intent[DeviceOf[c]] \/ i = [secret |-> admitted, phase |-> "confirmed"]
    BY <2>1 DEF Kept
  <2>3. intent[DeviceOf[c]].secret = admitted => i.secret = admitted
    BY <2>2
  <2> HIDE DEF i
  <2>4. i # NoIntent => i.secret # 0
    BY <2>1, <2>2 DEF Links, IntentFits
  <2>5. i.phase = "confirmed" => admitted = i.secret
    BY <2>1, <2>2 DEF Links, IntentFits
  <2>6. IntentFits'
    BY <1>0, <1>2, <2>1, <2>4, <2>5 DEF Links, IntentFits, NoIntent
  <2>7. /\ \A e \in Clients \ {c} : task'[e] = task[e]
        /\ task'[c] = Resting \/ task'[c] = [task[c] EXCEPT !.pc = "purge"]
    BY <1>2 DEF Goto, Fail
  <2>8. RunFits(task[c], DeviceOf[c])'
    BY <1>0, <2>1, <2>7 DEF RunFits, Proven, Fresh, Working, Over, Resting, Runs
  <2>9. TaskFits'
    <3> SUFFICES ASSUME NEW e \in Clients, e # c PROVE RunFits(task[e], DeviceOf[e])'
      BY <2>8 DEF TaskFits
    <3> QED
      BY <1>0, <2>1, <2>7 DEF Links, TaskFits, RunFits, Proven
  <2>10. RequestFits'
    BY <1>0, <2>1, <2>7 DEF Links, RequestFits, At, Resting, Runs
  <2>11. RecordFits'
    BY <1>0, <1>2, <2>1, <2>3 DEF Links, RecordFits, SecretIsKept
  <2> QED
    BY <2>6, <2>9, <2>10, <2>11 DEF Links
<1> QED
  BY <1>0, <1>1, <1>2 DEF Advance

(* The credential is dropped only when it is of the removed account.        *)
LEMMA ClearSessionKeepsLinks ==
  ASSUME Shapes, Links, NEW c \in Clients, ClearSession(c)
  PROVE  Links'
<1> USE DeletionAssumption DEF Shapes, Secret, Links, Intents, Runs, Calls, ClearSession, server, Goto
<1>1. IntentFits'
  BY DEF IntentFits, TaskFits, RunFits, RequestFits, Proven, Fresh, Working, Over, At, Owner, Other
<1>2. TaskFits'
  BY DEF IntentFits, TaskFits, RunFits, RequestFits, Proven, Fresh, Working, Over, At, Owner, Other
<1>3. RequestFits'
  BY DEF IntentFits, TaskFits, RunFits, RequestFits, Proven, Fresh, Working, Over, At, Owner, Other
<1>4. RecordFits'
  BY DEF IntentFits, TaskFits, RunFits, RequestFits, Proven, Fresh, Working, Over, At, RecordFits,
         SecretIsKept, Owner, Other
<1> QED
  BY <1>1, <1>2, <1>3, <1>4

(* The secret leaves the journal for the list of the finished ones, and nothing *)
(* still unrecorded works for it.                                           *)
LEMMA ForgetKeepsLinks ==
  ASSUME Shapes, Links, NEW c \in Clients, Forget(c)
  PROVE  Links'
<1> USE DeletionAssumption DEF Shapes, Secret, Links, Intents, Runs, Calls, Forget, server, Fail, Resting, NoIntent
<1>1. IntentFits'
  BY DEF IntentFits, TaskFits, RunFits, RequestFits, Proven, Fresh, Working, Over, At
<1>2. TaskFits'
  BY DEF IntentFits, TaskFits, RunFits, RequestFits, Proven, Fresh, Working, Over, At
<1>3. RequestFits'
  BY DEF IntentFits, TaskFits, RunFits, RequestFits, Proven, Fresh, Working, Over, At
<1>4. RecordFits'
  BY DEF IntentFits, TaskFits, RunFits, RequestFits, Proven, Fresh, Working, Over, At, RecordFits,
         SecretIsKept
<1> QED
  BY <1>1, <1>2, <1>3, <1>4

(* A crash ends a run, and leaves a request on its way without anybody waiting. *)
LEMMA QuitKeepsLinks ==
  ASSUME Shapes, Links, NEW c \in Clients, Quit(c)
  PROVE  Links'
<1> USE DeletionAssumption DEF Shapes, Secret, Links, Intents, Runs, Calls, Quit, stored, server, Resting, Unheard, NoRequest, AtRest
<1>1. IntentFits'
  BY DEF IntentFits, TaskFits, RunFits, RequestFits, Proven, Fresh, Working, Over, At
<1>2. TaskFits'
  BY DEF IntentFits, TaskFits, RunFits, RequestFits, Proven, Fresh, Working, Over, At
<1>3. RequestFits'
  BY DEF IntentFits, TaskFits, RunFits, RequestFits, Proven, Fresh, Working, Over, At
<1>4. RecordFits'
  BY DEF IntentFits, TaskFits, RunFits, RequestFits, Proven, Fresh, Working, Over, At, RecordFits,
         SecretIsKept
<1> QED
  BY <1>1, <1>2, <1>3, <1>4

(* The server reads a request of the reviewed account only.                 *)
LEMMA AuthenticateKeepsLinks ==
  ASSUME Shapes, Links, NEW c \in Clients, Authenticate(c)
  PROVE  Links'
<1> USE DEF Shapes, Links
<1>1. UNCHANGED <<intent, session, task, admitted, removed, finished>>
  BY DEF Authenticate, stored, server
<1>2. IntentFits' /\ TaskFits' /\ RecordFits'
  BY <1>1 DEF IntentFits, TaskFits, RunFits, Proven, RecordFits, SecretIsKept
<1>3. /\ \A e \in Clients \ {c} : request'[e] = request[e]
      /\ \/ request'[c] = [request[c] EXCEPT !.st = "known"] /\ request[c].who = Owner
         \/ request'[c] = [request[c] EXCEPT !.st = "refused"]
         \/ request'[c] = NoRequest /\ ~At(c, "sent")
  BY DEF Authenticate, Answer, Reviewed, Calls
<1>4. request[c].st = "sent"
  BY DEF Authenticate
<1>5. RequestFits'
  BY <1>1, <1>3, <1>4 DEF RequestFits, NoRequest, Calls, At
<1> QED
  BY <1>2, <1>5

(* The record takes the secret of a request: until then each run and request of *)
(* the device has that of its journal, so it is not lost.                   *)
LEMMA AdmitKeepsLinks ==
  ASSUME Shapes, Links, NEW c \in Clients, Admit(c)
  PROVE  Links'
<1> USE DEF Shapes, Links
<1>1. UNCHANGED <<intent, session, task, removed, finished>> /\ request[c].st = "known"
  BY DEF Admit, stored
<1>2. CASE Answer(c, "refused") /\ UNCHANGED admitted
  <2>1. IntentFits' /\ TaskFits' /\ RecordFits'
    BY <1>1, <1>2 DEF IntentFits, TaskFits, RunFits, Proven, RecordFits, SecretIsKept
  <2>2. /\ \A e \in Clients \ {c} : request'[e] = request[e]
        /\ \/ request'[c] = [request[c] EXCEPT !.st = "refused"]
           \/ request'[c] = NoRequest /\ ~At(c, "sent")
    BY <1>2 DEF Answer, Calls
  <2>3. RequestFits'
    BY <1>1, <1>2, <2>2 DEF RequestFits, NoRequest, Calls, At
  <2> QED
    BY <2>1, <2>3
<1>3. CASE /\ Admissible(c) /\ admitted' = request[c].secret
           /\ request' = [request EXCEPT ![c].st = "accepted"]
  <2>1. /\ admitted' # 0 /\ (admitted # 0 => admitted' = admitted)
        /\ admitted # 0 \/ intent[DeviceOf[c]].secret = admitted'
    BY <1>1, <1>3 DEF RequestFits, Admissible
  <2>2. IntentFits'
    BY <1>1, <2>1 DEF IntentFits, Intents, NoIntent
  <2>3. TaskFits'
    BY <1>1, <2>1 DEF TaskFits, RunFits, Proven, Fresh, Working, Over, Runs
  <2>4. /\ \A e \in Clients \ {c} : request'[e] = request[e]
        /\ request'[c] = [request[c] EXCEPT !.st = "accepted"]
    BY <1>3
  <2>5. RequestFits'
    BY <1>1, <1>3, <2>1, <2>4 DEF RequestFits, Calls, At
  <2>6. RecordFits'
    BY <1>1, <2>1 DEF RecordFits, SecretIsKept
  <2> QED
    BY <2>2, <2>3, <2>5, <2>6
<1> QED
  BY <1>2, <1>3 DEF Admit

(* The transaction removes the account of an accepted request, which is reviewed. *)
LEMMA CommitKeepsLinks ==
  ASSUME Shapes, Links, NEW c \in Clients, Commit(c)
  PROVE  Links'
<1> USE DeletionAssumption DEF Shapes, Secret, Links, Intents, Runs, Calls, Commit, stored, Answer, NoRequest
<1>1. IntentFits'
  BY DEF IntentFits, TaskFits, RunFits, RequestFits, Proven, Fresh, Working, Over, At, Owner, Other
<1>2. TaskFits'
  BY DEF IntentFits, TaskFits, RunFits, RequestFits, Proven, Fresh, Working, Over, At, Owner, Other
<1>3. RequestFits'
  BY SMTT(30) DEF IntentFits, TaskFits, RunFits, RequestFits, Proven, Fresh, Working, Over, At, Owner, Other
<1>4. RecordFits'
  BY DEF IntentFits, TaskFits, RunFits, RequestFits, Proven, Fresh, Working, Over, At, RecordFits,
         SecretIsKept, Owner, Other
<1> QED
  BY <1>1, <1>2, <1>3, <1>4

(* Initially nothing is under way.                                          *)
LEMMA LinksHoldAtFirst == DeletionInit => Links
  BY DeletionAssumption
     DEF DeletionInit, Links, IntentFits, TaskFits, RunFits, RequestFits, RecordFits,
     SecretIsKept, Proven, Fresh, Working, Over, At, NoIntent, Resting, NoRequest

(* Each step of a client, of a device or of the server keeps the links.     *)
LEMMA LinksAreInductive == DeletionTypeOK /\ Links /\ [DeletionNext]_deletionVars => Links'
<1> SUFFICES ASSUME DeletionTypeOK, Links, [DeletionNext]_deletionVars PROVE Links'
  OBVIOUS
<1>0. Shapes
  BY TypeFixesShapes
<1>1. CASE UNCHANGED <<intent, task, session, request, admitted, removed, finished>>
  BY <1>1
     DEF Links, IntentFits, TaskFits, RunFits, RequestFits, RecordFits, SecretIsKept, Proven, At
<1>2. ASSUME NEW c \in Clients, NEW kind \in {"confirm", "resume", "prepare"}, Begin(c, kind) PROVE Links'
  BY <1>0, <1>2, BeginKeepsLinks
<1>3. ASSUME NEW c \in Clients, Work(c) PROVE Links'
  BY <1>0, <1>3, ReadIntentKeepsLinks, CaptureKeepsLinks, SaveIntentKeepsLinks, FenceKeepsLinks,
     AskReceiptKeepsLinks, SendRemoveKeepsLinks,
     HearRemovedKeepsLinks, RemoveFailsKeepsLinks, AskAgainKeepsLinks, AdvanceKeepsLinks, PurgeKeepsLinks, ClearSessionKeepsLinks, ForgetKeepsLinks
     DEF Work
<1>4. ASSUME NEW c \in Clients, Quit(c) PROVE Links'
  BY <1>0, <1>4, QuitKeepsLinks
<1>5. ASSUME NEW c \in Clients, OpenPages(c) \/ Store(c) PROVE Links'
  BY <1>1, <1>5 DEF OpenPages, Store, stored, server
<1>6. ASSUME NEW c \in Clients, Authenticate(c) \/ Admit(c) \/ Commit(c) PROVE Links'
  BY <1>0, <1>6, AuthenticateKeepsLinks, AdmitKeepsLinks, CommitKeepsLinks
<1>7. ASSUME NEW d \in Devices, ChangeSession(d) PROVE Links'
  <2>1. UNCHANGED <<intent, task, request, admitted, removed, finished>>
    BY <1>7 DEF ChangeSession, server
  <2>2. \A e \in Devices : session'[e] = Owner => session[e] = Owner \/ admitted = 0
    BY <1>0, <1>7, DeletionAssumption DEF ChangeSession, Shapes, Owner, Other
  <2>3. TaskFits'
    BY <1>0, <2>1, <2>2 DEF Links, TaskFits, RunFits, Proven, Fresh, Working, Over, Shapes
  <2> QED
    BY <2>1, <2>3 DEF Links, IntentFits, RequestFits, RecordFits, SecretIsKept, At
<1>8. CASE Reapply
  BY <1>8
     DEF Reapply, stored, Links, IntentFits, TaskFits, RunFits, RequestFits, RecordFits,
         SecretIsKept,
     Proven, At, Owner, Other
<1>9. CASE ExpireReceipt
  BY <1>1, <1>9 DEF ExpireReceipt, stored
<1> QED
  BY <1>1, <1>2, <1>3, <1>4, <1>5, <1>6, <1>7, <1>8, <1>9 DEF DeletionNext, deletionVars

-----------------------------------------------------------------------------
(* What the data of a device follows                                        *)

(* A device without data is fenced, and data outlives an intent only where *)
(* no run still means to remove it.                                        *)
DataFits ==
    /\ \A d \in Devices : ~data[d] => fenced[d]
    /\ \A c \in Clients :
         /\ task[c].pc \in Working =>
              intent[DeviceOf[c]] # NoIntent \/ ~data[DeviceOf[c]]
         /\ task[c].pc \in Over => ~data[DeviceOf[c]]

(* Initially every device has its data.                                     *)
LEMMA DataFitsAtFirst == DeletionInit => DataFits
  BY DEF DeletionInit, DataFits, Resting, Working, Over

(* Each step keeps the fence of a device without data, and the intent of one that *)
(* a run still means to purge.                                              *)
LEMMA DataFitsIsInductive == DeletionTypeOK /\ DataFits /\ [DeletionNext]_deletionVars => DataFits'
<1> SUFFICES ASSUME DeletionTypeOK, DataFits, [DeletionNext]_deletionVars PROVE DataFits'
  OBVIOUS
<1>a. /\ Shapes /\ data \in [Devices -> BOOLEAN] /\ fenced \in [Devices -> BOOLEAN]
  BY TypeFixesShapes DEF DeletionTypeOK
<1> USE DEF Shapes
<1>1. CASE UNCHANGED deletionVars
  BY <1>1 DEF DataFits, deletionVars
<1>2. ASSUME NEW c \in Clients, NEW kind \in {"confirm", "resume", "prepare"}, Begin(c, kind) PROVE DataFits'
  BY <1>a, <1>2 DEF Begin, stored, DataFits, Working, Over, Runs, Resting
<1>3. ASSUME NEW c \in Clients, ReadIntent(c) PROVE DataFits'
  BY SMTT(30), <1>a, <1>3
     DEF ReadIntent, stored, Fail, GoWith, Resting, At, DataFits, Working, Over, Runs, Intents
<1>4. ASSUME NEW c \in Clients, Capture(c) PROVE DataFits'
  BY <1>a, <1>4 DEF Capture, Goto, Fail, Resting, At, DataFits, Working, Over, Runs, Intents
<1>5. ASSUME NEW c \in Clients, SaveIntent(c) PROVE DataFits'
  BY <1>a, <1>5 DEF SaveIntent, Kept, GoWith, NoIntent, At, DataFits, Working, Over, Runs, Intents
<1>6. ASSUME NEW c \in Clients, Fence(c) PROVE DataFits'
  BY <1>a, <1>6 DEF Fence, Goto, At, DataFits, Working, Over, Runs, Intents
<1>7. ASSUME NEW c \in Clients, AskReceipt(c) PROVE DataFits'
  <2>1. task'[c].pc \in Working \cup {"idle"} /\ \A e \in Clients \ {c} : task'[e] = task[e]
    BY <1>a, <1>7 DEF AskReceipt, Goto, Fail, Resting, Working, Runs
  <2> QED
    BY <1>a, <1>7, <2>1 DEF AskReceipt, stored, At, DataFits, Working, Over
<1>8. ASSUME NEW c \in Clients, SendRemove(c) PROVE DataFits'
  BY <1>a, <1>8 DEF SendRemove, stored, Goto, At, DataFits, Working, Over, Runs, Intents
<1>9. ASSUME NEW c \in Clients, HearRemoved(c) PROVE DataFits'
  BY <1>a, <1>9 DEF HearRemoved, stored, Goto, At, DataFits, Working, Over, Runs, Intents
<1>10. ASSUME NEW c \in Clients, RemoveFails(c) PROVE DataFits'
  BY <1>a, <1>10 DEF RemoveFails, stored, Goto, At, DataFits, Working, Over, Runs, Intents
<1>11. ASSUME NEW c \in Clients, AskAgain(c) PROVE DataFits'
  <2>1. task'[c].pc \in Working \cup {"idle"} /\ \A e \in Clients \ {c} : task'[e] = task[e]
    BY <1>a, <1>11 DEF AskAgain, Goto, Fail, Resting, Working, Runs
  <2> QED
    BY <1>a, <1>11, <2>1 DEF AskAgain, stored, At, DataFits, Working, Over
<1>12. ASSUME NEW c \in Clients, Advance(c) PROVE DataFits'
  <2> DEFINE d == DeviceOf[c]
  <2>1. task'[c].pc \in {"purge", "idle"} /\ \A e \in Clients \ {c} : task'[e] = task[e]
    BY <1>a, <1>12 DEF Advance, Goto, Fail, Resting, Runs
  <2>2. UNCHANGED <<intent, fenced>> \/ (intent'[d] # NoIntent /\ fenced' = [fenced EXCEPT ![d] = TRUE])
    BY <1>a, <1>12 DEF Advance, Kept, NoIntent
  <2>3. UNCHANGED data /\ task[c].pc \in Working /\ (\A e \in Devices \ {d} : intent'[e] = intent[e])
    BY <1>a, <1>12 DEF Advance, At, Working
  <2> QED
    BY <1>a, <2>1, <2>2, <2>3 DEF DataFits, Working, Over
<1>13. ASSUME NEW c \in Clients, Purge(c) PROVE DataFits'
  <2> DEFINE d == DeviceOf[c]
  <2>1. CASE Fail(c) /\ UNCHANGED <<data, fenced>>
    BY <1>a, <1>13, <2>1 DEF Purge, Fail, Resting, DataFits, Working, Over
  <2>2. CASE data' = [data EXCEPT ![d] = FALSE] /\ fenced' = [fenced EXCEPT ![d] = TRUE]
    <3>1. task'[c].pc \in {"clear", "idle"} /\ \A e \in Clients \ {c} : task'[e] = task[e]
      BY <1>a, <1>13 DEF Purge, Goto, Fail, Resting, Runs
    <3>2. ~data'[d] /\ fenced'[d] /\ UNCHANGED intent
      BY <1>a, <1>13, <2>2 DEF Purge
    <3> QED
      BY <1>a, <2>2, <3>1, <3>2 DEF DataFits, Working, Over
  <2> QED
    BY <1>13, <2>1, <2>2 DEF Purge
<1>14. ASSUME NEW c \in Clients, ClearSession(c) PROVE DataFits'
  BY <1>a, <1>14 DEF ClearSession, Goto, At, DataFits, Working, Over, Runs, Intents
<1>15. ASSUME NEW c \in Clients, Forget(c) PROVE DataFits'
  BY <1>a, <1>15 DEF Forget, Fail, Resting, At, DataFits, Working, Over, Runs, Intents
<1>16. ASSUME NEW c \in Clients, Quit(c) PROVE DataFits'
  BY <1>a, <1>16 DEF Quit, stored, Resting, At, DataFits, Working, Over, Runs, Intents
<1>17. ASSUME NEW c \in Clients, OpenPages(c) PROVE DataFits'
  BY <1>a, <1>17 DEF OpenPages, stored, At, DataFits, Working, Over, Runs, Intents
<1>18. ASSUME NEW c \in Clients, Store(c) PROVE DataFits'
  BY <1>a, <1>18 DEF Store, MayStore, At, DataFits, Working, Over, Runs, Intents
<1>19. ASSUME NEW c \in Clients, Authenticate(c) PROVE DataFits'
  BY <1>a, <1>19 DEF Authenticate, stored, At, DataFits, Working, Over, Runs, Intents
<1>20. ASSUME NEW c \in Clients, Admit(c) PROVE DataFits'
  BY <1>a, <1>20 DEF Admit, stored, At, DataFits, Working, Over, Runs, Intents
<1>21. ASSUME NEW c \in Clients, Commit(c) PROVE DataFits'
  BY <1>a, <1>21 DEF Commit, stored, At, DataFits, Working, Over, Runs, Intents
<1>22. ASSUME NEW d \in Devices, ChangeSession(d) PROVE DataFits'
  BY <1>22 DEF ChangeSession, DataFits
<1>23. CASE Reapply \/ ExpireReceipt
  BY <1>23 DEF Reapply, ExpireReceipt, stored, DataFits
<1> QED
  BY <1>1, <1>2, <1>3, <1>4, <1>5, <1>6, <1>7, <1>8, <1>9, <1>10, <1>11, <1>12, <1>13, <1>14, <1>15,
     <1>16, <1>17, <1>18, <1>19, <1>20, <1>21, <1>22, <1>23
     DEF DeletionNext, Work

-----------------------------------------------------------------------------
(* The theorems                                                             *)

(* What holds in every state: the types, the links between the journals, the *)
(* runs, the requests and the record, and what the data of a device follows. *)
DeletionInv == DeletionTypeOK /\ Links /\ DataFits

(* Every reachable state has the types and the links.                         *)
THEOREM DeletionInvariant == DeletionSpec => []DeletionInv
<1>1. DeletionInit => DeletionInv
  BY DeletionTypeInit, LinksHoldAtFirst, DataFitsAtFirst DEF DeletionInv
<1>2. DeletionInv /\ [DeletionNext]_deletionVars => DeletionInv'
  <2>1. Links => \A c \in Clients : request[c].st = "accepted" => request[c].who = Owner
    BY DEF Links, RequestFits
  <2> QED
    BY <2>1, DeletionTypeNext, LinksAreInductive, DataFitsIsInductive DEF DeletionInv
<1> QED
  BY <1>1, <1>2, PTL DEF DeletionSpec

(* Each variable of the deletion always has its type; a journal with an      *)
(* intent always has its write fence.                                        *)
THEOREM DeletionTypeCorrect == DeletionSpec => []DeletionTypeOK
<1>1. DeletionInv => DeletionTypeOK
  BY DEF DeletionInv
<1> QED
  BY <1>1, DeletionInvariant, PTL

(* Whatever crashes, is lost or comes late: the secret of the deletion that  *)
(* the server recorded is in the journal of a device, or was finished there. *)
THEOREM DeletionSecretIsKept == DeletionSpec => []SecretIsKept
<1>1. DeletionInv => SecretIsKept
  BY DEF DeletionInv, Links, RecordFits
<1> QED
  BY <1>1, DeletionInvariant, PTL

(* A device reports completion, and holds a confirmed intent, only when the  *)
(* server removed the account under its own secret; the journal is forgotten *)
(* only without the session, and the account of whoever signed in meanwhile  *)
(* is never removed.                                                         *)
THEOREM DeletionCompletionIsProven == DeletionSpec => []CompletionIsProven
<1>1. DeletionInv => CompletionIsProven
  BY DEF DeletionInv, Links, IntentFits, TaskFits, RunFits, RecordFits, CompletionIsProven, At
<1> QED
  BY <1>1, DeletionInvariant, PTL

(* A device loses its data only while its journal holds a wish, and a device *)
(* that lost it never stores any again: no page, tab or late answer does.    *)
THEOREM DeletionDataFollowsIntent == DeletionSpec => DataFollowsIntent
<1> DEFINE Follows == \A d \in Devices : data'[d] # data[d] => data[d] /\ intent[d] # NoIntent
<1>1. DeletionInv /\ [DeletionNext]_deletionVars => [Follows]_deletionVars
  <2> SUFFICES ASSUME DeletionInv, DeletionNext PROVE Follows
    OBVIOUS
  <2>1. Shapes /\ data \in [Devices -> BOOLEAN] /\ DataFits
    BY TypeFixesShapes DEF DeletionInv, DeletionTypeOK
  <2>2. CASE UNCHANGED data
    BY <2>2
  <2>3. ASSUME NEW c \in Clients, Purge(c) PROVE Follows
    <3>1. intent[DeviceOf[c]] # NoIntent \/ ~data[DeviceOf[c]]
      BY <2>3 DEF Purge, At, DeletionInv, DataFits, Working
    <3> QED
      BY <2>1, <2>3, <3>1 DEF Purge, Shapes
  <2>4. ASSUME NEW c \in Clients, Store(c) PROVE Follows
    BY <2>1, <2>4 DEF Store, MayStore, DataFits, Shapes
  <2> QED
    BY ZenonT(60), <2>2, <2>3, <2>4
       DEF DeletionNext, Work, Begin, ReadIntent, Capture, SaveIntent, Fence, AskReceipt, SendRemove,
           HearRemoved, RemoveFails, AskAgain, Advance, ClearSession, Forget, Quit, OpenPages,
           Authenticate, Admit, Commit, ChangeSession, Reapply, ExpireReceipt, stored
<1> QED
  BY <1>1, DeletionInvariant, PTL DEF DeletionSpec, DataFollowsIntent
=============================================================================
