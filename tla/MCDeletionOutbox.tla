--------------------------- MODULE MCDeletionOutbox ---------------------------
(* Instances for TLC of AccountDeletion and AuthorizationOutbox, which share *)
(* no state: a behaviour plays one of them, its scene, and the other rests.  *)
EXTENDS AccountDeletion, AuthorizationOutbox, TLC

CONSTANTS Scenes, d1, c1, c2, r1, w1, p1, p2

VARIABLE scene

OneDevice == [c \in Clients |-> d1]
TwoTabs == Permutations({c1, c2})

OutboxRest ==
    /\ OutboxInit
    /\ used = CHOOSE ops \in Scenarios : TRUE
    /\ domain.follows = {} /\ \A p \in People \ {Founder} : domain.role[p] = "none"

SceneInit ==
    /\ scene \in Scenes
    /\ \/ scene = "deletion" /\ DeletionInit /\ OutboxRest
       \/ scene = "outbox" /\ DeletionInit /\ OutboxInit

SceneNext ==
    /\ UNCHANGED scene
    /\ \/ scene = "deletion" /\ DeletionNext /\ UNCHANGED outboxVars
       \/ scene = "outbox" /\ OutboxNext /\ UNCHANGED deletionVars

sceneVars == <<scene, deletionVars, outboxVars>>

(* Each variable of either module has its type. *)
SceneTypeOK == DeletionTypeOK /\ OutboxTypeOK

SceneSpec == SceneInit /\ [][SceneNext]_sceneVars
=============================================================================
