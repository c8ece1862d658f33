------------------------- MODULE AuthorizationOutbox -------------------------
(* The outbox that carries the relationships of one resource to SpiceDB: the *)
(* rows its operations commit, the leases under which requests and the       *)
(* background pass of a replica apply them, the serializer every write is    *)
(* made under, and a relationship store whose writes fail or whose answers   *)
(* are lost.                                                                 *)
EXTENDS Naturals, Sequences, FiniteSets

CONSTANTS
    Requests, Sweepers,      \* handlers of requests; passes of ReconcileAuthorization
    People, Founder, Nobody,
    Scenarios,               \* sets of operations that are used together
    MaxRows, MaxAttempts     \* bounds: outbox rows; attempts before a dead letter

ASSUME OutboxAssumption ==
    /\ Founder \in People /\ Nobody \notin Requests \cup Sweepers \cup {"replica", "path"}
    /\ MaxRows \in Nat /\ MaxAttempts \in Nat \ {0}

VARIABLES
    used,        \* the operations of this behaviour
    domain,      \* what the database says: owner, roles, audience, followers
    outbox,      \* the rows in the order of created_at
    relations,   \* what SpiceDB holds
    serializer,  \* who is inside WithinResource
    job,         \* what each handler or pass is doing
    told         \* the rows whose success was reported to a client

outboxVars == <<used, domain, outbox, relations, serializer, job, told>>

Procs == Requests \cup Sweepers
Workers == {"replica", "path"} \cup Requests
Idle == [pc |-> "idle", mode |-> "none", row |-> 0, as |-> Nobody, mine |-> {}]

Roles == {"administrator", "participant", "supporter"}
Audience == {"private", "followers", "public"}
Tuples == ({"creator", "follower", "followers"} \cup Roles) \X People \cup {<<"public", "*">>}

OutboxTypeOK ==
    /\ domain \in [owner : People, role : [People -> Roles \cup {"none"}],
                   audience : Audience, follows : SUBSET People]
    /\ \A i \in DOMAIN outbox :
        outbox[i] \in [adds : SUBSET Tuples, dels : SUBSET Tuples, how : {"direct", "ordered", "batch"},
                       fenced : BOOLEAN, op : 1..MaxRows, by : Workers \cup {Nobody},
                       state : {"pending", "done", "dead"}, attempts : 0..MaxAttempts]
    /\ relations \subseteq Tuples /\ serializer \in Procs \cup {Nobody}
    /\ job \in [Procs -> [pc : {"idle", "claim", "enter", "write", "complete", "fail"},
                           mode : {"none", "direct", "ordered", "batch", "sweep"},
                           row : 0..MaxRows, as : Workers \cup {Nobody}, mine : SUBSET (1..MaxRows)]]
    /\ told \subseteq DOMAIN outbox

-----------------------------------------------------------------------------
AudienceOf(audience, owner) ==
    CASE audience = "private" -> {} [] audience = "followers" -> {<<"followers", owner>>}
      [] audience = "public" -> {<<"public", "*">>}

(* The relationships that say what the database says.                        *)
Implied(d) ==
    {<<"creator", d.owner>>} \cup {<<d.role[p], p>> : p \in {q \in People \ {d.owner} : d.role[q] # "none"}}
        \cup AudienceOf(d.audience, d.owner)
        \cup {<<"follower", p>> : p \in d.follows}

OutboxInit ==
    /\ used \in Scenarios
    /\ \E members \in SUBSET People, followers \in SUBSET (People \ {Founder}) :
        /\ Founder \in members
        /\ followers # {} => used \cap {"unfollow", "remove_follower"} # {}
        /\ domain = [owner |-> Founder, audience |-> "private", follows |-> followers,
                  role |-> [p \in People |-> IF p \in members THEN "participant" ELSE "none"]]
    /\ outbox = << >>
    /\ relations = Implied(domain)
    /\ serializer = Nobody
    /\ job = [p \in Procs |-> Idle]
    /\ told = {}

Row(adds, dels, how, by) ==
    [adds |-> adds, dels |-> dels, how |-> how, by |-> by, fenced |-> FALSE,
     op |-> Len(outbox) + 1, state |-> "pending", attempts |-> 0]
Incomplete(i) == outbox[i].state # "done"
Earliest(i) == \A j \in 1..(i - 1) : ~Incomplete(j)

-----------------------------------------------------------------------------
(* One transaction of a producer; the insert waits for the serializer.       *)
Produce(r, op, d, rows) ==
    /\ op \in used
    /\ job[r] = Idle /\ serializer = Nobody
    /\ Len(outbox) + Len(rows) <= MaxRows
    /\ domain' = d
    /\ outbox' = outbox \o rows
    /\ LET how == IF rows = << >> THEN "ordered" ELSE rows[1].how IN
       job' = [job EXCEPT ![r] =
           [pc |-> IF how = "direct" THEN "enter" ELSE "claim", mode |-> how, row |-> Len(outbox) + 1,
            as |-> IF how = "ordered" THEN "path" ELSE "replica",
            mine |-> {Len(outbox) + k : k \in DOMAIN rows}]]
    /\ UNCHANGED <<used, relations, serializer, told>>

Creates == <<"creator", domain.owner>> \in relations

(* The permission is asked of the relationships, the role of the database.   *)
Manages(q) ==
    /\ q = domain.owner \/ domain.role[q] = "administrator"
    /\ {<<"creator", q>>, <<"administrator", q>>} \cap relations # {}

SetVisibility(r, v) ==
    LET old == AudienceOf(domain.audience, domain.owner)
        new == AudienceOf(v, domain.owner)
        row(adds, dels) == Row(adds, dels, "ordered", Nobody) IN
    /\ v # domain.audience /\ Creates
    /\ Produce(r, "visibility", [domain EXCEPT !.audience = v],
               (IF old = {} THEN << >> ELSE <<row({}, old)>>) \o
               (IF new = {} THEN << >> ELSE <<row(new, {})>>))

Accept(r, p) ==
    /\ domain.role[p] = "none" /\ p # domain.owner
    /\ Produce(r, "accept", [domain EXCEPT !.role[p] = "participant"],
               <<Row({<<"participant", p>>}, {}, "direct", "replica")>>)

(* Removal by the creator or an administrator of the Path.                   *)
Remove(r, p) ==
    /\ p # domain.owner /\ domain.role[p] \in {"participant", "supporter"}
    /\ \E q \in People \ {p} : Manages(q)
    /\ Produce(r, "remove", [domain EXCEPT !.role[p] = "none"],
               <<Row({}, {<<domain.role[p], p>>}, "ordered", "path")>>)

Leave(r, p) ==
    /\ p # domain.owner /\ domain.role[p] # "none"
    /\ \E role \in Roles : <<role, p>> \in relations
    /\ Produce(r, "leave", [domain EXCEPT !.role[p] = "none"],
               <<Row({}, {<<domain.role[p], p>>}, "ordered", "path")>>)

(* Between participant and supporter by who manages members; administrators  *)
(* by the creator alone, or by one who steps down.                           *)
ChangeRole(r, p, to) ==
    LET from == domain.role[p] IN
    /\ p # domain.owner /\ from # "none" /\ to # from
    /\ \/ "administrator" \notin {from, to} /\ \E q \in People \ {p} : Manages(q)
       \/ {from, to} = {"administrator", "participant"} /\ Creates
       \/ from = "administrator" /\ to = "participant" /\ <<from, p>> \in relations
    /\ Produce(r, "role", [domain EXCEPT !.role[p] = to],
               <<Row({}, {<<from, p>>}, "ordered", "path"), Row({<<to, p>>}, {}, "ordered", "path")>>)

(* The acceptance of an ownership transfer; a public Path narrows to the     *)
(* followers of a recipient whose profile is private.                        *)
TransferInTwo(r, p) ==
    /\ p # domain.owner /\ domain.role[p] \in {"participant", "administrator"} /\ Creates
    /\ Produce(r, "transfer",
           [domain EXCEPT !.owner = p, !.role[p] = "participant", !.role[domain.owner] = "administrator"],
           <<Row({<<"creator", p>>, <<"administrator", domain.owner>>}, {}, "batch", Nobody),
             Row({}, {<<"creator", domain.owner>>, <<"administrator", p>>}, "batch", Nobody)>>)
Transfer(r, p) ==
    /\ p # domain.owner /\ domain.role[p] \in {"participant", "administrator"} /\ Creates
    /\ \E v \in {domain.audience} \cup (IF domain.audience = "public" THEN {"followers"} ELSE {}) :
        LET o == domain.owner
            moved == domain.audience = "followers" \/ v # domain.audience IN
        Produce(r, "transfer",
            [domain EXCEPT !.owner = p, !.audience = v, !.role[p] = "participant", !.role[o] = "administrator"],
            <<Row({<<"creator", p>>, <<"administrator", o>>} \cup (IF moved THEN AudienceOf(v, p) ELSE {}),
                  {<<"creator", o>>, <<"administrator", p>>}
                      \cup (IF moved THEN AudienceOf(domain.audience, o) ELSE {}),
                  "batch", Nobody)>>)

(* waitForFollowerRemoval, for one follower                                  *)
NoneWaits(p, onlyRemoval) ==
    \A i \in DOMAIN outbox :
        Incomplete(i) /\ <<"follower", p>> \in outbox[i].adds \cup outbox[i].dels
            => onlyRemoval /\ ~outbox[i].fenced

Follow(r, p) ==
    /\ p # Founder /\ p \notin domain.follows /\ NoneWaits(p, TRUE)
    /\ Produce(r, "follow", [domain EXCEPT !.follows = @ \cup {p}],
               <<Row({<<"follower", p>>}, {}, "direct", "replica")>>)

Unfollow(r, p) ==
    /\ p \in domain.follows
    /\ Produce(r, "unfollow", [domain EXCEPT !.follows = @ \ {p}],
               <<Row({}, {<<"follower", p>>}, "direct", "replica")>>)

RemoveFollower(r, p) ==
    /\ p \in domain.follows /\ NoneWaits(p, FALSE)
    /\ Produce(r, "remove_follower", [domain EXCEPT !.follows = @ \ {p}],
               <<[Row({}, {<<"follower", p>>}, "direct", "replica") EXCEPT !.fenced = TRUE]>>)

-----------------------------------------------------------------------------
Lease(i, who) == outbox' = [outbox EXCEPT ![i].by = who]
Become(p, pc) == job' = [job EXCEPT ![p].pc = pc]
Stop(p) == job' = [job EXCEPT ![p] = Idle]
Tell(p) == told' = told \cup job[p].mine

(* The client repeats a request with its key: the mutation is not repeated.  *)
Retry(r, i) ==
    /\ job[r] = Idle /\ i \in DOMAIN outbox
    /\ job' = [job EXCEPT ![r] =
           [pc |-> "claim", mode |-> outbox[i].how, row |-> i,
            as |-> IF outbox[i].how = "ordered" THEN "path" ELSE "replica", mine |-> {i}]]
    /\ UNCHANGED <<used, domain, outbox, relations, serializer, told>>

(* ClaimAuthorizationChange and ClaimAuthorizationBatch, and the state that  *)
(* answers when there is nothing to claim.                                   *)
ClaimableInAnyOrder(i) == outbox[i].state = "pending" /\ outbox[i].by = Nobody
Claimable(i) == outbox[i].state = "pending" /\ outbox[i].by = Nobody /\ Earliest(i)

ClaimOwnOrAssume(p) ==
    LET i == job[p].row IN
    /\ job[p].pc = "claim" /\ job[p].mode \in {"direct", "batch"}
    /\ IF Claimable(i) THEN Lease(i, job[p].as) /\ Become(p, "enter") /\ UNCHANGED told
                       ELSE Tell(p) /\ Stop(p) /\ UNCHANGED outbox
    /\ UNCHANGED <<used, domain, relations, serializer>>
ClaimOwn(p) ==
    LET i == job[p].row IN
    /\ job[p].pc = "claim" /\ job[p].mode \in {"direct", "batch"}
    /\ CASE Claimable(i) -> Lease(i, job[p].as) /\ Become(p, "enter") /\ UNCHANGED told
         [] outbox[i].state = "done" -> Tell(p) /\ Stop(p) /\ UNCHANGED outbox
         [] OTHER -> Stop(p) /\ UNCHANGED <<outbox, told>>
    /\ UNCHANGED <<used, domain, relations, serializer>>

(* ClaimAuthorizationChangeForResource: the earliest single change, whoever  *)
(* made it, until none is left.                                              *)
ClaimNext(p) ==
    LET singles == {i \in DOMAIN outbox : Incomplete(i) /\ outbox[i].how # "batch"}
        next == CHOOSE i \in singles : \A j \in singles : i <= j IN
    /\ job[p].pc = "claim" /\ job[p].mode = "ordered"
    /\ IF singles = {} THEN Tell(p) /\ Stop(p) /\ UNCHANGED outbox
       ELSE /\ UNCHANGED told
            /\ IF outbox[next].state = "pending" /\ Earliest(next) /\ outbox[next].by \in {Nobody, job[p].as}
               THEN /\ Lease(next, job[p].as)
                    /\ job' = [job EXCEPT ![p].pc = "enter", ![p].row = next]
               ELSE Stop(p) /\ UNCHANGED outbox
    /\ UNCHANGED <<used, domain, relations, serializer>>

(* ClaimAuthorizationChanges and ClaimAuthorizationBatches                   *)
Sweep(p, i) ==
    /\ job[p] = Idle /\ i \in DOMAIN outbox /\ Claimable(i)
    /\ Lease(i, "replica")
    /\ job' = [job EXCEPT ![p] = [Idle EXCEPT !.pc = "enter", !.mode = "sweep", !.row = i, !.as = "replica"]]
    /\ UNCHANGED <<used, domain, relations, serializer, told>>

(* RequeueAuthorizationDeadLetter, preclaimed for the worker of the request. *)
Requeue(r, i) ==
    /\ job[r] = Idle /\ i \in DOMAIN outbox /\ outbox[i].state = "dead"
    /\ outbox' = [outbox EXCEPT ![i].state = "pending", ![i].attempts = 0, ![i].by = r]
    /\ job' = [job EXCEPT ![r] = [pc |-> "enter", mode |-> "direct", row |-> i, as |-> r, mine |-> {i}]]
    /\ UNCHANGED <<used, domain, relations, serializer, told>>

(* WithinResource and RenewAuthorizationChange: only a lease that is still   *)
(* held lets its worker write.                                               *)
RenewedAnyway(p) == TRUE
Renewed(p) == outbox[job[p].row].by = job[p].as

Enter(p) ==
    /\ job[p].pc = "enter" /\ serializer = Nobody
    /\ IF Renewed(p) THEN serializer' = p /\ Become(p, "write")
                     ELSE Stop(p) /\ UNCHANGED serializer
    /\ UNCHANGED <<used, domain, outbox, relations, told>>

Applied(i) == (relations \ outbox[i].dels) \cup outbox[i].adds

Write(p) ==
    /\ job[p].pc = "write"
    /\ relations' = Applied(job[p].row)
    /\ Become(p, "complete")
    /\ UNCHANGED <<used, domain, outbox, serializer, told>>

(* An error, or the call's own timeout: it may have been applied.            *)
WriteFails(p) ==
    /\ job[p].pc = "write"
    /\ relations' \in {relations, Applied(job[p].row)}
    /\ serializer' = Nobody
    /\ Become(p, "fail")
    /\ UNCHANGED <<used, domain, outbox, told>>

Complete(p) ==
    LET i == job[p].row IN
    /\ job[p].pc = "complete"
    /\ serializer' = Nobody
    /\ IF outbox[i].by # job[p].as THEN Stop(p) /\ UNCHANGED <<outbox, told>>
       ELSE /\ outbox' = [outbox EXCEPT ![i].state = "done", ![i].by = Nobody]
            /\ IF job[p].mode = "ordered" THEN Become(p, "claim") /\ UNCHANGED told
                                           ELSE Stop(p) /\ Tell(p)
    /\ UNCHANGED <<used, domain, relations>>

(* FailAuthorizationChange; a batch is tried without end.                    *)
FailWithoutEnd(p) ==
    LET i == job[p].row IN
    /\ job[p].pc = "fail"
    /\ outbox' = IF outbox[i].by # job[p].as THEN outbox
                 ELSE [outbox EXCEPT ![i].by = Nobody, ![i].attempts = @ + 1]
    /\ Stop(p)
    /\ UNCHANGED <<used, domain, relations, serializer, told>>
FailChange(p) ==
    LET i == job[p].row
        attempts == outbox[i].attempts + 1 IN
    /\ job[p].pc = "fail"
    /\ outbox' =
        IF outbox[i].by # job[p].as THEN outbox
        ELSE IF outbox[i].how = "batch" THEN [outbox EXCEPT ![i].by = Nobody]
        ELSE [outbox EXCEPT ![i].by = Nobody, ![i].attempts = attempts,
                            ![i].state = IF attempts >= MaxAttempts THEN "dead" ELSE @]
    /\ Stop(p)
    /\ UNCHANGED <<used, domain, relations, serializer, told>>

LoseLease(i) ==
    /\ i \in DOMAIN outbox /\ outbox[i].by # Nobody
    /\ Lease(i, Nobody)
    /\ UNCHANGED <<used, domain, relations, serializer, job, told>>

(* The process dies or the client goes away; its transaction is rolled back. *)
Die(p) ==
    /\ job[p] # Idle
    /\ Stop(p)
    /\ serializer' = IF serializer = p THEN Nobody ELSE serializer
    /\ UNCHANGED <<used, domain, outbox, relations, told>>

-----------------------------------------------------------------------------
Operation(r) ==
    \/ \E v \in Audience : SetVisibility(r, v)
    \/ \E p \in People :
        \/ Accept(r, p) \/ Remove(r, p) \/ Leave(r, p) \/ Transfer(r, p)
        \/ \E to \in Roles : ChangeRole(r, p, to)
        \/ Follow(r, p) \/ Unfollow(r, p) \/ RemoveFollower(r, p)

Deliver(p) == Enter(p) \/ Write(p) \/ Complete(p) \/ FailChange(p)

OutboxNext ==
    \/ \E r \in Requests :
        \/ Operation(r) \/ ClaimOwn(r) \/ ClaimNext(r)
        \/ \E i \in DOMAIN outbox : Retry(r, i) \/ Requeue(r, i)
    \/ \E p \in Sweepers : \E i \in DOMAIN outbox : Sweep(p, i)
    \/ \E p \in Procs : Deliver(p) \/ WriteFails(p) \/ Die(p)
    \/ \E i \in DOMAIN outbox : LoseLease(i)

OutboxSpec == OutboxInit /\ [][OutboxNext]_outboxVars
-----------------------------------------------------------------------------
(* The permissions of schema.zed a relation of a Path carries.               *)
Permissions(relation) ==
    CASE relation = "creator" -> {"manage_visibility", "manage_members", "track", "view"}
      [] relation = "administrator" -> {"manage_members", "track", "view"}
      [] relation = "participant" -> {"track", "view"}
      [] relation \in {"supporter", "followers", "public"} -> {"view"}
      [] relation = "follower" -> {"follow"}

Grants(rel, who) == UNION {Permissions(t[1]) : t \in {x \in rel : x[2] = who}}

(* When every change was applied, everybody may do exactly what the database *)
(* says: no order of grants and removals, retries, crashes and lost answers  *)
(* leaves access behind, or takes it from a member.                          *)
Converged ==
    (\A i \in DOMAIN outbox : ~Incomplete(i)) =>
        \A who \in People \cup {"*"} : Grants(relations, who) = Grants(Implied(domain), who)

(* A Path has one creator at every instant of an ownership transfer,         *)
(* whatever part of its delivery fails (WriteRelationships is one write).    *)
OneCreator == Cardinality({t \in relations : t[1] = "creator"}) = 1

(* Access follows the database in the end, and ownership at every instant.   *)
RelationsFit == Converged /\ OneCreator

(* Success is reported to a client only for a change that was applied and    *)
(* completed; a failure stays retryable.                                     *)
ToldIsDone == \A i \in told : ~Incomplete(i)
=============================================================================
