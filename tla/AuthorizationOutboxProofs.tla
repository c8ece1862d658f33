---------------------- MODULE AuthorizationOutboxProofs ----------------------
(***************************************************************************)
(* Theorems about AuthorizationOutbox, for any people, requests, sweepers, *)
(* any number of changes and of attempts: the types, that whoever was told *)
(* can rely on it, that a path always has exactly one creator, and that    *)
(* access follows the database.                                            *)
(*                                                                         *)
(* The creator is not inductive by itself.  A transfer replaces one by     *)
(* another, so it must find the one it names: it is written only in turn   *)
(* (WriterFits), which a lease promises (TransferFits), and the turn       *)
(* outlives the lease, because a completed change stays completed; and     *)
(* between its write and its completion the creator is already the one     *)
(* where a transfer behind it starts (CreatorFits).                        *)
(*                                                                         *)
(* Nor is access.  The last change about a relationship says what the      *)
(* database says of it (MeantFits), and the relationship is what the last  *)
(* change says once it is completed (WrittenFits): a change that is no     *)
(* direct one is written in turn (TurnFits), and a direct one is made when *)
(* those before it about its relationship are completed (DirectFits), which*)
(* is what a joining and a following find (JoinFits, FollowFits) unless    *)
(* operations that clash are used together (Harmless).                     *)
(***************************************************************************)
EXTENDS AuthorizationOutbox, TLAPS, FiniteSetTheorems, SequenceTheorems, WellFoundedInduction

-----------------------------------------------------------------------------
(* The invariant                                                            *)

Rows == [adds : SUBSET Tuples, dels : SUBSET Tuples, how : {"direct", "ordered", "batch"},
         fenced : BOOLEAN, op : 1..MaxRows, by : Workers \cup {Nobody},
         state : {"pending", "done", "dead"}, attempts : 0..MaxAttempts]
Jobs == [pc : {"idle", "claim", "enter", "write", "complete", "fail"},
         mode : {"none", "direct", "ordered", "batch", "sweep"},
         row : 0..MaxRows, as : Workers \cup {Nobody}, mine : SUBSET (1..MaxRows)]

(* Only a pending change is leased, and only with an attempt left.         *)
LeaseFits ==
    \A i \in DOMAIN outbox :
      /\ outbox[i].by # Nobody => outbox[i].state = "pending"
      /\ outbox[i].state = "pending" => outbox[i].attempts < MaxAttempts

(* A handler reports its own rows; who writes is alone and not finished.   *)
JobFits ==
    \A p \in Procs :
      /\ job[p].pc # "idle" => job[p].as # Nobody
      /\ job[p].pc \in {"enter", "write", "complete", "fail"} => job[p].row \in DOMAIN outbox
      /\ job[p].mine \subseteq DOMAIN outbox
      /\ job[p].mode \in {"direct", "batch"} => job[p].mine = {job[p].row}
      /\ job[p].mode = "ordered" => \A i \in job[p].mine : outbox[i].how # "batch"
      /\ job[p].mode \in {"none", "sweep"} => job[p].mine = {}
      /\ job[p].pc \in {"write", "complete"} => serializer = p
      /\ job[p].pc = "write" => Incomplete(job[p].row)

Creators(tuples) == {t \in tuples : t[1] = "creator"}
Batch(i) == outbox[i].how = "batch"

(* Only a transfer touches the creator: it replaces one by one.            *)
TransferFits ==
    \A i \in DOMAIN outbox :
      /\ ~Batch(i) => Creators(outbox[i].adds) = {} /\ Creators(outbox[i].dels) = {}
      /\ Batch(i) => \E p \in People : Creators(outbox[i].adds) = {<<"creator", p>>}
      /\ Batch(i) => outbox[i].state # "dead"
      /\ Batch(i) /\ ~Incomplete(i) => Earliest(i)
      /\ Batch(i) /\ outbox[i].by # Nobody => Earliest(i)

(* It is written when every change before it was completed.                *)
WriterFits ==
    \A p \in Procs :
      job[p].pc = "write" /\ Batch(job[p].row) => Earliest(job[p].row)

(* The creator is where each unfinished transfer starts or ends; one that  *)
(* was accepted behind another starts where the other ends, and the last   *)
(* one ends with the owner.                                                *)
CreatorFits ==
    /\ \E p \in People : Creators(relations) = {<<"creator", p>>}
    /\ \A i \in DOMAIN outbox : Batch(i) /\ Incomplete(i) =>
         /\ Creators(relations) \in {Creators(outbox[i].adds), Creators(outbox[i].dels)}
         /\ \/ \E j \in DOMAIN outbox : i < j /\ Batch(j)
            \/ Creators(outbox[i].adds) = {<<"creator", domain.owner>>}
         /\ (\E j \in DOMAIN outbox : i < j /\ Batch(j)) =>
              Creators(relations) = Creators(outbox[i].adds)

Domains == [owner : People, role : [People -> Roles \cup {"none"}],
            audience : Audience, follows : SUBSET People]

Typed ==
    /\ domain \in Domains /\ outbox \in Seq(Rows) /\ Len(outbox) <= MaxRows
    /\ relations \subseteq Tuples /\ serializer \in Procs \cup {Nobody}
    /\ job \in [Procs -> Jobs] /\ told \subseteq DOMAIN outbox

(* The types with the finite sets named.                                    *)
LEMMA TypedFitsTypeOK == Typed => OutboxTypeOK
<1> SUFFICES ASSUME Typed PROVE OutboxTypeOK
  OBVIOUS
<1>1. \A i \in DOMAIN outbox : outbox[i] \in Rows
  BY DEF Typed
<1> QED
  BY <1>1 DEF Typed, OutboxTypeOK, Domains, Rows, Jobs

OutboxInv ==
    /\ Typed /\ LeaseFits /\ JobFits /\ TransferFits /\ WriterFits /\ CreatorFits
    /\ ToldIsDone

(* What the transaction of an operation adds.                              *)
Change(d, rows) ==
    /\ d \in Domains /\ rows \in Seq(Rows) /\ Len(rows) > 0
    /\ \A k \in DOMAIN rows : /\ rows[k].state = "pending" /\ rows[k].attempts = 0
                              /\ rows[k].how = rows[1].how
                              /\ rows[k].how \in {"direct", "batch"} => Len(rows) = 1
    /\ \/ /\ d.owner = domain.owner
          /\ \A k \in DOMAIN rows : /\ rows[k].how # "batch"
                                    /\ Creators(rows[k].adds) = {} /\ Creators(rows[k].dels) = {}
       \/ /\ Creates /\ Len(rows) = 1 /\ rows[1].how = "batch" /\ rows[1].by = Nobody
          /\ Creators(rows[1].adds) = {<<"creator", d.owner>>}
          /\ Creators(rows[1].dels) = {<<"creator", domain.owner>>}

-----------------------------------------------------------------------------
(* What the operations commit                                               *)

(* The relationships of an audience (audienceRelationships) name no creator.*)
LEMMA AudienceNamesNoCreator ==
  ASSUME NEW a \in Audience, NEW o \in People
  PROVE  AudienceOf(a, o) \subseteq Tuples /\ Creators(AudienceOf(a, o)) = {}
  BY DEF AudienceOf, Audience, Tuples, Creators

(* A change to add is a row, when there is room for it.                     *)
LEMMA RowOfChange ==
  ASSUME Typed, Len(outbox) < MaxRows, NEW adds \in SUBSET Tuples, NEW dels \in SUBSET Tuples,
         NEW how \in {"direct", "ordered", "batch"}, NEW by \in Workers \cup {Nobody}
  PROVE  Row(adds, dels, how, by) \in Rows
<1>1. Len(outbox) + 1 \in 1..MaxRows /\ 0 \in 0..MaxAttempts
  BY OutboxAssumption DEF Typed
<1> QED
  BY <1>1 DEF Row, Rows

(* One change that names no creator is what an operation may add.           *)
LEMMA OneRow ==
  ASSUME NEW d \in Domains, NEW x \in Rows, d.owner = domain.owner,
         x.state = "pending", x.attempts = 0, x.how # "batch", Creators(x.adds) = {}, Creators(x.dels) = {}
  PROVE  Change(d, <<x>>)
  BY DEF Change

(* So are two ordered ones, as role_repository writes them.                 *)
LEMMA TwoRows ==
  ASSUME NEW d \in Domains, NEW x \in Rows, NEW y \in Rows, d.owner = domain.owner,
         x.state = "pending", x.attempts = 0, x.how = "ordered", Creators(x.adds) = {}, Creators(x.dels) = {},
         y.state = "pending", y.attempts = 0, y.how = "ordered", Creators(y.adds) = {}, Creators(y.dels) = {}
  PROVE  Change(d, <<x, y>>)
<1>1. DOMAIN <<x, y>> = {1, 2}
  OBVIOUS
<1> QED
  BY <1>1 DEF Change

(* A role or a following names no creator.                                  *)
LEMMA RoleNamesNoCreator ==
  ASSUME NEW role \in Roles \cup {"follower"}, NEW p \in People
  PROVE  {<<role, p>>} \subseteq Tuples /\ Creators({<<role, p>>}) = {} /\ Creators({}) = {}
  BY DEF Roles, Tuples, Creators

Produces(r) ==
    \E op \in used, d \in Domains, rows \in Seq(Rows) : Produce(r, op, d, rows) /\ Change(d, rows)

(* An operation is known by the rows it commits with its change.            *)
LEMMA ByItsRows ==
  ASSUME NEW r, NEW op, NEW d \in Domains, NEW rows \in Seq(Rows),
         Produce(r, op, d, rows), Change(d, rows)
  PROVE  Produces(r)
<1>1. op \in used
  BY DEF Produce
<1> QED
  BY <1>1 DEF Produces

(* An operation that commits one change, which is no transfer.              *)
LEMMA ByOneRow ==
  ASSUME Typed, NEW r, NEW op, NEW d \in Domains, d.owner = domain.owner,
         NEW adds \in SUBSET Tuples, NEW dels \in SUBSET Tuples, Creators(adds) = {}, Creators(dels) = {},
         NEW how \in {"direct", "ordered"}, NEW by \in {"replica", "path", Nobody},
         Produce(r, op, d, <<Row(adds, dels, how, by)>>)
  PROVE  Produces(r)
<1> DEFINE x == Row(adds, dels, how, by)
<1>1. Len(outbox) < MaxRows
  BY OutboxAssumption DEF Produce, Typed
<1>2. x \in Rows
  BY <1>1, RowOfChange DEF Workers
<1>3. x.state = "pending" /\ x.attempts = 0 /\ x.how = how /\ x.adds = adds /\ x.dels = dels
  BY DEF Row
<1> HIDE DEF x
<1>4. Change(d, <<x>>)
  BY <1>2, <1>3, OneRow
<1>5. <<x>> \in Seq(Rows)
  BY <1>2
<1> QED
  BY <1>4, <1>5, ByItsRows DEF x

(* An operation that commits a removal and, behind it, an addition.         *)
LEMMA ByTwoRows ==
  ASSUME Typed, NEW r, NEW op, NEW d \in Domains, d.owner = domain.owner,
         NEW dels \in SUBSET Tuples, NEW adds \in SUBSET Tuples, Creators(adds) = {}, Creators(dels) = {},
         NEW by \in {"path", Nobody},
         Produce(r, op, d, <<Row({}, dels, "ordered", by), Row(adds, {}, "ordered", by)>>)
  PROVE  Produces(r)
<1> DEFINE x == Row({}, dels, "ordered", by)
           y == Row(adds, {}, "ordered", by)
<1>1. Len(outbox) < MaxRows
  BY OutboxAssumption DEF Produce, Typed
<1>2. x \in Rows /\ y \in Rows
  BY <1>1, RowOfChange DEF Workers
<1>3. /\ x.state = "pending" /\ x.attempts = 0 /\ x.how = "ordered" /\ x.adds = {} /\ x.dels = dels
      /\ y.state = "pending" /\ y.attempts = 0 /\ y.how = "ordered" /\ y.adds = adds /\ y.dels = {}
  BY DEF Row
<1>4. Creators({}) = {}
  BY DEF Creators
<1> HIDE DEF x, y
<1>5. Change(d, <<x, y>>)
  BY <1>2, <1>3, <1>4, TwoRows
<1>6. <<x, y>> \in Seq(Rows)
  BY <1>2
<1> QED
  BY <1>5, <1>6, ByItsRows DEF x, y

(* Joining, removal, leaving and a change of role commit such changes.      *)
LEMMA RoleProduces ==
  ASSUME Typed, NEW r, NEW p \in People, NEW to \in Roles,
         Accept(r, p) \/ Remove(r, p) \/ Leave(r, p) \/ ChangeRole(r, p, to)
  PROVE  Produces(r)
<1>a. {} \in SUBSET Tuples /\ "participant" \in Roles
  BY DEF Roles
<1>b. \A role \in Roles \cup {"none"} : /\ [domain EXCEPT !.role[p] = role] \in Domains
                                        /\ [domain EXCEPT !.role[p] = role].owner = domain.owner
  BY DEF Typed, Domains
<1>c. domain.role[p] # "none" => domain.role[p] \in Roles
  BY DEF Typed, Domains
<1>1. CASE Accept(r, p)
  BY <1>a, <1>b, <1>1, RoleNamesNoCreator, ByOneRow DEF Accept
<1>2. CASE Remove(r, p)
  BY ZenonT(60), <1>a, <1>b, <1>c, <1>2, RoleNamesNoCreator, ByOneRow DEF Remove
<1>3. CASE Leave(r, p)
  BY <1>a, <1>b, <1>c, <1>3, RoleNamesNoCreator, ByOneRow DEF Leave
<1>4. CASE ChangeRole(r, p, to)
  BY <1>a, <1>b, <1>c, <1>4, RoleNamesNoCreator, ByTwoRows DEF ChangeRole
<1> QED
  BY <1>1, <1>2, <1>3, <1>4

(* So do following, unfollowing and the removal of a follower.              *)
LEMMA FollowProduces ==
  ASSUME Typed, NEW r, NEW p \in People, Follow(r, p) \/ Unfollow(r, p) \/ RemoveFollower(r, p)
  PROVE  Produces(r)
<1>a. {} \in SUBSET Tuples
  OBVIOUS
<1>b. \A f \in {domain.follows \cup {p}, domain.follows \ {p}} :
        [domain EXCEPT !.follows = f] \in Domains /\ [domain EXCEPT !.follows = f].owner = domain.owner
  BY DEF Typed, Domains
<1>1. CASE Follow(r, p)
  BY <1>a, <1>b, <1>1, RoleNamesNoCreator, ByOneRow DEF Follow
<1>2. CASE Unfollow(r, p)
  BY <1>a, <1>b, <1>2, RoleNamesNoCreator, ByOneRow DEF Unfollow
<1>3. CASE RemoveFollower(r, p)
  <2> DEFINE d == [domain EXCEPT !.follows = @ \ {p}]
             dels == {<<"follower", p>>}
             x == [Row({}, dels, "direct", "replica") EXCEPT !.fenced = TRUE]
  <2>1. Produce(r, "remove_follower", d, <<x>>)
    BY <1>3 DEF RemoveFollower
  <2>2. Len(outbox) < MaxRows
    BY <2>1, OutboxAssumption DEF Produce, Typed
  <2>3. Row({}, dels, "direct", "replica") \in Rows
    BY <1>a, <2>2, RoleNamesNoCreator, RowOfChange DEF Workers
  <2>4. x \in Rows
    BY <2>3 DEF Rows
  <2>5. /\ x.state = "pending" /\ x.attempts = 0 /\ x.how # "batch"
        /\ Creators(x.adds) = {} /\ Creators(x.dels) = {}
    BY RoleNamesNoCreator DEF Row
  <2> HIDE DEF x
  <2>6. Change(d, <<x>>)
    BY <1>b, <2>4, <2>5, OneRow
  <2>7. <<x>> \in Seq(Rows)
    BY <2>4
  <2>8. d \in Domains
    BY <1>b
  <2> HIDE DEF d
  <2> QED
    BY <2>1, <2>6, <2>7, <2>8, ByItsRows
<1> QED
  BY <1>1, <1>2, <1>3

(* Two rows behind each other.                                              *)
LEMMA PairOfRows == \A a, b : <<a>> \o <<b>> = <<a, b>>
<1> SUFFICES ASSUME NEW a, NEW b PROVE <<a>> \o <<b>> = <<a, b>>
  OBVIOUS
<1>1. <<a>> \in Seq({a, b}) /\ <<b>> \in Seq({a, b})
  OBVIOUS
<1>2. /\ <<a>> \o <<b>> \in Seq({a, b}) /\ Len(<<a>> \o <<b>>) = 2
      /\ (<<a>> \o <<b>>)[1] = a /\ (<<a>> \o <<b>>)[2] = b
  BY <1>1
<1>3. <<a, b>> \in Seq({a, b}) /\ Len(<<a, b>>) = 2 /\ <<a, b>>[1] = a /\ <<a, b>>[2] = b
  OBVIOUS
<1>4. \A i \in 1..Len(<<a>> \o <<b>>) : (<<a>> \o <<b>>)[i] = <<a, b>>[i]
  BY <1>2, <1>3
<1> QED
  BY <1>2, <1>3, <1>4, SeqEqual

(* So does the visibility: the old audience goes and the new one comes, or  *)
(* either alone.                                                            *)
LEMMA VisibilityProduces ==
  ASSUME Typed, NEW r, NEW v \in Audience, SetVisibility(r, v)
  PROVE  Produces(r)
<1> DEFINE old == AudienceOf(domain.audience, domain.owner)
           new == AudienceOf(v, domain.owner)
           d == [domain EXCEPT !.audience = v]
<1>1. old \in SUBSET Tuples /\ new \in SUBSET Tuples /\ Creators(old) = {} /\ Creators(new) = {} /\ Creators({}) = {}
  BY AudienceNamesNoCreator DEF Typed, Domains, Creators
<1>2. d \in Domains /\ d.owner = domain.owner
  BY DEF Typed, Domains
<1>3. Produce(r, "visibility", d,
              (IF old = {} THEN << >> ELSE <<Row({}, old, "ordered", Nobody)>>) \o
              (IF new = {} THEN << >> ELSE <<Row(new, {}, "ordered", Nobody)>>))
  BY DEF SetVisibility
<1> HIDE DEF old, new, d
<1> DEFINE x == Row({}, old, "ordered", Nobody)
           y == Row(new, {}, "ordered", Nobody)
<1>4. CASE old = {} /\ new = {}
  <2>1. domain.audience = "private" /\ v = "private"
    BY <1>4 DEF old, new, AudienceOf, Audience, Typed, Domains
  <2> QED
    BY <2>1 DEF SetVisibility
<1>5. CASE old = {} /\ new # {}
  <2>1. << >> \o <<y>> = <<y>>
    OBVIOUS
  <2>2. Produce(r, "visibility", d, <<y>>)
    BY <1>3, <1>5, <2>1
  <2> QED
    BY <1>1, <1>2, <2>2, ByOneRow
<1>6. CASE old # {} /\ new = {}
  <2>1. <<x>> \o << >> = <<x>>
    OBVIOUS
  <2>2. Produce(r, "visibility", d, <<x>>)
    BY <1>3, <1>6, <2>1
  <2> QED
    BY <1>1, <1>2, <2>2, ByOneRow
<1>7. CASE old # {} /\ new # {}
  <2>1. Produce(r, "visibility", d, <<x>> \o <<y>>)
    BY <1>3, <1>7
  <2>2. Produce(r, "visibility", d, <<x, y>>)
    BY <2>1, PairOfRows
  <2> QED
    BY <1>1, <1>2, <2>2, ByTwoRows
<1> QED
  BY <1>4, <1>5, <1>6, <1>7

(* A transfer commits one batch, from the owner to the recipient.           *)
LEMMA TransferProduces ==
  ASSUME Typed, NEW r, NEW p \in People, Transfer(r, p)
  PROVE  Produces(r)
<1> DEFINE o == domain.owner
<1>1. PICK v \in Audience, adds \in SUBSET Tuples, dels \in SUBSET Tuples :
        /\ Produce(r, "transfer",
                [domain EXCEPT !.owner = p, !.audience = v, !.role[p] = "participant", !.role[o] = "administrator"],
                <<Row({<<"creator", p>>, <<"administrator", o>>} \cup adds,
                      {<<"creator", o>>, <<"administrator", p>>} \cup dels, "batch", Nobody)>>)
        /\ Creators(adds) = {} /\ Creators(dels) = {}
  <2>1. PICK v \in Audience : 
          LET moved == domain.audience = "followers" \/ v # domain.audience IN
          Produce(r, "transfer",
                [domain EXCEPT !.owner = p, !.audience = v, !.role[p] = "participant", !.role[o] = "administrator"],
            <<Row({<<"creator", p>>, <<"administrator", o>>} \cup (IF moved THEN AudienceOf(v, p) ELSE {}),
                  {<<"creator", o>>, <<"administrator", p>>}
                      \cup (IF moved THEN AudienceOf(domain.audience, o) ELSE {}),
                  "batch", Nobody)>>)
    BY DEF Transfer, Typed, Domains, Audience
  <2> DEFINE moved == domain.audience = "followers" \/ v # domain.audience
             adds == IF moved THEN AudienceOf(v, p) ELSE {}
             dels == IF moved THEN AudienceOf(domain.audience, o) ELSE {}
  <2>2. o \in People /\ domain.audience \in Audience
    BY DEF Typed, Domains
  <2>3. /\ adds \in SUBSET Tuples /\ Creators(adds) = {}
        /\ dels \in SUBSET Tuples /\ Creators(dels) = {}
    BY <2>2, AudienceNamesNoCreator DEF Creators
  <2> QED
    BY <2>1, <2>3
<1>2. Creates /\ o \in People
  BY DEF Transfer, Typed, Domains
<1> DEFINE d == [domain EXCEPT !.owner = p, !.audience = v, !.role[p] = "participant", !.role[o] = "administrator"]
           more == {<<"creator", p>>, <<"administrator", o>>} \cup adds
           less == {<<"creator", o>>, <<"administrator", p>>} \cup dels
           x == Row(more, less, "batch", Nobody)
<1>3. d \in Domains /\ d.owner = p
  BY <1>2 DEF Typed, Domains, Roles
<1>4. more \in SUBSET Tuples /\ less \in SUBSET Tuples
  BY <1>2 DEF Tuples, Roles
<1>5. Creators(more) = {<<"creator", p>>} /\ Creators(less) = {<<"creator", o>>}
  BY <1>1 DEF Creators
<1>6. Produce(r, "transfer", d, <<x>>)
  BY <1>1
<1> HIDE DEF d, more, less
<1>7. Len(outbox) < MaxRows
  BY <1>6, OutboxAssumption DEF Produce, Typed
<1>8. x \in Rows
  BY <1>4, <1>7, RowOfChange
<1>9. /\ x.state = "pending" /\ x.attempts = 0 /\ x.how = "batch" /\ x.by = Nobody
      /\ x.adds = more /\ x.dels = less
  BY DEF Row
<1> HIDE DEF x
<1>10. Change(d, <<x>>)
  BY <1>2, <1>3, <1>5, <1>8, <1>9 DEF Change
<1>11. <<x>> \in Seq(Rows)
  BY <1>8
<1> QED
  BY <1>3, <1>6, <1>10, <1>11, ByItsRows

(* Every operation commits its change together with such rows.              *)
LEMMA OperationProduces ==
  ASSUME Typed, NEW r, Operation(r) PROVE Produces(r)
  BY RoleProduces, FollowProduces, VisibilityProduces, TransferProduces DEF Operation, Roles


-----------------------------------------------------------------------------
(* The initial states and the operations                                    *)

(* Initially there are no changes, and the founder is the creator.          *)
LEMMA OutboxInvHoldsAtFirst == OutboxInit => OutboxInv
<1> SUFFICES ASSUME OutboxInit PROVE OutboxInv
  OBVIOUS
<1>1. PICK members \in SUBSET People, followers \in SUBSET (People \ {Founder}) :
        domain = [owner |-> Founder, audience |-> "private", follows |-> followers,
                  role |-> [p \in People |-> IF p \in members THEN "participant" ELSE "none"]]
  BY DEF OutboxInit
<1>2. domain \in Domains /\ domain.owner \in People
  BY <1>1, OutboxAssumption DEF Domains, Audience, Roles
<1>3. outbox = << >> /\ outbox \in Seq(Rows) /\ Len(outbox) = 0 /\ DOMAIN outbox = {}
  BY DEF OutboxInit
<1>4. relations = Implied(domain) /\ AudienceOf(domain.audience, domain.owner) = {}
  BY <1>1 DEF OutboxInit, AudienceOf
<1>5. relations \subseteq Tuples
  BY <1>2, <1>4 DEF Implied, Tuples, Domains
<1>6. Creators(relations) = {<<"creator", domain.owner>>}
  BY <1>2, <1>4 DEF Implied, Creators, Domains, Roles
<1>7. Idle \in Jobs
  BY OutboxAssumption DEF Idle, Jobs
<1>8. Typed
  BY <1>2, <1>3, <1>5, <1>7, OutboxAssumption DEF Typed, OutboxInit
<1>9. JobFits /\ WriterFits
  BY <1>3 DEF OutboxInit, JobFits, WriterFits, Idle
<1> QED
  BY <1>2, <1>3, <1>6, <1>8, <1>9
     DEF OutboxInit, OutboxInv, LeaseFits, TransferFits, CreatorFits, ToldIsDone

(* What an operation leaves: the old rows as they were, and new ones behind *)
(* them.  A second transfer waits for the first: it starts where that one ends. *)
LEMMA OperationKeeps ==
  ASSUME OutboxInv, NEW r \in Requests, Operation(r)
  PROVE  OutboxInv'
<1>1. PICK op \in used, d \in Domains, rows \in Seq(Rows) : Produce(r, op, d, rows) /\ Change(d, rows)
  BY OperationProduces DEF OutboxInv, Produces
<1>0. PICK n \in Nat : n = Len(outbox)
  BY DEF OutboxInv, Typed
<1>2. Len(rows) \in Nat /\ n + Len(rows) <= MaxRows /\ DOMAIN outbox = 1..n /\ DOMAIN rows = 1..Len(rows)
  BY <1>0, <1>1 DEF OutboxInv, Typed, Produce
<1>3. /\ outbox' \in Seq(Rows) /\ Len(outbox') = n + Len(rows) /\ DOMAIN outbox' = 1..(n + Len(rows))
      /\ \A i \in 1..n : outbox'[i] = outbox[i]
      /\ \A k \in 1..Len(rows) : outbox'[n + k] = rows[k]
  BY <1>0, <1>1, <1>2, ConcatProperties DEF OutboxInv, Typed, Produce
<1>4. /\ domain' = d /\ UNCHANGED <<relations, serializer, told>>
      /\ job[r] = Idle /\ serializer = Nobody
  BY <1>1 DEF Produce
<1>21. /\ Len(rows) > 0 /\ 1 \in 1..Len(rows) /\ rows # << >> /\ rows[1] \in Rows
       /\ \A k \in 1..Len(rows) : /\ rows[k].state = "pending" /\ rows[k].attempts = 0
                                  /\ rows[k].how = rows[1].how
                                  /\ rows[k].how \in {"direct", "batch"} => Len(rows) = 1
  <2>1. 1 \in 1..Len(rows)
    BY <1>1, <1>2 DEF Change
  <2> QED
    BY <1>1, <1>2, <2>1, EmptySeq DEF Change
<1>22. \/ /\ d.owner = domain.owner
          /\ \A k \in 1..Len(rows) : /\ rows[k].how # "batch"
                                     /\ Creators(rows[k].adds) = {} /\ Creators(rows[k].dels) = {}
       \/ rows[1].how = "batch"
  BY <1>1, <1>2 DEF Change
<1>5. \A i \in 1..(n + Len(rows)) : i \in 1..n \/ \E k \in 1..Len(rows) : i = n + k
  <2> SUFFICES ASSUME NEW i \in 1..(n + Len(rows)), i \notin 1..n PROVE \E k \in 1..Len(rows) : i = n + k
    OBVIOUS
  <2>1. i - n \in 1..Len(rows) /\ i = n + (i - n)
    BY <1>2
  <2> QED
    BY <2>1
<1>6. PICK how \in {"direct", "ordered", "batch"} : how = rows[1].how
  BY <1>21 DEF Rows
<1>24. /\ \A k \in 1..Len(rows) : rows[k].how = how
       /\ how \in {"direct", "batch"} => Len(rows) = 1
  BY <1>6, <1>21
<1> DEFINE j == [pc |-> IF how = "direct" THEN "enter" ELSE "claim", mode |-> how, row |-> n + 1,
              as |-> IF how = "ordered" THEN "path" ELSE "replica",
              mine |-> {n + k : k \in 1..Len(rows)}]
<1>7. /\ j.pc \in {"enter", "claim"} /\ (j.pc = "enter" => how = "direct") /\ j.mode = how
      /\ j.row = n + 1 /\ j.as \in {"path", "replica"} /\ j.mine = {n + k : k \in 1..Len(rows)}
  OBVIOUS
<1>23. job' = [job EXCEPT ![r] = j]
  BY <1>0, <1>1, <1>2, <1>6, <1>21 DEF Produce
<1>8. r \in Procs /\ job'[r] = j /\ \A p \in Procs \ {r} : job'[p] = job[p]
  BY <1>23 DEF Procs, OutboxInv, Typed
<1> HIDE DEF j
<1>9. Len(rows) > 0 /\ n + 1 \in 1..(n + Len(rows)) /\ outbox'[n + 1] = rows[1] /\ 1 \in 1..Len(rows)
  BY <1>1, <1>2, <1>3 DEF Change
<1>10. j.mine \subseteq 1..(n + Len(rows)) /\ (Len(rows) = 1 => j.mine = {n + 1})
  <2>1. ASSUME NEW k \in 1..Len(rows) PROVE n + k \in 1..(n + Len(rows)) /\ (Len(rows) = 1 => k = 1)
    BY <1>2
  <2> QED
    BY <1>7, <1>9, <2>1
<1>11. j \in Jobs
  <2>1. n + 1 \in 0..MaxRows /\ j.mine \subseteq 1..MaxRows
    BY <1>2, <1>9, <1>10, OutboxAssumption
  <2>2. {"path", "replica"} \subseteq Workers \cup {Nobody} /\ {n + k : k \in 1..Len(rows)} \in SUBSET (1..MaxRows)
    BY <1>7, <2>1 DEF Workers
  <2> QED
    BY <2>1, <2>2 DEF Jobs, j
<1>12. Typed'
  <2>1. job' \in [Procs -> Jobs]
    BY <1>8, <1>11, <1>23 DEF OutboxInv, Typed
  <2>2. told \subseteq 1..n
    BY <1>2 DEF OutboxInv, Typed
  <2>3. told' \subseteq DOMAIN outbox'
    BY <1>2, <1>3, <1>4, <2>2
  <2> QED
    BY <1>2, <1>3, <1>4, <2>1, <2>3 DEF OutboxInv, Typed
<1>13. LeaseFits'
  <2>1. ASSUME NEW i \in 1..n
        PROVE  /\ outbox'[i].by # Nobody => outbox'[i].state = "pending"
               /\ outbox'[i].state = "pending" => outbox'[i].attempts < MaxAttempts
    BY <1>2, <1>3 DEF OutboxInv, LeaseFits
  <2>2. ASSUME NEW k \in 1..Len(rows)
        PROVE  outbox'[n + k].state = "pending" /\ outbox'[n + k].attempts < MaxAttempts
    BY <1>3, <1>21, OutboxAssumption
  <2>3. ASSUME NEW i \in 1..(n + Len(rows))
        PROVE  /\ outbox'[i].by # Nobody => outbox'[i].state = "pending"
               /\ outbox'[i].state = "pending" => outbox'[i].attempts < MaxAttempts
    BY <1>5, <2>1, <2>2
  <2> QED
    BY <1>3, <2>3 DEF LeaseFits
<1>14. JobFits'
  <2>1. ASSUME NEW p \in Procs \ {r}
        PROVE  /\ job'[p].pc # "idle" => job'[p].as # Nobody
               /\ job'[p].pc \in {"enter", "write", "complete", "fail"} => job'[p].row \in DOMAIN outbox'
               /\ job'[p].mine \subseteq DOMAIN outbox'
               /\ job'[p].mode \in {"direct", "batch"} => job'[p].mine = {job'[p].row}
               /\ job'[p].mode = "ordered" => \A i \in job'[p].mine : outbox'[i].how # "batch"
               /\ job'[p].mode \in {"none", "sweep"} => job'[p].mine = {}
               /\ job'[p].pc \in {"write", "complete"} => serializer' = p
               /\ job'[p].pc = "write" => outbox'[job'[p].row].state # "done"
    <3>1. job'[p] = job[p] /\ (\A i \in DOMAIN outbox : i \in DOMAIN outbox' /\ outbox'[i] = outbox[i])
      BY <1>2, <1>3, <1>8
    <3> QED
      BY <1>4, <3>1 DEF OutboxInv, JobFits, Incomplete
  <2>2. /\ j.as # Nobody /\ j.row \in DOMAIN outbox' /\ j.mine \subseteq DOMAIN outbox'
        /\ j.mode \in {"direct", "batch"} => j.mine = {j.row}
        /\ j.mode = "ordered" => \A i \in j.mine : outbox'[i].how # "batch"
        /\ j.mode \notin {"none", "sweep"} /\ j.pc \notin {"write", "complete"}
    <3>1. j.as # Nobody /\ j.mode \notin {"none", "sweep"} /\ j.pc \notin {"write", "complete"}
      BY <1>7, OutboxAssumption
    <3>2. j.row \in DOMAIN outbox' /\ j.mine \subseteq DOMAIN outbox'
      BY <1>3, <1>7, <1>9, <1>10
    <3>3. j.mode \in {"direct", "batch"} => j.mine = {j.row}
      BY <1>7, <1>10, <1>24
    <3>4. j.mode = "ordered" => \A i \in j.mine : outbox'[i].how # "batch"
      BY <1>3, <1>7, <1>24
    <3> QED
      BY <3>1, <3>2, <3>3, <3>4
  <2> QED
    BY <1>8, <2>1, <2>2 DEF JobFits, Incomplete
<1>15. \A i \in 1..n : Incomplete(i)' <=> Incomplete(i)
  BY <1>3 DEF Incomplete
<1>16. \A i \in 1..n : Earliest(i) => Earliest(i)'
  BY <1>2, <1>15 DEF Earliest
<1>17. WriterFits'
  BY <1>2, <1>3, <1>7, <1>8, <1>16 DEF OutboxInv, JobFits, WriterFits, Batch
<1>18. \A k \in 1..Len(rows) : /\ outbox'[n + k].how = how /\ outbox'[n + k].state = "pending"
                               /\ outbox'[n + k].adds = rows[k].adds /\ outbox'[n + k].dels = rows[k].dels
                               /\ outbox'[n + k].by = rows[k].by
  BY <1>3, <1>21, <1>24
<1>19. CASE how # "batch"
  <2>1. /\ d.owner = domain.owner
        /\ \A k \in 1..Len(rows) : Creators(rows[k].adds) = {} /\ Creators(rows[k].dels) = {}
    BY <1>6, <1>19, <1>22, <1>24
  <2>2. \A i \in 1..(n + Len(rows)) : outbox'[i].how = "batch" => i \in 1..n
    BY <1>5, <1>18, <1>19
  <2>3. TransferFits'
    <3> SUFFICES ASSUME NEW i \in 1..(n + Len(rows))
                 PROVE  /\ outbox'[i].how # "batch" => Creators(outbox'[i].adds) = {} /\ Creators(outbox'[i].dels) = {}
                        /\ outbox'[i].how = "batch" => \E p \in People : Creators(outbox'[i].adds) = {<<"creator", p>>}
                        /\ outbox'[i].how = "batch" => outbox'[i].state # "dead"
                        /\ outbox'[i].how = "batch" /\ outbox'[i].state = "done" => Earliest(i)'
                        /\ outbox'[i].how = "batch" /\ outbox'[i].by # Nobody => Earliest(i)'
      BY <1>3 DEF TransferFits, Batch, Incomplete, Creators
    <3>1. CASE i \in 1..n
      BY <1>2, <1>3, <1>16, <3>1 DEF OutboxInv, TransferFits, Batch, Incomplete
    <3>2. CASE i \notin 1..n
      BY <1>5, <1>18, <1>19, <2>1, <3>2
    <3> QED
      BY <3>1, <3>2
  <2>4. CreatorFits'
    <3>1. \E p \in People : Creators(relations') = {<<"creator", p>>}
      BY <1>4 DEF OutboxInv, CreatorFits
    <3>2. ASSUME NEW i \in 1..(n + Len(rows)), outbox'[i].how = "batch", outbox'[i].state # "done"
          PROVE  /\ Creators(relations') \in {Creators(outbox'[i].adds), Creators(outbox'[i].dels)}
                 /\ \/ \E k \in DOMAIN outbox' : i < k /\ outbox'[k].how = "batch"
                    \/ Creators(outbox'[i].adds) = {<<"creator", domain'.owner>>}
                 /\ (\E k \in DOMAIN outbox' : i < k /\ outbox'[k].how = "batch") =>
                      Creators(relations') = Creators(outbox'[i].adds)
      <4>1. i \in DOMAIN outbox /\ outbox'[i] = outbox[i] /\ Batch(i) /\ Incomplete(i)
        BY <1>2, <1>3, <2>2, <3>2 DEF Batch, Incomplete
      <4>2. (\E k \in DOMAIN outbox' : i < k /\ outbox'[k].how = "batch") <=>
              (\E k \in DOMAIN outbox : i < k /\ Batch(k))
        BY <1>2, <1>3, <2>2 DEF Batch
      <4>3. /\ Creators(relations) \in {Creators(outbox[i].adds), Creators(outbox[i].dels)}
            /\ \/ \E k \in DOMAIN outbox : i < k /\ Batch(k)
               \/ Creators(outbox[i].adds) = {<<"creator", domain.owner>>}
            /\ (\E k \in DOMAIN outbox : i < k /\ Batch(k)) =>
                  Creators(relations) = Creators(outbox[i].adds)
        BY <4>1 DEF OutboxInv, CreatorFits
      <4> QED
        BY <1>4, <2>1, <4>1, <4>2, <4>3
    <3> QED
      BY <1>3, <3>1, <3>2 DEF CreatorFits, Batch, Incomplete, Creators
  <2> QED
    BY <1>12, <1>13, <1>14, <1>17, <2>3, <2>4, <1>2, <1>4, <1>15 DEF OutboxInv, Typed, ToldIsDone
<1>20. CASE how = "batch"
  <2>1. /\ Creates /\ Len(rows) = 1 /\ rows[1].by = Nobody
        /\ Creators(rows[1].adds) = {<<"creator", d.owner>>} /\ Creators(rows[1].dels) = {<<"creator", domain.owner>>}
    BY <1>1, <1>2, <1>6, <1>20, <1>24 DEF Change
  <2>2. /\ outbox'[n + 1].how = "batch" /\ outbox'[n + 1].state = "pending" /\ outbox'[n + 1].by = Nobody
        /\ Creators(outbox'[n + 1].adds) = {<<"creator", d.owner>>}
        /\ Creators(outbox'[n + 1].dels) = {<<"creator", domain.owner>>}
    BY <1>9, <1>18, <1>20, <2>1
  <2>3. \A i \in 1..(n + Len(rows)) : i \in 1..n \/ i = n + 1
    BY <1>2, <2>1
  <2>4. TransferFits'
    <3> SUFFICES ASSUME NEW i \in 1..(n + Len(rows))
                 PROVE  /\ outbox'[i].how # "batch" => Creators(outbox'[i].adds) = {} /\ Creators(outbox'[i].dels) = {}
                        /\ outbox'[i].how = "batch" => \E p \in People : Creators(outbox'[i].adds) = {<<"creator", p>>}
                        /\ outbox'[i].how = "batch" => outbox'[i].state # "dead"
                        /\ outbox'[i].how = "batch" /\ outbox'[i].state = "done" => Earliest(i)'
                        /\ outbox'[i].how = "batch" /\ outbox'[i].by # Nobody => Earliest(i)'
      BY <1>3 DEF TransferFits, Batch, Incomplete, Creators
    <3>1. CASE i \in 1..n
      BY <1>2, <1>3, <1>16, <3>1 DEF OutboxInv, TransferFits, Batch, Incomplete
    <3>2. CASE i = n + 1
      BY <2>2, <3>2 DEF Domains
    <3> QED
      BY <2>3, <3>1, <3>2
  <2>5. Creators(relations) = {<<"creator", domain.owner>>}
    BY <2>1 DEF OutboxInv, CreatorFits, Creates, Creators
  <2>6. \A i \in 1..n : outbox[i].how = "batch" /\ outbox[i].state # "done" =>
            Creators(outbox[i].adds) = {<<"creator", domain.owner>>}
    BY <1>2, <2>5 DEF OutboxInv, CreatorFits, Batch, Incomplete
  <2>7. CreatorFits'
    <3>1. \E p \in People : Creators(relations') = {<<"creator", p>>}
      BY <1>4 DEF OutboxInv, CreatorFits
    <3>2. ASSUME NEW i \in 1..(n + Len(rows)), outbox'[i].how = "batch", outbox'[i].state # "done"
          PROVE  /\ Creators(relations') \in {Creators(outbox'[i].adds), Creators(outbox'[i].dels)}
                 /\ \/ \E k \in DOMAIN outbox' : i < k /\ outbox'[k].how = "batch"
                    \/ Creators(outbox'[i].adds) = {<<"creator", domain'.owner>>}
                 /\ (\E k \in DOMAIN outbox' : i < k /\ outbox'[k].how = "batch") =>
                      Creators(relations') = Creators(outbox'[i].adds)
      <4>1. CASE i \in 1..n
        <5>1. n + 1 \in DOMAIN outbox' /\ i < n + 1
          BY <1>2, <1>3, <1>9, <4>1
        <5>2. Creators(relations') = Creators(outbox'[i].adds)
          BY <1>3, <1>4, <2>5, <2>6, <3>2, <4>1
        <5> QED
          BY <2>2, <5>1, <5>2
      <4>2. CASE i = n + 1
        <5>1. ~\E k \in DOMAIN outbox' : i < k
          BY <1>2, <1>3, <2>1, <4>2
        <5>2. Creators(relations') = Creators(outbox'[i].dels) /\ Creators(outbox'[i].adds) = {<<"creator", domain'.owner>>}
          BY <1>4, <2>2, <2>5, <4>2
        <5> QED
          BY <5>1, <5>2
      <4> QED
        BY <2>3, <4>1, <4>2
    <3> QED
      BY <1>3, <3>1, <3>2 DEF CreatorFits, Batch, Incomplete, Creators
  <2> QED
    BY <1>12, <1>13, <1>14, <1>17, <2>4, <2>7, <1>2, <1>4, <1>15 DEF OutboxInv, Typed, ToldIsDone
<1> QED
  BY <1>19, <1>20

-----------------------------------------------------------------------------
(* The steps of the handlers                                                *)

(* Among the rows with a property there is a first one.                     *)
LEMMA FirstUnfinished ==
  ASSUME NEW T \in SUBSET Nat, T # {}
  PROVE  \E i \in T : \A j \in T : i <= j
<1> DEFINE R == OpToRel(<, Nat)
<1>1. IsWellFoundedOn(R, Nat)
  BY NatLessThanWellFounded
<1>2. \A x, y \in Nat : x < y => <<x, y>> \in R
  BY DEF OpToRel
<1> HIDE DEF R
<1>3. PICK i \in T : \A j \in T : ~(<<j, i>> \in R)
  BY <1>1, WFMin
<1>4. \A j \in T : ~(j < i)
  BY <1>2, <1>3
<1> QED
  BY <1>4

(* What becomes of the rows, when one is leased, completed or given up.    *)
RowMoves(i, x) ==
    /\ outbox' = [outbox EXCEPT ![i] = x]
    /\ x.adds = outbox[i].adds /\ x.dels = outbox[i].dels /\ x.how = outbox[i].how
    /\ x.by # Nobody => x.state = "pending"
    /\ x.state = "pending" => x.attempts < MaxAttempts
    /\ ~Incomplete(i) => x.state = "done"
    /\ Batch(i) => x.state # "dead"
    /\ Batch(i) /\ (x.state = "done" \/ x.by # Nobody) => Earliest(i)

(* One row moves: its changes stay as they were, and a transfer is finished or *)
(* leased only in turn.                                                     *)
LEMMA RowMoveKeeps ==
  ASSUME OutboxInv, NEW i \in DOMAIN outbox, NEW x \in Rows, RowMoves(i, x), UNCHANGED <<domain, relations>>
  PROVE  /\ outbox' \in Seq(Rows) /\ Len(outbox') <= MaxRows /\ DOMAIN outbox' = DOMAIN outbox
         /\ outbox'[i] = x /\ \A k \in DOMAIN outbox : outbox'[k].how = outbox[k].how
         /\ \A k \in DOMAIN outbox \ {i} : outbox'[k] = outbox[k]
         /\ \A k \in DOMAIN outbox : outbox[k].state = "done" => outbox'[k].state = "done"
         /\ LeaseFits' /\ TransferFits' /\ CreatorFits'
<1>0. /\ outbox \in Seq(Rows) /\ Len(outbox) <= MaxRows /\ DOMAIN outbox = 1..Len(outbox)
  BY DEF OutboxInv, Typed
<1>1. /\ outbox' \in Seq(Rows) /\ Len(outbox') <= MaxRows /\ DOMAIN outbox' = DOMAIN outbox
      /\ outbox'[i] = x /\ \A k \in DOMAIN outbox \ {i} : outbox'[k] = outbox[k]
  BY <1>0 DEF RowMoves
<1>2. \A k \in DOMAIN outbox : /\ outbox'[k].how = outbox[k].how /\ outbox'[k].adds = outbox[k].adds
                               /\ outbox'[k].dels = outbox[k].dels
                               /\ outbox[k].state = "done" => outbox'[k].state = "done"
  BY <1>1 DEF RowMoves, Incomplete
<1>3. LeaseFits'
  BY <1>1 DEF RowMoves, OutboxInv, LeaseFits
<1>4. \A k \in DOMAIN outbox : Earliest(k) => \A m \in 1..(k - 1) : outbox'[m].state = "done"
  BY <1>0, <1>2 DEF Earliest, Incomplete
<1>5. TransferFits'
  <2> SUFFICES ASSUME NEW k \in DOMAIN outbox
               PROVE  /\ outbox'[k].how # "batch" => Creators(outbox'[k].adds) = {} /\ Creators(outbox'[k].dels) = {}
                      /\ outbox'[k].how = "batch" => \E p \in People : Creators(outbox'[k].adds) = {<<"creator", p>>}
                      /\ outbox'[k].how = "batch" => outbox'[k].state # "dead"
                      /\ outbox'[k].how = "batch" /\ outbox'[k].state = "done" => \A m \in 1..(k - 1) : outbox'[m].state = "done"
                      /\ outbox'[k].how = "batch" /\ outbox'[k].by # Nobody => \A m \in 1..(k - 1) : outbox'[m].state = "done"
    BY <1>1 DEF TransferFits, Batch, Incomplete, Earliest, Creators
  <2>1. CASE k = i
    <3>1. /\ ~Batch(i) => Creators(outbox[i].adds) = {} /\ Creators(outbox[i].dels) = {}
          /\ Batch(i) => \E p \in People : Creators(outbox[i].adds) = {<<"creator", p>>}
      BY DEF OutboxInv, TransferFits
    <3>2. outbox'[i] = x /\ x.adds = outbox[i].adds /\ x.dels = outbox[i].dels /\ (x.how = "batch" <=> Batch(i))
      BY <1>1 DEF RowMoves, Batch
    <3>3. Batch(i) => x.state # "dead" /\ (x.state = "done" \/ x.by # Nobody => Earliest(i))
      BY DEF RowMoves
    <3> QED
      BY <1>4, <2>1, <3>1, <3>2, <3>3
  <2>2. CASE k # i
    BY <1>1, <1>4, <2>2 DEF OutboxInv, TransferFits, Batch, Incomplete
  <2> QED
    BY <2>1, <2>2
<1>6. CreatorFits'
  <2>1. \A k \in DOMAIN outbox : (outbox'[k].how = "batch" <=> Batch(k)) /\ (outbox'[k].state # "done" => Incomplete(k))
    BY <1>2 DEF Batch, Incomplete
  <2> QED
    BY <1>1, <1>2, <2>1 DEF OutboxInv, CreatorFits, Batch, Incomplete, Creators
<1> QED
  BY <1>1, <1>2, <1>3, <1>5, <1>6

(* A job goes on with the row, the lease and the rows of its own.           *)
LEMMA JobMoveKeeps ==
  ASSUME OutboxInv, NEW p \in Procs, NEW j \in Jobs,
         job' = [job EXCEPT ![p] = j],
         outbox' \in Seq(Rows), DOMAIN outbox' = DOMAIN outbox,
         \A k \in DOMAIN outbox : outbox'[k].how = outbox[k].how,
         \A k \in DOMAIN outbox : outbox[k].state = "done" => outbox'[k].state = "done",
         \A q \in Procs \ {p} : job[q].pc = "write" =>
             (outbox'[job[q].row].state = "done" => ~Incomplete(job[q].row)),
         \A q \in Procs \ {p} : job[q].pc \in {"write", "complete"} => serializer' = q,
         j.pc # "idle" => j.as # Nobody,
         j.pc \in {"enter", "write", "complete", "fail"} => j.row \in DOMAIN outbox,
         j.mine \subseteq DOMAIN outbox,
         j.mode \in {"direct", "batch"} => j.mine = {j.row},
         j.mode = "ordered" => \A i \in j.mine : outbox[i].how # "batch",
         j.mode \in {"none", "sweep"} => j.mine = {},
         j.pc \in {"write", "complete"} => serializer' = p,
         j.pc = "write" => UNCHANGED outbox /\ Incomplete(j.row) /\ (Batch(j.row) => Earliest(j.row))
  PROVE  JobFits' /\ WriterFits' /\ job' \in [Procs -> Jobs]
<1>1. job'[p] = j /\ (\A q \in Procs \ {p} : job'[q] = job[q]) /\ job' \in [Procs -> Jobs]
  BY DEF OutboxInv, Typed
<1>2. JobFits'
  BY <1>1 DEF OutboxInv, JobFits, Incomplete
<1>3. \A k \in DOMAIN outbox : Earliest(k) => \A m \in 1..(k - 1) : outbox'[m].state = "done"
  BY DEF OutboxInv, Typed, Earliest, Incomplete
<1>4. WriterFits'
  <2> SUFFICES ASSUME NEW q \in Procs, job'[q].pc = "write", outbox'[job'[q].row].how = "batch"
               PROVE  \A m \in 1..(job'[q].row - 1) : outbox'[m].state = "done"
    BY DEF WriterFits, Batch, Earliest, Incomplete
  <2>1. CASE q = p
    <3>1. job'[q].row = j.row /\ j.pc = "write" /\ j.row \in DOMAIN outbox
      BY <1>1, <2>1
    <3>2. Earliest(j.row)
      BY <3>1 DEF Batch
    <3> QED
      BY <1>3, <3>1, <3>2
  <2>2. CASE q # p
    <3>1. job'[q] = job[q] /\ job[q].pc = "write" /\ job[q].row \in DOMAIN outbox
      BY <1>1, <2>2 DEF OutboxInv, JobFits
    <3>2. Earliest(job[q].row)
      BY <3>1 DEF OutboxInv, WriterFits, Batch
    <3> QED
      BY <1>3, <3>1, <3>2
  <2> QED
    BY <2>1, <2>2
<1> QED
  BY <1>1, <1>2, <1>4

(* A job goes on without a change of a row.                                 *)
LEMMA JobAloneKeeps ==
  ASSUME OutboxInv, NEW p \in Procs, NEW j \in Jobs,
         job' = [job EXCEPT ![p] = j],
         UNCHANGED <<domain, outbox, relations>>,
         serializer' \in Procs \cup {Nobody},
         \A q \in Procs \ {p} : job[q].pc \in {"write", "complete"} => serializer' = q,
         told' \subseteq DOMAIN outbox, \A i \in told' : ~Incomplete(i),
         j.pc # "idle" => j.as # Nobody,
         j.pc \in {"enter", "write", "complete", "fail"} => j.row \in DOMAIN outbox,
         j.mine \subseteq DOMAIN outbox,
         j.mode \in {"direct", "batch"} => j.mine = {j.row},
         j.mode = "ordered" => \A i \in j.mine : outbox[i].how # "batch",
         j.mode \in {"none", "sweep"} => j.mine = {},
         j.pc \in {"write", "complete"} => serializer' = p,
         j.pc = "write" => Incomplete(j.row) /\ (Batch(j.row) => Earliest(j.row))
  PROVE  OutboxInv'
<1>0. /\ outbox' \in Seq(Rows) /\ DOMAIN outbox' = DOMAIN outbox
      /\ \A k \in DOMAIN outbox : outbox'[k] = outbox[k]
  BY DEF OutboxInv, Typed
<1>1. JobFits' /\ WriterFits' /\ job' \in [Procs -> Jobs]
  BY <1>0, JobMoveKeeps DEF Incomplete
<1>2. Typed' /\ ToldIsDone'
  BY <1>1 DEF OutboxInv, Typed, ToldIsDone, Incomplete
<1>3. LeaseFits' /\ TransferFits' /\ CreatorFits'
  BY DEF OutboxInv, LeaseFits, TransferFits, CreatorFits, Batch, Incomplete, Earliest, Creators
<1> QED
  BY <1>1, <1>2, <1>3 DEF OutboxInv

(* A handler that ends gives the serializer back.                           *)
LEMMA StopKeeps ==
  ASSUME OutboxInv, NEW p \in Procs, Stop(p),
         UNCHANGED <<domain, outbox, relations>>,
         serializer' \in Procs \cup {Nobody},
         \A q \in Procs \ {p} : job[q].pc \in {"write", "complete"} => serializer' = q,
         told' \subseteq DOMAIN outbox, \A i \in told' : ~Incomplete(i)
  PROVE  OutboxInv'
<1>1. Idle \in Jobs
  BY OutboxAssumption DEF Idle, Jobs
<1>2. Idle.pc = "idle" /\ Idle.mine = {} /\ Idle.mode = "none"
  BY DEF Idle
<1> QED
  BY <1>1, <1>2, JobAloneKeeps DEF Stop

(* A repeated request claims the change of the first one.                   *)
LEMMA RetryKeeps ==
  ASSUME OutboxInv, NEW r \in Requests, NEW i \in DOMAIN outbox, Retry(r, i) PROVE OutboxInv'
<1> DEFINE j == [pc |-> "claim", mode |-> outbox[i].how, row |-> i,
                 as |-> IF outbox[i].how = "ordered" THEN "path" ELSE "replica", mine |-> {i}]
<1>1. outbox[i] \in Rows /\ i \in 1..MaxRows /\ r \in Procs
  BY OutboxAssumption DEF OutboxInv, Typed, Procs
<1>2. /\ j.pc = "claim" /\ j.mode = outbox[i].how /\ j.row = i /\ j.mine = {i}
      /\ j.as \in {"path", "replica"} /\ j.as # Nobody
  BY OutboxAssumption
<1>3. j \in Jobs
  BY <1>1 DEF Jobs, Rows, Workers
<1>4. job' = [job EXCEPT ![r] = j] /\ UNCHANGED <<domain, outbox, relations, serializer, told>>
  BY DEF Retry
<1>5. j.mode \notin {"none", "sweep"}
  BY <1>1, <1>2 DEF Rows
<1>6. /\ serializer' \in Procs \cup {Nobody} /\ told' \subseteq DOMAIN outbox /\ (\A k \in told' : ~Incomplete(k))
      /\ \A q \in Procs : job[q].pc \in {"write", "complete"} => serializer' = q
  BY <1>4 DEF OutboxInv, Typed, ToldIsDone, JobFits
<1> HIDE DEF j
<1> QED
  BY <1>1, <1>2, <1>3, <1>4, <1>5, <1>6, JobAloneKeeps

(* A job goes on and its row is leased, completed or given up.              *)
LEMMA RowAndJobKeep ==
  ASSUME OutboxInv, NEW p \in Procs, NEW i \in DOMAIN outbox, NEW x \in Rows, NEW j \in Jobs,
         RowMoves(i, x), job' = [job EXCEPT ![p] = j], UNCHANGED <<domain, relations>>,
         serializer' \in Procs \cup {Nobody},
         \A q \in Procs \ {p} : job[q].pc \in {"write", "complete"} => serializer' = q,
         x.state = "done" => \A q \in Procs \ {p} : job[q].pc # "write",
         told' \subseteq DOMAIN outbox, \A k \in told' : ~Incomplete(k) \/ (k = i /\ x.state = "done"),
         j.pc \in {"idle", "claim", "enter"},
         j.pc # "idle" => j.as # Nobody,
         j.pc = "enter" => j.row \in DOMAIN outbox,
         j.mine \subseteq DOMAIN outbox,
         j.mode \in {"direct", "batch"} => j.mine = {j.row},
         j.mode = "ordered" => \A k \in j.mine : outbox[k].how # "batch",
         j.mode \in {"none", "sweep"} => j.mine = {}
  PROVE  OutboxInv'
<1>1. /\ outbox' \in Seq(Rows) /\ Len(outbox') <= MaxRows /\ DOMAIN outbox' = DOMAIN outbox
      /\ outbox'[i] = x /\ \A k \in DOMAIN outbox : outbox'[k].how = outbox[k].how
  BY RowMoveKeeps
<1>2. /\ \A k \in DOMAIN outbox \ {i} : outbox'[k] = outbox[k]
      /\ \A k \in DOMAIN outbox : outbox[k].state = "done" => outbox'[k].state = "done"
      /\ LeaseFits' /\ TransferFits' /\ CreatorFits'
  BY RowMoveKeeps
<1>3. \A q \in Procs \ {p} : job[q].pc = "write" =>
             (outbox'[job[q].row].state = "done" => ~Incomplete(job[q].row))
  BY <1>1, <1>2 DEF OutboxInv, JobFits, Incomplete
<1>4. JobFits' /\ WriterFits' /\ job' \in [Procs -> Jobs]
  BY <1>1, <1>2, <1>3, JobMoveKeeps
<1>5. Typed'
  BY <1>1, <1>4 DEF OutboxInv, Typed
<1>6. ToldIsDone'
  BY <1>1, <1>2 DEF ToldIsDone, Incomplete
<1> QED
  BY <1>2, <1>4, <1>5, <1>6 DEF OutboxInv

(* The claim of a row by the job that made it: a transfer is leased in turn.*)
LEMMA ClaimOwnKeeps ==
  ASSUME OutboxInv, NEW p \in Procs, ClaimOwn(p) PROVE OutboxInv'
<1> DEFINE i == job[p].row
<1>0. /\ job[p].pc = "claim" /\ job[p].mine = {i} /\ i \in DOMAIN outbox /\ job[p] \in Jobs
      /\ job[p].as # Nobody /\ outbox[i] \in Rows /\ job[p].mode \in {"direct", "batch"}
  BY DEF ClaimOwn, OutboxInv, JobFits, Typed
<1>1. UNCHANGED <<domain, relations, serializer>>
  BY DEF ClaimOwn
<1>2. /\ serializer' \in Procs \cup {Nobody} /\ told \subseteq DOMAIN outbox /\ (\A k \in told : ~Incomplete(k))
      /\ \A q \in Procs : job[q].pc \in {"write", "complete"} => serializer' = q
  BY <1>1 DEF OutboxInv, Typed, ToldIsDone, JobFits
<1>3. CASE Claimable(i) /\ Lease(i, job[p].as) /\ Become(p, "enter") /\ UNCHANGED told
  <2> DEFINE x == [outbox[i] EXCEPT !.by = job[p].as]
             j == [job[p] EXCEPT !.pc = "enter"]
  <2>1. /\ x \in Rows /\ x.by = job[p].as /\ x.state = "pending" /\ x.attempts = outbox[i].attempts
        /\ x.adds = outbox[i].adds /\ x.dels = outbox[i].dels /\ x.how = outbox[i].how
    BY <1>0, <1>3 DEF Rows, Jobs, Claimable
  <2>2. /\ j \in Jobs /\ j.pc = "enter" /\ j.row = i /\ j.mine = job[p].mine /\ j.mode = job[p].mode
        /\ j.as = job[p].as
    BY <1>0 DEF Jobs
  <2>3. outbox' = [outbox EXCEPT ![i] = x] /\ job' = [job EXCEPT ![p] = j]
    BY <1>3 DEF Lease, Become
  <2> HIDE DEF x, j
  <2>4. RowMoves(i, x)
    BY <1>0, <1>3, <2>1, <2>3 DEF RowMoves, Claimable, Incomplete, OutboxInv, LeaseFits
  <2> QED
    BY <1>0, <1>1, <1>2, <1>3, <2>1, <2>2, <2>3, <2>4, RowAndJobKeep
<1>4. CASE outbox[i].state = "done" /\ Tell(p) /\ Stop(p) /\ UNCHANGED outbox
  <2>1. told' \subseteq DOMAIN outbox /\ (\A k \in told' : ~Incomplete(k))
    BY <1>0, <1>2, <1>4 DEF Tell, Incomplete
  <2> QED
    BY <1>1, <1>2, <1>4, <2>1, StopKeeps
<1>5. CASE Stop(p) /\ UNCHANGED <<outbox, told>>
  BY <1>1, <1>2, <1>5, StopKeeps
<1> QED
  BY <1>3, <1>4, <1>5 DEF ClaimOwn

(* The claim of the next ordered row.                                       *)
LEMMA ClaimNextKeeps ==
  ASSUME OutboxInv, NEW p \in Procs, ClaimNext(p) PROVE OutboxInv'
<1> DEFINE singles == {k \in DOMAIN outbox : Incomplete(k) /\ outbox[k].how # "batch"}
           i == CHOOSE k \in singles : \A m \in singles : k <= m
<1>0. /\ job[p].pc = "claim" /\ job[p].mode = "ordered" /\ job[p] \in Jobs /\ job[p].as # Nobody
      /\ job[p].mine \subseteq DOMAIN outbox /\ \A k \in job[p].mine : outbox[k].how # "batch"
  BY DEF ClaimNext, OutboxInv, JobFits, Typed
<1>1. UNCHANGED <<domain, relations, serializer>>
  BY DEF ClaimNext
<1>2. /\ serializer' \in Procs \cup {Nobody} /\ told \subseteq DOMAIN outbox /\ (\A k \in told : ~Incomplete(k))
      /\ \A q \in Procs : job[q].pc \in {"write", "complete"} => serializer' = q
  BY <1>1 DEF OutboxInv, Typed, ToldIsDone, JobFits
<1>3. CASE singles = {} /\ Tell(p) /\ Stop(p) /\ UNCHANGED outbox
  <2>1. \A k \in job[p].mine : ~Incomplete(k)
    BY <1>0, <1>3
  <2>2. told' \subseteq DOMAIN outbox /\ (\A k \in told' : ~Incomplete(k))
    BY <1>0, <1>2, <1>3, <2>1 DEF Tell
  <2> QED
    BY <1>1, <1>2, <1>3, <2>2, StopKeeps
<1>4. CASE singles # {} /\ UNCHANGED told
  <2>1. i \in singles
    <3>1. singles \in SUBSET Nat
      BY DEF OutboxInv, Typed
    <3>2. \E k \in singles : \A m \in singles : k <= m
      BY <1>4, <3>1, FirstUnfinished
    <3> QED
      BY <3>2
  <2>2. i \in DOMAIN outbox /\ outbox[i] \in Rows /\ i \in 1..MaxRows /\ outbox[i].how # "batch"
    BY <2>1, OutboxAssumption DEF OutboxInv, Typed
  <2>3. \/ /\ outbox[i].state = "pending" /\ Earliest(i) /\ Lease(i, job[p].as)
           /\ job' = [job EXCEPT ![p].pc = "enter", ![p].row = i]
        \/ Stop(p) /\ UNCHANGED outbox
    BY <1>4 DEF ClaimNext
  <2> HIDE DEF i, singles
  <2>4. CASE /\ outbox[i].state = "pending" /\ Earliest(i) /\ Lease(i, job[p].as)
             /\ job' = [job EXCEPT ![p].pc = "enter", ![p].row = i]
    <3> DEFINE x == [outbox[i] EXCEPT !.by = job[p].as]
               j == [job[p] EXCEPT !.pc = "enter", !.row = i]
    <3>1. /\ x \in Rows /\ x.by = job[p].as /\ x.state = "pending" /\ x.attempts = outbox[i].attempts
          /\ x.adds = outbox[i].adds /\ x.dels = outbox[i].dels /\ x.how = outbox[i].how
      BY <1>0, <2>2, <2>4 DEF Rows, Jobs
    <3>2. /\ j \in Jobs /\ j.pc = "enter" /\ j.row = i /\ j.mine = job[p].mine /\ j.mode = job[p].mode
          /\ j.as = job[p].as
      <4>1. i \in 0..MaxRows
        BY <2>2, OutboxAssumption
      <4> QED
        BY <1>0, <4>1 DEF Jobs
    <3>3. outbox' = [outbox EXCEPT ![i] = x]
      BY <2>4 DEF Lease
    <3>4. job' = [job EXCEPT ![p] = j]
      BY <1>0, <2>4 DEF OutboxInv, Typed, Jobs
    <3> HIDE DEF x, j
    <3>5. RowMoves(i, x)
      BY <1>0, <2>2, <2>4, <3>1, <3>3 DEF RowMoves, Incomplete, OutboxInv, LeaseFits
    <3> QED
      BY <1>0, <1>1, <1>2, <1>4, <2>2, <3>1, <3>2, <3>4, <3>5, RowAndJobKeep
  <2>5. CASE Stop(p) /\ UNCHANGED outbox
    BY <1>1, <1>2, <1>4, <2>5, StopKeeps
  <2> QED
    BY <2>3, <2>4, <2>5
<1> QED
  BY <1>3, <1>4 DEF ClaimNext

(* The claim of a row by a sweeper.                                         *)
LEMMA SweepKeeps ==
  ASSUME OutboxInv, NEW p \in Sweepers, NEW i \in DOMAIN outbox, Sweep(p, i) PROVE OutboxInv'
<1>1. /\ UNCHANGED <<domain, relations, serializer, told>> /\ Claimable(i)
      /\ outbox[i] \in Rows /\ i \in 1..MaxRows
  BY OutboxAssumption DEF Sweep, OutboxInv, Typed
<1>2. /\ p \in Procs /\ serializer \in Procs \cup {Nobody} /\ told \subseteq DOMAIN outbox
      /\ \A k \in told : ~Incomplete(k)
      /\ \A q \in Procs : job[q].pc \in {"write", "complete"} => serializer = q
  BY DEF OutboxInv, Typed, ToldIsDone, JobFits, Procs
<1> DEFINE x == [outbox[i] EXCEPT !.by = "replica"]
           j == [Idle EXCEPT !.pc = "enter", !.mode = "sweep", !.row = i, !.as = "replica"]
<1>3. /\ x \in Rows /\ x.by = "replica" /\ x.state = "pending" /\ x.attempts = outbox[i].attempts
      /\ x.adds = outbox[i].adds /\ x.dels = outbox[i].dels /\ x.how = outbox[i].how
  BY <1>1 DEF Rows, Workers, Claimable
<1>4. /\ j.pc = "enter" /\ j.row = i /\ j.mine = {} /\ j.mode = "sweep" /\ j.as = "replica"
  BY DEF Idle
<1>5. j \in Jobs
  <2>1. i \in 0..MaxRows /\ "replica" \in Workers \cup {Nobody} /\ Idle \in Jobs
    BY <1>1, OutboxAssumption DEF Workers, Idle, Jobs
  <2> QED
    BY <2>1 DEF Jobs
<1>6. outbox' = [outbox EXCEPT ![i] = x] /\ job' = [job EXCEPT ![p] = j]
  BY DEF Sweep, Lease
<1>7. RowMoves(i, x)
  BY <1>1, <1>3, <1>6 DEF RowMoves, Claimable, Incomplete, OutboxInv, LeaseFits
<1> HIDE DEF x, j
<1> QED
  BY <1>1, <1>2, <1>3, <1>4, <1>5, <1>6, <1>7, RowAndJobKeep, OutboxAssumption

(* A dead change is pending again, leased by the request that asked.        *)
LEMMA RequeueKeeps ==
  ASSUME OutboxInv, NEW p \in Requests, NEW i \in DOMAIN outbox, Requeue(p, i) PROVE OutboxInv'
<1>1. /\ UNCHANGED <<domain, relations, serializer, told>> /\ outbox[i].state = "dead"
      /\ outbox[i] \in Rows /\ i \in 1..MaxRows /\ ~Batch(i)
  BY OutboxAssumption DEF Requeue, OutboxInv, Typed, TransferFits
<1>2. /\ p \in Procs /\ serializer \in Procs \cup {Nobody} /\ told \subseteq DOMAIN outbox
      /\ \A k \in told : ~Incomplete(k)
      /\ \A q \in Procs : job[q].pc \in {"write", "complete"} => serializer = q
  BY DEF OutboxInv, Typed, ToldIsDone, JobFits, Procs
<1> DEFINE x == [outbox[i] EXCEPT !.state = "pending", !.attempts = 0, !.by = p]
           j == [pc |-> "enter", mode |-> "direct", row |-> i, as |-> p, mine |-> {i}]
<1>3. /\ x \in Rows /\ x.state = "pending" /\ x.attempts = 0
      /\ x.adds = outbox[i].adds /\ x.dels = outbox[i].dels /\ x.how = outbox[i].how
  <2>1. 0 \in 0..MaxAttempts /\ p \in Workers \cup {Nobody}
    BY OutboxAssumption DEF Workers
  <2> QED
    BY <1>1, <2>1 DEF Rows
<1>4. j.pc = "enter" /\ j.row = i /\ j.mine = {i} /\ j.mode = "direct" /\ j.as = p /\ p # Nobody
  BY OutboxAssumption
<1>5. j \in Jobs
  BY <1>1, OutboxAssumption DEF Jobs, Workers
<1>6. job' = [job EXCEPT ![p] = j]
  BY DEF Requeue
<1>7. outbox' = [outbox EXCEPT ![i] = x]
  BY <1>1 DEF Requeue, OutboxInv, Typed, Rows
<1>8. RowMoves(i, x)
  BY <1>1, <1>3, <1>7, OutboxAssumption DEF RowMoves, Incomplete
<1> HIDE DEF x, j
<1> QED
  BY <1>1, <1>2, <1>3, <1>4, <1>5, <1>6, <1>8, RowAndJobKeep

(* Who enters holds a lease: its row is pending, and in turn if a transfer. *)
LEMMA EnterKeeps ==
  ASSUME OutboxInv, NEW p \in Procs, Enter(p) PROVE OutboxInv'
<1>1. /\ UNCHANGED <<domain, outbox, relations, told>> /\ job[p].pc = "enter" /\ serializer = Nobody
      /\ job[p] \in Jobs /\ job[p].row \in DOMAIN outbox /\ job[p].as # Nobody
  BY DEF Enter, OutboxInv, Typed, JobFits
<1>2. /\ p \in Procs /\ serializer \in Procs \cup {Nobody} /\ told \subseteq DOMAIN outbox
      /\ \A k \in told : ~Incomplete(k)
      /\ \A q \in Procs : job[q].pc \in {"write", "complete"} => serializer = q
  BY DEF OutboxInv, Typed, ToldIsDone, JobFits, Procs
<1>3. \A q \in Procs : job[q].pc \notin {"write", "complete"}
  BY <1>1, <1>2, OutboxAssumption DEF Procs
<1>4. CASE Renewed(p) /\ serializer' = p /\ Become(p, "write")
  <2> DEFINE j == [job[p] EXCEPT !.pc = "write"]
  <2>1. /\ j \in Jobs /\ j.pc = "write" /\ j.row = job[p].row /\ j.mine = job[p].mine /\ j.mode = job[p].mode
        /\ j.as = job[p].as
    BY <1>1 DEF Jobs
  <2>2. job' = [job EXCEPT ![p] = j]
    BY <1>4 DEF Become
  <2>3. Incomplete(j.row) /\ (Batch(j.row) => Earliest(j.row))
    BY <1>1, <1>4, <2>1 DEF Renewed, OutboxInv, LeaseFits, TransferFits, Incomplete
  <2>4. /\ job[p].mine \subseteq DOMAIN outbox
        /\ job[p].mode \in {"direct", "batch"} => job[p].mine = {job[p].row}
        /\ job[p].mode = "ordered" => \A k \in job[p].mine : outbox[k].how # "batch"
        /\ job[p].mode \in {"none", "sweep"} => job[p].mine = {}
    BY DEF OutboxInv, JobFits
  <2> HIDE DEF j
  <2> QED
    BY <1>1, <1>2, <1>3, <1>4, <2>1, <2>2, <2>3, <2>4, JobAloneKeeps
<1>5. CASE Stop(p) /\ UNCHANGED serializer
  BY <1>1, <1>2, <1>5, StopKeeps
<1> QED
  BY <1>4, <1>5 DEF Enter

(* A handler that dies leaves its rows as they are.                         *)
LEMMA DieKeeps ==
  ASSUME OutboxInv, NEW p \in Procs, Die(p) PROVE OutboxInv'
<1>1. UNCHANGED <<domain, outbox, relations, told>> /\ serializer' = (IF serializer = p THEN Nobody ELSE serializer)
  BY DEF Die
<1>2. /\ p \in Procs /\ serializer \in Procs \cup {Nobody} /\ told \subseteq DOMAIN outbox
      /\ \A k \in told : ~Incomplete(k)
      /\ \A q \in Procs : job[q].pc \in {"write", "complete"} => serializer = q
  BY DEF OutboxInv, Typed, ToldIsDone, JobFits, Procs
<1>3. /\ serializer' \in Procs \cup {Nobody}
      /\ \A q \in Procs \ {p} : job[q].pc \in {"write", "complete"} => serializer' = q
  BY <1>1, <1>2
<1> QED
  BY <1>1, <1>2, <1>3, StopKeeps DEF Die

(* A transfer that is written in turn makes its recipient the creator, and  *)
(* any other change leaves the creator.                                     *)
LEMMA WriteKeepsCreator ==
  ASSUME OutboxInv, NEW i \in DOMAIN outbox, Incomplete(i), Batch(i) => Earliest(i),
         relations' = Applied(i), UNCHANGED <<domain, outbox>>
  PROVE  CreatorFits' /\ relations' \subseteq Tuples
<1>0. outbox[i] \in Rows /\ DOMAIN outbox = 1..Len(outbox) /\ Len(outbox) \in Nat
  BY DEF OutboxInv, Typed
<1>1. relations' \subseteq Tuples
  BY <1>0 DEF Applied, Rows, OutboxInv, Typed
<1>2. Creators(relations') = (Creators(relations) \ Creators(outbox[i].dels)) \cup Creators(outbox[i].adds)
  BY DEF Applied, Creators
<1>3. CASE Creators(relations') = Creators(relations)
  <2>1. CreatorFits'
    BY <1>3 DEF OutboxInv, CreatorFits, Batch, Incomplete, Creators
  <2> QED
    BY <1>1, <2>1
<1>4. CASE Creators(relations') # Creators(relations)
  <2>1. Batch(i)
    BY <1>2, <1>4 DEF OutboxInv, TransferFits
  <2>2. /\ Creators(relations) \in {Creators(outbox[i].adds), Creators(outbox[i].dels)}
        /\ \/ \E j \in DOMAIN outbox : i < j /\ Batch(j)
           \/ Creators(outbox[i].adds) = {<<"creator", domain.owner>>}
        /\ (\E j \in DOMAIN outbox : i < j /\ Batch(j)) =>
              Creators(relations) = Creators(outbox[i].adds)
    BY <2>1 DEF OutboxInv, CreatorFits
  <2>3. Creators(relations') = Creators(outbox[i].adds)
    BY <1>2, <2>2
  <2>4. ~\E j \in DOMAIN outbox : i < j /\ Batch(j)
    BY <1>4, <2>2, <2>3
  <2>5. \A j \in DOMAIN outbox : Batch(j) /\ Incomplete(j) => j = i
    <3> SUFFICES ASSUME NEW j \in DOMAIN outbox, Batch(j), Incomplete(j), j # i PROVE FALSE
      OBVIOUS
    <3>1. j < i \/ i < j
      BY <1>0
    <3>2. j \in 1..(i - 1)
      BY <1>0, <2>4, <3>1
    <3> QED
      BY <2>1, <3>2 DEF Earliest
  <2>6. \E p \in People : Creators(outbox[i].adds) = {<<"creator", p>>}
    BY <2>1 DEF OutboxInv, TransferFits
  <2>7. \E p \in People : Creators(relations') = {<<"creator", p>>}
    BY <2>3, <2>6
  <2>8. CreatorFits'
    <3> SUFFICES ASSUME NEW j \in DOMAIN outbox, Batch(j), Incomplete(j)
                 PROVE  /\ Creators(relations') \in {Creators(outbox[j].adds), Creators(outbox[j].dels)}
                        /\ \/ \E k \in DOMAIN outbox : j < k /\ Batch(k)
                           \/ Creators(outbox[j].adds) = {<<"creator", domain.owner>>}
                        /\ (\E k \in DOMAIN outbox : j < k /\ Batch(k)) =>
                              Creators(relations') = Creators(outbox[j].adds)
      BY <2>7 DEF CreatorFits, Batch, Incomplete, Creators
    <3>1. j = i
      BY <2>5
    <3> QED
      BY <2>2, <2>3, <3>1
  <2> QED
    BY <1>1, <2>8
<1> QED
  BY <1>3, <1>4

(* The writer alone has the serializer, and what it writes was not completed. *)
LEMMA WriteKeeps ==
  ASSUME OutboxInv, NEW p \in Procs, Write(p) \/ WriteFails(p) PROVE OutboxInv'
<1> DEFINE i == job[p].row
<1>1. /\ UNCHANGED <<domain, outbox, told>> /\ job[p].pc = "write" /\ job[p] \in Jobs
      /\ i \in DOMAIN outbox /\ job[p].as # Nobody /\ Incomplete(i) /\ (Batch(i) => Earliest(i))
      /\ job[p].mine \subseteq DOMAIN outbox
      /\ job[p].mode \in {"direct", "batch"} => job[p].mine = {job[p].row}
      /\ job[p].mode = "ordered" => \A k \in job[p].mine : outbox[k].how # "batch"
      /\ job[p].mode \in {"none", "sweep"} => job[p].mine = {}
  BY DEF Write, WriteFails, OutboxInv, Typed, JobFits, WriterFits
<1>2. /\ p \in Procs /\ serializer \in Procs \cup {Nobody} /\ told \subseteq DOMAIN outbox
      /\ \A k \in told : ~Incomplete(k)
      /\ \A q \in Procs : job[q].pc \in {"write", "complete"} => serializer = q
  BY DEF OutboxInv, Typed, ToldIsDone, JobFits, Procs
<1>3. CreatorFits' /\ relations' \subseteq Tuples
  <2>1. CASE UNCHANGED relations
    BY <1>1, <2>1 DEF OutboxInv, Typed, CreatorFits, Batch, Incomplete, Creators
  <2>2. CASE relations' = Applied(i)
    BY <1>1, <2>2, WriteKeepsCreator
  <2> QED
    BY <2>1, <2>2 DEF Write, WriteFails
<1>4. PICK pc \in {"complete", "fail"} :
        /\ Become(p, pc)
        /\ serializer' = IF pc = "complete" THEN serializer ELSE Nobody
  BY DEF Write, WriteFails
<1> DEFINE j == [job[p] EXCEPT !.pc = pc]
<1>5. /\ j \in Jobs /\ j.pc = pc /\ j.row = i /\ j.mine = job[p].mine /\ j.mode = job[p].mode
      /\ j.as = job[p].as
  BY <1>1 DEF Jobs
<1>6. job' = [job EXCEPT ![p] = j]
  BY <1>4 DEF Become
<1>7. /\ serializer = p /\ serializer' \in Procs \cup {Nobody}
      /\ \A q \in Procs \ {p} : job[q].pc \notin {"write", "complete"}
      /\ pc = "complete" => serializer' = p
  BY <1>1, <1>2, <1>4
<1> HIDE DEF j
<1>8. outbox' \in Seq(Rows) /\ outbox' = outbox
  BY <1>1 DEF OutboxInv, Typed
<1>9. JobFits' /\ WriterFits' /\ job' \in [Procs -> Jobs]
  BY <1>1, <1>4, <1>5, <1>6, <1>7, <1>8, JobMoveKeeps DEF Incomplete
<1>10. Typed' /\ ToldIsDone' /\ LeaseFits' /\ TransferFits'
  BY <1>1, <1>3, <1>7, <1>9
     DEF OutboxInv, Typed, ToldIsDone, LeaseFits, TransferFits, Batch, Incomplete, Earliest, Creators
<1> QED
  BY <1>3, <1>9, <1>10 DEF OutboxInv

(* A change is completed by whoever holds its lease; the job of the request *)
(* then tells, or goes on with its next row.                                *)
LEMMA CompleteKeeps ==
  ASSUME OutboxInv, NEW p \in Procs, Complete(p) PROVE OutboxInv'
<1> DEFINE i == job[p].row
<1>1. /\ UNCHANGED <<domain, relations>> /\ job[p].pc = "complete" /\ job[p] \in Jobs /\ serializer' = Nobody
      /\ i \in DOMAIN outbox /\ job[p].as # Nobody /\ outbox[i] \in Rows
      /\ job[p].mine \subseteq DOMAIN outbox
      /\ job[p].mode \in {"direct", "batch"} => job[p].mine = {job[p].row}
      /\ job[p].mode = "ordered" => \A k \in job[p].mine : outbox[k].how # "batch"
      /\ job[p].mode \in {"none", "sweep"} => job[p].mine = {}
  BY DEF Complete, OutboxInv, Typed, JobFits
<1>2. /\ p \in Procs /\ serializer \in Procs \cup {Nobody} /\ told \subseteq DOMAIN outbox
      /\ \A k \in told : ~Incomplete(k)
      /\ \A q \in Procs : job[q].pc \in {"write", "complete"} => serializer = q
  BY DEF OutboxInv, Typed, ToldIsDone, JobFits, Procs
<1>3. \A q \in Procs \ {p} : job[q].pc \notin {"write", "complete"}
  BY <1>1, <1>2
<1>4. CASE Stop(p) /\ UNCHANGED <<outbox, told>>
  BY <1>1, <1>2, <1>3, <1>4, StopKeeps
<1>5. CASE /\ outbox[i].by = job[p].as
           /\ outbox' = [outbox EXCEPT ![i].state = "done", ![i].by = Nobody]
  <2> DEFINE x == [outbox[i] EXCEPT !.state = "done", !.by = Nobody]
  <2>1. /\ x \in Rows /\ x.by = Nobody /\ x.state = "done" /\ x.attempts = outbox[i].attempts
        /\ x.adds = outbox[i].adds /\ x.dels = outbox[i].dels /\ x.how = outbox[i].how
    BY <1>1 DEF Rows
  <2>2. outbox' = [outbox EXCEPT ![i] = x]
    BY <1>1, <1>5 DEF OutboxInv, Typed, Rows
  <2> HIDE DEF x
  <2>3. Batch(i) => Earliest(i)
    BY <1>1, <1>5 DEF OutboxInv, TransferFits
  <2>4. RowMoves(i, x)
    BY <2>1, <2>2, <2>3 DEF RowMoves
  <2>5. CASE job[p].mode = "ordered" /\ Become(p, "claim") /\ UNCHANGED told
    <3> DEFINE j == [job[p] EXCEPT !.pc = "claim"]
    <3>1. /\ j \in Jobs /\ j.pc = "claim" /\ j.row = i /\ j.mine = job[p].mine /\ j.mode = "ordered"
          /\ j.as = job[p].as
      BY <1>1, <2>5 DEF Jobs
    <3>2. job' = [job EXCEPT ![p] = j]
      BY <2>5 DEF Become
    <3> HIDE DEF j
    <3> QED
      BY <1>1, <1>2, <1>3, <2>1, <2>4, <2>5, <3>1, <3>2, RowAndJobKeep
  <2>6. CASE job[p].mode # "ordered" /\ Stop(p) /\ Tell(p)
    <3> DEFINE j == Idle
    <3>1. j \in Jobs /\ j.pc = "idle" /\ j.mine = {} /\ j.mode = "none"
      BY OutboxAssumption DEF Idle, Jobs
    <3>2. job[p].mine \subseteq {i}
      BY <1>1, <2>6 DEF Jobs
    <3>3. /\ told' \subseteq DOMAIN outbox
          /\ \A k \in told' : (~Incomplete(k) \/ (k = i /\ x.state = "done"))
      BY <1>1, <1>2, <2>1, <2>6, <3>2 DEF Tell
    <3>4. /\ serializer' \in Procs \cup {Nobody}
          /\ job' = [job EXCEPT ![p] = j]
          /\ (\A q \in Procs \ {p} : (job[q].pc \in {"write", "complete"} => serializer' = q))
      BY <1>1, <1>3, <2>6 DEF Stop
    <3>5. x.state = "done" => (\A q \in Procs \ {p} : job[q].pc # "write")
      BY <1>1, <1>3, <2>6 DEF Stop
    <3>6. UNCHANGED <<domain, relations>> /\ i \in DOMAIN outbox /\ x \in Rows
      BY <1>1, <2>1
    <3> HIDE DEF j, i
    <3> QED
      BY <2>4, <3>1, <3>3, <3>4, <3>5, <3>6, RowAndJobKeep
  <2> QED
    BY <1>5, <2>5, <2>6 DEF Complete
<1> QED
  BY <1>4, <1>5 DEF Complete

(* A failed change is pending again, or dead after its last attempt.        *)
LEMMA FailKeeps ==
  ASSUME OutboxInv, NEW p \in Procs, FailChange(p) PROVE OutboxInv'
<1> DEFINE i == job[p].row
<1>1. /\ UNCHANGED <<domain, relations, serializer, told>> /\ job[p].pc = "fail" /\ Stop(p)
      /\ i \in DOMAIN outbox /\ job[p].as # Nobody /\ outbox[i] \in Rows
  BY DEF FailChange, OutboxInv, Typed, JobFits
<1>2. /\ p \in Procs /\ serializer \in Procs \cup {Nobody} /\ told \subseteq DOMAIN outbox
      /\ \A k \in told : ~Incomplete(k)
      /\ \A q \in Procs : job[q].pc \in {"write", "complete"} => serializer = q
  BY DEF OutboxInv, Typed, ToldIsDone, JobFits, Procs
<1>3. CASE UNCHANGED outbox
  BY <1>1, <1>2, <1>3, StopKeeps
<1>4. ASSUME outbox[i].by = job[p].as, NEW x \in Rows, outbox' = [outbox EXCEPT ![i] = x],
             x.adds = outbox[i].adds, x.dels = outbox[i].dels, x.how = outbox[i].how, x.by = Nobody,
             \/ x.state = "pending" /\ x.attempts < MaxAttempts
             \/ x.state = "dead" /\ ~Batch(i)
      PROVE  OutboxInv'
  <2>1. Incomplete(i)
    BY <1>1, <1>4 DEF OutboxInv, LeaseFits, Incomplete
  <2>2. RowMoves(i, x)
    BY <1>4, <2>1 DEF RowMoves
  <2>3. Idle \in Jobs /\ Idle.pc = "idle" /\ Idle.mine = {} /\ Idle.mode = "none"
    BY OutboxAssumption DEF Idle, Jobs
  <2> QED
    BY <1>1, <1>2, <1>4, <2>2, <2>3, RowAndJobKeep DEF Stop
<1>5. CASE outbox[i].by = job[p].as /\ Batch(i)
  <2> DEFINE x == [outbox[i] EXCEPT !.by = Nobody]
  <2>1. outbox' = [outbox EXCEPT ![i] = x]
    BY <1>5 DEF FailChange, Batch
  <2>2. /\ x \in Rows /\ x.by = Nobody /\ x.state = outbox[i].state /\ x.attempts = outbox[i].attempts
        /\ x.adds = outbox[i].adds /\ x.dels = outbox[i].dels /\ x.how = outbox[i].how
    BY <1>1 DEF Rows
  <2>3. outbox[i].state = "pending" /\ outbox[i].attempts < MaxAttempts
    BY <1>1, <1>5 DEF OutboxInv, LeaseFits
  <2> HIDE DEF x
  <2> QED
    BY <1>4, <1>5, <2>1, <2>2, <2>3
<1>6. CASE outbox[i].by = job[p].as /\ ~Batch(i)
  <2> DEFINE attempts == outbox[i].attempts + 1
             st == IF attempts >= MaxAttempts THEN "dead" ELSE outbox[i].state
             x == [outbox[i] EXCEPT !.by = Nobody, !.attempts = attempts, !.state = st]
  <2>1. outbox[i].state = "pending" /\ outbox[i].attempts < MaxAttempts /\ outbox[i].attempts \in 0..MaxAttempts
    BY <1>1, <1>6 DEF OutboxInv, LeaseFits, Rows
  <2>2. attempts \in 0..MaxAttempts /\ st \in {"pending", "dead"} /\ (st = "pending" => attempts < MaxAttempts)
    BY <2>1, OutboxAssumption
  <2>3. outbox' = [outbox EXCEPT ![i] = x]
    BY <1>1, <1>6 DEF FailChange, Batch, OutboxInv, Typed, Rows
  <2> HIDE DEF attempts, st
  <2>4. /\ x \in Rows /\ x.by = Nobody /\ x.state = st /\ x.attempts = attempts
        /\ x.adds = outbox[i].adds /\ x.dels = outbox[i].dels /\ x.how = outbox[i].how
    BY <1>1, <2>2 DEF Rows
  <2> HIDE DEF x
  <2> QED
    BY <1>4, <1>6, <2>2, <2>3, <2>4
<1> QED
  BY <1>3, <1>5, <1>6 DEF FailChange

(* A lease runs out; its holder is not told.                                *)
LEMMA LoseLeaseKeeps ==
  ASSUME OutboxInv, NEW i \in DOMAIN outbox, LoseLease(i) PROVE OutboxInv'
<1>1. /\ UNCHANGED <<domain, relations, serializer, job, told>> /\ outbox[i].by # Nobody /\ outbox[i] \in Rows
  BY DEF LoseLease, OutboxInv, Typed
<1> DEFINE x == [outbox[i] EXCEPT !.by = Nobody]
<1>2. /\ x \in Rows /\ x.by = Nobody /\ x.state = outbox[i].state /\ x.attempts = outbox[i].attempts
      /\ x.adds = outbox[i].adds /\ x.dels = outbox[i].dels /\ x.how = outbox[i].how
  BY <1>1 DEF Rows
<1>3. outbox' = [outbox EXCEPT ![i] = x]
  BY DEF LoseLease, Lease
<1>4. outbox[i].state = "pending" /\ outbox[i].attempts < MaxAttempts
  BY <1>1 DEF OutboxInv, LeaseFits
<1> HIDE DEF x
<1>5. RowMoves(i, x)
  BY <1>2, <1>3, <1>4 DEF RowMoves, Incomplete
<1>6. /\ outbox' \in Seq(Rows) /\ Len(outbox') <= MaxRows /\ DOMAIN outbox' = DOMAIN outbox
      /\ outbox'[i] = x /\ \A k \in DOMAIN outbox : outbox'[k].how = outbox[k].how
  BY <1>1, <1>2, <1>5, RowMoveKeeps
<1>7. /\ \A k \in DOMAIN outbox \ {i} : outbox'[k] = outbox[k]
      /\ \A k \in DOMAIN outbox : outbox[k].state = "done" => outbox'[k].state = "done"
      /\ LeaseFits' /\ TransferFits' /\ CreatorFits'
  BY <1>1, <1>2, <1>5, RowMoveKeeps
<1>8. \A k \in DOMAIN outbox : outbox'[k].state = outbox[k].state
  BY <1>2, <1>6, <1>7
<1>9. Typed' /\ ToldIsDone' /\ JobFits' /\ WriterFits'
  BY SMTT(30), <1>1, <1>6, <1>8
     DEF OutboxInv, Typed, ToldIsDone, JobFits, WriterFits, Batch, Incomplete, Earliest
<1> QED
  BY <1>7, <1>9 DEF OutboxInv

(* Each step keeps the invariant.                                           *)
LEMMA OutboxInvIsInductive == OutboxInv /\ [OutboxNext]_outboxVars => OutboxInv'
<1> SUFFICES ASSUME OutboxInv, [OutboxNext]_outboxVars PROVE OutboxInv'
  OBVIOUS
<1> USE DEF Procs
<1>1. CASE UNCHANGED outboxVars
  <2>1. UNCHANGED <<domain, outbox, relations, serializer, job, told>>
    BY <1>1 DEF outboxVars
  <2> QED
    BY <2>1
       DEF OutboxInv, Typed, LeaseFits, JobFits, TransferFits, WriterFits, CreatorFits,
           ToldIsDone,
                Batch, Incomplete, Earliest, Creators
<1>2. ASSUME NEW r \in Requests, Operation(r) PROVE OutboxInv'
  BY <1>2, OperationKeeps
<1>3. ASSUME NEW r \in Requests, ClaimOwn(r) \/ ClaimNext(r) PROVE OutboxInv'
  BY <1>3, ClaimOwnKeeps, ClaimNextKeeps
<1>4. ASSUME NEW r \in Requests, NEW i \in DOMAIN outbox, Retry(r, i) \/ Requeue(r, i) PROVE OutboxInv'
  BY <1>4, RetryKeeps, RequeueKeeps
<1>5. ASSUME NEW p \in Sweepers, NEW i \in DOMAIN outbox, Sweep(p, i) PROVE OutboxInv'
  BY <1>5, SweepKeeps
<1>6. ASSUME NEW p \in Procs, Deliver(p) \/ WriteFails(p) \/ Die(p) PROVE OutboxInv'
  BY <1>6, EnterKeeps, WriteKeeps, CompleteKeeps, FailKeeps, DieKeeps DEF Deliver
<1>7. ASSUME NEW i \in DOMAIN outbox, LoseLease(i) PROVE OutboxInv'
  BY <1>7, LoseLeaseKeeps
<1> QED
  BY <1>1, <1>2, <1>3, <1>4, <1>5, <1>6, <1>7 DEF OutboxNext

-----------------------------------------------------------------------------
(* The theorems                                                             *)

(* Every reachable state satisfies the invariant.                           *)
THEOREM OutboxInvariant == OutboxSpec => []OutboxInv
  BY OutboxInvHoldsAtFirst, OutboxInvIsInductive, PTL DEF OutboxSpec

(* Each variable of the outbox always has its type.                         *)
THEOREM OutboxTypeCorrect == OutboxSpec => []OutboxTypeOK
<1>1. OutboxInv => OutboxTypeOK
  BY TypedFitsTypeOK DEF OutboxInv
<1> QED
  BY <1>1, OutboxInvariant, PTL

(* Whoever was told that an operation is done can rely on it: the change it *)
(* waited for is applied and completed (finishPathAuthorizationMutation).   *)
THEOREM ToldOnlyWhenDone == OutboxSpec => []ToldIsDone
<1>1. OutboxInv => ToldIsDone
  BY DEF OutboxInv
<1> QED
  BY <1>1, OutboxInvariant, PTL

(* Whatever is repeated, fails or is delayed: the authorization service never *)
(* holds a path without a creator, nor one with two.                        *)
THEOREM AlwaysOneCreator == OutboxSpec => []OneCreator
<1>1. ASSUME OutboxInv PROVE OneCreator
  <2>1. PICK p \in People : Creators(relations) = {<<"creator", p>>}
    BY <1>1 DEF OutboxInv, CreatorFits
  <2>2. Cardinality({<<"creator", p>>}) = 1
    BY FS_Singleton
  <2> QED
    BY <2>1, <2>2 DEF OneCreator, Creators
<1> QED
  BY <1>1, OutboxInvariant, PTL

-----------------------------------------------------------------------------
(* Access follows the database                                              *)

(* The operations that leave access behind when they are used together: a   *)
(* direct change overtakes an ordered one, or another direct one, about the *)
(* same relationship, and a former owner keeps the relationship of a        *)
(* participant beside the one of an administrator.                          *)
Clashes == {{"follow", "unfollow"}, {"accept", "remove"}, {"accept", "leave"}, {"leave", "transfer"}}
Harmless == \A pair \in Clashes : ~(pair \subseteq used)

Names(x, t) == t \in x.adds \cup x.dels
Final(i, t) == Names(outbox[i], t) /\ \A j \in DOMAIN outbox : i < j => ~Names(outbox[j], t)

(* After a transfer the owner and the administrators may also be            *)
(* participants, which gives them nothing more.                             *)
SpareIn(d, t) ==
    /\ "transfer" \in used /\ t[1] = "participant"
    /\ t[2] = d.owner \/ d.role[t[2]] = "administrator"
MeantIn(d, t, tuples) == SpareIn(d, t) \/ (t \in tuples <=> t \in Implied(d))

(* A change that is no direct one is applied, completed or given up in turn.*)
TurnFits ==
    /\ \A i \in DOMAIN outbox :
         outbox[i].how # "direct" /\ outbox[i].state # "pending" => Earliest(i)
    /\ \A p \in Procs :
         job[p].pc \in {"enter", "write", "complete", "fail"} /\ outbox[job[p].row].how # "direct"
           => Earliest(job[p].row)

(* A direct change is made when the earlier ones about its relationship are *)
(* completed.                                                               *)
DirectFits ==
    \A i, j \in DOMAIN outbox : \A t \in Tuples :
      i < j /\ outbox[j].how = "direct" /\ Names(outbox[i], t) /\ Names(outbox[j], t) => ~Incomplete(i)

(* The last change about a relationship decides on it when it is completed, *)
(* and from its write on.                                                   *)
Decides(i, t) == t \in relations <=> t \in outbox[i].adds
WrittenFits ==
    /\ \A t \in Tuples, i \in DOMAIN outbox : Final(i, t) /\ ~Incomplete(i) => Decides(i, t)
    /\ \A p \in Procs, t \in Tuples :
         job[p].pc = "complete" /\ Names(outbox[job[p].row], t) => Decides(job[p].row, t)

(* The last change about a relationship says what the database says.        *)
MeantFits ==
    \A t \in Tuples :
      \/ (\A i \in DOMAIN outbox : ~Names(outbox[i], t)) /\ MeantIn(domain, t, relations)
      \/ \E i \in DOMAIN outbox : Final(i, t) /\ MeantIn(domain, t, outbox[i].adds)

(* Who may still accept has no change of a participant.                     *)
JoinFits ==
    "accept" \in used =>
      \A p \in People : domain.role[p] = "none" =>
        \A i \in DOMAIN outbox : ~Names(outbox[i], <<"participant", p>>)

(* A follower is taken away by the operation whose change others wait for,  *)
(* or nobody follows again.                                                 *)
FollowFits ==
    \A i \in DOMAIN outbox, p \in People : Names(outbox[i], <<"follower", p>>) =>
      /\ outbox[i].how = "direct"
      /\ "follow" \in used => outbox[i].fenced \/ <<"follower", p>> \in outbox[i].adds
      /\ "follow" \notin used => p \notin domain.follows

AccessInv == Harmless /\ TurnFits /\ DirectFits /\ WrittenFits /\ MeantFits /\ JoinFits /\ FollowFits

-----------------------------------------------------------------------------
(* Access: the relationships by their kind and their subject                *)

Kinds == {"creator", "follower", "followers"} \cup Roles

(* A relationship is a kind and a person, or it is everybody's.             *)
LEMMA TupleParts ==
  ASSUME NEW t \in Tuples
  PROVE  \E kind, q : t = <<kind, q>> /\ ((kind \in Kinds /\ q \in People) \/ (kind = "public" /\ q = "*"))
<1>1. CASE t \in Kinds \X People
  <2>1. PICK kind \in Kinds, q \in People : t = <<kind, q>>
    BY <1>1
  <2> QED
    BY <2>1
<1>2. CASE t = <<"public", "*">>
  BY <1>2
<1> QED
  BY <1>1, <1>2 DEF Tuples, Kinds

(* What the database says, kind by kind (schema.zed's relations).           *)
Says(d, kind, q) ==
    \/ kind = "creator" /\ q = d.owner
    \/ kind \in Roles /\ q # d.owner /\ d.role[q] = kind
    \/ kind = "followers" /\ d.audience = "followers" /\ q = d.owner
    \/ kind = "public" /\ d.audience = "public"
    \/ kind = "follower" /\ q \in d.follows

(* The relationships of an audience are known by its name.                  *)
LEMMA AudienceSays ==
  ASSUME NEW a \in Audience, NEW o, NEW kind, NEW q
  PROVE  <<kind, q>> \in AudienceOf(a, o) <=>
           \/ a = "followers" /\ kind = "followers" /\ q = o
           \/ a = "public" /\ kind = "public" /\ q = "*"
<1>1. CASE a = "private"
  BY <1>1 DEF AudienceOf
<1>2. CASE a = "followers"
  BY <1>2 DEF AudienceOf
<1>3. CASE a = "public"
  BY <1>3 DEF AudienceOf
<1> QED
  BY <1>1, <1>2, <1>3 DEF Audience

(* So are the relationships that say what the database says.                *)
LEMMA ImpliedSays ==
  ASSUME NEW d \in Domains, NEW kind, NEW q,
         (kind \in Kinds /\ q \in People) \/ (kind = "public" /\ q = "*")
  PROVE  <<kind, q>> \in Implied(d) <=> Says(d, kind, q)
<1>1. d.owner \in People /\ d.audience \in Audience /\ d.follows \subseteq People
  BY DEF Domains
<1>2. <<kind, q>> \in {<<"creator", d.owner>>} <=> kind = "creator" /\ q = d.owner
  OBVIOUS
<1>3. <<kind, q>> \in {<<d.role[p], p>> : p \in {x \in People \ {d.owner} : d.role[x] # "none"}}
        <=> q \in People /\ q # d.owner /\ d.role[q] = kind /\ kind # "none"
  OBVIOUS
<1>4. <<kind, q>> \in {<<"follower", p>> : p \in d.follows} <=> kind = "follower" /\ q \in d.follows
  OBVIOUS
<1>5. <<kind, q>> \in AudienceOf(d.audience, d.owner) <=>
           \/ d.audience = "followers" /\ kind = "followers" /\ q = d.owner
           \/ d.audience = "public" /\ kind = "public" /\ q = "*"
  BY <1>1, AudienceSays
<1>6. <<kind, q>> \in Implied(d) <=>
        \/ <<kind, q>> \in {<<"creator", d.owner>>}
        \/ <<kind, q>> \in {<<d.role[p], p>> : p \in {x \in People \ {d.owner} : d.role[x] # "none"}}
        \/ <<kind, q>> \in AudienceOf(d.audience, d.owner)
        \/ <<kind, q>> \in {<<"follower", p>> : p \in d.follows}
  BY DEF Implied
<1>7. q \in People => d.role[q] \in Roles \cup {"none"}
  BY DEF Domains
<1>8. <<kind, q>> \in Implied(d) <=>
        \/ kind = "creator" /\ q = d.owner
        \/ q \in People /\ q # d.owner /\ d.role[q] = kind /\ kind # "none"
        \/ d.audience = "followers" /\ kind = "followers" /\ q = d.owner
        \/ d.audience = "public" /\ kind = "public" /\ q = "*"
        \/ kind = "follower" /\ q \in d.follows
  BY <1>2, <1>3, <1>4, <1>5, <1>6
<1> QED
  BY <1>1, <1>7, <1>8 DEF Says, Kinds, Roles

(* Who may be a participant beside another relationship.                    *)
LEMMA SpareSays ==
  ASSUME NEW d, NEW kind, NEW q
  PROVE  SpareIn(d, <<kind, q>>) <=>
           "transfer" \in used /\ kind = "participant" /\ (q = d.owner \/ d.role[q] = "administrator")
  BY DEF SpareIn

-----------------------------------------------------------------------------
(* Access: what an operation commits                                        *)

(* What is neither granted nor taken stays as the database said.            *)
KeptIn(d, t) ==
    SpareIn(d, t) \/ (~SpareIn(domain, t) /\ (t \in Implied(d) <=> t \in Implied(domain)))

(* The rows of an operation say what it makes of the database.              *)
Implements(d, rows) ==
    \A t \in Tuples :
      \/ (\A k \in DOMAIN rows : ~Names(rows[k], t)) /\ KeptIn(d, t)
      \/ \E k \in DOMAIN rows :
           /\ Names(rows[k], t) /\ \A m \in DOMAIN rows : k < m => ~Names(rows[m], t)
           /\ MeantIn(d, t, rows[k].adds)

(* No change about the relationships of a direct one is under way.          *)
Fresh(x) ==
    \A i \in DOMAIN outbox, t \in Tuples : Names(outbox[i], t) /\ Names(x, t) => ~Incomplete(i)

JoinsIn(d, rows) ==
    "accept" \in used =>
      \A p \in People : d.role[p] = "none" =>
        domain.role[p] = "none" /\ \A k \in DOMAIN rows : ~Names(rows[k], <<"participant", p>>)
FollowsIn(d, rows) ==
    /\ "follow" \notin used => d.follows \subseteq domain.follows
    /\ \A k \in DOMAIN rows, p \in People : Names(rows[k], <<"follower", p>>) =>
         /\ rows[k].how = "direct"
         /\ "follow" \in used => rows[k].fenced \/ <<"follower", p>> \in rows[k].adds
         /\ "follow" \notin used => p \notin d.follows

Faithful(d, rows) ==
    /\ Len(rows) > 0
    /\ \A k \in DOMAIN rows :
         /\ rows[k].state = "pending" /\ rows[k].how = rows[1].how
         /\ rows[k].how = "direct" => Len(rows) = 1 /\ Fresh(rows[k])
    /\ Implements(d, rows) /\ JoinsIn(d, rows) /\ FollowsIn(d, rows)

(* Such an operation keeps the invariant.                                   *)
LEMMA FaithfulKeeps ==
  ASSUME OutboxInv, AccessInv, NEW r \in Requests, NEW op, NEW d, NEW rows \in Seq(Rows),
         Produce(r, op, d, rows), Faithful(d, rows)
  PROVE  AccessInv'
<1>0. PICK n \in Nat : n = Len(outbox)
  BY DEF OutboxInv, Typed
<1>2. PICK m \in Nat : m = Len(rows)
  OBVIOUS
<1>21. DOMAIN outbox = 1..n /\ DOMAIN rows = 1..m /\ m > 0
  BY <1>0, <1>2 DEF OutboxInv, Typed, Faithful
<1>3. /\ DOMAIN outbox' = 1..(n + m)
      /\ \A i \in 1..n : outbox'[i] = outbox[i]
      /\ \A k \in 1..m : outbox'[n + k] = rows[k]
  BY <1>0, <1>2, <1>21, ConcatProperties DEF OutboxInv, Typed, Produce
<1>4. domain' = d /\ UNCHANGED <<used, relations>> /\ serializer = Nobody
  BY DEF Produce
<1>5. \A i \in 1..(n + m) : i \in 1..n \/ \E k \in 1..m : i = n + k
  <2> SUFFICES ASSUME NEW i \in 1..(n + m), i \notin 1..n PROVE \E k \in 1..m : i = n + k
    OBVIOUS
  <2>1. i - n \in 1..m /\ i = n + (i - n)
    OBVIOUS
  <2> QED
    BY <2>1
<1>6. /\ \A i \in 1..n : i \in 1..(n + m)
      /\ \A k \in 1..m : n + k \in 1..(n + m) /\ n + k \notin 1..n
      /\ \A i \in 1..n, k \in 1..m : i < n + k
      /\ \A k, l \in 1..m : k < l <=> n + k < n + l
  OBVIOUS
<1>7. \A i \in 1..n : Earliest(i) => Earliest(i)'
  BY <1>3 DEF Earliest, Incomplete
<1>8. \A k \in 1..m : /\ rows[k].state = "pending" /\ rows[k].how = rows[1].how
                      /\ rows[k].how = "direct" => m = 1 /\ Fresh(rows[k])
  BY <1>2, <1>21 DEF Faithful
<1>9. PICK how : how = rows[1].how
  OBVIOUS
<1>10. /\ job'[r].pc \in {"enter", "claim"} /\ (job'[r].pc = "enter" => how = "direct") /\ job'[r].row = n + 1
       /\ \A p \in Procs \ {r} : job'[p] = job[p]
  BY <1>0, <1>2, <1>9, <1>21, EmptySeq DEF Produce, OutboxInv, Typed, Procs
<1>11. Harmless'
  BY <1>4 DEF AccessInv, Harmless
<1>12. TurnFits'
  <2>1. ASSUME NEW i \in 1..(n + m), outbox'[i].how # "direct", outbox'[i].state # "pending" PROVE Earliest(i)'
    BY <1>3, <1>5, <1>7, <1>8, <1>21, <2>1 DEF AccessInv, TurnFits
  <2>2. ASSUME NEW p \in Procs, job'[p].pc \in {"enter", "write", "complete", "fail"},
               outbox'[job'[p].row].how # "direct"
        PROVE  \A k \in 1..(job'[p].row - 1) : outbox'[k].state = "done"
    <3>1. CASE p = r
      <4>1. how = "direct" /\ outbox'[n + 1].how = how
        BY <1>3, <1>8, <1>9, <1>10, <1>21, <2>2, <3>1
      <4> QED
        BY <2>2, <3>1, <4>1, <1>10
    <3>2. CASE p # r
      <4>1. PICK i \in 1..n : i = job[p].row
        BY <1>10, <1>21, <2>2, <3>2 DEF OutboxInv, JobFits
      <4>2. job'[p] = job[p] /\ outbox'[i] = outbox[i]
        BY <1>3, <1>10, <3>2
      <4>3. Earliest(i)
        BY <2>2, <4>1, <4>2 DEF AccessInv, TurnFits
      <4>4. Earliest(i)'
        BY <1>7, <4>3
      <4> QED
        BY <4>1, <4>2, <4>4 DEF Earliest, Incomplete
    <3> QED
      BY <3>1, <3>2
  <2> QED
    BY <1>3, <2>1, <2>2 DEF TurnFits, Earliest, Incomplete
<1>13. DirectFits'
  <2> SUFFICES ASSUME NEW i \in 1..(n + m), NEW j \in 1..(n + m), NEW t \in Tuples, i < j,
                      outbox'[j].how = "direct", Names(outbox'[i], t), Names(outbox'[j], t)
               PROVE  outbox'[i].state = "done"
    BY <1>3 DEF DirectFits, Incomplete
  <2>1. CASE j \in 1..n
    <3>1. i \in 1..n
      BY <2>1
    <3> QED
      BY <1>3, <1>21, <2>1, <3>1 DEF AccessInv, DirectFits, Incomplete
  <2>2. CASE j \notin 1..n
    <3>1. PICK k \in 1..m : j = n + k
      BY <1>5, <2>2
    <3>2. outbox'[j] = rows[k] /\ m = 1 /\ Fresh(rows[k])
      BY <1>3, <1>8, <3>1
    <3>3. i \in 1..n
      BY <3>1, <3>2
    <3> QED
      BY <1>3, <1>21, <3>2, <3>3 DEF Fresh, Incomplete
  <2> QED
    BY <2>1, <2>2
<1>14. WrittenFits'
  <2>1. ASSUME NEW t \in Tuples, NEW i \in 1..(n + m), Final(i, t)', outbox'[i].state = "done"
        PROVE  t \in relations' <=> t \in outbox'[i].adds
    <3>1. i \in 1..n
      BY <1>3, <1>5, <1>8, <2>1
    <3>2. Final(i, t)
      BY <1>3, <1>6, <1>21, <2>1, <3>1 DEF Final
    <3> QED
      BY <1>3, <1>4, <1>21, <2>1, <3>1, <3>2 DEF AccessInv, WrittenFits, Decides, Incomplete
  <2>2. \A p \in Procs : job'[p].pc # "complete"
    <3>1. \A p \in Procs : job[p].pc # "complete"
      BY <1>4, OutboxAssumption DEF OutboxInv, JobFits, Procs
    <3> QED
      BY <1>10, <3>1
  <2> QED
    BY <1>3, <2>1, <2>2 DEF WrittenFits, Decides, Incomplete
<1>15. MeantFits'
  <2> SUFFICES ASSUME NEW t \in Tuples
               PROVE  \/ (\A i \in DOMAIN outbox' : ~Names(outbox'[i], t)) /\ MeantIn(domain, t, relations)'
                      \/ \E i \in DOMAIN outbox' : Final(i, t)' /\ MeantIn(domain, t, outbox[i].adds)'
    BY DEF MeantFits
  <2>1. MeantIn(domain, t, relations)' <=> MeantIn(d, t, relations)
    BY <1>4 DEF MeantIn, SpareIn
  <2>2. \A i \in 1..(n + m) : MeantIn(domain, t, outbox[i].adds)' <=> MeantIn(d, t, outbox'[i].adds)
    BY <1>4 DEF MeantIn, SpareIn
  <2>3. CASE (\A k \in DOMAIN rows : ~Names(rows[k], t)) /\ KeptIn(d, t)
    <3>1. \A k \in 1..m : ~Names(outbox'[n + k], t)
      BY <1>3, <1>21, <2>3
    <3>2. \A i \in 1..(n + m) : i \notin 1..n => ~Names(outbox'[i], t)
      BY <1>5, <3>1
    <3>3. ASSUME NEW tuples, MeantIn(domain, t, tuples) PROVE MeantIn(d, t, tuples)
      BY <2>3, <3>3 DEF MeantIn, KeptIn
    <3>4. CASE (\A i \in DOMAIN outbox : ~Names(outbox[i], t)) /\ MeantIn(domain, t, relations)
      BY <1>3, <1>21, <2>1, <3>2, <3>3, <3>4
    <3>5. CASE \E i \in DOMAIN outbox : Final(i, t) /\ MeantIn(domain, t, outbox[i].adds)
      <4>1. PICK i \in 1..n : Final(i, t) /\ MeantIn(domain, t, outbox[i].adds)
        BY <1>21, <3>5
      <4>2. Final(i, t)'
        BY <1>3, <1>21, <3>2, <4>1 DEF Final
      <4>3. outbox'[i].adds = outbox[i].adds /\ i \in 1..(n + m)
        BY <1>3, <1>6
      <4> QED
        BY <1>3, <2>2, <3>3, <4>1, <4>2, <4>3
    <3> QED
      BY <3>4, <3>5 DEF AccessInv, MeantFits
  <2>4. CASE \E k \in DOMAIN rows :
               /\ Names(rows[k], t) /\ \A l \in DOMAIN rows : k < l => ~Names(rows[l], t)
               /\ MeantIn(d, t, rows[k].adds)
    <3>1. PICK k \in 1..m : /\ Names(rows[k], t) /\ \A l \in 1..m : k < l => ~Names(rows[l], t)
                            /\ MeantIn(d, t, rows[k].adds)
      BY <1>21, <2>4
    <3>2. outbox'[n + k] = rows[k] /\ n + k \in 1..(n + m)
      BY <1>3, <1>6
    <3>3. ASSUME NEW i \in 1..(n + m), n + k < i PROVE ~Names(outbox'[i], t)
      <4>1. i \notin 1..n
        BY <1>6, <3>3
      <4>2. PICK l \in 1..m : i = n + l
        BY <1>5, <4>1
      <4> QED
        BY <1>3, <1>6, <3>1, <3>3, <4>2
    <3>4. Final(n + k, t)'
      BY <1>3, <3>1, <3>2, <3>3 DEF Final
    <3> QED
      BY <1>3, <2>2, <3>1, <3>2, <3>4
  <2> QED
    BY <2>3, <2>4 DEF Faithful, Implements
<1>16. JoinFits'
  <2> SUFFICES ASSUME "accept" \in used, NEW p \in People, d.role[p] = "none", NEW i \in 1..(n + m)
               PROVE  ~Names(outbox'[i], <<"participant", p>>)
    BY <1>3, <1>4 DEF JoinFits
  <2>1. domain.role[p] = "none" /\ \A k \in DOMAIN rows : ~Names(rows[k], <<"participant", p>>)
    BY DEF Faithful, JoinsIn
  <2> QED
    BY <1>3, <1>5, <1>21, <2>1 DEF AccessInv, JoinFits
<1>17. FollowFits'
  <2> SUFFICES ASSUME NEW i \in 1..(n + m), NEW p \in People, Names(outbox'[i], <<"follower", p>>)
               PROVE  /\ outbox'[i].how = "direct"
                      /\ "follow" \in used => outbox'[i].fenced \/ <<"follower", p>> \in outbox'[i].adds
                      /\ "follow" \notin used => p \notin d.follows
    BY <1>3, <1>4 DEF FollowFits
  <2>1. CASE i \in 1..n
    BY <1>3, <1>21, <2>1 DEF AccessInv, FollowFits, Faithful, FollowsIn
  <2>2. CASE i \notin 1..n
    <3>1. PICK k \in 1..m : i = n + k
      BY <1>5, <2>2
    <3>2. outbox'[i] = rows[k] /\ k \in DOMAIN rows
      BY <1>3, <1>21, <3>1
    <3> QED
      BY <3>2 DEF Faithful, FollowsIn
  <2> QED
    BY <2>1, <2>2
<1> QED
  BY <1>11, <1>12, <1>13, <1>14, <1>15, <1>16, <1>17 DEF AccessInv

(* What the database says, and who may be a participant too, by kind.       *)
Subject(kind, q) == (kind \in Kinds /\ q \in People) \/ (kind = "public" /\ q = "*")
Spares(d, kind, q) ==
    "transfer" \in used /\ kind = "participant" /\ (q = d.owner \/ d.role[q] = "administrator")
Meets(d, kind, q, granted) == Spares(d, kind, q) \/ (granted <=> Says(d, kind, q))
Keeps(d, kind, q) ==
    Spares(d, kind, q) \/ (~Spares(domain, kind, q) /\ (Says(d, kind, q) <=> Says(domain, kind, q)))

(* The same of a relationship.                                              *)
LEMMA MeantByKind ==
  ASSUME Typed, NEW d \in Domains, NEW kind, NEW q, Subject(kind, q)
  PROVE  /\ KeptIn(d, <<kind, q>>) <=> Keeps(d, kind, q)
         /\ \A tuples : MeantIn(d, <<kind, q>>, tuples) <=>
                          (Spares(d, kind, q) \/ (<<kind, q>> \in tuples <=> Says(d, kind, q)))
<1>1. \A e \in Domains : <<kind, q>> \in Implied(e) <=> Says(e, kind, q)
  BY ImpliedSays DEF Subject
<1>2. \A e \in Domains : SpareIn(e, <<kind, q>>) <=> Spares(e, kind, q)
  BY SpareSays DEF Spares
<1>3. domain \in Domains
  BY DEF Typed
<1> QED
  BY <1>1, <1>2, <1>3 DEF KeptIn, Keeps, MeantIn

(* An operation of one row keeps the invariant when the row says what it    *)
(* makes of the database.                                                   *)
LEMMA OneRowKeeps ==
  ASSUME OutboxInv, AccessInv, NEW r \in Requests, NEW op, NEW d \in Domains, NEW x \in Rows,
         Produce(r, op, d, <<x>>), x.state = "pending", x.how = "direct" => Fresh(x),
         \A kind, q : Subject(kind, q) =>
           /\ Names(x, <<kind, q>>) => Meets(d, kind, q, <<kind, q>> \in x.adds)
           /\ ~Names(x, <<kind, q>>) => Keeps(d, kind, q),
         "accept" \in used => \A q \in People : d.role[q] = "none" =>
                                domain.role[q] = "none" /\ ~Names(x, <<"participant", q>>),
         "follow" \notin used => d.follows \subseteq domain.follows,
         \A q \in People : Names(x, <<"follower", q>>) =>
           /\ x.how = "direct"
           /\ "follow" \in used => x.fenced \/ <<"follower", q>> \in x.adds
           /\ "follow" \notin used => q \notin d.follows
  PROVE  AccessInv'
<1> DEFINE rows == <<x>>
<1>1. rows \in Seq(Rows) /\ Len(rows) = 1 /\ DOMAIN rows = {1} /\ rows[1] = x
  OBVIOUS
<1>2. Produce(r, op, d, rows)
  OBVIOUS
<1> HIDE DEF rows
<1>3. Implements(d, rows)
  <2> SUFFICES ASSUME NEW t \in Tuples
               PROVE  \/ ~Names(x, t) /\ KeptIn(d, t)
                      \/ Names(x, t) /\ MeantIn(d, t, x.adds)
    BY <1>1 DEF Implements
  <2>1. PICK kind, q : t = <<kind, q>> /\ Subject(kind, q)
    BY TupleParts DEF Subject
  <2>2. KeptIn(d, t) <=> Keeps(d, kind, q)
    BY <2>1, MeantByKind DEF OutboxInv
  <2>3. MeantIn(d, t, x.adds) <=> Meets(d, kind, q, <<kind, q>> \in x.adds)
    BY <2>1, MeantByKind DEF OutboxInv, Meets
  <2> QED
    BY <2>1, <2>2, <2>3
<1>4. JoinsIn(d, rows) /\ FollowsIn(d, rows)
  BY <1>1 DEF JoinsIn, FollowsIn
<1>5. Faithful(d, rows)
  BY <1>1, <1>3, <1>4 DEF Faithful
<1> QED
  BY <1>1, <1>2, <1>5, FaithfulKeeps

(* So does one of a removal and, behind it, a grant.                        *)
LEMMA TwoRowsKeep ==
  ASSUME OutboxInv, AccessInv, NEW r \in Requests, NEW op, NEW d \in Domains, NEW x \in Rows, NEW y \in Rows,
         Produce(r, op, d, <<x, y>>), x.state = "pending", y.state = "pending",
         x.how = "ordered", y.how = "ordered", x.adds = {}, y.dels = {},
         \A kind, q : Subject(kind, q) =>
           /\ <<kind, q>> \in y.adds => Meets(d, kind, q, TRUE)
           /\ <<kind, q>> \notin y.adds /\ <<kind, q>> \in x.dels => Meets(d, kind, q, FALSE)
           /\ <<kind, q>> \notin y.adds /\ <<kind, q>> \notin x.dels => Keeps(d, kind, q),
         "accept" \in used => \A q \in People : d.role[q] = "none" =>
                                /\ domain.role[q] = "none"
                                /\ <<"participant", q>> \notin y.adds /\ <<"participant", q>> \notin x.dels,
         d.follows = domain.follows,
         \A q \in People : <<"follower", q>> \notin y.adds /\ <<"follower", q>> \notin x.dels
  PROVE  AccessInv'
<1> DEFINE rows == <<x, y>>
<1>1. rows \in Seq(Rows) /\ Len(rows) = 2 /\ DOMAIN rows = {1, 2} /\ rows[1] = x /\ rows[2] = y
  OBVIOUS
<1>2. Produce(r, op, d, rows)
  OBVIOUS
<1> HIDE DEF rows
<1>6. \A t : (Names(x, t) <=> t \in x.dels) /\ (Names(y, t) <=> t \in y.adds)
  BY DEF Names
<1>3. Implements(d, rows)
  <2> SUFFICES ASSUME NEW t \in Tuples
               PROVE  \/ ~Names(x, t) /\ ~Names(y, t) /\ KeptIn(d, t)
                      \/ Names(y, t) /\ MeantIn(d, t, y.adds)
                      \/ Names(x, t) /\ ~Names(y, t) /\ MeantIn(d, t, x.adds)
    <3>1. /\ \A t \in Tuples : (\A k \in DOMAIN rows : ~Names(rows[k], t)) <=> ~Names(x, t) /\ ~Names(y, t)
          /\ \A t \in Tuples : (\A k \in DOMAIN rows : 1 < k => ~Names(rows[k], t)) <=> ~Names(y, t)
          /\ \A k \in DOMAIN rows : ~(2 < k)
          /\ 1 \in DOMAIN rows /\ 2 \in DOMAIN rows
      BY <1>1
    <3> QED
      BY <1>1, <3>1 DEF Implements
  <2>1. PICK kind, q : t = <<kind, q>> /\ Subject(kind, q)
    BY TupleParts DEF Subject
  <2>2. KeptIn(d, t) <=> Keeps(d, kind, q)
    BY <2>1, MeantByKind DEF OutboxInv
  <2>3. \A tuples : MeantIn(d, t, tuples) <=> (Spares(d, kind, q) \/ (t \in tuples <=> Says(d, kind, q)))
    BY <2>1, MeantByKind DEF OutboxInv
  <2>4. CASE t \in y.adds
    BY <1>6, <2>1, <2>3, <2>4 DEF Meets
  <2>5. CASE t \notin y.adds /\ t \in x.dels
    BY <1>6, <2>1, <2>3, <2>5 DEF Meets
  <2>6. CASE t \notin y.adds /\ t \notin x.dels
    BY <1>6, <2>1, <2>2, <2>6
  <2> QED
    BY <2>4, <2>5, <2>6
<1>4. JoinsIn(d, rows) /\ FollowsIn(d, rows)
  BY <1>1, <1>6 DEF JoinsIn, FollowsIn
<1>5. Faithful(d, rows)
  BY <1>1, <1>3, <1>4 DEF Faithful
<1> QED
  BY <1>1, <1>2, <1>5, FaithfulKeeps

-----------------------------------------------------------------------------
(* Access: the operations, one by one                                       *)

(* A change of one role leaves the rest of the database.                    *)
LEMMA RoleSet ==
  ASSUME Typed, NEW p \in People, NEW role \in Roles \cup {"none"}, NEW d, d = [domain EXCEPT !.role[p] = role]
  PROVE  /\ d \in Domains /\ d.owner = domain.owner /\ d.audience = domain.audience /\ d.follows = domain.follows
         /\ d.role[p] = role /\ \A q \in People \ {p} : d.role[q] = domain.role[q]
  BY DEF Typed, Domains

(* What the database says of whose role does not change, and of everything  *)
(* but the two roles.                                                       *)
LEMMA RoleKeeps ==
  ASSUME Typed, NEW p \in People, p # domain.owner, NEW role \in Roles \cup {"none"},
         NEW d, d = [domain EXCEPT !.role[p] = role],
         NEW kind, NEW q, Subject(kind, q),
         q = p /\ kind \in Roles => kind \notin {role, domain.role[p]},
         "transfer" \in used /\ q = p /\ kind = "participant" =>
           (role = "administrator" <=> domain.role[p] = "administrator")
  PROVE  Keeps(d, kind, q)
<1>1. /\ d.owner = domain.owner /\ d.audience = domain.audience /\ d.follows = domain.follows
      /\ d.role[p] = role /\ \A x \in People \ {p} : d.role[x] = domain.role[x]
  BY DEF Typed, Domains
<1>2. (kind \in Roles => q \in People) /\ ("participant" \in Roles)
  BY DEF Subject, Roles
<1>3. Says(d, kind, q) <=> Says(domain, kind, q)
  BY <1>1, <1>2 DEF Says
<1>4. Spares(d, kind, q) <=> Spares(domain, kind, q)
  BY <1>1, <1>2 DEF Spares
<1> QED
  BY <1>3, <1>4 DEF Keeps

(* A row of one person's role names no other relationship.                  *)
LEMMA RoleNamed ==
  ASSUME NEW role \in Roles, NEW p, NEW kind, NEW q
  PROVE  /\ <<kind, q>> \in {<<role, p>>} <=> kind = role /\ q = p
         /\ <<"follower", q>> \notin {<<role, p>>}
  BY DEF Roles

(* An acceptance finds no change of this participant, and grants what the   *)
(* database says then.                                                      *)
LEMMA AcceptKeepsAccess ==
  ASSUME OutboxInv, AccessInv, NEW r \in Requests, NEW p \in People, Accept(r, p) PROVE AccessInv'
<1> DEFINE d == [domain EXCEPT !.role[p] = "participant"]
           adds == {<<"participant", p>>}
           x == Row(adds, {}, "direct", "replica")
<1>1. Produce(r, "accept", d, <<x>>) /\ domain.role[p] = "none" /\ p # domain.owner /\ "accept" \in used
  BY DEF Accept, Produce
<1>2. "participant" \in Roles /\ "none" \notin Roles
  BY DEF Roles
<1>3. /\ d \in Domains /\ d.owner = domain.owner /\ d.follows = domain.follows
      /\ d.role[p] = "participant" /\ \A q \in People \ {p} : d.role[q] = domain.role[q]
  BY <1>2, RoleSet DEF OutboxInv
<1>4. x \in Rows
  <2>1. Len(outbox) < MaxRows
    BY <1>1, OutboxAssumption DEF Produce, OutboxInv, Typed
  <2>2. adds \in SUBSET Tuples /\ {} \in SUBSET Tuples /\ "replica" \in Workers \cup {Nobody}
    BY <1>2, RoleNamesNoCreator DEF Workers
  <2> QED
    BY <2>1, <2>2, RowOfChange DEF OutboxInv
<1>5. x.state = "pending" /\ x.how = "direct" /\ x.adds = adds /\ x.dels = {}
  BY DEF Row
<1> HIDE DEF x
<1>6. \A t : Names(x, t) <=> t = <<"participant", p>>
  BY <1>5 DEF Names
<1>7. Fresh(x)
  BY <1>1, <1>6 DEF Fresh, AccessInv, JoinFits
<1>8. ASSUME NEW kind, NEW q, Subject(kind, q)
      PROVE  /\ Names(x, <<kind, q>>) => Meets(d, kind, q, <<kind, q>> \in x.adds)
             /\ ~Names(x, <<kind, q>>) => Keeps(d, kind, q)
  <2>1. Names(x, <<kind, q>>) <=> kind = "participant" /\ q = p
    BY <1>6
  <2>2. CASE kind = "participant" /\ q = p
    <3>1. Says(d, kind, q) /\ <<kind, q>> \in x.adds
      BY <1>1, <1>2, <1>3, <1>5, <2>2 DEF Says
    <3> QED
      BY <2>1, <2>2, <3>1 DEF Meets
  <2>3. CASE ~(kind = "participant" /\ q = p)
    <3>1. Keeps(d, kind, q)
      BY <1>1, <1>2, <1>8, <2>3, RoleKeeps DEF OutboxInv
    <3> QED
      BY <2>1, <2>3, <3>1
  <2> QED
    BY <2>2, <2>3
<1>9. \A q \in People : d.role[q] = "none" => domain.role[q] = "none" /\ ~Names(x, <<"participant", q>>)
  BY <1>3, <1>6
<1>10. \A q : ~Names(x, <<"follower", q>>)
  BY <1>6
<1> HIDE DEF d
<1> QED
  BY <1>1, <1>3, <1>4, <1>5, <1>7, <1>8, <1>9, <1>10, OneRowKeeps

(* Whoever is removed or leaves keeps no relationship of a participant      *)
(* beside the role that is taken.                                           *)
LEMMA RemovalKeepsAccess ==
  ASSUME OutboxInv, AccessInv, NEW r \in Requests, NEW p \in People, Remove(r, p) \/ Leave(r, p) PROVE AccessInv'
<1> DEFINE role == domain.role[p]
           d == [domain EXCEPT !.role[p] = "none"]
           dels == {<<role, p>>}
           x == Row({}, dels, "ordered", "path")
<1>1. PICK op \in {"remove", "leave"} :
        /\ Produce(r, op, d, <<x>>) /\ p # domain.owner /\ role # "none"
        /\ op = "remove" => role # "administrator"
  BY DEF Remove, Leave
<1>2. role \in Roles /\ "none" \notin Roles /\ op \in used
  BY <1>1 DEF Roles, OutboxInv, Typed, Domains, Produce
<1>3. /\ d \in Domains /\ d.owner = domain.owner /\ d.follows = domain.follows
      /\ d.role[p] = "none" /\ \A q \in People \ {p} : d.role[q] = domain.role[q]
  BY DEF OutboxInv, Typed, Domains
<1>4. x \in Rows
  <2>1. Len(outbox) < MaxRows
    BY <1>1, OutboxAssumption DEF Produce, OutboxInv, Typed
  <2>2. dels \in SUBSET Tuples /\ {} \in SUBSET Tuples /\ "path" \in Workers \cup {Nobody}
    BY <1>2, RoleNamesNoCreator DEF Workers
  <2> QED
    BY <2>1, <2>2, RowOfChange DEF OutboxInv
<1>5. x.state = "pending" /\ x.how = "ordered" /\ x.adds = {} /\ x.dels = dels
  BY DEF Row
<1> HIDE DEF x
<1>6. \A t : Names(x, t) <=> t = <<role, p>>
  BY <1>5 DEF Names
<1>7. "accept" \notin used /\ (op = "leave" => "transfer" \notin used)
  <2>1. ASSUME NEW a, NEW b, {a, b} \in Clashes, a \in used PROVE b \notin used
    BY <2>1 DEF AccessInv, Harmless
  <2>2. {"accept", "remove"} \in Clashes /\ {"accept", "leave"} \in Clashes /\ {"leave", "transfer"} \in Clashes
    BY DEF Clashes
  <2> QED
    BY <1>2, <2>1, <2>2
<1>8. ASSUME NEW kind, NEW q, Subject(kind, q)
      PROVE  /\ Names(x, <<kind, q>>) => Meets(d, kind, q, <<kind, q>> \in x.adds)
             /\ ~Names(x, <<kind, q>>) => Keeps(d, kind, q)
  <2>1. Names(x, <<kind, q>>) <=> kind = role /\ q = p
    BY <1>6
  <2>2. CASE kind = role /\ q = p
    <3>1. ~Says(d, kind, q) /\ <<kind, q>> \notin x.adds
      BY <1>1, <1>2, <1>3, <1>5, <2>2 DEF Says, Roles
    <3> QED
      BY <2>1, <2>2, <3>1 DEF Meets
  <2>3. CASE ~(kind = role /\ q = p)
    <3>1. Keeps(d, kind, q)
      BY <1>1, <1>2, <1>7, <1>8, <2>3, RoleKeeps DEF OutboxInv
    <3> QED
      BY <2>1, <2>3, <3>1
  <2> QED
    BY <2>2, <2>3
<1>9. \A q : ~Names(x, <<"follower", q>>)
  BY <1>2, <1>6, RoleNamed
<1> HIDE DEF d
<1> QED
  BY <1>1, <1>3, <1>4, <1>5, <1>7, <1>8, <1>9, OneRowKeeps

(* A change of role takes the old one and grants the new one behind it; it  *)
(* is the participant who becomes an administrator or was one.              *)
LEMMA ChangeRoleKeepsAccess ==
  ASSUME OutboxInv, AccessInv, NEW r \in Requests, NEW p \in People, NEW to \in Roles, ChangeRole(r, p, to)
  PROVE  AccessInv'
<1> DEFINE from == domain.role[p]
           d == [domain EXCEPT !.role[p] = to]
           dels == {<<from, p>>}
           adds == {<<to, p>>}
           x == Row({}, dels, "ordered", "path")
           y == Row(adds, {}, "ordered", "path")
<1>1. /\ Produce(r, "role", d, <<x, y>>) /\ p # domain.owner /\ from # "none" /\ to # from
      /\ "administrator" \in {from, to} => "participant" \in {from, to}
  BY DEF ChangeRole
<1>2. from \in Roles /\ "none" \notin Roles
  BY <1>1 DEF Roles, OutboxInv, Typed, Domains
<1>3. /\ d \in Domains /\ d.owner = domain.owner /\ d.follows = domain.follows
      /\ d.role[p] = to /\ \A q \in People \ {p} : d.role[q] = domain.role[q]
  BY DEF OutboxInv, Typed, Domains
<1>4. x \in Rows /\ y \in Rows
  <2>1. Len(outbox) < MaxRows
    BY <1>1, OutboxAssumption DEF Produce, OutboxInv, Typed
  <2>2. dels \in SUBSET Tuples /\ adds \in SUBSET Tuples /\ {} \in SUBSET Tuples /\ "path" \in Workers \cup {Nobody}
    BY <1>2, RoleNamesNoCreator DEF Workers
  <2> QED
    BY <2>1, <2>2, RowOfChange DEF OutboxInv
<1>5. /\ x.state = "pending" /\ x.how = "ordered" /\ x.adds = {} /\ x.dels = dels
      /\ y.state = "pending" /\ y.how = "ordered" /\ y.adds = adds /\ y.dels = {}
  BY DEF Row
<1> HIDE DEF x, y
<1>6. \A kind, q : (<<kind, q>> \in y.adds <=> kind = to /\ q = p) /\ (<<kind, q>> \in x.dels <=> kind = from /\ q = p)
  BY <1>5
<1>8. ASSUME NEW kind, NEW q, Subject(kind, q)
      PROVE  /\ <<kind, q>> \in y.adds => Meets(d, kind, q, TRUE)
             /\ <<kind, q>> \notin y.adds /\ <<kind, q>> \in x.dels => Meets(d, kind, q, FALSE)
             /\ <<kind, q>> \notin y.adds /\ <<kind, q>> \notin x.dels => Keeps(d, kind, q)
  <2>1. CASE kind = to /\ q = p
    <3>1. Says(d, kind, q)
      BY <1>1, <1>3, <2>1 DEF Says
    <3> QED
      BY <1>6, <2>1, <3>1 DEF Meets
  <2>2. CASE kind = from /\ q = p
    <3>1. ~Says(d, kind, q)
      BY <1>1, <1>2, <1>3, <2>2 DEF Says, Roles
    <3> QED
      BY <1>1, <1>6, <2>2, <3>1 DEF Meets
  <2>3. CASE ~(kind = from /\ q = p) /\ ~(kind = to /\ q = p)
    <3>1. Keeps(d, kind, q)
      BY <1>1, <1>2, <1>8, <2>3, RoleKeeps DEF OutboxInv
    <3> QED
      BY <1>6, <2>3, <3>1
  <2> QED
    BY <2>1, <2>2, <2>3
<1>9. \A q \in People : d.role[q] = "none" =>
        /\ domain.role[q] = "none" /\ <<"participant", q>> \notin y.adds /\ <<"participant", q>> \notin x.dels
  BY <1>2, <1>3, <1>6
<1>10. \A q : <<"follower", q>> \notin y.adds /\ <<"follower", q>> \notin x.dels
  BY <1>2, <1>5, RoleNamed
<1> HIDE DEF d
<1> QED
  BY <1>1, <1>3, <1>4, <1>5, <1>8, <1>9, <1>10, TwoRowsKeep

(* A change of the followers leaves what else the database says.            *)
LEMMA FollowersKeep ==
  ASSUME Typed, NEW f \in SUBSET People, NEW d, d = [domain EXCEPT !.follows = f],
         NEW kind, NEW q, kind = "follower" => (q \in f <=> q \in domain.follows)
  PROVE  Keeps(d, kind, q)
<1>1. d.owner = domain.owner /\ d.audience = domain.audience /\ d.follows = f /\ d.role = domain.role
  BY DEF Typed, Domains
<1>2. Says(d, kind, q) <=> Says(domain, kind, q)
  BY <1>1 DEF Says
<1>3. Spares(d, kind, q) <=> Spares(domain, kind, q)
  BY <1>1 DEF Spares
<1> QED
  BY <1>2, <1>3 DEF Keeps

(* A direct change of one follower, made when no other one is under way,    *)
(* says what the database says then.                                        *)
LEMMA OneFollowerKeeps ==
  ASSUME OutboxInv, AccessInv, NEW r \in Requests, NEW p \in People, NEW op,
         NEW f \in SUBSET People, f \in {domain.follows \cup {p}, domain.follows \ {p}},
         NEW d, d = [domain EXCEPT !.follows = f], NEW x \in Rows, Produce(r, op, d, <<x>>),
         x.state = "pending", x.how = "direct",
         \A t : Names(x, t) <=> t = <<"follower", p>>,
         <<"follower", p>> \in x.adds <=> p \in f,
         "follow" \notin used => f = domain.follows \ {p},
         "follow" \in used => x.fenced \/ <<"follower", p>> \in x.adds,
         \A i \in DOMAIN outbox : Names(outbox[i], <<"follower", p>>) => ~Incomplete(i)
  PROVE  AccessInv'
<1>1. d \in Domains /\ d.owner = domain.owner /\ d.role = domain.role /\ d.follows = f
  BY DEF OutboxInv, Typed, Domains
<1>2. Fresh(x)
  BY DEF Fresh
<1>3. ASSUME NEW kind, NEW q, Subject(kind, q)
      PROVE  /\ Names(x, <<kind, q>>) => Meets(d, kind, q, <<kind, q>> \in x.adds)
             /\ ~Names(x, <<kind, q>>) => Keeps(d, kind, q)
  <2>1. Names(x, <<kind, q>>) <=> kind = "follower" /\ q = p
    OBVIOUS
  <2>2. CASE kind = "follower" /\ q = p
    <3>1. Says(d, kind, q) <=> p \in f
      BY <1>1, <2>2 DEF Says, Roles
    <3> QED
      BY <2>1, <2>2, <3>1 DEF Meets
  <2>3. CASE ~(kind = "follower" /\ q = p)
    <3>1. Keeps(d, kind, q)
      BY <2>3, FollowersKeep DEF OutboxInv
    <3> QED
      BY <2>1, <2>3, <3>1
  <2> QED
    BY <2>2, <2>3
<1>4. "accept" \in used => \A q \in People : d.role[q] = "none" =>
                             domain.role[q] = "none" /\ ~Names(x, <<"participant", q>>)
  BY <1>1
<1>5. "follow" \notin used => d.follows \subseteq domain.follows
  BY <1>1
<1>6. \A q \in People : Names(x, <<"follower", q>>) =>
        /\ x.how = "direct"
        /\ "follow" \in used => x.fenced \/ <<"follower", q>> \in x.adds
        /\ "follow" \notin used => q \notin d.follows
  <2> SUFFICES ASSUME NEW q \in People, Names(x, <<"follower", q>>) PROVE q = p
    BY <1>1
  <2> QED
    OBVIOUS
<1> QED
  BY <1>1, <1>2, <1>3, <1>4, <1>5, <1>6, OneRowKeeps

(* Whoever follows waits for the removal of this follower; a grant before it *)
(* was completed, because the removal that came between them waited for it. *)
LEMMA FollowKeepsAccess ==
  ASSUME OutboxInv, AccessInv, NEW r \in Requests, NEW p \in People, Follow(r, p) PROVE AccessInv'
<1> DEFINE f == domain.follows \cup {p}
           d == [domain EXCEPT !.follows = f]
           t == <<"follower", p>>
           x == Row({t}, {}, "direct", "replica")
<1>1. Produce(r, "follow", d, <<x>>) /\ p \notin domain.follows /\ NoneWaits(p, TRUE) /\ "follow" \in used
  BY DEF Follow, Produce
<1>2. f \in SUBSET People /\ t \in Tuples
  BY DEF OutboxInv, Typed, Domains, Tuples
<1>3. x \in Rows
  <2>1. Len(outbox) < MaxRows
    BY <1>1, OutboxAssumption DEF Produce, OutboxInv, Typed
  <2>2. {t} \in SUBSET Tuples /\ {} \in SUBSET Tuples /\ "replica" \in Workers \cup {Nobody}
    BY <1>2 DEF Workers
  <2> QED
    BY <2>1, <2>2, RowOfChange DEF OutboxInv
<1>4. x.state = "pending" /\ x.how = "direct" /\ x.adds = {t} /\ x.dels = {}
  BY DEF Row
<1> HIDE DEF x
<1>5. ASSUME NEW i \in DOMAIN outbox, Names(outbox[i], t), Incomplete(i) PROVE FALSE
  <2>1. ~outbox[i].fenced
    BY <1>1, <1>5 DEF NoneWaits, Names
  <2>2. t \in outbox[i].adds
    BY <1>1, <1>5, <2>1 DEF AccessInv, FollowFits
  <2>3. ~SpareIn(domain, t)
    BY DEF SpareIn
  <2>4. t \notin Implied(domain)
    BY <1>1, ImpliedSays DEF OutboxInv, Typed, Says, Kinds, Roles
  <2>5. PICK k \in DOMAIN outbox : Final(k, t) /\ MeantIn(domain, t, outbox[k].adds)
    BY <1>2, <1>5 DEF AccessInv, MeantFits
  <2>6. t \notin outbox[k].adds
    BY <2>3, <2>4, <2>5 DEF MeantIn
  <2>7. i < k
    <3>1. i # k /\ ~(k < i)
      BY <1>5, <2>2, <2>5, <2>6 DEF Final
    <3>2. i \in Nat /\ k \in Nat
      BY DEF OutboxInv, Typed
    <3> QED
      BY <3>1, <3>2
  <2>8. outbox[k].how = "direct"
    BY <2>5 DEF Final, AccessInv, FollowFits
  <2> QED
    BY <1>2, <1>5, <2>5, <2>7, <2>8 DEF AccessInv, DirectFits, Final
<1>6. /\ \A u : Names(x, u) <=> u = t
      /\ t \in x.adds /\ p \in f
  BY <1>4 DEF Names
<1>7. \A i \in DOMAIN outbox : Names(outbox[i], t) => ~Incomplete(i)
  BY <1>5
<1> HIDE DEF f
<1> QED
  BY <1>1, <1>2, <1>3, <1>4, <1>6, <1>7, OneFollowerKeeps DEF f

(* Whoever unfollows finds no change about this follower, when nobody       *)
(* follows again.                                                           *)
LEMMA UnfollowKeepsAccess ==
  ASSUME OutboxInv, AccessInv, NEW r \in Requests, NEW p \in People, Unfollow(r, p) PROVE AccessInv'
<1> DEFINE f == domain.follows \ {p}
           d == [domain EXCEPT !.follows = f]
           t == <<"follower", p>>
           x == Row({}, {t}, "direct", "replica")
<1>1. Produce(r, "unfollow", d, <<x>>) /\ p \in domain.follows /\ "unfollow" \in used
  BY DEF Unfollow, Produce
<1>2. f \in SUBSET People /\ t \in Tuples
  BY DEF OutboxInv, Typed, Domains, Tuples
<1>3. x \in Rows
  <2>1. Len(outbox) < MaxRows
    BY <1>1, OutboxAssumption DEF Produce, OutboxInv, Typed
  <2>2. {t} \in SUBSET Tuples /\ {} \in SUBSET Tuples /\ "replica" \in Workers \cup {Nobody}
    BY <1>2 DEF Workers
  <2> QED
    BY <2>1, <2>2, RowOfChange DEF OutboxInv
<1>4. x.state = "pending" /\ x.how = "direct" /\ x.adds = {} /\ x.dels = {t}
  BY DEF Row
<1> HIDE DEF x
<1>5. "follow" \notin used
  <2>1. {"follow", "unfollow"} \in Clashes
    BY DEF Clashes
  <2> QED
    BY <1>1, <2>1 DEF AccessInv, Harmless
<1>6. /\ \A u : Names(x, u) <=> u = t
      /\ t \notin x.adds /\ p \notin f
  BY <1>4 DEF Names
<1>7. \A i \in DOMAIN outbox : Names(outbox[i], t) => ~Incomplete(i)
  BY <1>1, <1>5 DEF AccessInv, FollowFits
<1>8. f \in {domain.follows \cup {p}, domain.follows \ {p}} /\ f = domain.follows \ {p}
  OBVIOUS
<1> HIDE DEF f
<1> QED
  BY <1>1, <1>2, <1>3, <1>4, <1>5, <1>6, <1>7, <1>8, OneFollowerKeeps

(* The removal of a follower waits for every change about this follower.    *)
LEMMA RemoveFollowerKeepsAccess ==
  ASSUME OutboxInv, AccessInv, NEW r \in Requests, NEW p \in People, RemoveFollower(r, p) PROVE AccessInv'
<1> DEFINE f == domain.follows \ {p}
           d == [domain EXCEPT !.follows = f]
           t == <<"follower", p>>
           w == Row({}, {t}, "direct", "replica")
           x == [w EXCEPT !.fenced = TRUE]
<1>1. Produce(r, "remove_follower", d, <<x>>) /\ p \in domain.follows /\ NoneWaits(p, FALSE)
  BY DEF RemoveFollower
<1>2. f \in SUBSET People /\ t \in Tuples
  BY DEF OutboxInv, Typed, Domains, Tuples
<1>3. w \in Rows
  <2>1. Len(outbox) < MaxRows
    BY <1>1, OutboxAssumption DEF Produce, OutboxInv, Typed
  <2>2. {t} \in SUBSET Tuples /\ {} \in SUBSET Tuples /\ "replica" \in Workers \cup {Nobody}
    BY <1>2 DEF Workers
  <2> QED
    BY <2>1, <2>2, RowOfChange DEF OutboxInv
<1>4. w.state = "pending" /\ w.how = "direct" /\ w.adds = {} /\ w.dels = {t}
  BY DEF Row
<1> HIDE DEF w
<1>5. x \in Rows /\ x.state = "pending" /\ x.how = "direct" /\ x.adds = {} /\ x.dels = {t} /\ x.fenced
  BY <1>3, <1>4 DEF Rows
<1> HIDE DEF x
<1>6. /\ \A u : Names(x, u) <=> u = t
      /\ t \notin x.adds /\ p \notin f
  BY <1>5 DEF Names
<1>7. \A i \in DOMAIN outbox : Names(outbox[i], t) => ~Incomplete(i)
  BY <1>1 DEF NoneWaits, Names
<1>8. f \in {domain.follows \cup {p}, domain.follows \ {p}} /\ f = domain.follows \ {p}
  OBVIOUS
<1> HIDE DEF f
<1> QED
  BY <1>1, <1>2, <1>5, <1>6, <1>7, <1>8, OneFollowerKeeps

(* Another audience is another relationship, or none.                       *)
LEMMA AudienceChanges ==
  ASSUME Typed, NEW v \in Audience, v # domain.audience, NEW d, d = [domain EXCEPT !.audience = v],
         NEW kind, NEW q, Subject(kind, q)
  PROVE  /\ d \in Domains /\ d.owner = domain.owner /\ d.role = domain.role /\ d.follows = domain.follows
         /\ <<kind, q>> \in AudienceOf(v, domain.owner) =>
              Says(d, kind, q) /\ <<kind, q>> \notin AudienceOf(domain.audience, domain.owner)
         /\ <<kind, q>> \in AudienceOf(domain.audience, domain.owner) => ~Says(d, kind, q)
         /\ <<kind, q>> \notin AudienceOf(v, domain.owner)
              /\ <<kind, q>> \notin AudienceOf(domain.audience, domain.owner) => Keeps(d, kind, q)
<1>1. /\ d \in Domains /\ d.owner = domain.owner /\ d.role = domain.role /\ d.follows = domain.follows
      /\ d.audience = v /\ domain.audience \in Audience
  BY DEF Typed, Domains
<1>2. \A a \in Audience : <<kind, q>> \in AudienceOf(a, domain.owner) <=>
           \/ a = "followers" /\ kind = "followers" /\ q = domain.owner
           \/ a = "public" /\ kind = "public" /\ q = "*"
  BY AudienceSays
<1>3. (kind = "public" => q = "*") /\ kind \notin Roles \cap {"public", "followers", "creator", "follower"}
  BY DEF Subject, Kinds, Roles
<1>4. "followers" \notin Roles /\ "public" \notin Roles
  BY DEF Roles
<1>5. Spares(d, kind, q) <=> Spares(domain, kind, q)
  BY <1>1 DEF Spares
<1>6. CASE kind \in {"followers", "public"}
  <2>1. \A e \in {d, domain} : Says(e, kind, q) <=>
          \/ e.audience = "followers" /\ kind = "followers" /\ q = e.owner
          \/ e.audience = "public" /\ kind = "public"
    BY <1>4, <1>6 DEF Says
  <2>2. ~Spares(domain, kind, q)
    BY <1>6 DEF Spares
  <2> QED
    BY <1>1, <1>2, <1>3, <1>5, <2>1, <2>2 DEF Keeps
<1>7. CASE kind \notin {"followers", "public"}
  <2>1. Says(d, kind, q) <=> Says(domain, kind, q)
    BY <1>1, <1>7 DEF Says
  <2> QED
    BY <1>1, <1>2, <1>5, <1>7, <2>1 DEF Keeps
<1> QED
  BY <1>6, <1>7

(* An audience names nobody as a participant or a follower.                 *)
LEMMA AudienceNamed ==
  ASSUME NEW a \in Audience, NEW o, NEW q
  PROVE  <<"participant", q>> \notin AudienceOf(a, o) /\ <<"follower", q>> \notin AudienceOf(a, o)
  BY AudienceSays

(* The visibility takes the old audience and grants the new one behind it.  *)
LEMMA VisibilityKeepsAccess ==
  ASSUME OutboxInv, AccessInv, NEW r \in Requests, NEW v \in Audience, SetVisibility(r, v) PROVE AccessInv'
<1> DEFINE o == domain.owner
           a == domain.audience
           old == AudienceOf(a, o)
           new == AudienceOf(v, o)
           d == [domain EXCEPT !.audience = v]
           x == Row({}, old, "ordered", Nobody)
           y == Row(new, {}, "ordered", Nobody)
<1>1. /\ Produce(r, "visibility", d,
              (IF old = {} THEN << >> ELSE <<x>>) \o (IF new = {} THEN << >> ELSE <<y>>))
      /\ v # a /\ a \in Audience /\ o \in People
  BY DEF SetVisibility, OutboxInv, Typed, Domains
<1>2. d \in Domains /\ d.role = domain.role /\ d.follows = domain.follows
  BY DEF OutboxInv, Typed, Domains
<1>3. old \in SUBSET Tuples /\ new \in SUBSET Tuples
  BY <1>1, AudienceNamesNoCreator
<1>4. ASSUME NEW kind, NEW q, Subject(kind, q)
      PROVE  /\ <<kind, q>> \in new => Says(d, kind, q) /\ <<kind, q>> \notin old
             /\ <<kind, q>> \in old => ~Says(d, kind, q)
             /\ <<kind, q>> \notin new /\ <<kind, q>> \notin old => Keeps(d, kind, q)
  BY <1>1, <1>4, AudienceChanges DEF OutboxInv
<1>5. \A q : /\ <<"participant", q>> \notin new /\ <<"follower", q>> \notin new
             /\ <<"participant", q>> \notin old /\ <<"follower", q>> \notin old
  BY <1>1, AudienceNamed
<1>6. /\ x.state = "pending" /\ x.how = "ordered" /\ x.adds = {} /\ x.dels = old
      /\ y.state = "pending" /\ y.how = "ordered" /\ y.adds = new /\ y.dels = {}
  BY DEF Row
<1>7. ASSUME Len(outbox) < MaxRows PROVE x \in Rows /\ y \in Rows
  BY <1>3, <1>7, RowOfChange DEF OutboxInv
<1>8. (\A t : Names(x, t) <=> t \in old) /\ (\A t : Names(y, t) <=> t \in new)
  BY <1>6 DEF Names
<1>9. ~(old = {} /\ new = {})
  <2> SUFFICES ASSUME old = {}, new = {} PROVE FALSE
    OBVIOUS
  <2>1. a = "private" /\ v = "private"
    BY <1>1 DEF AudienceOf, Audience
  <2> QED
    BY <1>1, <2>1
<1> HIDE DEF old, new, d, x, y
<1>10. CASE old = {} /\ new # {}
  <2>1. << >> \o <<y>> = <<y>>
    OBVIOUS
  <2>2. Produce(r, "visibility", d, <<y>>)
    BY <1>1, <1>10, <2>1
  <2>3. y \in Rows
    BY <1>7, <2>2, OutboxAssumption DEF Produce, OutboxInv, Typed
  <2>4. ASSUME NEW kind, NEW q, Subject(kind, q)
        PROVE  /\ Names(y, <<kind, q>>) => Meets(d, kind, q, <<kind, q>> \in y.adds)
               /\ ~Names(y, <<kind, q>>) => Keeps(d, kind, q)
    BY <1>4, <1>6, <1>8, <1>10, <2>4 DEF Meets
  <2>5. \A q : ~Names(y, <<"participant", q>>) /\ ~Names(y, <<"follower", q>>)
    BY <1>5, <1>8
  <2> QED
    BY <1>2, <1>6, <2>2, <2>3, <2>4, <2>5, OneRowKeeps
<1>11. CASE old # {} /\ new = {}
  <2>1. <<x>> \o << >> = <<x>>
    OBVIOUS
  <2>2. Produce(r, "visibility", d, <<x>>)
    BY <1>1, <1>11, <2>1
  <2>3. x \in Rows
    BY <1>7, <2>2, OutboxAssumption DEF Produce, OutboxInv, Typed
  <2>4. ASSUME NEW kind, NEW q, Subject(kind, q)
        PROVE  /\ Names(x, <<kind, q>>) => Meets(d, kind, q, <<kind, q>> \in x.adds)
               /\ ~Names(x, <<kind, q>>) => Keeps(d, kind, q)
    BY <1>4, <1>6, <1>8, <1>11, <2>4 DEF Meets
  <2>5. \A q : ~Names(x, <<"participant", q>>) /\ ~Names(x, <<"follower", q>>)
    BY <1>5, <1>8
  <2> QED
    BY <1>2, <1>6, <2>2, <2>3, <2>4, <2>5, OneRowKeeps
<1>12. CASE old # {} /\ new # {}
  <2>1. Produce(r, "visibility", d, <<x>> \o <<y>>)
    BY <1>1, <1>12
  <2>2. Produce(r, "visibility", d, <<x, y>>)
    BY <2>1, PairOfRows
  <2>3. x \in Rows /\ y \in Rows
    BY <1>7, <2>2, OutboxAssumption DEF Produce, OutboxInv, Typed
  <2>4. ASSUME NEW kind, NEW q, Subject(kind, q)
        PROVE  /\ <<kind, q>> \in y.adds => Meets(d, kind, q, TRUE)
               /\ <<kind, q>> \notin y.adds /\ <<kind, q>> \in x.dels => Meets(d, kind, q, FALSE)
               /\ <<kind, q>> \notin y.adds /\ <<kind, q>> \notin x.dels => Keeps(d, kind, q)
    BY <1>4, <1>6, <2>4 DEF Meets
  <2>5. \A q : /\ <<"participant", q>> \notin y.adds /\ <<"participant", q>> \notin x.dels
               /\ <<"follower", q>> \notin y.adds /\ <<"follower", q>> \notin x.dels
    BY <1>5, <1>6
  <2> QED
    BY <1>2, <1>6, <2>2, <2>3, <2>4, <2>5, TwoRowsKeep
<1> QED
  BY <1>9, <1>10, <1>11, <1>12

(* A transfer names the creator and the administrators, and moves the       *)
(* audience with the owner; who was a participant may stay one beside that. *)
LEMMA TransferKeepsAccess ==
  ASSUME OutboxInv, AccessInv, NEW r \in Requests, NEW p \in People, Transfer(r, p) PROVE AccessInv'
<1> DEFINE o == domain.owner
           a == domain.audience
<1>1. /\ p # o /\ domain.role[p] \in {"participant", "administrator"} /\ o \in People /\ a \in Audience
      /\ domain.role[o] \in Roles \cup {"none"}
  BY DEF Transfer, OutboxInv, Typed, Domains
<1>2. PICK v \in Audience :
        LET moved == a = "followers" \/ v # a IN
        /\ v = a \/ (a = "public" /\ v = "followers")
        /\ Produce(r, "transfer",
             [domain EXCEPT !.owner = p, !.audience = v, !.role[p] = "participant", !.role[o] = "administrator"],
             <<Row({<<"creator", p>>, <<"administrator", o>>} \cup (IF moved THEN AudienceOf(v, p) ELSE {}),
                   {<<"creator", o>>, <<"administrator", p>>} \cup (IF moved THEN AudienceOf(a, o) ELSE {}),
                   "batch", Nobody)>>)
  BY DEF Transfer, OutboxInv, Typed, Domains, Audience
<1> DEFINE moved == a = "followers" \/ v # a
           new == IF moved THEN AudienceOf(v, p) ELSE {}
           old == IF moved THEN AudienceOf(a, o) ELSE {}
           adds == {<<"creator", p>>, <<"administrator", o>>} \cup new
           dels == {<<"creator", o>>, <<"administrator", p>>} \cup old
           d == [domain EXCEPT !.owner = p, !.audience = v, !.role[p] = "participant", !.role[o] = "administrator"]
           x == Row(adds, dels, "batch", Nobody)
<1>3. Produce(r, "transfer", d, <<x>>) /\ "transfer" \in used
  BY <1>2 DEF Produce
<1>4. /\ d \in Domains /\ d.owner = p /\ d.audience = v /\ d.follows = domain.follows
      /\ d.role[p] = "participant" /\ d.role[o] = "administrator"
      /\ \A q \in People \ {p, o} : d.role[q] = domain.role[q]
  BY <1>1 DEF OutboxInv, Typed, Domains, Roles
<1>5. new \in SUBSET Tuples /\ old \in SUBSET Tuples
  BY <1>1, AudienceNamesNoCreator
<1>6. \A kind, q : /\ <<kind, q>> \in new <=> v = "followers" /\ kind = "followers" /\ q = p
                   /\ <<kind, q>> \in old <=> \/ a = "followers" /\ kind = "followers" /\ q = o
                                              \/ /\ a = "public" /\ v = "followers"
                                                 /\ kind = "public" /\ q = "*"
  <2> SUFFICES ASSUME NEW kind, NEW q
               PROVE  /\ <<kind, q>> \in new <=> v = "followers" /\ kind = "followers" /\ q = p
                      /\ <<kind, q>> \in old <=> \/ a = "followers" /\ kind = "followers" /\ q = o
                                                 \/ /\ a = "public" /\ v = "followers"
                                                    /\ kind = "public" /\ q = "*"
    OBVIOUS
  <2>1. /\ <<kind, q>> \in AudienceOf(v, p) <=>
             \/ v = "followers" /\ kind = "followers" /\ q = p
             \/ v = "public" /\ kind = "public" /\ q = "*"
        /\ <<kind, q>> \in AudienceOf(a, o) <=>
             \/ a = "followers" /\ kind = "followers" /\ q = o
             \/ a = "public" /\ kind = "public" /\ q = "*"
    BY <1>1, AudienceSays
  <2>2. v = a \/ (a = "public" /\ v = "followers")
    BY <1>2
  <2>3. CASE moved
    BY <2>1, <2>2, <2>3
  <2>4. CASE ~moved
    BY <2>2, <2>4
  <2> QED
    BY <2>3, <2>4
<1>7. \A kind, q : /\ <<kind, q>> \in adds <=> \/ kind = "creator" /\ q = p
                                               \/ kind = "administrator" /\ q = o
                                               \/ v = "followers" /\ kind = "followers" /\ q = p
                   /\ <<kind, q>> \in dels <=> \/ kind = "creator" /\ q = o
                                               \/ kind = "administrator" /\ q = p
                                               \/ a = "followers" /\ kind = "followers" /\ q = o
                                               \/ /\ a = "public" /\ v = "followers"
                                                  /\ kind = "public" /\ q = "*"
  <2>1. \A kind, q : /\ <<kind, q>> \in adds <=> \/ <<kind, q>> = <<"creator", p>>
                                                 \/ <<kind, q>> = <<"administrator", o>>
                                                 \/ <<kind, q>> \in new
                     /\ <<kind, q>> \in dels <=> \/ <<kind, q>> = <<"creator", o>>
                                                 \/ <<kind, q>> = <<"administrator", p>>
                                                 \/ <<kind, q>> \in old
    OBVIOUS
  <2>2. \A kind, q, k, w : <<kind, q>> = <<k, w>> <=> kind = k /\ q = w
    OBVIOUS
  <2> HIDE DEF adds, dels, new, old
  <2> SUFFICES ASSUME NEW kind, NEW q
               PROVE  /\ <<kind, q>> \in adds <=> \/ kind = "creator" /\ q = p
                                                  \/ kind = "administrator" /\ q = o
                                                  \/ v = "followers" /\ kind = "followers" /\ q = p
                      /\ <<kind, q>> \in dels <=> \/ kind = "creator" /\ q = o
                                                  \/ kind = "administrator" /\ q = p
                                                  \/ a = "followers" /\ kind = "followers" /\ q = o
                                                  \/ /\ a = "public" /\ v = "followers"
                                                     /\ kind = "public" /\ q = "*"
    OBVIOUS
  <2>3. /\ <<kind, q>> = <<"creator", p>> <=> kind = "creator" /\ q = p
        /\ <<kind, q>> = <<"administrator", o>> <=> kind = "administrator" /\ q = o
        /\ <<kind, q>> = <<"creator", o>> <=> kind = "creator" /\ q = o
        /\ <<kind, q>> = <<"administrator", p>> <=> kind = "administrator" /\ q = p
    BY <2>2
  <2> QED
    BY <1>6, <2>1, <2>3
<1>8. x \in Rows
  <2>1. Len(outbox) < MaxRows
    BY <1>3, OutboxAssumption DEF Produce, OutboxInv, Typed
  <2>2. adds \in SUBSET Tuples /\ dels \in SUBSET Tuples
    BY <1>1, <1>5 DEF Tuples, Roles
  <2> QED
    BY <2>1, <2>2, RowOfChange DEF OutboxInv
<1>9. x.state = "pending" /\ x.how = "batch" /\ x.adds = adds /\ x.dels = dels
  BY DEF Row
<1>13. v = a \/ (a = "public" /\ v = "followers")
  BY <1>2
<1> HIDE DEF x, adds, dels, d
<1>10. \A kind, q : Names(x, <<kind, q>>) <=> <<kind, q>> \in adds \/ <<kind, q>> \in dels
  BY <1>9 DEF Names
<1>11. ASSUME NEW kind, NEW q, Subject(kind, q)
       PROVE  /\ Names(x, <<kind, q>>) => Meets(d, kind, q, <<kind, q>> \in x.adds)
              /\ ~Names(x, <<kind, q>>) => Keeps(d, kind, q)
  <2>1. \A e \in {d, domain} :
          /\ kind = "creator" => (Says(e, kind, q) <=> q = e.owner)
          /\ kind \in Roles => (Says(e, kind, q) <=> q # e.owner /\ e.role[q] = kind)
          /\ kind = "followers" => (Says(e, kind, q) <=> e.audience = "followers" /\ q = e.owner)
          /\ kind = "public" => (Says(e, kind, q) <=> e.audience = "public")
          /\ kind = "follower" => (Says(e, kind, q) <=> q \in e.follows)
    BY DEF Says, Roles
  <2>2. CASE kind \in {"creator", "followers", "follower", "public"}
    <3>1. ~Spares(domain, kind, q)
      BY <2>2 DEF Spares
    <3>2. q \in People \/ (kind = "public" /\ q = "*")
      BY <1>11 DEF Subject
    <3>3. CASE kind = "creator"
      BY <1>1, <1>4, <1>7, <1>9, <1>10, <2>1, <3>1, <3>3 DEF Meets, Keeps
    <3>4. CASE kind = "followers"
      BY <1>1, <1>4, <1>7, <1>9, <1>10, <1>13, <2>1, <3>1, <3>4 DEF Meets, Keeps
    <3>5. CASE kind = "follower"
      BY <1>1, <1>4, <1>7, <1>9, <1>10, <2>1, <3>1, <3>5 DEF Meets, Keeps
    <3>6. CASE kind = "public"
      <4>1. q = "*"
        BY <1>11, <3>6 DEF Subject, Kinds, Roles
      <4> QED
        BY <1>1, <1>4, <1>7, <1>9, <1>10, <1>13, <2>1, <3>1, <3>6, <4>1 DEF Meets, Keeps
    <3> QED
      BY <2>2, <3>3, <3>4, <3>5, <3>6
  <2>3. CASE kind \in Roles
    <3>1. q \in People
      BY <1>11, <2>3 DEF Subject, Roles
    <3>2. CASE kind = "participant"
      <4>1. ~Names(x, <<kind, q>>)
        BY <1>7, <1>10, <3>2
      <4>2. CASE q = p \/ q = o
        <5>1. Spares(d, kind, q)
          BY <1>3, <1>4, <3>2, <4>2 DEF Spares
        <5> QED
          BY <4>1, <5>1 DEF Keeps
      <4>3. CASE q # p /\ q # o
        <5>1. Spares(d, kind, q) <=> Spares(domain, kind, q)
          BY <1>4, <3>1, <4>3 DEF Spares
        <5>2. Says(d, kind, q) <=> Says(domain, kind, q)
          BY <1>4, <2>1, <2>3, <3>1, <4>3
        <5> QED
          BY <4>1, <5>1, <5>2 DEF Keeps
      <4> QED
        BY <4>2, <4>3
    <3>3. CASE kind = "administrator"
      <4>1. ~Spares(domain, kind, q)
        BY <3>3 DEF Spares
      <4> QED
        BY <1>1, <1>4, <1>7, <1>9, <1>10, <2>1, <2>3, <3>1, <3>3, <4>1 DEF Meets, Keeps
    <3>4. CASE kind = "supporter"
      <4>1. ~Spares(domain, kind, q) /\ ~Names(x, <<kind, q>>)
        BY <1>7, <1>10, <3>4 DEF Spares
      <4>2. Says(d, kind, q) <=> Says(domain, kind, q)
        BY <1>1, <1>4, <2>1, <2>3, <3>1, <3>4
      <4> QED
        BY <4>1, <4>2 DEF Keeps
    <3> QED
      BY <2>3, <3>2, <3>3, <3>4 DEF Roles
  <2> QED
    BY <1>11, <2>2, <2>3 DEF Subject, Kinds
<1>12. /\ \A q \in People : d.role[q] = "none" => domain.role[q] = "none" /\ ~Names(x, <<"participant", q>>)
       /\ \A q : ~Names(x, <<"follower", q>>)
  BY <1>4, <1>7, <1>10
<1> QED
  BY <1>3, <1>4, <1>8, <1>9, <1>11, <1>12, OneRowKeeps

(* Every operation keeps the invariant.                                     *)
LEMMA OperationKeepsAccess ==
  ASSUME OutboxInv, AccessInv, NEW r \in Requests, Operation(r) PROVE AccessInv'
  BY VisibilityKeepsAccess, AcceptKeepsAccess, RemovalKeepsAccess, ChangeRoleKeepsAccess, TransferKeepsAccess,
     FollowKeepsAccess, UnfollowKeepsAccess, RemoveFollowerKeepsAccess DEF Operation

-----------------------------------------------------------------------------
(* Access: the steps of the handlers                                        *)

(* No handler changes what a row names, or takes its completion back.       *)
SameRows ==
    /\ DOMAIN outbox' = DOMAIN outbox
    /\ \A k \in DOMAIN outbox :
         /\ outbox'[k].adds = outbox[k].adds /\ outbox'[k].dels = outbox[k].dels
         /\ outbox'[k].how = outbox[k].how /\ outbox'[k].fenced = outbox[k].fenced
         /\ outbox[k].state = "done" => outbox'[k].state = "done"

(* So the rows still say what the database says, and stand in their order.  *)
LEMMA RowsStillFit ==
  ASSUME OutboxInv, AccessInv, SameRows, UNCHANGED <<used, domain>>,
         \A t \in Tuples : (\A i \in DOMAIN outbox : ~Names(outbox[i], t)) => (t \in relations' <=> t \in relations)
  PROVE  /\ Harmless' /\ DirectFits' /\ MeantFits' /\ JoinFits' /\ FollowFits'
         /\ \A i \in DOMAIN outbox, t \in Tuples : Final(i, t)' <=> Final(i, t)
         /\ \A i \in DOMAIN outbox : Earliest(i) => Earliest(i)'
<1>1. /\ DOMAIN outbox' = DOMAIN outbox
      /\ \A k \in DOMAIN outbox : \A t : Names(outbox'[k], t) <=> Names(outbox[k], t)
  BY DEF SameRows, Names
<1>2. \A i \in DOMAIN outbox, t \in Tuples : Final(i, t)' <=> Final(i, t)
  BY <1>1 DEF Final
<1>3. \A i \in DOMAIN outbox : Earliest(i) => Earliest(i)'
  BY DEF Earliest, Incomplete, SameRows, OutboxInv, Typed
<1>4. Harmless'
  BY DEF AccessInv, Harmless
<1>5. DirectFits'
  BY <1>1 DEF AccessInv, DirectFits, SameRows, Incomplete
<1>6. MeantFits'
  <2> SUFFICES ASSUME NEW t \in Tuples
               PROVE  \/ (\A i \in DOMAIN outbox' : ~Names(outbox'[i], t)) /\ MeantIn(domain, t, relations)'
                      \/ \E i \in DOMAIN outbox' : Final(i, t)' /\ MeantIn(domain, t, outbox[i].adds)'
    BY DEF MeantFits
  <2>1. CASE (\A i \in DOMAIN outbox : ~Names(outbox[i], t)) /\ MeantIn(domain, t, relations)
    <3>1. t \in relations' <=> t \in relations
      BY <2>1
    <3>2. MeantIn(domain, t, relations)'
      BY <2>1, <3>1 DEF MeantIn, SpareIn, Implied
    <3> QED
      BY <1>1, <2>1, <3>2
  <2>2. CASE \E i \in DOMAIN outbox : Final(i, t) /\ MeantIn(domain, t, outbox[i].adds)
    <3>1. PICK i \in DOMAIN outbox : Final(i, t) /\ MeantIn(domain, t, outbox[i].adds)
      BY <2>2
    <3>2. MeantIn(domain, t, outbox[i].adds)'
      BY <3>1 DEF MeantIn, SpareIn, Implied, SameRows
    <3> QED
      BY <1>1, <1>2, <3>1, <3>2
  <2> QED
    BY <2>1, <2>2 DEF AccessInv, MeantFits
<1>7. JoinFits'
  BY <1>1 DEF AccessInv, JoinFits
<1>8. FollowFits'
  BY <1>1 DEF AccessInv, FollowFits, SameRows
<1> QED
  BY <1>2, <1>3, <1>4, <1>5, <1>6, <1>7, <1>8

(* A step that writes nothing: rows that are not direct are completed or    *)
(* given up in turn, and completed when their change is there.              *)
LEMMA StepKeepsAccess ==
  ASSUME OutboxInv, OutboxInv', AccessInv, SameRows, UNCHANGED <<used, domain, relations>>,
         \A k \in DOMAIN outbox :
           /\ outbox[k].state = "pending" /\ outbox'[k].state # "pending" /\ outbox[k].how # "direct" => Earliest(k)
           /\ outbox[k].state = "pending" /\ outbox'[k].state = "done" =>
                \A t \in Tuples : Names(outbox[k], t) => Decides(k, t)
           /\ outbox[k].state = "dead" => outbox'[k].state # "done",
         \A q \in Procs :
           /\ job'[q].pc \in {"enter", "write", "complete", "fail"} =>
                job'[q].row \in DOMAIN outbox /\ (outbox[job'[q].row].how # "direct" => Earliest(job'[q].row))
           /\ job'[q].pc = "complete" => job'[q] = job[q]
  PROVE  AccessInv'
<1>1. /\ Harmless' /\ DirectFits' /\ MeantFits' /\ JoinFits' /\ FollowFits'
      /\ \A i \in DOMAIN outbox, t \in Tuples : Final(i, t)' <=> Final(i, t)
      /\ \A i \in DOMAIN outbox : Earliest(i) => Earliest(i)'
  BY RowsStillFit
<1>2. \A i \in DOMAIN outbox : Earliest(i) => \A k \in 1..(i - 1) : outbox'[k].state = "done"
  BY <1>1 DEF Earliest, Incomplete
<1>3. TurnFits'
  <2>1. ASSUME NEW i \in DOMAIN outbox, outbox'[i].how # "direct", outbox'[i].state # "pending"
        PROVE  Earliest(i)'
    <3>1. Earliest(i)
      BY <2>1 DEF AccessInv, TurnFits, SameRows
    <3> QED
      BY <1>1, <3>1
  <2>2. ASSUME NEW q \in Procs, job'[q].pc \in {"enter", "write", "complete", "fail"},
               outbox'[job'[q].row].how # "direct"
        PROVE  \A k \in 1..(job'[q].row - 1) : outbox'[k].state = "done"
    <3>1. PICK i \in DOMAIN outbox : i = job'[q].row
      BY <2>2
    <3>2. Earliest(i)
      BY <2>2, <3>1 DEF SameRows
    <3> QED
      BY <1>2, <3>1, <3>2
  <2> QED
    BY <2>1, <2>2 DEF TurnFits, Earliest, Incomplete, SameRows
<1>4. WrittenFits'
  <2>1. ASSUME NEW t \in Tuples, NEW i \in DOMAIN outbox, Final(i, t)', outbox'[i].state = "done"
        PROVE  Decides(i, t)'
    <3>1. Decides(i, t)
      <4>1. Final(i, t) /\ Names(outbox[i], t)
        BY <1>1, <2>1 DEF Final
      <4>2. outbox[i] \in Rows
        BY DEF OutboxInv, Typed
      <4>3. outbox[i].state \in {"pending", "done", "dead"}
        BY <4>2 DEF Rows
      <4> QED
        BY <2>1, <4>1, <4>3 DEF AccessInv, WrittenFits, Incomplete
    <3> QED
      BY <3>1 DEF Decides, SameRows
  <2>2. ASSUME NEW q \in Procs, NEW t \in Tuples, job'[q].pc = "complete", Names(outbox'[job'[q].row], t)
        PROVE  t \in relations' <=> t \in outbox'[job'[q].row].adds
    <3>1. job'[q] = job[q] /\ job[q].row \in DOMAIN outbox
      BY <2>2
    <3>2. Names(outbox[job[q].row], t)
      BY <2>2, <3>1 DEF Names, SameRows
    <3>3. Decides(job[q].row, t)
      BY <2>2, <3>1, <3>2 DEF AccessInv, WrittenFits
    <3> QED
      BY <3>1, <3>3 DEF Decides, SameRows
  <2> QED
    BY <2>1, <2>2 DEF WrittenFits, Decides, Incomplete, SameRows
<1> QED
  BY <1>1, <1>3, <1>4 DEF AccessInv

(* A job moves on and no row.                                               *)
LEMMA JobMovesAccess ==
  ASSUME OutboxInv, OutboxInv', AccessInv, UNCHANGED <<used, domain, outbox, relations>>,
         NEW p \in Procs, NEW j, job' = [job EXCEPT ![p] = j], j.pc # "complete",
         j.pc \in {"enter", "write", "fail"} =>
           j.row \in DOMAIN outbox /\ (outbox[j.row].how # "direct" => Earliest(j.row))
  PROVE  AccessInv'
<1>1. SameRows
  BY DEF SameRows
<1>2. job'[p] = j /\ \A q \in Procs \ {p} : job'[q] = job[q]
  BY DEF OutboxInv, Typed
<1>3. \A q \in Procs :
        /\ job'[q].pc \in {"enter", "write", "complete", "fail"} =>
             job'[q].row \in DOMAIN outbox /\ (outbox[job'[q].row].how # "direct" => Earliest(job'[q].row))
        /\ job'[q].pc = "complete" => job'[q] = job[q]
  BY <1>2 DEF OutboxInv, JobFits, AccessInv, TurnFits
<1> QED
  BY <1>1, <1>3, StepKeepsAccess

(* A job moves on with a row.                                               *)
LEMMA RowAndJobMoveAccess ==
  ASSUME OutboxInv, OutboxInv', AccessInv, UNCHANGED <<used, domain, relations>>,
         NEW p \in Procs, NEW j, job' = [job EXCEPT ![p] = j], j.pc \in {"idle", "claim", "enter"},
         NEW i \in DOMAIN outbox, NEW x, outbox' = [outbox EXCEPT ![i] = x],
         x.adds = outbox[i].adds, x.dels = outbox[i].dels, x.how = outbox[i].how, x.fenced = outbox[i].fenced,
         outbox[i].state = "done" => x.state = "done",
         outbox[i].state = "dead" => x.state # "done",
         outbox[i].state = "pending" /\ x.state # "pending" /\ outbox[i].how # "direct" => Earliest(i),
         outbox[i].state = "pending" /\ x.state = "done" =>
           \A t \in Tuples : Names(outbox[i], t) => Decides(i, t),
         j.pc = "enter" => j.row \in DOMAIN outbox /\ (outbox[j.row].how # "direct" => Earliest(j.row))
  PROVE  AccessInv'
<1>1. /\ DOMAIN outbox' = DOMAIN outbox /\ outbox'[i] = x /\ \A k \in DOMAIN outbox \ {i} : outbox'[k] = outbox[k]
  BY DEF OutboxInv, Typed
<1>2. SameRows
  BY <1>1 DEF SameRows
<1>3. \A k \in DOMAIN outbox :
           /\ outbox[k].state = "pending" /\ outbox'[k].state # "pending" /\ outbox[k].how # "direct" => Earliest(k)
           /\ outbox[k].state = "pending" /\ outbox'[k].state = "done" =>
                \A t \in Tuples : Names(outbox[k], t) => Decides(k, t)
           /\ outbox[k].state = "dead" => outbox'[k].state # "done"
  BY <1>1
<1>4. job'[p] = j /\ \A q \in Procs \ {p} : job'[q] = job[q]
  BY DEF OutboxInv, Typed
<1>5. \A q \in Procs :
        /\ job'[q].pc \in {"enter", "write", "complete", "fail"} =>
             job'[q].row \in DOMAIN outbox /\ (outbox[job'[q].row].how # "direct" => Earliest(job'[q].row))
        /\ job'[q].pc = "complete" => job'[q] = job[q]
  BY <1>4 DEF OutboxInv, JobFits, AccessInv, TurnFits
<1> QED
  BY <1>2, <1>3, <1>5, StepKeepsAccess

(* Claims and requeues lease a row in turn, or a direct one that nobody     *)
(* else needs.                                                              *)
LEMMA ClaimKeepsAccess ==
  ASSUME OutboxInv, OutboxInv', AccessInv, NEW r \in Requests,
         \/ ClaimOwn(r) \/ ClaimNext(r)
         \/ \E i \in DOMAIN outbox : Retry(r, i) \/ Requeue(r, i)
  PROVE  AccessInv'
<1>1. r \in Procs /\ Idle.pc = "idle"
  BY DEF Procs, Idle
<1>2. CASE ClaimOwn(r)
  <2> DEFINE i == job[r].row
             x == [outbox[i] EXCEPT !.by = job[r].as]
             j == [job[r] EXCEPT !.pc = "enter"]
  <2>1. UNCHANGED <<used, domain, relations>> /\ i \in DOMAIN outbox /\ job[r] \in Jobs /\ outbox[i] \in Rows
    BY <1>1, <1>2 DEF ClaimOwn, OutboxInv, JobFits, Typed
  <2>2. CASE Claimable(i) /\ Lease(i, job[r].as) /\ Become(r, "enter")
    <3>1. outbox' = [outbox EXCEPT ![i] = x] /\ job' = [job EXCEPT ![r] = j]
      BY <2>2 DEF Lease, Become
    <3>2. /\ x.adds = outbox[i].adds /\ x.dels = outbox[i].dels /\ x.how = outbox[i].how
          /\ x.fenced = outbox[i].fenced /\ x.state = outbox[i].state
          /\ j.pc = "enter" /\ j.row = i
      BY <2>1 DEF Jobs, Rows
    <3>3. Earliest(i) /\ outbox[i].state = "pending"
      BY <2>2 DEF Claimable
    <3> HIDE DEF x, j, i
    <3> QED
      BY <1>1, <2>1, <3>1, <3>2, <3>3, RowAndJobMoveAccess
  <2>3. CASE Stop(r) /\ UNCHANGED outbox
    BY <1>1, <2>1, <2>3, JobMovesAccess DEF Stop
  <2> QED
    BY <1>2, <2>2, <2>3 DEF ClaimOwn
<1>3. CASE ClaimNext(r)
  <2>1. UNCHANGED <<used, domain, relations>> /\ job[r] \in Jobs
    BY <1>1, <1>3 DEF ClaimNext, OutboxInv, Typed
  <2>2. CASE Stop(r) /\ UNCHANGED outbox
    BY <1>1, <2>1, <2>2, JobMovesAccess DEF Stop
  <2>3. CASE \E i \in DOMAIN outbox :
               /\ outbox[i].state = "pending" /\ Earliest(i) /\ Lease(i, job[r].as)
               /\ job' = [job EXCEPT ![r].pc = "enter", ![r].row = i]
    <3>1. PICK i \in DOMAIN outbox :
               /\ outbox[i].state = "pending" /\ Earliest(i) /\ Lease(i, job[r].as)
               /\ job' = [job EXCEPT ![r].pc = "enter", ![r].row = i]
      BY <2>3
    <3> DEFINE x == [outbox[i] EXCEPT !.by = job[r].as]
               j == [job[r] EXCEPT !.pc = "enter", !.row = i]
    <3>2. outbox' = [outbox EXCEPT ![i] = x]
      BY <3>1 DEF Lease
    <3>3. job' = [job EXCEPT ![r] = j]
      BY <1>1, <2>1, <3>1 DEF OutboxInv, Typed, Jobs
    <3>4. outbox[i] \in Rows
      BY DEF OutboxInv, Typed
    <3>5. /\ x.adds = outbox[i].adds /\ x.dels = outbox[i].dels /\ x.how = outbox[i].how
          /\ x.fenced = outbox[i].fenced /\ x.state = outbox[i].state
          /\ j.pc = "enter" /\ j.row = i
      BY <2>1, <3>4 DEF Jobs, Rows
    <3> HIDE DEF x, j
    <3> QED
      BY <1>1, <2>1, <3>1, <3>2, <3>3, <3>5, RowAndJobMoveAccess
  <2>4. (Stop(r) /\ UNCHANGED outbox) \/ (\E i \in DOMAIN outbox :
               /\ outbox[i].state = "pending" /\ Earliest(i) /\ Lease(i, job[r].as)
               /\ job' = [job EXCEPT ![r].pc = "enter", ![r].row = i])
    <3> DEFINE singles == {k \in DOMAIN outbox : Incomplete(k) /\ outbox[k].how # "batch"}
               i == CHOOSE k \in singles : \A m \in singles : k <= m
    <3>1. CASE singles = {}
      BY <1>3, <3>1 DEF ClaimNext
    <3>2. CASE singles # {}
      <4>1. singles \in SUBSET Nat
        BY DEF OutboxInv, Typed
      <4>2. \E k \in singles : \A m \in singles : k <= m
        BY <3>2, <4>1, FirstUnfinished
      <4>3. i \in singles
        BY <4>2
      <4>4. \/ /\ outbox[i].state = "pending" /\ Earliest(i) /\ Lease(i, job[r].as)
               /\ job' = [job EXCEPT ![r].pc = "enter", ![r].row = i]
            \/ Stop(r) /\ UNCHANGED outbox
        BY <1>3, <3>2 DEF ClaimNext
      <4>5. i \in DOMAIN outbox
        BY <4>3
      <4> HIDE DEF i, singles
      <4> QED
        BY <4>4, <4>5
    <3> QED
      BY <3>1, <3>2
  <2> QED
    BY <2>2, <2>3, <2>4
<1>4. ASSUME NEW i \in DOMAIN outbox, Retry(r, i) PROVE AccessInv'
  <2> DEFINE j == [pc |-> "claim", mode |-> outbox[i].how, row |-> i,
                   as |-> IF outbox[i].how = "ordered" THEN "path" ELSE "replica", mine |-> {i}]
  <2>1. UNCHANGED <<used, domain, outbox, relations>> /\ job' = [job EXCEPT ![r] = j] /\ j.pc = "claim"
    BY <1>4 DEF Retry
  <2> HIDE DEF j
  <2> QED
    BY <1>1, <2>1, JobMovesAccess
<1>5. ASSUME NEW i \in DOMAIN outbox, Requeue(r, i) PROVE AccessInv'
  <2> DEFINE x == [outbox[i] EXCEPT !.state = "pending", !.attempts = 0, !.by = r]
             j == [pc |-> "enter", mode |-> "direct", row |-> i, as |-> r, mine |-> {i}]
  <2>5. outbox[i] \in Rows
    BY DEF OutboxInv, Typed
  <2>1. UNCHANGED <<used, domain, relations>> /\ outbox[i].state = "dead" /\ outbox[i] \in Rows
    BY <1>5, <2>5 DEF Requeue
  <2>2. outbox' = [outbox EXCEPT ![i] = x] /\ job' = [job EXCEPT ![r] = j]
    BY <1>5, <2>1 DEF Requeue, OutboxInv, Typed, Rows
  <2>3. /\ x.adds = outbox[i].adds /\ x.dels = outbox[i].dels /\ x.how = outbox[i].how
        /\ x.fenced = outbox[i].fenced /\ x.state = "pending"
        /\ j.pc = "enter" /\ j.row = i
    BY <2>1 DEF Rows
  <2>4. outbox[i].how # "direct" => Earliest(i)
    BY <2>1 DEF AccessInv, TurnFits
  <2> HIDE DEF x, j
  <2> QED
    BY <1>1, <2>1, <2>2, <2>3, <2>4, RowAndJobMoveAccess
<1> QED
  BY <1>2, <1>3, <1>4, <1>5

(* So does the background pass.                                             *)
LEMMA SweepKeepsAccess ==
  ASSUME OutboxInv, OutboxInv', AccessInv, NEW p \in Sweepers, NEW i \in DOMAIN outbox, Sweep(p, i)
  PROVE  AccessInv'
<1> DEFINE x == [outbox[i] EXCEPT !.by = "replica"]
           j == [Idle EXCEPT !.pc = "enter", !.mode = "sweep", !.row = i, !.as = "replica"]
<1>1. UNCHANGED <<used, domain, relations>> /\ Claimable(i) /\ outbox[i] \in Rows /\ p \in Procs
  BY DEF Sweep, OutboxInv, Typed, Procs
<1>2. outbox' = [outbox EXCEPT ![i] = x] /\ job' = [job EXCEPT ![p] = j]
  BY DEF Sweep, Lease
<1>3. /\ x.adds = outbox[i].adds /\ x.dels = outbox[i].dels /\ x.how = outbox[i].how
      /\ x.fenced = outbox[i].fenced /\ x.state = outbox[i].state
      /\ j.pc = "enter" /\ j.row = i
  BY <1>1 DEF Rows, Idle
<1>4. Earliest(i) /\ outbox[i].state = "pending"
  BY <1>1 DEF Claimable
<1> HIDE DEF x, j
<1> QED
  BY <1>1, <1>2, <1>3, <1>4, RowAndJobMoveAccess

(* Who is renewed goes on with its row; who is not, or dies, leaves it.     *)
LEMMA EnterKeepsAccess ==
  ASSUME OutboxInv, OutboxInv', AccessInv, NEW p \in Procs, Enter(p) \/ Die(p) PROVE AccessInv'
<1>1. UNCHANGED <<used, domain, outbox, relations>> /\ job[p] \in Jobs /\ Idle.pc = "idle"
  BY DEF Enter, Die, OutboxInv, Typed, Idle
<1>2. CASE Stop(p)
  BY <1>1, <1>2, JobMovesAccess DEF Stop
<1>3. CASE job[p].pc = "enter" /\ Become(p, "write")
  <2> DEFINE j == [job[p] EXCEPT !.pc = "write"]
  <2>1. job' = [job EXCEPT ![p] = j]
    BY <1>3 DEF Become
  <2>2. j.pc = "write" /\ j.row = job[p].row
    BY <1>1 DEF Jobs
  <2>3. job[p].row \in DOMAIN outbox /\ (outbox[job[p].row].how # "direct" => Earliest(job[p].row))
    BY <1>3 DEF OutboxInv, JobFits, AccessInv, TurnFits
  <2> HIDE DEF j
  <2> QED
    BY <1>1, <2>1, <2>2, <2>3, JobMovesAccess
<1> QED
  BY <1>2, <1>3 DEF Enter, Die

(* A change is completed after its write, and before any other one.         *)
LEMMA CompleteKeepsAccess ==
  ASSUME OutboxInv, OutboxInv', AccessInv, NEW p \in Procs, Complete(p) PROVE AccessInv'
<1> DEFINE i == job[p].row
           x == [outbox[i] EXCEPT !.state = "done", !.by = Nobody]
<1>1. /\ UNCHANGED <<used, domain, relations>> /\ job[p] \in Jobs /\ Idle.pc = "idle"
      /\ job[p].pc = "complete" /\ i \in DOMAIN outbox /\ outbox[i] \in Rows /\ job[p].as # Nobody
  BY DEF Complete, OutboxInv, JobFits, Typed, Idle
<1>2. CASE Stop(p) /\ UNCHANGED outbox
  BY <1>1, <1>2, JobMovesAccess DEF Stop
<1>3. CASE /\ outbox[i].by = job[p].as
           /\ outbox' = [outbox EXCEPT ![i].state = "done", ![i].by = Nobody]
           /\ Become(p, "claim") \/ Stop(p)
  <2>1. outbox' = [outbox EXCEPT ![i] = x]
    BY <1>1, <1>3 DEF OutboxInv, Typed, Rows
  <2>2. /\ x.adds = outbox[i].adds /\ x.dels = outbox[i].dels /\ x.how = outbox[i].how
        /\ x.fenced = outbox[i].fenced /\ x.state = "done"
    BY <1>1 DEF Rows
  <2>3. PICK j \in {[job[p] EXCEPT !.pc = "claim"], Idle} : job' = [job EXCEPT ![p] = j]
    BY <1>3 DEF Become, Stop
  <2>4. j.pc \in {"claim", "idle"}
    BY <1>1 DEF Jobs
  <2>5. \A t \in Tuples : Names(outbox[i], t) => Decides(i, t)
    BY <1>1 DEF AccessInv, WrittenFits
  <2>6. outbox[i].how # "direct" => Earliest(i)
    BY <1>1 DEF AccessInv, TurnFits
  <2>7. outbox[i].state = "pending"
    BY <1>1, <1>3 DEF OutboxInv, LeaseFits
  <2> HIDE DEF x, i
  <2> QED
    BY <1>1, <2>1, <2>2, <2>3, <2>4, <2>5, <2>6, <2>7, RowAndJobMoveAccess
<1> QED
  BY <1>2, <1>3 DEF Complete

(* A change that is no direct one is given up in turn.                      *)
LEMMA FailKeepsAccess ==
  ASSUME OutboxInv, OutboxInv', AccessInv, NEW p \in Procs, FailChange(p) PROVE AccessInv'
<1> DEFINE i == job[p].row
           attempts == outbox[i].attempts + 1
<1>0. UNCHANGED <<used, domain, relations>> /\ Stop(p) /\ job[p].pc = "fail" /\ Idle.pc = "idle"
  BY DEF FailChange, Idle
<1>1. job[p] \in Jobs /\ i \in DOMAIN outbox /\ outbox[i] \in Rows /\ job[p].as # Nobody
  BY <1>0 DEF OutboxInv, JobFits, Typed
<1>2. CASE UNCHANGED outbox
  BY <1>0, <1>1, <1>2, JobMovesAccess DEF Stop
<1>3. outbox[i].how # "direct" => Earliest(i)
  BY <1>0, <1>1 DEF AccessInv, TurnFits
<1>4. CASE outbox[i].by = job[p].as
  <2>1. outbox[i].state = "pending"
    BY <1>1, <1>4 DEF OutboxInv, LeaseFits
  <2>2. PICK x : /\ outbox' = [outbox EXCEPT ![i] = x]
                 /\ x.adds = outbox[i].adds /\ x.dels = outbox[i].dels /\ x.how = outbox[i].how
                 /\ x.fenced = outbox[i].fenced /\ x.state \in {"pending", "dead"}
    <3>1. CASE outbox[i].how = "batch"
      <4> DEFINE x == [outbox[i] EXCEPT !.by = Nobody]
      <4>1. outbox' = [outbox EXCEPT ![i] = x]
        BY <1>4, <3>1 DEF FailChange
      <4>2. /\ x.adds = outbox[i].adds /\ x.dels = outbox[i].dels /\ x.how = outbox[i].how
            /\ x.fenced = outbox[i].fenced /\ x.state = "pending"
        BY <1>1, <2>1 DEF Rows
      <4> QED
        BY <4>1, <4>2
    <3>2. CASE outbox[i].how # "batch"
      <4> DEFINE st == IF attempts >= MaxAttempts THEN "dead" ELSE outbox[i].state
                 x == [outbox[i] EXCEPT !.by = Nobody, !.attempts = attempts, !.state = st]
      <4>1. outbox' = [outbox EXCEPT ![i] = x]
        BY <1>1, <1>4, <3>2 DEF FailChange, OutboxInv, Typed, Rows
      <4>2. st \in {"pending", "dead"}
        BY <2>1
      <4> HIDE DEF st
      <4>3. /\ x.adds = outbox[i].adds /\ x.dels = outbox[i].dels /\ x.how = outbox[i].how
            /\ x.fenced = outbox[i].fenced /\ x.state = st
        BY <1>1 DEF Rows
      <4> QED
        BY <4>1, <4>2, <4>3
    <3> QED
      BY <3>1, <3>2
  <2> DEFINE j == Idle
  <2>3. job' = [job EXCEPT ![p] = j] /\ j.pc = "idle"
    BY <1>0 DEF Stop
  <2> HIDE DEF i, j
  <2> QED
    BY <1>0, <1>1, <1>3, <2>1, <2>2, <2>3, RowAndJobMoveAccess
<1> QED
  BY <1>2, <1>4 DEF FailChange

(* A lease runs out.                                                        *)
LEMMA LoseLeaseKeepsAccess ==
  ASSUME OutboxInv, OutboxInv', AccessInv, NEW i \in DOMAIN outbox, LoseLease(i) PROVE AccessInv'
<1>1. UNCHANGED <<used, domain, relations, job>>
  BY DEF LoseLease
<1>2. /\ DOMAIN outbox' = DOMAIN outbox
      /\ \A k \in DOMAIN outbox :
           /\ outbox'[k].adds = outbox[k].adds /\ outbox'[k].dels = outbox[k].dels
           /\ outbox'[k].how = outbox[k].how /\ outbox'[k].fenced = outbox[k].fenced
           /\ outbox'[k].state = outbox[k].state
  BY DEF LoseLease, Lease, OutboxInv, Typed, Rows
<1>3. SameRows
  BY <1>2 DEF SameRows
<1>4. \A q \in Procs :
        /\ job'[q].pc \in {"enter", "write", "complete", "fail"} =>
             job'[q].row \in DOMAIN outbox /\ (outbox[job'[q].row].how # "direct" => Earliest(job'[q].row))
        /\ job'[q].pc = "complete" => job'[q] = job[q]
  BY <1>1 DEF OutboxInv, JobFits, AccessInv, TurnFits
<1> QED
  BY <1>1, <1>2, <1>3, <1>4, StepKeepsAccess

(* What is written names nothing that a later change was already completed  *)
(* about: that one would have waited.                                       *)
LEMMA WriteKeepsAccess ==
  ASSUME OutboxInv, OutboxInv', AccessInv, NEW p \in Procs, Write(p) \/ WriteFails(p) PROVE AccessInv'
<1>1. PICK i \in DOMAIN outbox : i = job[p].row
  BY DEF Write, WriteFails, OutboxInv, JobFits
<1>2. /\ UNCHANGED <<used, domain, outbox>> /\ job[p].pc = "write" /\ job[p] \in Jobs /\ Incomplete(i)
      /\ outbox[i].how # "direct" => Earliest(i)
      /\ \A q \in Procs \ {p} : job[q].pc # "complete"
  BY <1>1 DEF Write, WriteFails, OutboxInv, Typed, JobFits, AccessInv, TurnFits
<1>3. PICK pc \in {"complete", "fail"} :
        /\ Become(p, pc) /\ relations' \in {relations, Applied(i)}
        /\ pc = "complete" => relations' = Applied(i)
  BY <1>1 DEF Write, WriteFails
<1>4. /\ job'[p].pc = pc /\ job'[p].row = i
      /\ \A q \in Procs \ {p} : job'[q] = job[q]
  BY <1>1, <1>2, <1>3 DEF Become, OutboxInv, Typed, Jobs
<1>5. \A t \in Tuples : /\ ~Names(outbox[i], t) => (t \in relations' <=> t \in relations)
                        /\ Names(outbox[i], t) /\ relations' = Applied(i) => (t \in relations' <=> t \in outbox[i].adds)
  BY <1>3 DEF Applied, Names
<1>6. SameRows
  BY <1>2 DEF SameRows
<1>7. /\ Harmless' /\ DirectFits' /\ MeantFits' /\ JoinFits' /\ FollowFits'
      /\ \A k \in DOMAIN outbox, t \in Tuples : Final(k, t)' <=> Final(k, t)
      /\ \A k \in DOMAIN outbox : Earliest(k) => Earliest(k)'
  BY <1>2, <1>5, <1>6, RowsStillFit
<1>8. TurnFits'
  <2>1. \A k \in DOMAIN outbox : outbox'[k].how # "direct" /\ outbox'[k].state # "pending" => Earliest(k)'
    BY <1>2, <1>7 DEF AccessInv, TurnFits
  <2>2. ASSUME NEW q \in Procs, job'[q].pc \in {"enter", "write", "complete", "fail"},
               outbox'[job'[q].row].how # "direct"
        PROVE  \A k \in 1..(job'[q].row - 1) : outbox'[k].state = "done"
    <3>1. PICK k \in DOMAIN outbox : k = job'[q].row
      BY <1>2, <1>4, <2>2 DEF OutboxInv, JobFits
    <3>2. Earliest(k)
      BY <1>1, <1>2, <1>4, <2>2, <3>1 DEF AccessInv, TurnFits
    <3> QED
      BY <1>2, <3>1, <3>2 DEF Earliest, Incomplete
  <2> QED
    BY <1>2, <2>1, <2>2 DEF TurnFits, Earliest, Incomplete
<1>9. WrittenFits'
  <2>1. ASSUME NEW t \in Tuples, NEW k \in DOMAIN outbox, Final(k, t), ~Incomplete(k)
        PROVE  t \in relations' <=> t \in outbox[k].adds
    <3>1. ~Names(outbox[i], t)
      <4> SUFFICES ASSUME Names(outbox[i], t) PROVE FALSE
        OBVIOUS
      <4>1. i # k /\ i \in Nat /\ k \in Nat
        BY <1>2, <2>1 DEF OutboxInv, Typed
      <4>2. i < k /\ i \in 1..(k - 1)
        <5>1. ~(k < i)
          BY <2>1 DEF Final
        <5>2. DOMAIN outbox = 1..Len(outbox)
          BY DEF OutboxInv, Typed
        <5> QED
          BY <4>1, <5>1, <5>2
      <4>3. CASE outbox[k].how = "direct"
        BY <1>2, <2>1, <4>2, <4>3 DEF AccessInv, DirectFits, Final
      <4>4. CASE outbox[k].how # "direct"
        <5>1. Earliest(k)
          BY <2>1, <4>4 DEF AccessInv, TurnFits, Incomplete
        <5> QED
          BY <1>2, <4>2, <5>1 DEF Earliest
      <4> QED
        BY <4>3, <4>4
    <3> QED
      BY <1>5, <2>1, <3>1 DEF AccessInv, WrittenFits, Decides
  <2>2. ASSUME NEW q \in Procs, NEW t \in Tuples, job'[q].pc = "complete", Names(outbox'[job'[q].row], t)
        PROVE  t \in relations' <=> t \in outbox'[job'[q].row].adds
    <3>1. q = p /\ pc = "complete" /\ job'[q].row = i
      BY <1>2, <1>4, <2>2
    <3> QED
      BY <1>2, <1>3, <1>5, <2>2, <3>1
  <2> QED
    BY <1>2, <1>7, <2>1, <2>2 DEF WrittenFits, Decides, Incomplete
<1> QED
  BY <1>7, <1>8, <1>9 DEF AccessInv

-----------------------------------------------------------------------------
(* Access: the invariant and the theorem                                    *)

(* At first no row names anything and the relationships are the database's. *)
LEMMA AccessHoldsAtFirst ==
  ASSUME OutboxInit, Harmless PROVE AccessInv
<1>1. DOMAIN outbox = {} /\ \A p \in Procs : job[p].pc = "idle"
  BY DEF OutboxInit, Idle
<1>2. MeantFits
  BY <1>1 DEF OutboxInit, MeantFits, MeantIn
<1> QED
  BY <1>1, <1>2 DEF AccessInv, TurnFits, DirectFits, WrittenFits, JoinFits, FollowFits, Final

(* Each step keeps the invariant.                                           *)
LEMMA AccessIsInductive == OutboxInv /\ OutboxInv' /\ AccessInv /\ [OutboxNext]_outboxVars => AccessInv'
<1> SUFFICES ASSUME OutboxInv, OutboxInv', AccessInv, [OutboxNext]_outboxVars PROVE AccessInv'
  OBVIOUS
<1>1. CASE UNCHANGED outboxVars
  <2>1. UNCHANGED <<used, domain, outbox, relations, job>> /\ SameRows
    BY <1>1 DEF outboxVars, SameRows
  <2>2. \A q \in Procs :
          job'[q].pc \in {"enter", "write", "complete", "fail"} =>
            job'[q].row \in DOMAIN outbox /\ (outbox[job'[q].row].how # "direct" => Earliest(job'[q].row))
    BY <2>1 DEF OutboxInv, JobFits, AccessInv, TurnFits
  <2> QED
    BY <2>1, <2>2, StepKeepsAccess
<1>2. ASSUME NEW r \in Requests, Operation(r) PROVE AccessInv'
  BY <1>2, OperationKeepsAccess
<1>3. ASSUME NEW r \in Requests,
             \/ ClaimOwn(r) \/ ClaimNext(r)
             \/ \E i \in DOMAIN outbox : Retry(r, i) \/ Requeue(r, i)
      PROVE  AccessInv'
  BY <1>3, ClaimKeepsAccess
<1>4. ASSUME NEW p \in Sweepers, NEW i \in DOMAIN outbox, Sweep(p, i) PROVE AccessInv'
  BY <1>4, SweepKeepsAccess
<1>5. ASSUME NEW p \in Procs, Deliver(p) \/ WriteFails(p) \/ Die(p) PROVE AccessInv'
  BY <1>5, EnterKeepsAccess, WriteKeepsAccess, CompleteKeepsAccess, FailKeepsAccess DEF Deliver
<1>6. ASSUME NEW i \in DOMAIN outbox, LoseLease(i) PROVE AccessInv'
  BY <1>6, LoseLeaseKeepsAccess
<1> QED
  BY <1>1, <1>2, <1>3, <1>4, <1>5, <1>6 DEF OutboxNext

(* When every change is applied, the relationships are the database's, and  *)
(* those of participants who own or administer the path beside them.        *)
LEMMA AccessConverges ==
  ASSUME OutboxInv, AccessInv, \A i \in DOMAIN outbox : ~Incomplete(i)
  PROVE  /\ Implied(domain) \subseteq relations
         /\ \A t \in relations : t \in Implied(domain) \/ SpareIn(domain, t)
<1>1. ASSUME NEW t \in Tuples PROVE MeantIn(domain, t, relations)
  <2>1. CASE \E i \in DOMAIN outbox : Final(i, t) /\ MeantIn(domain, t, outbox[i].adds)
    <3>1. PICK i \in DOMAIN outbox : Final(i, t) /\ MeantIn(domain, t, outbox[i].adds)
      BY <2>1
    <3>2. Decides(i, t)
      BY <3>1 DEF AccessInv, WrittenFits
    <3> QED
      BY <3>1, <3>2 DEF MeantIn, Decides
  <2> QED
    BY <2>1 DEF AccessInv, MeantFits
<1>2. Implied(domain) \subseteq Tuples /\ relations \subseteq Tuples
  BY AudienceNamesNoCreator DEF OutboxInv, Typed, Domains, Implied, Tuples
<1>3. ASSUME NEW t \in Implied(domain) PROVE ~SpareIn(domain, t)
  <2>1. PICK kind, q : t = <<kind, q>> /\ Subject(kind, q)
    BY <1>2, <1>3, TupleParts DEF Subject
  <2>2. Says(domain, kind, q)
    BY <1>3, <2>1, ImpliedSays DEF OutboxInv, Typed, Subject
  <2>3. ~Spares(domain, kind, q)
    BY <2>2 DEF Says, Spares
  <2> QED
    BY <2>1, <2>3, SpareSays DEF Spares
<1> QED
  BY <1>1, <1>2, <1>3 DEF MeantIn

(* Who owns or administers a path may do what a participant may.            *)
LEMMA SpareGrantsNothing ==
  ASSUME OutboxInv, NEW t \in Tuples, SpareIn(domain, t), NEW may \in Permissions(t[1])
  PROVE  \E u \in Implied(domain) : u[2] = t[2] /\ may \in Permissions(u[1])
<1>1. PICK q \in People : t = <<"participant", q>> /\ (q = domain.owner \/ domain.role[q] = "administrator")
  <2>1. PICK kind, q : t = <<kind, q>> /\ Subject(kind, q)
    BY TupleParts DEF Subject
  <2>2. kind = "participant" /\ (q = domain.owner \/ domain.role[q] = "administrator")
    BY <2>1 DEF SpareIn
  <2> QED
    BY <2>1, <2>2 DEF Subject
<1>2. may \in {"track", "view"}
  BY <1>1 DEF Permissions
<1>3. domain \in Domains /\ "creator" \in Kinds /\ "administrator" \in Kinds /\ "administrator" \in Roles
  BY DEF OutboxInv, Typed, Kinds, Roles
<1>4. CASE q = domain.owner
  <2>1. <<"creator", q>> \in Implied(domain)
    BY <1>3, <1>4, ImpliedSays DEF Says
  <2>2. may \in Permissions("creator")
    BY <1>2 DEF Permissions
  <2> QED
    BY <1>1, <2>1, <2>2
<1>5. CASE q # domain.owner
  <2>1. <<"administrator", q>> \in Implied(domain)
    BY <1>1, <1>3, <1>5, ImpliedSays DEF Says
  <2>2. may \in Permissions("administrator")
    BY <1>2 DEF Permissions
  <2> QED
    BY <1>1, <2>1, <2>2
<1> QED
  BY <1>4, <1>5

(* Then everybody may do exactly what the database says.                    *)
LEMMA AccessFits == OutboxInv /\ AccessInv => Converged
<1> SUFFICES ASSUME OutboxInv, AccessInv, \A i \in DOMAIN outbox : ~Incomplete(i), NEW who \in People \cup {"*"}
             PROVE  Grants(relations, who) = Grants(Implied(domain), who)
  BY DEF Converged
<1>1. /\ Implied(domain) \subseteq relations
      /\ \A t \in relations : t \in Implied(domain) \/ SpareIn(domain, t)
  BY AccessConverges
<1>2. \A rel, may : may \in Grants(rel, who) <=> \E t \in rel : t[2] = who /\ may \in Permissions(t[1])
  BY DEF Grants
<1>3. ASSUME NEW may, NEW t \in relations, t[2] = who, may \in Permissions(t[1])
      PROVE  \E u \in Implied(domain) : u[2] = who /\ may \in Permissions(u[1])
  <2>1. t \in Tuples
    BY DEF OutboxInv, Typed
  <2>2. CASE t \in Implied(domain)
    BY <1>3, <2>2
  <2>3. CASE SpareIn(domain, t)
    BY <1>3, <2>1, <2>3, SpareGrantsNothing
  <2> QED
    BY <1>1, <2>2, <2>3
<1>4. \A may : may \in Grants(relations, who) <=> may \in Grants(Implied(domain), who)
  BY <1>1, <1>2, <1>3
<1> QED
  BY <1>4

(* Wherever a change is repeated, fails, is delayed or is completed by      *)
(* another replica: a path has one creator, and when every change of its    *)
(* outbox is applied, the authorization service grants everybody exactly    *)
(* what the database says - unless two operations that clash are used.      *)
THEOREM AccessFollowsTheDatabase == OutboxSpec /\ Harmless => []RelationsFit
<1>1. OutboxInit /\ Harmless => OutboxInv /\ AccessInv
  BY OutboxInvHoldsAtFirst, AccessHoldsAtFirst
<1>2. OutboxInv /\ AccessInv /\ [OutboxNext]_outboxVars => (OutboxInv /\ AccessInv)'
  BY OutboxInvIsInductive, AccessIsInductive
<1>3. OutboxInv /\ AccessInv => Converged
  BY AccessFits
<1>4. OutboxSpec => []OneCreator
  BY AlwaysOneCreator
<1>5. Converged /\ OneCreator => RelationsFit
  BY DEF RelationsFit
<1> QED
  BY <1>1, <1>2, <1>3, <1>4, <1>5, PTL DEF OutboxSpec
=============================================================================
