-------------------------- MODULE RecordStore_proofs --------------------------
(***************************************************************************)
(* The write operations on records, for every number of requests, records, *)
(* users and connections: the audit log tells every record's history,      *)
(* answers of success are durable, requests cannot exhaust the pool among  *)
(* themselves, rights are those of the transaction's snapshot, and all is  *)
(* as if requests looked and wrote at one moment.                          *)
(***************************************************************************)
EXTENDS RecordStore, SharedFacts

Pool == PoolInv(Ids \cup Users)

(* A request is in a transaction exactly between a read and its commit.    *)
Transactions == \A q \in Requests : q \in open <=> pc[q] \in {"commit", "audit"}

(* What a request can be about at each of its steps.                       *)
Jobs ==
  \A q \in Requests :
    /\ job[q].op \in {"update", "touch", "delete"} => job[q].id # 0
    /\ job[q].op = "import" => job[q].id = 0
    /\ job[q].op = "create" =>
         /\ pc[q] \in {"idle", "begin", "commit"} => job[q].id = 0
         /\ pc[q] \in {"refresh", "audit", "ok"} => job[q].id # 0
    /\ pc[q] = "refresh" => job[q].op \in {"create", "update", "touch"}
    /\ pc[q] = "audit" => job[q].op = "create"

(* What was read still holds, unless the rows it was read from have been   *)
(* changed since, which the commit finds out.                              *)
UpToDate(q) ==
  LET j == job[q] IN
    /\ j.user \in changed[q] \/ MayWrite(j.user)
    /\ j.op = "import" => ParseUpload(j.file).ok
    /\ j.op \in {"update", "touch", "delete"} =>
         /\ owner[j.id] # "unused"
         /\ j.id \in changed[q] \/ Exists(j.id)
         /\ j.user \in changed[q] \/ ~Exists(j.id) \/ MayModify(j.user, j.id)

Snapshot == \A q \in Requests : pc[q] = "commit" => UpToDate(q)

(* A created record belongs to one request, and is audited by nobody else. *)
Creations ==
  /\ \A q \in Requests : job[q].op = "create" /\ job[q].id # 0 =>
       /\ owner[job[q].id] # "unused"
       /\ job[q].id \notin UNION batches
       /\ pc[q] \in {"refresh", "audit"} => trail[job[q].id].create = 0
  /\ \A q, r \in Requests :
       job[q].op = "create" /\ job[r].op = "create" /\ job[q].id # 0 /\ q # r =>
         job[q].id # job[r].id

(* What a request has done when it has only its answer to fetch.           *)
Executed ==
  \A q \in Requests :
    /\ pc[q] = "refresh" /\ job[q].op # "create" => trail[job[q].id][job[q].op] > 0
    /\ pc[q] = "ok" /\ job[q].op # "import" => trail[job[q].id][job[q].op] > 0
    /\ pc[q] = "ok" /\ job[q].op = "import" =>
         /\ ParseUpload(job[q].file).ok
         /\ \E ids \in batches : Cardinality(ids) = ParseUpload(job[q].file).rows

StoreInv ==
  /\ TypeOK /\ Pool /\ Transactions /\ Jobs
  /\ Snapshot /\ Creations /\ Executed /\ TrailMatches

---------------------------------------------------------------------------
(* What the assumptions say, once for all proofs.                          *)

LEMMA WhoActs ==
  /\ Requests \subseteq Actors /\ Handlers \subseteq Actors /\ Flusher \in Actors
  /\ Requests \cap Handlers = {} /\ Flusher \notin Requests
BY RecordStoreAssumption

LEMMA JobFields ==
  ASSUME NEW j \in Job
  PROVE  j.op \in Ops /\ j.user \in Users /\ j.id \in 0..MaxId /\ j.file \in Files
BY DEF Job

LEMMA IdsAreNot0 == \A id : id \in Ids <=> id \in 0..MaxId /\ id # 0
BY RecordStoreAssumption DEF Ids

---------------------------------------------------------------------------
(* The pool.                                                               *)

(* Every step of the requests and of the others uses the pool as Sessions  *)
(* allows.                                                                 *)
LEMMA PoolStep == StoreInv /\ [Next]_vars => Pool'
<1> SUFFICES ASSUME StoreInv, [Next]_vars PROVE Pool'
  OBVIOUS
<1> DEFINE rows == Ids \cup Users
<1>1. PoolInv(rows)
  BY DEF StoreInv, Pool
<1> HIDE DEF rows
<1>fewer. ASSUME open' \in SUBSET open, changed' \in [Actors -> SUBSET rows],
              \A a \in Actors \ open' : changed'[a] = {}
       PROVE  PoolInv(rows)'
  BY <1>1, <1>fewer, FewerHold, SessionsAssumption DEF PoolInv
<1>2. ASSUME NEW a \in Actors, Begin(a) \/ Close(a) PROVE PoolInv(rows)'
  <2>1. CASE Begin(a)
    BY <1>1, <2>1, OneMoreHolds, SessionsAssumption DEF Begin, FreeConnection, PoolInv
  <2>2. CASE Close(a)
    BY <1>1, <1>fewer, <2>2 DEF Close, PoolInv
  <2> QED BY <1>2, <2>1, <2>2
<1>3. ASSUME NEW a \in Actors, NEW written \in SUBSET rows, Commit(a, written)
      PROVE  PoolInv(rows)'
  BY <1>1, <1>3, <1>fewer DEF Commit, PoolInv
<1>4. ASSUME UNCHANGED sessionVars PROVE PoolInv(rows)'
  BY <1>1, <1>4 DEF PoolInv, sessionVars
<1>5. {} \in SUBSET rows /\ \A q \in Requests : job[q].id \in Ids => {job[q].id} \in SUBSET rows
  BY DEF rows
<1>6. ASSUME NEW q \in Requests, Arrive(q) \/ Step(q) PROVE PoolInv(rows)'
  <2> USE WhoActs
  <2>1. CASE Arrive(q) \/ Refuse(q)
    BY <1>4, <2>1 DEF Arrive, Refuse
  <2>2. CASE Read(q) \/ Fail(q)
    BY <1>2, <2>2 DEF Read, Fail
  <2>3. CASE CommitCreate(q) \/ CommitImport(q) \/ CommitAudit(q)
    BY <1>3, <1>5, <2>3 DEF CommitCreate, CommitImport, CommitAudit
  <2>4. CASE CommitUpdate(q) \/ CommitDelete(q)
    <3>1. job[q].op \in {"update", "delete"} => job[q].id \in Ids
      BY IdsAreNot0, JobFields DEF StoreInv, TypeOK, Jobs
    <3> QED BY <1>3, <1>5, <2>4, <3>1 DEF CommitUpdate, CommitDelete
  <2>5. CASE Refresh(q)
    BY <1>2, <1>4, <2>5 DEF Refresh
  <2> QED BY <1>6, <2>1, <2>2, <2>3, <2>4, <2>5 DEF Step
<1>7. ASSUME NEW h \in Handlers, Subscribe(h) \/ Unsubscribe(h) PROVE PoolInv(rows)'
  BY <1>2, <1>7, WhoActs DEF Subscribe, Unsubscribe
<1>8. ASSUME Flush \/ FlushEnds PROVE PoolInv(rows)'
  BY <1>2, <1>3, <1>5, <1>8, WhoActs DEF Flush, FlushEnds
<1>9. ASSUME Crash PROVE PoolInv(rows)'
  BY <1>1, <1>9, <1>fewer DEF Crash, Disconnect, PoolInv
<1>10. ASSUME NEW u \in Users, NEW to \in NewRoles, ChangeRole(u, to) PROVE PoolInv(rows)'
  <2>1. {u} \in SUBSET rows
    BY DEF rows
  <2> QED BY <1>1, <1>10, <1>fewer, <2>1 DEF ChangeRole, ChangedElsewhere, PoolInv
<1>11. ASSUME UNCHANGED vars PROVE PoolInv(rows)'
  BY <1>4, <1>11 DEF vars
<1> QED BY <1>6, <1>7, <1>8, <1>9, <1>10, <1>11 DEF Next, Pool, rows
---------------------------------------------------------------------------
(* Types.                                                                  *)

(* Goto and Committed set one request's place.                             *)
LEMMA Places ==
  ASSUME NEW q \in Requests, NEW next \in {"begin", "commit", "refresh", "audit", "ok"},
         TypeOK, Goto(q, next) \/ Goto(q, "failed") \/ Committed(q, next)
  PROVE  /\ pc' \in [Requests -> {"idle", "begin", "commit", "refresh", "audit", "ok", "failed"}]
         /\ pc'[q] \in {next, "failed"}
         /\ \A r \in Requests \ {q} : pc'[r] = pc[r]
BY DEF TypeOK, Goto, Committed

LEMMA InsertedOwners ==
  ASSUME NEW ids \in SUBSET Ids, NEW u \in Users \cup {"nobody"}, TypeOK, Inserted(ids, u)
  PROVE  /\ owner' \in [Ids -> Owners]
         /\ \A id \in ids : owner'[id] = u
         /\ \A id \in Ids \ ids : owner'[id] = owner[id]
BY DEF TypeOK, Inserted, Owners

LEMMA AuditedTrail ==
  ASSUME NEW id \in Ids, NEW action \in {"create", "update", "touch", "delete"},
         TypeOK, Audited(id, action)
  PROVE  /\ trail' \in [Ids -> [create : Nat, update : Nat, touch : Nat, delete : Nat]]
         /\ trail'[id][action] = trail[id][action] + 1
         /\ \A other \in {"create", "update", "touch", "delete"} \ {action} :
              trail'[id][other] = trail[id][other]
         /\ \A other \in Ids \ {id} : trail'[other] = trail[other]
<1>1. trail[id] \in [create : Nat, update : Nat, touch : Nat, delete : Nat]
  BY DEF TypeOK
<1>2. CASE action = "create"
  BY <1>1, <1>2 DEF TypeOK, Audited
<1>3. CASE action = "update"
  BY <1>1, <1>3 DEF TypeOK, Audited
<1>4. CASE action = "touch"
  BY <1>1, <1>4 DEF TypeOK, Audited
<1>5. CASE action = "delete"
  BY <1>1, <1>5 DEF TypeOK, Audited
<1> QED BY <1>2, <1>3, <1>4, <1>5

(* A create gets its id, and nothing else of the jobs changes.             *)
LEMMA NamedJob ==
  ASSUME NEW q \in Requests, NEW id \in Ids, TypeOK, job' = [job EXCEPT ![q].id = id]
  PROVE  /\ job' \in [Requests -> Job]
         /\ job'[q].id = id /\ job'[q].op = job[q].op
         /\ job'[q].user = job[q].user /\ job'[q].file = job[q].file
         /\ \A r \in Requests \ {q} : job'[r] = job[r]
<1>1. job \in [Requests -> Job] /\ id \in 0..MaxId
  BY IdsAreNot0 DEF TypeOK
<1> QED BY <1>1 DEF Job

(* What the commit of a create leaves behind.                              *)
CreatedAs(q, id) ==
  /\ owner[id] = "unused" /\ owner'[id] = job[q].user
  /\ \A other \in Ids \ {id} : owner'[other] = owner[other]
  /\ job' \in [Requests -> Job]
  /\ job[q].op = "create" /\ job'[q].op = "create" /\ job'[q].id = id
  /\ job'[q].user = job[q].user
  /\ \A r \in Requests \ {q} : job'[r] = job[r]

LEMMA CreateEffect ==
  ASSUME NEW q \in Requests, TypeOK, CommitCreate(q)
  PROVE  \E id \in Ids : CreatedAs(q, id)
<1>1. PICK id \in Free : Inserted({id}, job[q].user) /\ job' = [job EXCEPT ![q].id = id]
  BY DEF CommitCreate
<1>2. id \in Ids /\ {id} \in SUBSET Ids /\ owner[id] = "unused"
  BY DEF Free
<1>3. job[q].op = "create" /\ job[q].user \in Users
  BY JobFields DEF CommitCreate, TypeOK
<1>4. /\ owner'[id] = job[q].user
      /\ \A other \in Ids \ {id} : owner'[other] = owner[other]
  <2>1. Inserted({id}, job[q].user)
    BY <1>1
  <2> QED BY <2>1, <1>2, <1>3, InsertedOwners
<1>5. /\ job' \in [Requests -> Job]
      /\ job'[q].id = id /\ job'[q].op = job[q].op /\ job'[q].user = job[q].user
      /\ \A r \in Requests \ {q} : job'[r] = job[r]
  BY <1>1, <1>2, NamedJob, Zenon
<1> QED BY <1>2, <1>3, <1>4, <1>5 DEF CreatedAs

LEMMA TypeStep == StoreInv /\ [Next]_vars => TypeOK'
<1> SUFFICES ASSUME StoreInv, [Next]_vars PROVE TypeOK'
  OBVIOUS
<1>1. TypeOK /\ Jobs
  BY DEF StoreInv
<1>2. /\ (open \in SUBSET Actors /\ Cardinality(open) <= PoolLimit)'
      /\ changed' \in [Actors -> SUBSET (Ids \cup Users)]
  BY PoolStep DEF Pool, PoolInv
<1>3. ASSUME NEW q \in Requests, Arrive(q) \/ Step(q) PROVE TypeOK'
  <2>1. job[q] \in Job /\ job[q].user \in Users
    BY <1>1, JobFields DEF TypeOK
  <2>2. CASE Arrive(q) \/ Refuse(q) \/ Read(q) \/ Refresh(q) \/ Fail(q)
    BY <1>1, <1>2, <2>2, Places DEF TypeOK, Arrive, Refuse, Read, Refresh, Fail, database
  <2>3. CASE CommitCreate(q)
    <3>1. PICK id \in Free : Inserted({id}, job[q].user)
      BY <2>3 DEF CommitCreate
    <3>2. id \in Ids /\ {id} \in SUBSET Ids
      BY DEF Free
    <3>3. owner' \in [Ids -> Owners] /\ job' \in [Requests -> Job]
      BY <1>1, <2>1, <2>3, <3>1, <3>2, InsertedOwners, CreateEffect DEF CreatedAs
    <3> QED BY <1>1, <1>2, <2>3, <3>3, Places DEF TypeOK, CommitCreate
  <2>4. CASE CommitUpdate(q)
    <3>1. job[q].op \in {"update", "touch"} /\ job[q].id \in Ids
      BY <1>1, <2>1, <2>4, JobFields, IdsAreNot0 DEF CommitUpdate, Jobs
    <3>2. trail' \in [Ids -> [create : Nat, update : Nat, touch : Nat, delete : Nat]]
      BY <1>1, <2>4, <3>1, AuditedTrail DEF CommitUpdate
    <3> QED BY <1>1, <1>2, <2>4, <3>2, Places DEF TypeOK, CommitUpdate
  <2>5. CASE CommitDelete(q)
    <3>1. job[q].id \in Ids
      BY <1>1, <2>1, <2>5, JobFields, IdsAreNot0 DEF CommitDelete, Jobs
    <3>2. trail' \in [Ids -> [create : Nat, update : Nat, touch : Nat, delete : Nat]]
      BY <1>1, <2>5, <3>1, AuditedTrail DEF CommitDelete
    <3>3. owner' \in [Ids -> Owners]
      BY <1>1, <2>5 DEF TypeOK, CommitDelete, Owners
    <3> QED BY <1>1, <1>2, <2>5, <3>2, <3>3, Places DEF TypeOK, CommitDelete
  <2>6. CASE CommitImport(q)
    <3>1. PICK ids \in SUBSET Free : Inserted(ids, job[q].user) /\ batches' = batches \cup {ids}
      BY <2>6 DEF CommitImport
    <3>2. ids \in SUBSET Ids
      BY DEF Free
    <3>3. owner' \in [Ids -> Owners]
      BY <1>1, <2>1, <3>1, <3>2, InsertedOwners, Zenon
    <3> QED BY <1>1, <1>2, <2>6, <3>1, <3>2, <3>3, Places DEF TypeOK, CommitImport
  <2>7. CASE CommitAudit(q)
    <3>1. job[q].id \in Ids
      BY <1>1, <2>1, <2>7, JobFields, IdsAreNot0 DEF CommitAudit, Jobs
    <3>2. trail' \in [Ids -> [create : Nat, update : Nat, touch : Nat, delete : Nat]]
      BY <1>1, <2>7, <3>1, AuditedTrail DEF CommitAudit
    <3> QED BY <1>1, <1>2, <2>7, <3>2, Places DEF TypeOK, CommitAudit
  <2> QED BY <1>3, <2>2, <2>3, <2>4, <2>5, <2>6, <2>7 DEF Step
<1>4. ASSUME NEW h \in Handlers, Subscribe(h) \/ Unsubscribe(h) PROVE TypeOK'
  BY <1>1, <1>2, <1>4 DEF TypeOK, Subscribe, Unsubscribe, database
<1>5. CASE Flush
  BY <1>1, <1>2, <1>5 DEF TypeOK, Flush, database
<1>6. CASE FlushEnds
  <2>1. owner' \in [Ids -> Owners]
    <3>1. CASE UNCHANGED owner
      BY <1>1, <3>1 DEF TypeOK
    <3>2. CASE ~UNCHANGED owner
      <4>1. PICK id \in Free : Inserted({id}, "nobody")
        BY <1>6, <3>2 DEF FlushEnds
      <4>2. {id} \in SUBSET Ids
        BY DEF Free
      <4> QED BY <1>1, <4>1, <4>2, InsertedOwners
    <3> QED BY <3>1, <3>2
  <2> QED BY <1>1, <1>2, <1>6, <2>1 DEF TypeOK, FlushEnds
<1>7. CASE Crash
  BY <1>1, <1>2, <1>7 DEF TypeOK, Crash, database
<1>8. ASSUME NEW u \in Users, NEW to \in NewRoles, ChangeRole(u, to) PROVE TypeOK'
  BY <1>1, <1>2, <1>8, RecordStoreAssumption DEF TypeOK, ChangeRole
<1>9. CASE UNCHANGED vars
  BY <1>1, <1>2, <1>9 DEF TypeOK, vars
<1> QED BY <1>3, <1>4, <1>5, <1>6, <1>7, <1>8, <1>9 DEF Next

---------------------------------------------------------------------------
(* Control.                                                                *)

(* A request that begins enters a transaction, and every way on ends it.    *)
LEMMA TransactionsStep == StoreInv /\ [Next]_vars => Transactions'
<1> SUFFICES ASSUME StoreInv, [Next]_vars PROVE Transactions'
  OBVIOUS
<1>1. /\ TypeOK /\ Transactions
      /\ pc \in [Requests -> {"idle", "begin", "commit", "refresh", "audit", "ok", "failed"}]
  BY DEF StoreInv, TypeOK
<1>2. ASSUME NEW q \in Requests, Arrive(q) \/ Step(q) PROVE Transactions'
  <2> USE <1>1, Places DEF Transactions
  <2>1. CASE Arrive(q) \/ Refuse(q)
    BY <2>1 DEF Arrive, Refuse, Goto, sessionVars
  <2>2. CASE Read(q)
    BY <2>2 DEF Read, Begin, Goto
  <2>3. CASE CommitCreate(q)
    BY <2>3 DEF CommitCreate, Commit
  <2>4. CASE CommitUpdate(q)
    BY <2>4 DEF CommitUpdate, Commit
  <2>5. CASE CommitDelete(q)
    BY <2>5 DEF CommitDelete, Commit
  <2>6. CASE CommitImport(q)
    BY <2>6 DEF CommitImport, Commit
  <2>7. CASE Refresh(q)
    BY <2>7 DEF Refresh, Begin, Goto, sessionVars
  <2>8. CASE CommitAudit(q)
    BY <2>8 DEF CommitAudit, Commit
  <2>9. CASE Fail(q)
    BY <2>9 DEF Fail, Close, Goto
  <2> QED BY <1>2, <2>1, <2>2, <2>3, <2>4, <2>5, <2>6, <2>7, <2>8, <2>9 DEF Step
<1>3. ASSUME NEW h \in Handlers, Subscribe(h) \/ Unsubscribe(h) PROVE Transactions'
  BY <1>1, <1>3, WhoActs DEF Transactions, Subscribe, Unsubscribe, Begin, Close
<1>4. CASE Flush \/ FlushEnds
  BY <1>1, <1>4, WhoActs DEF Transactions, Flush, FlushEnds, Begin, Commit, Close
<1>5. CASE Crash
  BY <1>1, <1>5 DEF Transactions, Crash, Disconnect, Running
<1>6. ASSUME NEW u \in Users, NEW to \in NewRoles, ChangeRole(u, to) PROVE Transactions'
  BY <1>1, <1>6 DEF Transactions, ChangeRole, ChangedElsewhere
<1>7. CASE UNCHANGED vars
  BY <1>1, <1>7 DEF Transactions, vars, sessionVars
<1> QED BY <1>2, <1>3, <1>4, <1>5, <1>6, <1>7 DEF Next

(* Requests go through the steps of their kind.                             *)
LEMMA JobsStep == StoreInv /\ [Next]_vars => Jobs'
<1> SUFFICES ASSUME StoreInv, [Next]_vars PROVE Jobs'
  OBVIOUS
<1>1. /\ TypeOK /\ Jobs
      /\ pc \in [Requests -> {"idle", "begin", "commit", "refresh", "audit", "ok", "failed"}]
      /\ \A q \in Requests : job[q].op \in Ops
  BY JobFields DEF StoreInv, TypeOK
<1>2. ASSUME NEW q \in Requests, Arrive(q) \/ Step(q) PROVE Jobs'
  <2> USE <1>1, Places DEF Jobs, Ops
  <2>1. CASE Arrive(q) \/ Refuse(q) \/ Read(q) \/ Refresh(q) \/ Fail(q)
    BY <2>1 DEF Arrive, Refuse, Read, Refresh, Fail, Goto
  <2>2. CASE CommitCreate(q)
    <3>1. PICK id \in Ids : CreatedAs(q, id)
      BY <2>2, CreateEffect
    <3>3. /\ job'[q].id # 0 /\ job'[q].op = "create"
          /\ \A r \in Requests \ {q} : job'[r] = job[r]
      BY <3>1, IdsAreNot0 DEF CreatedAs
    <3>4. pc'[q] \in {"refresh", "failed"} /\ \A r \in Requests \ {q} : pc'[r] = pc[r]
      BY <2>2 DEF CommitCreate
    <3> QED BY <3>3, <3>4
  <2>3. CASE CommitUpdate(q)
    BY <2>3 DEF CommitUpdate
  <2>4. CASE CommitDelete(q) \/ CommitImport(q)
    BY <2>4 DEF CommitDelete, CommitImport
  <2>5. CASE CommitAudit(q)
    BY <2>5 DEF CommitAudit
  <2> QED BY <1>2, <2>1, <2>2, <2>3, <2>4, <2>5 DEF Step
<1>3. ASSUME NEW h \in Handlers, Subscribe(h) \/ Unsubscribe(h) PROVE Jobs'
  BY <1>1, <1>3 DEF Jobs, Subscribe, Unsubscribe
<1>4. CASE Flush \/ FlushEnds
  BY <1>1, <1>4 DEF Jobs, Flush, FlushEnds
<1>5. CASE Crash
  BY <1>1, <1>5 DEF Jobs, Crash
<1>6. ASSUME NEW u \in Users, NEW to \in NewRoles, ChangeRole(u, to) PROVE Jobs'
  BY <1>1, <1>6 DEF Jobs, ChangeRole
<1>7. CASE UNCHANGED vars
  BY <1>1, <1>7 DEF Jobs, vars
<1> QED BY <1>2, <1>3, <1>4, <1>5, <1>6, <1>7 DEF Next

---------------------------------------------------------------------------
(* Snapshots.                                                              *)

(* What was read stays up to date, or is known to have changed.            *)
LEMMA StaysUpToDate ==
  ASSUME NEW q \in Requests, UpToDate(q), job'[q] = job[q],
         changed[q] \subseteq changed'[q],
         role'[job[q].user] # role[job[q].user] => job[q].user \in changed'[q],
         \/ owner[job[q].id] = "unused" \/ owner'[job[q].id] = owner[job[q].id]
         \/ owner'[job[q].id] = "deleted" /\ job[q].id \in changed'[q]
  PROVE  UpToDate(q)'
BY DEF UpToDate, MayWrite, MayModify, Exists

LEMMA SnapshotStep == StoreInv /\ [Next]_vars => Snapshot'
<1> SUFFICES ASSUME StoreInv, [Next]_vars, NEW q \in Requests, pc'[q] = "commit"
             PROVE  UpToDate(q)'
  BY DEF Snapshot
<1>1. /\ TypeOK /\ Transactions /\ Jobs /\ Snapshot
      /\ pc \in [Requests -> {"idle", "begin", "commit", "refresh", "audit", "ok", "failed"}]
      /\ changed \in [Actors -> SUBSET (Ids \cup Users)] /\ open \subseteq Actors
      /\ owner \in [Ids -> Owners] /\ role \in [Users -> Roles]
      /\ \A r \in Requests : job[r] \in Job /\ job[r].user \in Users
  BY JobFields DEF StoreInv, TypeOK
<1>2. pc[q] = "commit" => UpToDate(q) /\ q \in open /\ q \in Actors
  BY <1>1, WhoActs DEF Transactions, Snapshot
<1>3. \A r \in Requests : job[r].id \in Ids \cup {0}
  BY <1>1, JobFields, IdsAreNot0
<1>4. ASSUME pc[q] = "commit", job'[q] = job[q], UNCHANGED role,
             changed[q] \subseteq changed'[q],
             \A id \in Ids : \/ owner[id] = "unused" \/ owner'[id] = owner[id]
                             \/ owner'[id] = "deleted" /\ id \in changed'[q]
      PROVE  UpToDate(q)'
  <2>1. job[q].op \in {"update", "touch", "delete"} => job[q].id \in Ids
    BY <1>1, <1>3 DEF Jobs
  <2> QED BY <1>2, <1>4, <2>1 DEF UpToDate, MayWrite, MayModify, Exists
<1>5. ASSUME NEW r \in Requests, Arrive(r) \/ Step(r) PROVE UpToDate(q)'
  <2> USE <1>1, Places
  <2>1. ASSUME NEW written, Commit(r, written), r # q, pc[q] = "commit"
        PROVE  changed[q] \subseteq changed'[q]
    BY <1>2, <2>1 DEF Commit
  <2>2. CASE Arrive(r) \/ Refuse(r)
    BY <1>4, <2>2 DEF Arrive, Refuse, Goto, sessionVars, database
  <2>3. CASE Read(r)
    <3>1. CASE q = r
      BY <2>3, <3>1 DEF Read, Permitted, UpToDate, database, MayWrite, MayModify, Exists
    <3>2. CASE q # r
      BY <1>4, <2>3, <3>2 DEF Read, Begin, Goto, database
    <3> QED BY <3>1, <3>2
  <2>4. CASE Refresh(r)
    BY <1>4, <2>4 DEF Refresh, Begin, Goto, sessionVars, database
  <2>5. CASE Fail(r)
    BY <1>4, <2>5, WhoActs DEF Fail, Close, Goto, database
  <2>6. CASE CommitCreate(r)
    <3>1. PICK id \in Ids : CreatedAs(r, id)
      BY <2>6, CreateEffect
    <3>2. q # r /\ pc[q] = "commit" /\ Commit(r, {}) /\ UNCHANGED role
      BY <2>6 DEF CommitCreate
    <3> QED BY <1>4, <2>1, <3>1, <3>2 DEF CreatedAs
  <2>7. CASE CommitUpdate(r)
    BY <1>4, <2>1, <2>7 DEF CommitUpdate
  <2>8. CASE CommitDelete(r)
    <3>1. q # r /\ pc[q] = "commit" /\ Commit(r, {job[r].id})
      BY <2>8 DEF CommitDelete
    <3>2. job[r].id \in changed'[q]
      BY <1>2, <3>1 DEF Commit
    <3> QED BY <1>4, <2>1, <2>8, <3>1, <3>2 DEF CommitDelete
  <2>9. CASE CommitImport(r)
    <3>1. PICK ids \in SUBSET Free : Inserted(ids, job[r].user)
      BY <2>9 DEF CommitImport
    <3>2. ids \in SUBSET Ids /\ \A id \in ids : owner[id] = "unused"
      BY DEF Free
    <3>3. \A id \in Ids : owner[id] = "unused" \/ owner'[id] = owner[id]
      BY <3>1, <3>2, InsertedOwners
    <3> QED BY <1>4, <2>1, <2>9, <3>3 DEF CommitImport
  <2>10. CASE CommitAudit(r)
    BY <1>4, <2>1, <2>10 DEF CommitAudit
  <2> QED BY <1>5, <2>2, <2>3, <2>4, <2>5, <2>6, <2>7, <2>8, <2>9, <2>10 DEF Step
<1>6. ASSUME NEW h \in Handlers, Subscribe(h) \/ Unsubscribe(h) PROVE UpToDate(q)'
  BY <1>1, <1>4, <1>6, WhoActs DEF Subscribe, Unsubscribe, Begin, Close, database
<1>7. CASE Flush
  BY <1>4, <1>7 DEF Flush, Begin, database
<1>8. CASE FlushEnds
  <2>1. \A id \in Ids : owner[id] = "unused" \/ owner'[id] = owner[id]
    <3>1. CASE UNCHANGED owner
      BY <3>1
    <3>2. CASE ~UNCHANGED owner
      <4>1. PICK id \in Free : Inserted({id}, "nobody")
        BY <1>8, <3>2 DEF FlushEnds
      <4>2. {id} \in SUBSET Ids /\ owner[id] = "unused"
        BY DEF Free
      <4>3. \A other \in Ids \ {id} : owner'[other] = owner[other]
        BY <1>1, <4>1, <4>2, InsertedOwners
      <4> QED BY <4>2, <4>3
    <3> QED BY <3>1, <3>2
  <2>2. pc[q] = "commit" /\ job' = job /\ UNCHANGED role
    BY <1>8 DEF FlushEnds
  <2>3. changed[q] \subseteq changed'[q]
    BY <1>1, <1>2, <1>8, <2>2, WhoActs DEF FlushEnds, Commit, Close
  <2> QED BY <1>4, <2>1, <2>2, <2>3
<1>9. CASE Crash
  BY <1>1, <1>9 DEF Crash, Running
<1>10. ASSUME NEW u \in Users, NEW to \in NewRoles, ChangeRole(u, to) PROVE UpToDate(q)'
  <2>1. pc[q] = "commit" /\ job' = job /\ UNCHANGED owner
    BY <1>10 DEF ChangeRole
  <2>2. changed'[q] = changed[q] \cup {u} /\ \A v \in Users \ {u} : role'[v] = role[v]
    BY <1>1, <1>2, <1>10, <2>1 DEF ChangeRole, ChangedElsewhere
  <2> QED BY <1>1, <1>2, <2>1, <2>2, StaysUpToDate
<1>11. CASE UNCHANGED vars
  BY <1>4, <1>11 DEF vars, sessionVars
<1> QED BY <1>5, <1>6, <1>7, <1>8, <1>9, <1>10, <1>11 DEF Next

---------------------------------------------------------------------------
(* The database.                                                           *)

(* A step that writes nothing: only a request may have gone on or failed.   *)
Quiet ==
  /\ UNCHANGED <<owner, trail, batches, job>>
  /\ \A q \in Requests :
       \/ pc'[q] \in {pc[q], "failed"}
       \/ pc[q] \in {"idle", "begin"} /\ pc'[q] \in {"begin", "commit"}
       \/ pc[q] = "refresh" /\ pc'[q] = IF job[q].op = "create" THEN "audit" ELSE "ok"

CommitSome(q) ==
  CommitCreate(q) \/ CommitUpdate(q) \/ CommitDelete(q) \/ CommitImport(q) \/ CommitAudit(q)

LEMMA StepKinds ==
  TypeOK /\ [Next]_vars => Quiet \/ (\E q \in Requests : CommitSome(q)) \/ FlushEnds
<1> SUFFICES ASSUME TypeOK, [Next]_vars, ~FlushEnds, ~\E q \in Requests : CommitSome(q)
             PROVE  Quiet
  OBVIOUS
<1>1. pc \in [Requests -> {"idle", "begin", "commit", "refresh", "audit", "ok", "failed"}]
  BY DEF TypeOK
<1> USE <1>1 DEF Quiet, database
<1>2. ASSUME NEW q \in Requests, Arrive(q) \/ Step(q) PROVE Quiet
  <2>1. CASE Arrive(q) \/ Read(q) \/ Refuse(q)
    BY <2>1 DEF Arrive, Read, Refuse, Goto
  <2>2. CASE Refresh(q) \/ Fail(q)
    BY <2>2 DEF Refresh, Fail, Goto
  <2> QED BY <1>2, <2>1, <2>2 DEF Step, CommitSome
<1>3. ASSUME NEW h \in Handlers, Subscribe(h) \/ Unsubscribe(h) PROVE Quiet
  BY <1>3 DEF Subscribe, Unsubscribe
<1>4. CASE Flush \/ Crash
  BY <1>4 DEF Flush, Crash
<1>5. ASSUME NEW u \in Users, NEW to \in NewRoles, ChangeRole(u, to) PROVE Quiet
  BY <1>5 DEF ChangeRole
<1>6. CASE UNCHANGED vars
  BY <1>6 DEF vars
<1> QED BY <1>2, <1>3, <1>4, <1>5, <1>6 DEF Next

(* What the other commits leave behind.                                    *)
LEMMA UpdateEffect ==
  ASSUME NEW q \in Requests, StoreInv, CommitUpdate(q)
  PROVE  /\ job[q].op \in {"update", "touch"} /\ job[q].id \in Ids
         /\ owner[job[q].id] # "unused"
         /\ trail' \in [Ids -> [create : Nat, update : Nat, touch : Nat, delete : Nat]]
         /\ trail'[job[q].id][job[q].op] = trail[job[q].id][job[q].op] + 1
         /\ \A action \in {"create", "update", "touch", "delete"} \ {job[q].op} :
              trail'[job[q].id][action] = trail[job[q].id][action]
         /\ \A id \in Ids \ {job[q].id} : trail'[id] = trail[id]
         /\ UNCHANGED <<owner, batches, job>>
         /\ pc'[q] \in {"refresh", "failed"} /\ \A r \in Requests \ {q} : pc'[r] = pc[r]
<1>1. TypeOK /\ Jobs /\ Snapshot
  BY DEF StoreInv
<1>2. job[q].op \in {"update", "touch"} /\ job[q].id \in Ids
  BY <1>1, JobFields, IdsAreNot0 DEF CommitUpdate, TypeOK, Jobs
<1>3. owner[job[q].id] # "unused"
  BY <1>1, <1>2 DEF CommitUpdate, Snapshot, UpToDate
<1>4. Audited(job[q].id, job[q].op) /\ Committed(q, "refresh") /\ UNCHANGED <<owner, batches, job>>
  BY DEF CommitUpdate
<1> QED BY <1>1, <1>2, <1>3, <1>4, AuditedTrail, Places

LEMMA DeleteEffect ==
  ASSUME NEW q \in Requests, StoreInv, CommitDelete(q)
  PROVE  /\ job[q].op = "delete" /\ job[q].id \in Ids
         /\ Exists(job[q].id) /\ owner'[job[q].id] = "deleted"
         /\ \A id \in Ids \ {job[q].id} : owner'[id] = owner[id]
         /\ trail' \in [Ids -> [create : Nat, update : Nat, touch : Nat, delete : Nat]]
         /\ trail'[job[q].id].delete = trail[job[q].id].delete + 1
         /\ \A action \in {"create", "update", "touch"} :
              trail'[job[q].id][action] = trail[job[q].id][action]
         /\ \A id \in Ids \ {job[q].id} : trail'[id] = trail[id]
         /\ UNCHANGED <<batches, job>>
         /\ pc'[q] \in {"ok", "failed"} /\ \A r \in Requests \ {q} : pc'[r] = pc[r]
<1>1. TypeOK /\ Jobs /\ Snapshot
  BY DEF StoreInv
<1>2. job[q].op = "delete" /\ job[q].id \in Ids
  BY <1>1, JobFields, IdsAreNot0 DEF CommitDelete, TypeOK, Jobs
<1>3. Exists(job[q].id)
  BY <1>1, <1>2 DEF CommitDelete, Commit, Snapshot, UpToDate
<1>4. /\ Audited(job[q].id, "delete") /\ Committed(q, "ok") /\ UNCHANGED <<batches, job>>
      /\ owner' = [owner EXCEPT ![job[q].id] = "deleted"]
  BY DEF CommitDelete
<1>5. /\ owner'[job[q].id] = "deleted"
      /\ \A id \in Ids \ {job[q].id} : owner'[id] = owner[id]
  BY <1>1, <1>2, <1>4 DEF TypeOK
<1> QED BY <1>1, <1>2, <1>3, <1>4, <1>5, AuditedTrail, Places

LEMMA AuditEffect ==
  ASSUME NEW q \in Requests, StoreInv, CommitAudit(q)
  PROVE  /\ job[q].op = "create" /\ job[q].id \in Ids /\ pc[q] = "audit"
         /\ trail' \in [Ids -> [create : Nat, update : Nat, touch : Nat, delete : Nat]]
         /\ trail'[job[q].id].create = trail[job[q].id].create + 1
         /\ \A action \in {"update", "touch", "delete"} :
              trail'[job[q].id][action] = trail[job[q].id][action]
         /\ \A id \in Ids \ {job[q].id} : trail'[id] = trail[id]
         /\ UNCHANGED <<owner, batches, job>>
         /\ pc'[q] \in {"ok", "failed"} /\ \A r \in Requests \ {q} : pc'[r] = pc[r]
<1>1. TypeOK /\ Jobs
  BY DEF StoreInv
<1>2. job[q].op = "create" /\ job[q].id \in Ids
  BY <1>1, JobFields, IdsAreNot0 DEF CommitAudit, TypeOK, Jobs
<1>3. /\ Audited(job[q].id, "create") /\ Committed(q, "ok") /\ UNCHANGED <<owner, batches, job>>
      /\ pc[q] = "audit"
  BY DEF CommitAudit
<1> QED BY <1>1, <1>2, <1>3, AuditedTrail, Places

LEMMA ImportEffect ==
  ASSUME NEW q \in Requests, StoreInv, CommitImport(q)
  PROVE  \E ids \in SUBSET Ids :
           /\ \A id \in ids : owner[id] = "unused" /\ owner'[id] \in Users
           /\ \A id \in Ids \ ids : owner'[id] = owner[id]
           /\ batches' = batches \cup {ids}
           /\ Cardinality(ids) = ParseUpload(job[q].file).rows
           /\ ParseUpload(job[q].file).ok /\ job[q].op = "import"
           /\ UNCHANGED <<trail, job>>
           /\ pc'[q] \in {"ok", "failed"} /\ \A r \in Requests \ {q} : pc'[r] = pc[r]
<1>1. TypeOK /\ Snapshot /\ job[q].user \in Users
  BY JobFields DEF StoreInv, TypeOK
<1>2. PICK ids \in SUBSET Free :
        /\ Cardinality(ids) = ParseUpload(job[q].file).rows
        /\ Inserted(ids, job[q].user) /\ batches' = batches \cup {ids}
  BY DEF CommitImport
<1>3. ids \in SUBSET Ids /\ \A id \in ids : owner[id] = "unused"
  BY DEF Free
<1>4. /\ \A id \in ids : owner'[id] = job[q].user
      /\ \A id \in Ids \ ids : owner'[id] = owner[id]
  <2>1. Inserted(ids, job[q].user)
    BY <1>2
  <2> QED BY <2>1, <1>1, <1>3, InsertedOwners
<1>5. pc[q] = "commit" /\ job[q].op = "import" /\ UNCHANGED <<trail, job>> /\ Committed(q, "ok")
  BY DEF CommitImport
<1>6. ParseUpload(job[q].file).ok
  <2>1. UpToDate(q)
    BY <1>1, <1>5 DEF Snapshot
  <2> QED BY <2>1, <1>5 DEF UpToDate
<1>7. pc'[q] \in {"ok", "failed"} /\ \A r \in Requests \ {q} : pc'[r] = pc[r]
  BY <1>1, <1>5, Places
<1> QED
  <2>1. \A id \in ids : owner[id] = "unused" /\ owner'[id] \in Users
    BY <1>1, <1>3, <1>4
  <2>2. batches' = batches \cup {ids} /\ Cardinality(ids) = ParseUpload(job[q].file).rows
    BY <1>2
  <2> QED BY <2>1, <2>2, <1>3, <1>4, <1>5, <1>6, <1>7

LEMMA FlushEffect ==
  ASSUME StoreInv, FlushEnds
  PROVE  /\ \A id \in Ids :
              owner'[id] = owner[id] \/ (owner[id] = "unused" /\ owner'[id] = "nobody")
         /\ UNCHANGED <<trail, batches, pc, job>>
<1>1. TypeOK
  BY DEF StoreInv
<1>2. CASE UNCHANGED owner
  BY <1>2 DEF FlushEnds
<1>3. CASE ~UNCHANGED owner
  <2>1. PICK id \in Free : Inserted({id}, "nobody")
    BY <1>3 DEF FlushEnds
  <2>2. {id} \in SUBSET Ids /\ owner[id] = "unused"
    BY DEF Free
  <2>3. owner'[id] = "nobody" /\ \A other \in Ids \ {id} : owner'[other] = owner[other]
    BY <1>1, <2>1, <2>2, InsertedOwners
  <2>4. UNCHANGED <<trail, batches, pc, job>>
    BY DEF FlushEnds
  <2> QED BY <2>2, <2>3, <2>4
<1> QED BY <1>2, <1>3

LEMMA CreateLeaves ==
  ASSUME NEW q \in Requests, StoreInv, CommitCreate(q)
  PROVE  /\ pc[q] = "commit" /\ UNCHANGED <<trail, batches>> /\ job[q].user \in Users
         /\ pc'[q] \in {"refresh", "failed"} /\ \A r \in Requests \ {q} : pc'[r] = pc[r]
<1>1. TypeOK /\ job[q].user \in Users
  BY JobFields DEF StoreInv, TypeOK
<1>2. pc[q] = "commit" /\ UNCHANGED <<trail, batches>> /\ Committed(q, "refresh")
  BY DEF CommitCreate
<1> QED BY <1>1, <1>2, Places

(* The audit log only grows.                                               *)
LEMMA TrailGrows ==
  ASSUME StoreInv, [Next]_vars
  PROVE  \A id \in Ids, action \in {"create", "update", "touch", "delete"} :
           trail[id][action] \in Nat /\ trail'[id][action] \in {trail[id][action], trail[id][action] + 1}
<1>1. trail \in [Ids -> [create : Nat, update : Nat, touch : Nat, delete : Nat]]
  BY DEF StoreInv, TypeOK
<1>2. \A id \in Ids, action \in {"create", "update", "touch", "delete"} : trail[id][action] \in Nat
  BY <1>1
<1>3. ASSUME UNCHANGED trail
      PROVE  \A id \in Ids, action \in {"create", "update", "touch", "delete"} :
               trail'[id][action] = trail[id][action]
  BY <1>3
<1>4. CASE Quiet
  BY <1>2, <1>3, <1>4 DEF Quiet
<1>5. CASE FlushEnds
  BY <1>2, <1>3, <1>5, FlushEffect
<1>6. ASSUME NEW q \in Requests, CommitSome(q)
      PROVE  \A id \in Ids, action \in {"create", "update", "touch", "delete"} :
               trail'[id][action] \in {trail[id][action], trail[id][action] + 1}
  <2>1. CASE CommitCreate(q)
    BY <1>2, <1>3, <2>1, CreateLeaves
  <2>2. CASE CommitUpdate(q)
    BY <1>2, <2>2, UpdateEffect
  <2>3. CASE CommitDelete(q)
    BY <1>2, <2>3, DeleteEffect
  <2>4. CASE CommitImport(q)
    BY <1>2, <1>3, <2>4, ImportEffect
  <2>5. CASE CommitAudit(q)
    BY <1>2, <2>5, AuditEffect
  <2> QED BY <1>6, <2>1, <2>2, <2>3, <2>4, <2>5 DEF CommitSome
<1> QED BY <1>2, <1>4, <1>5, <1>6, StepKinds DEF StoreInv

(* Deleted and audited together, created and audited one after the other,  *)
(* imported and audited as a whole.                                        *)
LEMMA TrailStep == StoreInv /\ [Next]_vars => TrailMatches'
<1> SUFFICES ASSUME StoreInv, [Next]_vars PROVE TrailMatches'
  OBVIOUS
<1>1. /\ TypeOK /\ Jobs /\ Creations /\ DeletedOnce /\ CreateAudited /\ ImportsWhole
      /\ \A id \in Ids : owner[id] \in Owners
      /\ \A id \in Ids, action \in {"create", "update", "touch", "delete"} : trail[id][action] \in Nat
      /\ "unused" \notin Users /\ "deleted" \notin Users /\ "nobody" \notin Users
      /\ batches \subseteq SUBSET Ids
  BY TrailGrows, RecordStoreAssumption DEF StoreInv, TrailMatches, TypeOK
<1>2. CASE Quiet
  <2>1. DeletedOnce' /\ ImportsWhole'
    BY <1>1, <1>2 DEF Quiet, DeletedOnce, ImportsWhole
  <2>2. CreateAudited'
    BY <1>1, <1>2 DEF Quiet, CreateAudited
  <2> QED BY <2>1, <2>2 DEF TrailMatches
<1>3. CASE FlushEnds
  <2>1. DeletedOnce' /\ ImportsWhole'
    BY <1>1, <1>3, FlushEffect DEF DeletedOnce, ImportsWhole
  <2>2. CreateAudited'
    BY <1>1, <1>3, FlushEffect DEF CreateAudited
  <2> QED BY <2>1, <2>2 DEF TrailMatches
<1>4. ASSUME NEW q \in Requests, CommitCreate(q) PROVE TrailMatches'
  <2>1. PICK id \in Ids : CreatedAs(q, id)
    BY <1>1, <1>4, CreateEffect
  <2>2. /\ pc[q] = "commit" /\ UNCHANGED <<trail, batches>> /\ job[q].user \in Users
        /\ pc'[q] \in {"refresh", "failed"} /\ \A r \in Requests \ {q} : pc'[r] = pc[r]
    BY <1>4, CreateLeaves
  <2>3. DeletedOnce' /\ ImportsWhole'
    BY <1>1, <2>1, <2>2 DEF CreatedAs, DeletedOnce, ImportsWhole
  <2>4. CreateAudited'
    BY <1>1, <2>1, <2>2 DEF CreatedAs, CreateAudited, DeletedOnce
  <2> QED BY <2>3, <2>4 DEF TrailMatches
<1>5. ASSUME NEW q \in Requests, CommitUpdate(q) PROVE TrailMatches'
  <2>1. DeletedOnce' /\ ImportsWhole'
    BY <1>1, <1>5, UpdateEffect DEF DeletedOnce, ImportsWhole
  <2>2. CreateAudited'
    BY <1>1, <1>5, UpdateEffect DEF CreateAudited
  <2> QED BY <2>1, <2>2 DEF TrailMatches
<1>6. ASSUME NEW q \in Requests, CommitDelete(q) PROVE TrailMatches'
  <2>1. DeletedOnce' /\ ImportsWhole'
    BY <1>1, <1>6, DeleteEffect DEF DeletedOnce, ImportsWhole, Exists
  <2>2. CreateAudited'
    BY <1>1, <1>6, DeleteEffect DEF CreateAudited
  <2> QED BY <2>1, <2>2 DEF TrailMatches
<1>7. ASSUME NEW q \in Requests, CommitImport(q) PROVE TrailMatches'
  <2>1. PICK ids \in SUBSET Ids :
          /\ \A id \in ids : owner[id] = "unused" /\ owner'[id] \in Users
          /\ \A id \in Ids \ ids : owner'[id] = owner[id]
          /\ batches' = batches \cup {ids}
          /\ job[q].op = "import"
          /\ UNCHANGED <<trail, job>>
          /\ \A r \in Requests \ {q} : pc'[r] = pc[r]
    BY <1>7, ImportEffect
  <2>2. DeletedOnce' /\ ImportsWhole'
    BY <1>1, <2>1 DEF DeletedOnce, ImportsWhole
  <2>3. CreateAudited'
    BY <1>1, <2>1 DEF CreateAudited
  <2> QED BY <2>2, <2>3 DEF TrailMatches
<1>8. ASSUME NEW q \in Requests, CommitAudit(q) PROVE TrailMatches'
  <2>1. /\ owner[job[q].id] # "unused" /\ job[q].id \notin UNION batches
        /\ trail[job[q].id].create = 0
    BY <1>1, <1>8, AuditEffect, IdsAreNot0 DEF Creations
  <2>2. DeletedOnce' /\ ImportsWhole'
    BY <1>1, <1>8, <2>1, AuditEffect DEF DeletedOnce, ImportsWhole
  <2>3. CreateAudited'
    BY <1>1, <1>8, <2>1, AuditEffect DEF CreateAudited
  <2> QED BY <2>2, <2>3 DEF TrailMatches
<1> QED BY <1>1, <1>2, <1>3, <1>4, <1>5, <1>6, <1>7, <1>8, StepKinds DEF CommitSome

(* No two requests create the same record.                                 *)
LEMMA CreationsStep == StoreInv /\ [Next]_vars => Creations'
<1> SUFFICES ASSUME StoreInv, [Next]_vars PROVE Creations'
  OBVIOUS
<1>1. /\ TypeOK /\ Jobs /\ Creations /\ DeletedOnce /\ ImportsWhole
      /\ \A q \in Requests : job[q].id \in Ids \cup {0}
      /\ "unused" \notin Users
  BY JobFields, IdsAreNot0, RecordStoreAssumption DEF StoreInv, TrailMatches, TypeOK
<1>2. CASE Quiet
  BY <1>1, <1>2 DEF Quiet, Creations
<1>3. CASE FlushEnds
  BY <1>1, <1>3, FlushEffect DEF Creations
<1>4. ASSUME NEW q \in Requests, CommitCreate(q) PROVE Creations'
  <2>1. PICK id \in Ids : CreatedAs(q, id)
    BY <1>1, <1>4, CreateEffect
  <2>2. /\ UNCHANGED <<trail, batches>> /\ job[q].user \in Users
        /\ \A r \in Requests \ {q} : pc'[r] = pc[r]
    BY <1>4, CreateLeaves
  <2>3. id \notin UNION batches /\ trail[id].create = 0
    BY <1>1, <2>1 DEF CreatedAs, ImportsWhole, DeletedOnce
  <2> QED BY <1>1, <2>1, <2>2, <2>3 DEF CreatedAs, Creations
<1>5. ASSUME NEW q \in Requests, CommitUpdate(q) PROVE Creations'
  BY <1>1, <1>5, UpdateEffect DEF Creations
<1>6. ASSUME NEW q \in Requests, CommitDelete(q) PROVE Creations'
  BY <1>1, <1>6, DeleteEffect DEF Creations
<1>7. ASSUME NEW q \in Requests, CommitImport(q) PROVE Creations'
  BY <1>1, <1>7, ImportEffect DEF Creations
<1>8. ASSUME NEW q \in Requests, CommitAudit(q) PROVE Creations'
  BY <1>1, <1>8, AuditEffect DEF Creations
<1> QED BY <1>1, <1>2, <1>3, <1>4, <1>5, <1>6, <1>7, <1>8, StepKinds DEF CommitSome

(* Answers come after the commit they tell of.                             *)
LEMMA ExecutedStep == StoreInv /\ [Next]_vars => Executed'
<1> SUFFICES ASSUME StoreInv, [Next]_vars PROVE Executed'
  OBVIOUS
<1>1. /\ TypeOK /\ Jobs /\ Executed
      /\ \A q \in Requests : job[q].op \in Ops /\ job[q].id \in Ids \cup {0}
      /\ \A id \in Ids, action \in {"create", "update", "touch", "delete"} :
           trail[id][action] \in Nat /\ trail'[id][action] \in {trail[id][action], trail[id][action] + 1}
  BY JobFields, IdsAreNot0, TrailGrows DEF StoreInv, TypeOK
<1> DEFINE Done(r) ==
      /\ pc[r] = "refresh" /\ job[r].op # "create" => trail[job[r].id][job[r].op] > 0
      /\ pc[r] = "ok" /\ job[r].op # "import" => trail[job[r].id][job[r].op] > 0
      /\ pc[r] = "ok" /\ job[r].op = "import" =>
           /\ ParseUpload(job[r].file).ok
           /\ \E ids \in batches : Cardinality(ids) = ParseUpload(job[r].file).rows
<1>2. ASSUME NEW r \in Requests, pc'[r] \in {pc[r], "failed"}, job'[r] = job[r], batches \subseteq batches'
      PROVE  Done(r)'
  <2>1. pc[r] \in {"refresh", "ok"} /\ job[r].op # "import" =>
          job[r].id \in Ids /\ job[r].op \in {"create", "update", "touch", "delete"}
    BY <1>1 DEF Jobs, Ops
  <2>2. Done(r)
    BY <1>1 DEF Executed
  <2>3. pc[r] \in {"refresh", "ok"} /\ job[r].op # "import" /\ trail[job[r].id][job[r].op] > 0 =>
          trail'[job[r].id][job[r].op] > 0
    BY <1>1, <2>1
  <2>4. pc[r] = "refresh" => job[r].op # "import"
    BY <1>1 DEF Jobs
  <2> QED BY <1>2, <2>2, <2>3, <2>4
<1>3. CASE Quiet
  <2> SUFFICES ASSUME NEW r \in Requests PROVE Done(r)'
    BY DEF Executed
  <2>1. CASE pc'[r] \in {pc[r], "failed"}
    BY <1>2, <1>3, <2>1 DEF Quiet
  <2>2. CASE pc'[r] \notin {pc[r], "failed"}
    BY <1>1, <1>3, <2>2 DEF Quiet, Jobs, Executed
  <2> QED BY <2>1, <2>2
<1>4. CASE FlushEnds
  BY <1>2, <1>4, FlushEffect DEF Executed
<1>5. ASSUME NEW q \in Requests, CommitCreate(q) PROVE Executed'
  <2>1. PICK id \in Ids : CreatedAs(q, id)
    BY <1>1, <1>5, CreateEffect
  <2>2. /\ UNCHANGED batches /\ pc'[q] \in {"refresh", "failed"}
        /\ \A r \in Requests \ {q} : pc'[r] = pc[r]
    BY <1>5, CreateLeaves
  <2>3. Done(q)'
    BY <2>1, <2>2 DEF CreatedAs
  <2>4. \A r \in Requests \ {q} : Done(r)'
    BY <1>2, <2>1, <2>2 DEF CreatedAs
  <2> QED BY <2>3, <2>4 DEF Executed
<1>6. ASSUME NEW q \in Requests, CommitUpdate(q) PROVE Executed'
  <2>1. Done(q)'
    BY <1>1, <1>6, UpdateEffect
  <2>2. \A r \in Requests \ {q} : Done(r)'
    BY <1>2, <1>6, UpdateEffect
  <2> QED BY <2>1, <2>2 DEF Executed
<1>7. ASSUME NEW q \in Requests, CommitDelete(q) PROVE Executed'
  <2>1. Done(q)'
    BY <1>1, <1>7, DeleteEffect
  <2>2. \A r \in Requests \ {q} : Done(r)'
    BY <1>2, <1>7, DeleteEffect
  <2> QED BY <2>1, <2>2 DEF Executed
<1>8. ASSUME NEW q \in Requests, CommitImport(q) PROVE Executed'
  <2>1. PICK ids \in SUBSET Ids :
          /\ batches' = batches \cup {ids}
          /\ Cardinality(ids) = ParseUpload(job[q].file).rows
          /\ ParseUpload(job[q].file).ok /\ job[q].op = "import"
          /\ UNCHANGED <<trail, job>>
          /\ pc'[q] \in {"ok", "failed"} /\ \A r \in Requests \ {q} : pc'[r] = pc[r]
    BY <1>8, ImportEffect
  <2>2. Done(q)'
    BY <2>1
  <2>3. \A r \in Requests \ {q} : Done(r)'
    BY <1>2, <2>1
  <2> QED BY <2>2, <2>3 DEF Executed
<1>9. ASSUME NEW q \in Requests, CommitAudit(q) PROVE Executed'
  <2>1. Done(q)'
    BY <1>1, <1>9, AuditEffect
  <2>2. \A r \in Requests \ {q} : Done(r)'
    BY <1>2, <1>9, AuditEffect
  <2> QED BY <2>1, <2>2 DEF Executed
<1> QED BY <1>1, <1>3, <1>4, <1>5, <1>6, <1>7, <1>8, <1>9, StepKinds DEF CommitSome

---------------------------------------------------------------------------
(* The import: what the loop of the importer counts, for every file.       *)

Count == [rows : Nat, position : Nat, bad : Nat]

(* One turn of the loop.                                                   *)
Turn(lines, first, loop, n) ==
  IF n = 0 THEN [rows |-> 0, position |-> first - 1, bad |-> 0]
  ELSE LET before == loop[n - 1]
           here == before.position + 1
       IN  IF before.bad # 0 \/ lines[n] = "empty" THEN before
           ELSE [rows |-> IF lines[n] = "good" THEN before.rows + 1 ELSE before.rows,
                 position |-> here,
                 bad |-> IF lines[n] = "bad" THEN here ELSE 0]

LEMMA TurnCounts ==
  ASSUME NEW lines, NEW first \in Nat \ {0}, NEW n \in Nat,
         NEW loop, n # 0 => loop[n - 1] \in Count
  PROVE  Turn(lines, first, loop, n) \in Count
BY DEF Turn, Count

(* The loop of the import is defined for every file.                       *)
LEMMA LoopExists ==
  ASSUME NEW lines, NEW first \in Nat \ {0}, NEW length \in Nat
  PROVE  \E loop : loop = [n \in 0..length |-> Turn(lines, first, loop, n)]
<1> DEFINE Loops(n) == {loop \in [0..n -> Count] :
                          \A k \in 0..n : loop[k] = Turn(lines, first, loop, k)}
           S == {n \in Nat : Loops(n) # {}}
<1>1. 0 \in S
  <2> DEFINE loop == [k \in 0..0 |-> Turn(lines, first, <<>>, 0)]
  <2>1. Turn(lines, first, <<>>, 0) \in Count /\ \A k \in 0..0 : k = 0
    BY TurnCounts
  <2>2. loop \in [0..0 -> Count]
    BY <2>1
  <2>3. \A k \in 0..0 : loop[k] = Turn(lines, first, loop, k)
    BY <2>1 DEF Turn
  <2> QED BY <2>2, <2>3
<1>2. ASSUME NEW n \in Nat, n \in S PROVE n + 1 \in S
  <2>1. PICK loop \in [0..n -> Count] : \A k \in 0..n : loop[k] = Turn(lines, first, loop, k)
    BY <1>2
  <2> DEFINE longer == [k \in 0..(n + 1) |->
                          IF k = n + 1 THEN Turn(lines, first, loop, n + 1) ELSE loop[k]]
  <2>2. Turn(lines, first, loop, n + 1) \in Count
    BY <2>1, TurnCounts
  <2>3. longer \in [0..(n + 1) -> Count]
    BY <2>1, <2>2
  <2>4. \A k \in 0..(n + 1) : Turn(lines, first, longer, k) = Turn(lines, first, loop, k)
    BY DEF Turn
  <2>5. \A k \in 0..(n + 1) : longer[k] = Turn(lines, first, longer, k)
    <3> HIDE DEF Turn
    <3> QED BY <2>1, <2>4
  <2> HIDE DEF longer
  <2> QED BY <2>3, <2>5
<1>3. length \in S
  BY <1>1, <1>2, SetInduction
<1>4. PICK loop \in [0..length -> Count] :
        \A k \in 0..length : loop[k] = Turn(lines, first, loop, k)
  BY <1>3
<1>5. loop = [n \in 0..length |-> Turn(lines, first, loop, n)]
  BY <1>4
<1> QED BY <1>5

LEMMA RowsAre ==
  ASSUME NEW lines \in Seq(Line), NEW first \in Nat \ {0}
  PROVE  \E loop : /\ loop = [n \in 0..Len(lines) |-> Turn(lines, first, loop, n)]
                   /\ Rows(lines, first) = loop[Len(lines)]
<1> DEFINE Is(loop) == loop = [n \in 0..Len(lines) |-> Turn(lines, first, loop, n)]
           loop == CHOOSE loop : Is(loop)
<1>1. Is(loop)
  BY LoopExists
<1>2. Rows(lines, first) = loop[Len(lines)]
  BY DEF Rows, Turn
<1> QED BY <1>1, <1>2

(* The lines of a kind and the lines that count for a position, among the  *)
(* first n; and where the first bad line is.                               *)
Until(lines, n, kind) == {k \in 1..n : lines[k] = kind}
Counted(lines, n) == {k \in 1..n : lines[k] # "empty"}
FirstBad(lines, n) == lines[n] = "bad" /\ \A k \in 1..(n - 1) : lines[k] # "bad"

(* What the loop has found after n lines.                                  *)
HasFound(lines, first, n, found) ==
  /\ found \in Count
  /\ found.bad = 0 =>
       /\ Until(lines, n, "bad") = {}
       /\ found.rows = Cardinality(Until(lines, n, "good"))
       /\ found.position = first - 1 + Cardinality(Counted(lines, n))
  /\ found.bad # 0 =>
       \E b \in 1..n : /\ FirstBad(lines, b)
                       /\ found.bad = first - 1 + Cardinality(Counted(lines, b))

LEMMA OneLineMore ==
  ASSUME NEW lines, NEW n \in Nat
  PROVE  /\ \A kind : Until(lines, n + 1, kind) =
                        IF lines[n + 1] = kind THEN Until(lines, n, kind) \cup {n + 1}
                        ELSE Until(lines, n, kind)
         /\ Counted(lines, n + 1) =
              IF lines[n + 1] = "empty" THEN Counted(lines, n) ELSE Counted(lines, n) \cup {n + 1}
         /\ \A kind : /\ Cardinality(Until(lines, n, kind)) \in Nat
                      /\ Cardinality(Until(lines, n, kind) \cup {n + 1}) =
                           Cardinality(Until(lines, n, kind)) + 1
         /\ Cardinality(Counted(lines, n)) \in Nat
         /\ Cardinality(Counted(lines, n) \cup {n + 1}) = Cardinality(Counted(lines, n)) + 1
<1>1. IsFiniteSet(1..n) /\ n + 1 \notin 1..n
  BY FS_Interval
<1>2. ASSUME NEW s \in SUBSET (1..n)
      PROVE  Cardinality(s) \in Nat /\ Cardinality(s \cup {n + 1}) = Cardinality(s) + 1
  BY <1>1, FS_Subset, FS_AddElement, FS_CardinalityType
<1>3. Counted(lines, n) \in SUBSET (1..n) /\ \A kind : Until(lines, n, kind) \in SUBSET (1..n)
  BY DEF Counted, Until
<1>4. 1..(n + 1) = 1..n \cup {n + 1}
  OBVIOUS
<1>5. Counted(lines, n + 1) =
        IF lines[n + 1] = "empty" THEN Counted(lines, n) ELSE Counted(lines, n) \cup {n + 1}
  BY <1>4 DEF Counted
<1>6. \A kind : Until(lines, n + 1, kind) =
                  IF lines[n + 1] = kind THEN Until(lines, n, kind) \cup {n + 1}
                  ELSE Until(lines, n, kind)
  BY <1>4 DEF Until
<1> QED BY <1>2, <1>3, <1>5, <1>6

LEMMA TurnFinds ==
  ASSUME NEW lines, NEW first \in Nat \ {0}, NEW n \in Nat,
         NEW loop, HasFound(lines, first, n, loop[n])
  PROVE  HasFound(lines, first, n + 1, Turn(lines, first, loop, n + 1))
<1> DEFINE before == loop[n]
           turn == Turn(lines, first, loop, n + 1)
           here == before.position + 1
<1>1. before \in Count /\ HasFound(lines, first, n, before)
  BY DEF HasFound
<1>2. turn = IF before.bad # 0 \/ lines[n + 1] = "empty" THEN before
             ELSE [rows |-> IF lines[n + 1] = "good" THEN before.rows + 1 ELSE before.rows,
                   position |-> here,
                   bad |-> IF lines[n + 1] = "bad" THEN here ELSE 0]
  BY DEF Turn
<1>3. turn \in Count
  BY <1>1, TurnCounts
<1>more. /\ Until(lines, n + 1, "bad") = IF lines[n + 1] = "bad" THEN Until(lines, n, "bad") \cup {n + 1}
                                         ELSE Until(lines, n, "bad")
         /\ Cardinality(Until(lines, n + 1, "good")) =
              IF lines[n + 1] = "good" THEN Cardinality(Until(lines, n, "good")) + 1
              ELSE Cardinality(Until(lines, n, "good"))
         /\ Cardinality(Counted(lines, n + 1)) =
              IF lines[n + 1] = "empty" THEN Cardinality(Counted(lines, n))
              ELSE Cardinality(Counted(lines, n)) + 1
         /\ Cardinality(Counted(lines, n)) \in Nat
  <2>1. Until(lines, n + 1, "bad") = IF lines[n + 1] = "bad" THEN Until(lines, n, "bad") \cup {n + 1}
                                     ELSE Until(lines, n, "bad")
    BY OneLineMore
  <2>2. Until(lines, n + 1, "good") = IF lines[n + 1] = "good" THEN Until(lines, n, "good") \cup {n + 1}
                                      ELSE Until(lines, n, "good")
    BY OneLineMore
  <2>3. Cardinality(Until(lines, n, "good") \cup {n + 1}) = Cardinality(Until(lines, n, "good")) + 1
    BY OneLineMore
  <2>4. /\ Counted(lines, n + 1) =
             IF lines[n + 1] = "empty" THEN Counted(lines, n) ELSE Counted(lines, n) \cup {n + 1}
        /\ Cardinality(Counted(lines, n)) \in Nat
        /\ Cardinality(Counted(lines, n) \cup {n + 1}) = Cardinality(Counted(lines, n)) + 1
    BY OneLineMore
  <2> QED BY <2>1, <2>2, <2>3, <2>4
<1> SUFFICES HasFound(lines, first, n + 1, turn)
  OBVIOUS
<1> HIDE DEF turn, before
<1>4. CASE before.bad # 0
  <2>1. turn = before
    BY <1>2, <1>4
  <2> QED BY <1>1, <1>4, <2>1 DEF HasFound
<1>5. CASE before.bad = 0 /\ lines[n + 1] = "empty"
  <2>1. turn = before
    BY <1>2, <1>5
  <2> QED BY <1>1, <1>5, <2>1, <1>more DEF HasFound
<1>6. CASE before.bad = 0 /\ lines[n + 1] \notin {"empty", "bad"}
  <2>1. /\ turn.bad = 0 /\ turn.position = before.position + 1
        /\ turn.rows = IF lines[n + 1] = "good" THEN before.rows + 1 ELSE before.rows
    BY <1>2, <1>6
  <2>2. /\ Until(lines, n, "bad") = {} /\ before.rows = Cardinality(Until(lines, n, "good"))
        /\ before.position = first - 1 + Cardinality(Counted(lines, n))
    BY <1>1, <1>6 DEF HasFound
  <2>3. Until(lines, n + 1, "bad") = {}
    BY <1>6, <2>2, <1>more
  <2>4. turn.rows = Cardinality(Until(lines, n + 1, "good"))
    BY <2>1, <2>2, <1>more
  <2>5. turn.position = first - 1 + Cardinality(Counted(lines, n + 1))
    BY <1>6, <2>1, <2>2, <1>more
  <2> QED BY <1>3, <2>1, <2>3, <2>4, <2>5 DEF HasFound
<1>7. CASE before.bad = 0 /\ lines[n + 1] = "bad"
  <2>1. turn.bad = before.position + 1
    BY <1>2, <1>7
  <2>2. /\ Until(lines, n, "bad") = {}
        /\ before.position = first - 1 + Cardinality(Counted(lines, n))
    BY <1>1, <1>7 DEF HasFound
  <2>3. FirstBad(lines, n + 1)
    BY <1>7, <2>2 DEF FirstBad, Until
  <2>4. turn.bad = first - 1 + Cardinality(Counted(lines, n + 1))
    BY <1>7, <2>1, <2>2, <1>more
  <2>5. turn.bad # 0 /\ n + 1 \in 1..(n + 1)
    BY <1>1, <2>1 DEF Count
  <2> QED BY <1>3, <2>3, <2>4, <2>5 DEF HasFound
<1> QED BY <1>1, <1>4, <1>5, <1>6, <1>7

(* What the loop finds in a whole file.                                    *)
LEMMA RowsFind ==
  ASSUME NEW lines \in Seq(Line), NEW first \in Nat \ {0}
  PROVE  HasFound(lines, first, Len(lines), Rows(lines, first))
<1>1. PICK loop : /\ loop = [n \in 0..Len(lines) |-> Turn(lines, first, loop, n)]
                  /\ Rows(lines, first) = loop[Len(lines)]
  BY RowsAre
<1>2. \A n \in 0..Len(lines) : loop[n] = Turn(lines, first, loop, n)
  BY <1>1
<1> DEFINE S == {n \in Nat : n <= Len(lines) => HasFound(lines, first, n, loop[n])}
<1>3. 0 \in S
  <2>1. loop[0] = [rows |-> 0, position |-> first - 1, bad |-> 0]
    <3>1. Turn(lines, first, loop, 0) = [rows |-> 0, position |-> first - 1, bad |-> 0]
      BY DEF Turn
    <3>2. 0 \in 0..Len(lines)
      BY LenProperties
    <3> HIDE DEF Turn
    <3> QED BY <1>2, <3>1, <3>2
  <2>2. Counted(lines, 0) = {} /\ Until(lines, 0, "bad") = {} /\ Until(lines, 0, "good") = {}
    BY DEF Counted, Until
  <2>3. Cardinality({}) = 0 /\ first - 1 \in Nat /\ first - 1 + 0 = first - 1
    BY FS_EmptySet
  <2> HIDE DEF S
  <2>4. /\ loop[0] \in Count /\ loop[0].bad = 0 /\ loop[0].rows = 0
        /\ loop[0].position = first - 1
    BY <2>1, <2>3 DEF Count
  <2>5. HasFound(lines, first, 0, loop[0])
    BY <2>2, <2>3, <2>4 DEF HasFound
  <2> QED BY <2>5 DEF S
<1>4. ASSUME NEW n \in Nat, n \in S PROVE n + 1 \in S
  <2> SUFFICES ASSUME n + 1 <= Len(lines) PROVE HasFound(lines, first, n + 1, loop[n + 1])
    OBVIOUS
  <2>1. HasFound(lines, first, n, loop[n]) /\ loop[n + 1] = Turn(lines, first, loop, n + 1)
    BY <1>2, <1>4
  <2> QED BY <2>1, TurnFinds
<1>5. Len(lines) \in S
  <2> HIDE DEF S
  <2>1. Nat \subseteq S
    BY <1>3, <1>4, SetInduction
  <2> QED BY <2>1
<1> QED BY <1>1, <1>5

(* An import is accepted exactly if its frame is, no line is bad and the    *)
(* good ones are neither none nor too many; it then has these as its rows.  *)
(* A file that is refused for a line is refused for its first bad one,      *)
(* under the number that the lines the reader counts give it (importer.py:  *)
(* 42-123).                                                                 *)
THEOREM ImportDecides ==
  ASSUME NEW file \in Upload, file.kind \in {"csv", "json"}, ~file.large, file.readable
  PROVE  LET lines == file.lines
             good == Cardinality({n \in DOMAIN lines : lines[n] = "good"})
             bad == {n \in DOMAIN lines : lines[n] = "bad"}
             header == IF file.kind = "csv" THEN 1 ELSE 0
             answer == ParseUpload(file)
         IN  /\ answer.ok <=> bad = {} /\ good \in 1..MaxImportRecords
             /\ answer.ok => answer.rows = good
             /\ answer.why = "row" <=> bad # {}
             /\ \A b \in bad : (\A n \in bad : b <= n) =>
                  answer.at = header + Cardinality({n \in 1..b : lines[n] # "empty"})
<1> DEFINE lines == file.lines
           good == {n \in DOMAIN lines : lines[n] = "good"}
           bad == {n \in DOMAIN lines : lines[n] = "bad"}
           header == IF file.kind = "csv" THEN 1 ELSE 0
           found == Rows(lines, header + 1)
           answer == ParseUpload(file)
<1>1. lines \in Seq(Line) /\ header + 1 \in Nat \ {0} /\ DOMAIN lines = 1..Len(lines) /\ Len(lines) \in Nat
  BY DEF Upload
<1>2. HasFound(lines, header + 1, Len(lines), found)
  BY <1>1, RowsFind
<1>3. good = Until(lines, Len(lines), "good") /\ bad = Until(lines, Len(lines), "bad")
  BY <1>1 DEF Until
<1>4. (IF file.kind = "csv" THEN ParseCsv(file) ELSE ParseJson(file)) = found
  BY DEF ParseCsv, ParseJson
<1> HIDE DEF found
<1>5. /\ found.bad # 0 => /\ ~answer.ok /\ answer.why = "row" /\ answer.at = found.bad
      /\ found.bad = 0 => /\ answer.ok <=> (found.rows # 0 /\ ~(found.rows > MaxImportRecords))
                          /\ answer.ok => answer.rows = found.rows
                          /\ answer.why # "row"
  BY <1>4 DEF ParseUpload
<1> HIDE DEF answer
<1>6. CASE found.bad = 0
  <2>1. bad = {} /\ found.rows = Cardinality(good) /\ found.rows \in Nat
    BY <1>2, <1>3, <1>6 DEF HasFound, Count
  <2>2. answer.ok <=> Cardinality(good) \in 1..MaxImportRecords
    BY <1>5, <1>6, <2>1, ImporterAssumption
  <2> QED BY <1>5, <1>6, <2>1, <2>2 DEF answer
<1>7. CASE found.bad # 0
  <2>1. PICK b \in 1..Len(lines) : /\ FirstBad(lines, b)
                                   /\ found.bad = header + Cardinality(Counted(lines, b))
    <3>1. header + 1 - 1 = header
      OBVIOUS
    <3> QED BY <1>2, <1>7, <3>1 DEF HasFound
  <2>2. b \in bad
    BY <1>1, <2>1 DEF FirstBad
  <2>3. \A c \in bad : (\A n \in bad : c <= n) => c = b
    <3> SUFFICES ASSUME NEW c \in bad, \A n \in bad : c <= n PROVE c = b
      OBVIOUS
    <3>1. c <= b /\ c \in 1..Len(lines) /\ lines[c] = "bad"
      BY <1>1, <2>2
    <3>2. ~(c \in 1..(b - 1))
      BY <2>1, <3>1 DEF FirstBad
    <3> QED BY <3>1, <3>2
  <2>4. answer.at = header + Cardinality({n \in 1..b : lines[n] # "empty"})
    BY <1>5, <1>7, <2>1 DEF Counted
  <2> QED BY <1>5, <1>7, <2>2, <2>3, <2>4 DEF answer
<1> QED BY <1>6, <1>7

(* An accepted file has no bad line, and its rows are its good lines.      *)
LEMMA AcceptedFile ==
  ASSUME NEW file \in Upload, ParseUpload(file).ok
  PROVE  /\ {k \in DOMAIN file.lines : file.lines[k] = "bad"} = {}
         /\ ParseUpload(file).rows = Cardinality({k \in DOMAIN file.lines : file.lines[k] = "good"})
<1>1. file.kind \in {"csv", "json"} /\ ~file.large /\ file.readable
  BY DEF ParseUpload
<1> QED BY <1>1, ImportDecides

---------------------------------------------------------------------------
(* The theorems.                                                           *)

LEMMA StoreInit == Init => StoreInv
<1> SUFFICES ASSUME Init PROVE StoreInv
  OBVIOUS
<1>1. Pool
  BY SessionsAssumption, FS_EmptySet DEF Init, SessionsInit, Pool, PoolInv
<1>2. /\ InitialOwners \in [Ids -> Users \cup {"unused"}] /\ InitialRoles \in [Users -> Roles]
      /\ "unused" \notin Users /\ "deleted" \notin Users
      /\ Workloads \subseteq [Requests -> Job]
      /\ \A w \in Workloads, q \in Requests : w[q].op \in {"create", "import"} <=> w[q].id = 0
  BY RecordStoreAssumption
<1>3. TypeOK
  BY <1>1, <1>2 DEF Init, RecordsInit, TypeOK, Pool, PoolInv, Owners
<1>4. Transactions /\ Snapshot
  BY DEF Init, SessionsInit, Transactions, Snapshot
<1>5. Jobs /\ Creations /\ Executed
  BY <1>2 DEF Init, RecordsInit, Jobs, Creations, Executed
<1>6. TrailMatches
  BY <1>2 DEF Init, RecordsInit, TrailMatches, DeletedOnce, CreateAudited, ImportsWhole
<1> QED BY <1>1, <1>3, <1>4, <1>5, <1>6 DEF StoreInv

LEMMA StoreStep == StoreInv /\ [Next]_vars => StoreInv'
BY PoolStep, TypeStep, TransactionsStep, JobsStep, SnapshotStep, CreationsStep, ExecutedStep,
   TrailStep DEF StoreInv

LEMMA StoreInvariant == Spec => []StoreInv
BY StoreInit, StoreStep, PTL DEF Spec

(* The store's variables keep their types, and the pool is never exceeded.  *)
THEOREM StoreTypeOK == Spec => []TypeOK
<1>1. StoreInv => TypeOK
  BY DEF StoreInv
<1> QED BY <1>1, StoreInvariant, PTL

(* The audit log tells every record's history, for any number of requests. *)
THEOREM StoreTrailMatches == Spec => []TrailMatches
<1>1. StoreInv => TrailMatches
  BY DEF StoreInv
<1> QED BY <1>1, StoreInvariant, PTL

(* No request waits for a connection while it holds one.                   *)
THEOREM StoreNoHoldAndWait == Spec => []NoHoldAndWait
<1>1. StoreInv => NoHoldAndWait
  BY DEF StoreInv, Transactions, NoHoldAndWait
<1> QED BY <1>1, StoreInvariant, PTL

(* A success that was reported is in the database, and an accepted file is  *)
(* there with all of its rows.                                             *)
THEOREM StoreSuccessIsDurable == Spec => []SuccessIsDurable
<1>1. ASSUME StoreInv, NEW q \in Requests, pc[q] = "ok", job[q].op = "import"
      PROVE  /\ {n \in DOMAIN job[q].file.lines : job[q].file.lines[n] = "bad"} = {}
             /\ \E ids \in batches :
                  Cardinality(ids) =
                    Cardinality({n \in DOMAIN job[q].file.lines : job[q].file.lines[n] = "good"})
  <2>1. /\ ParseUpload(job[q].file).ok
        /\ \E ids \in batches : Cardinality(ids) = ParseUpload(job[q].file).rows
    BY <1>1 DEF StoreInv, Executed
  <2>2. job[q].file \in Upload
    BY <1>1, JobFields, RecordStoreAssumption DEF StoreInv, TypeOK
  <2> QED BY <2>1, <2>2, AcceptedFile
<1>2. ASSUME StoreInv, NEW q \in Requests, pc[q] = "ok", job[q].op # "import"
      PROVE  trail[job[q].id][job[q].op] > 0
  BY <1>2 DEF StoreInv, Executed
<1>3. StoreInv => SuccessIsDurable
  BY <1>1, <1>2 DEF SuccessIsDurable
<1> QED BY <1>3, StoreInvariant, PTL

(* Nobody's record changes but by an administrator or its owner, as of the *)
(* transaction's snapshot.                                                 *)
THEOREM StoreRightsFresh == Spec => RightsFresh
<1> DEFINE Fresh ==
      \A id \in Ids, q \in Requests :
        /\ pc[q] = "commit" /\ pc'[q] # "commit" /\ job[q].id = id
        /\ trail'[id] # trail[id]
        => \/ MayWrite(job[q].user) /\ MayModify(job[q].user, id)
           \/ job[q].user \in changed[q] \/ ~Exists(id)
<1>1. ASSUME StoreInv, NEW id \in Ids, NEW q \in Requests, pc[q] = "commit", job[q].id = id
      PROVE  \/ MayWrite(job[q].user) /\ MayModify(job[q].user, id)
             \/ job[q].user \in changed[q] \/ ~Exists(id)
  <2>1. UpToDate(q) /\ job[q].op \in Ops
    BY <1>1, JobFields DEF StoreInv, Snapshot, TypeOK
  <2>2. job[q].op \notin {"create", "import"}
    BY <1>1, IdsAreNot0 DEF StoreInv, Jobs
  <2> QED BY <1>1, <2>1, <2>2 DEF UpToDate, Ops
<1>2. StoreInv => Fresh
  BY <1>1
<1> HIDE DEF Fresh
<1>3. StoreInv /\ [Next]_vars => [Fresh]_vars
  BY <1>2
<1>4. Spec => [][Fresh]_vars
  BY <1>3, StoreInvariant, PTL DEF Spec
<1> QED BY <1>4 DEF Fresh, RightsFresh
---------------------------------------------------------------------------
(* The refinement of AuditedRecords.                                        *)

(* The promise speaks of the same tables.                                  *)
LEMMA SameUploads == \A file : Promise!ParseUpload(file) = ParseUpload(file)
<1>1. \A lines, first : Promise!Rows(lines, first) = Rows(lines, first)
  BY DEF Promise!Rows, Rows
<1>2. \A file : /\ Promise!ParseCsv(file) = ParseCsv(file)
                /\ Promise!ParseJson(file) = ParseJson(file)
  BY <1>1 DEF Promise!ParseCsv, ParseCsv, Promise!ParseJson, ParseJson
<1> QED BY <1>2, Zenon DEF Promise!ParseUpload, ParseUpload

LEMMA SameTables ==
  /\ Promise!Free = Free
  /\ \A id : Promise!Exists(id) <=> Exists(id)
  /\ \A ids : Promise!AreNext(ids) <=> AreNext(ids)
  /\ \A j : Promise!Permitted(j) <=> Permitted(j)
  /\ \A ids : Promise!Cardinality(ids) = Cardinality(ids)
<1>1. Promise!Free = Free
  BY DEF Promise!Free, Free, Promise!Ids, Ids
<1>2. \A id : Promise!Exists(id) <=> Exists(id)
  BY DEF Promise!Exists, Exists
<1>3. \A ids : Promise!AreNext(ids) <=> AreNext(ids)
  BY <1>1 DEF Promise!AreNext, AreNext
<1>4. \A j : Promise!Permitted(j) <=> Permitted(j)
  BY <1>2, SameUploads DEF Promise!Permitted, Permitted, Promise!MayWrite, MayWrite,
                           Promise!MayModify, MayModify
<1>5. \A ids : Promise!Cardinality(ids) = Cardinality(ids)
  BY DEF Promise!Cardinality, Cardinality
<1> QED BY <1>1, <1>2, <1>3, <1>4, <1>5

LEMMA SameWrites ==
  /\ \A ids, u : Inserted(ids, u) => Promise!Inserted(ids, u)
  /\ \A id, action : Audited(id, action) => Promise!Audited(id, action)
BY DEF Promise!Inserted, Inserted, Promise!Audited, Audited, Promise!Ids, Ids

(* Where a request is for the promise, step by step.                       *)
LEMMA PhaseMoves ==
  ASSUME NEW q \in Requests, NEW to,
         \A r \in Requests \ {q} : pc'[r] = pc[r] /\ job'[r].op = job[r].op,
         Phase'[q] = to
  PROVE  Phase' = [Phase EXCEPT ![q] = to]
<1>1. \A r \in Requests \ {q} : Phase'[r] = Phase[r]
  BY DEF Phase
<1>2. /\ Phase = [r \in Requests |-> Phase[r]]
      /\ Phase' = [r \in Requests |-> Phase'[r]]
  BY DEF Phase
<1> HIDE DEF Phase
<1> QED BY <1>1, <1>2

LEMMA PromiseInit == Init => Promise!Init
<1> SUFFICES ASSUME Init PROVE Promise!Init
  OBVIOUS
<1>1. Promise!RecordsInit
  BY DEF Init, RecordsInit, Promise!RecordsInit, Promise!Ids, Ids
<1>2. Phase = [q \in Requests |-> "new"]
  BY DEF Init, Phase
<1> QED BY <1>1, <1>2 DEF Init, Promise!Init

(* Every step of the store is one of the promise, or invisible to it.  The *)
(* guard that a record is still there is in no commit: Snapshot has it     *)
(* from the row that nobody has changed.                                   *)
LEMMA PromiseStep == StoreInv /\ [Next]_vars => [Promise!Next]_Promise!vars
<1> SUFFICES ASSUME StoreInv, [Next]_vars PROVE [Promise!Next]_Promise!vars
  OBVIOUS
<1>1. /\ TypeOK /\ Jobs /\ Snapshot
      /\ pc \in [Requests -> {"idle", "begin", "commit", "refresh", "audit", "ok", "failed"}]
      /\ \A q \in Requests : job[q] \in Job /\ job[q].op \in Ops
  BY JobFields DEF StoreInv, TypeOK
<1>2. ASSUME UNCHANGED <<database, job>>,
             \A q \in Requests :
               \/ pc'[q] = pc[q]
               \/ pc'[q] = "failed" /\ pc[q] \notin {"ok", "failed"}
      PROVE  Promise!Next
  <2> DEFINE some == {q \in Requests : pc'[q] # pc[q]}
  <2>1. Phase' = [q \in Requests |->
                    IF q \in some /\ Phase[q] # "ok" THEN "failed" ELSE Phase[q]]
    BY <1>1, <1>2 DEF Phase
  <2> HIDE DEF some
  <2>2. some \in SUBSET Requests
    BY DEF some
  <2>3. Promise!Fail
    BY <1>2, <2>1, <2>2 DEF Promise!Fail, Promise!database, database
  <2> QED BY <2>3 DEF Promise!Next
<1>3. ASSUME UNCHANGED <<database, job>>,
             \A q \in Requests : Phase'[q] = Phase[q]
      PROVE  UNCHANGED Promise!vars
  <2>1. Phase' = Phase
    BY <1>3 DEF Phase
  <2> QED BY <1>3, <2>1 DEF Promise!vars, database
<1>4. ASSUME NEW q \in Requests, NEW next \in {"refresh", "ok"}, NEW to,
             Committed(q, next), pc[q] \in {"commit", "audit"},
             \A r \in Requests : job'[r].op = job[r].op,
             to = IF next = "ok" THEN "ok" ELSE IF job[q].op = "create" THEN "created" ELSE "done"
      PROVE  Promise!Becomes(q, to)
  <2>1. /\ pc'[q] \in {next, "failed"} /\ \A r \in Requests \ {q} : pc'[r] = pc[r]
    BY <1>1, <1>4, Places
  <2>2. Phase'[q] \in {to, "failed"}
    BY <1>4, <2>1 DEF Phase
  <2>3. Phase' = [Phase EXCEPT ![q] = Phase'[q]]
    BY <1>4, <2>1, PhaseMoves
  <2> QED BY <2>2, <2>3 DEF Promise!Becomes
<1>5. ASSUME NEW q \in Requests, pc[q] = "commit"
      PROVE  \A op : job[q].op = op => Promise!Admitted(q, op)
  BY <1>5 DEF Promise!Admitted, Phase
<1>6. ASSUME NEW q \in Requests, Arrive(q) \/ Step(q)
      PROVE  Promise!Next \/ UNCHANGED Promise!vars
  <2>1. CASE Arrive(q)
    <3>1. \A r \in Requests : Phase'[r] = Phase[r]
      BY <1>1, <2>1 DEF Arrive, Goto, Phase
    <3> QED BY <1>3, <2>1, <3>1 DEF Arrive
  <2>2. CASE Read(q)
    <3>1. Phase'[q] = "admitted" /\ Phase[q] = "new"
      BY <1>1, <2>2 DEF Read, Goto, Phase
    <3>2. Phase' = [Phase EXCEPT ![q] = "admitted"]
      BY <1>1, <2>2, <3>1, PhaseMoves DEF Read, Goto
    <3>3. Promise!Admit(q)
      BY <2>2, <3>1, <3>2, SameTables DEF Read, Promise!Admit, Promise!database, database
    <3> QED BY <3>3 DEF Promise!Next
  <2>3. CASE Refuse(q) \/ Fail(q)
    BY <1>1, <1>2, <2>3 DEF Refuse, Fail, Goto, Running
  <2>4. CASE CommitCreate(q)
    <3>1. PICK id \in Free :
            /\ AreNext({id}) /\ Inserted({id}, job[q].user)
            /\ job' = [job EXCEPT ![q].id = id]
      BY <2>4 DEF CommitCreate
    <3>2. \A r \in Requests : job'[r].op = job[r].op
      BY <2>4, <1>1, CreateEffect DEF CreatedAs
    <3>3. Promise!Becomes(q, "created")
      BY <1>4, <2>4, <3>2 DEF CommitCreate
    <3>4. Promise!Admitted(q, "create")
      BY <1>5, <2>4 DEF CommitCreate
    <3>5. Promise!Create(q)
      BY <2>4, <3>1, <3>3, <3>4, SameTables, SameWrites DEF CommitCreate, Promise!Create
    <3> QED BY <3>5 DEF Promise!Next
  <2>5. CASE CommitUpdate(q)
    <3>1. Promise!Becomes(q, "done") /\ Promise!Admitted(q, job[q].op)
      BY <1>4, <1>5, <2>5 DEF CommitUpdate
    <3>2. job[q].op = "update" => Exists(job[q].id)
      BY <1>1, <2>5 DEF CommitUpdate, Commit, Snapshot, UpToDate
    <3>3. Promise!Audited(job[q].id, job[q].op)
      BY <2>5, SameWrites DEF CommitUpdate
    <3>4. CASE job[q].op = "update"
      <4>1. Promise!Update(q)
        BY <2>5, <3>1, <3>2, <3>3, <3>4, SameTables DEF CommitUpdate, Promise!Update
      <4> QED BY <4>1 DEF Promise!Next
    <3>5. CASE job[q].op = "touch"
      <4>1. Promise!Touch(q)
        BY <2>5, <3>1, <3>3, <3>5 DEF CommitUpdate, Promise!Touch
      <4> QED BY <4>1 DEF Promise!Next
    <3> QED BY <2>5, <3>4, <3>5 DEF CommitUpdate
  <2>6. CASE CommitDelete(q)
    <3>1. Promise!Becomes(q, "ok") /\ Promise!Admitted(q, "delete")
      BY <1>4, <1>5, <2>6 DEF CommitDelete
    <3>2. Promise!Exists(job[q].id)
      BY <2>6, DeleteEffect, SameTables
    <3>3. Promise!Audited(job[q].id, "delete")
      BY <2>6, SameWrites DEF CommitDelete
    <3>4. Promise!Delete(q)
      BY <2>6, <3>1, <3>2, <3>3 DEF CommitDelete, Promise!Delete
    <3> QED BY <3>4 DEF Promise!Next
  <2>7. CASE CommitImport(q)
    <3>1. PICK ids \in SUBSET Free :
            /\ Cardinality(ids) = ParseUpload(job[q].file).rows /\ AreNext(ids)
            /\ Inserted(ids, job[q].user) /\ batches' = batches \cup {ids}
      BY <2>7 DEF CommitImport
    <3>2. Promise!Becomes(q, "ok") /\ Promise!Admitted(q, "import")
      BY <1>4, <1>5, <2>7 DEF CommitImport
    <3>3. Promise!ParseUpload(job[q].file).ok
      BY <2>7, ImportEffect, SameUploads
    <3>4. \E some \in SUBSET Promise!Free :
            /\ Promise!Cardinality(some) = Promise!ParseUpload(job[q].file).rows
            /\ Promise!AreNext(some) /\ Promise!Inserted(some, job[q].user)
            /\ batches' = batches \cup {some}
      BY <3>1, SameTables, SameWrites, SameUploads
    <3>5. Promise!Import(q)
      BY <2>7, <3>2, <3>3, <3>4 DEF CommitImport, Promise!Import
    <3> QED BY <3>5 DEF Promise!Next
  <2>8. CASE Refresh(q)
    <3>1. CASE job[q].op = "create"
      <4>1. \A r \in Requests : Phase'[r] = Phase[r]
        BY <1>1, <2>8, <3>1 DEF Refresh, Goto, Phase
      <4> QED BY <1>3, <2>8, <4>1 DEF Refresh
    <3>2. CASE job[q].op # "create"
      <4>1. Phase[q] = "done" /\ Phase'[q] = "ok"
        BY <1>1, <2>8, <3>2 DEF Refresh, Goto, Phase
      <4>2. Phase' = [Phase EXCEPT ![q] = "ok"]
        BY <1>1, <2>8, <4>1, PhaseMoves DEF Refresh, Goto
      <4>3. Promise!Answer(q)
        BY <2>8, <4>1, <4>2 DEF Refresh, Promise!Answer, Promise!database, database
      <4> QED BY <4>3 DEF Promise!Next
    <3> QED BY <3>1, <3>2
  <2>9. CASE CommitAudit(q)
    <3>1. job[q].op = "create" /\ Phase[q] = "created"
      BY <1>1, <2>9 DEF CommitAudit, Jobs, Phase
    <3>2. Promise!Becomes(q, "ok")
      BY <1>4, <2>9 DEF CommitAudit
    <3>3. Promise!AuditCreation(q)
      BY <2>9, <3>1, <3>2, SameWrites DEF CommitAudit, Promise!AuditCreation
    <3> QED BY <3>3 DEF Promise!Next
  <2> QED BY <1>6, <2>1, <2>2, <2>3, <2>4, <2>5, <2>6, <2>7, <2>8, <2>9 DEF Step
<1>7. ASSUME \/ \E h \in Handlers : Subscribe(h) \/ Unsubscribe(h)
             \/ Flush \/ UNCHANGED vars
      PROVE  UNCHANGED Promise!vars
  <2>1. UNCHANGED <<database, pc, job>>
    BY <1>7 DEF Subscribe, Unsubscribe, Flush, vars, database
  <2> QED BY <1>3, <2>1 DEF Phase
<1>8. ASSUME \/ FlushEnds
             \/ \E u \in Users, to \in NewRoles : ChangeRole(u, to)
      PROVE  Promise!Next \/ UNCHANGED Promise!vars
  <2>1. UNCHANGED <<pc, job>> /\ Phase' = Phase
    BY <1>8 DEF FlushEnds, ChangeRole, Phase
  <2>2. CASE FlushEnds
    <3>1. CASE UNCHANGED owner
      BY <2>1, <2>2, <3>1 DEF FlushEnds, Promise!vars
    <3>2. CASE ~UNCHANGED owner
      <4>1. \E id \in Promise!Free : Promise!AreNext({id}) /\ Promise!Inserted({id}, "nobody")
        BY <2>2, <3>2, SameTables, SameWrites DEF FlushEnds
      <4>2. Promise!OthersWrite
        BY <2>1, <2>2, <4>1 DEF FlushEnds, Promise!OthersWrite
      <4> QED BY <4>2 DEF Promise!Next
    <3> QED BY <3>1, <3>2
  <2>3. CASE \E u \in Users, to \in NewRoles : ChangeRole(u, to)
    <3>1. Promise!OthersWrite
      BY <2>1, <2>3 DEF ChangeRole, Promise!OthersWrite
    <3> QED BY <3>1 DEF Promise!Next
  <2> QED BY <1>8, <2>2, <2>3
<1>9. CASE Crash
  BY <1>1, <1>2, <1>9 DEF Crash, Running
<1> QED BY <1>6, <1>7, <1>8, <1>9 DEF Next

(* The requests implement the promise: whatever interleaves, fails and is  *)
(* killed, the tables are as if each request had looked and written at one *)
(* moment.                                                                 *)
THEOREM StoreImplementsPromise == Spec => ImplementsPromise
BY PromiseInit, PromiseStep, StoreInvariant, PTL DEF Spec, ImplementsPromise, Promise!Spec
=============================================================================
