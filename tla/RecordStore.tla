---------------------------- MODULE RecordStore ----------------------------
(***************************************************************************)
(* The write operations of routes/records.py with crud/data_record.py and  *)
(* crud/audit_log.py, as requests that interleave over one database and    *)
(* one connection pool, together with the other users of that pool: the    *)
(* WebSocket handlers, whose session lives as long as the connection, and  *)
(* the flusher.  Every request is one or several transactions:             *)
(*   create   INSERT; refresh and INSERT of the audit row                  *)
(*   update   UPDATE with its audit row; refresh                           *)
(*   touch    a PATCH that changes nothing: the audit row; refresh         *)
(*   delete   DELETE with its audit row                                    *)
(*   import   INSERT of all rows with one audit row                        *)
(***************************************************************************)
EXTENDS Sessions, Records

CONSTANTS Requests, Handlers, Flusher,
          Workloads      \* what the requests ask for

ASSUME RecordStoreAssumption ==
  /\ Actors = Requests \cup Handlers \cup {Flusher}
  /\ Requests \cap Handlers = {} /\ Flusher \notin Requests \cup Handlers
  /\ MaxId \in Nat /\ Files \subseteq Upload
  /\ Users \cap {"nobody", "unused", "deleted"} = {}
  /\ InitialRoles \in [Users -> Roles] /\ NewRoles \subseteq Roles
  /\ InitialOwners \in [Ids -> Users \cup {"unused"}]
  /\ Workloads \subseteq [Requests -> Job]
  /\ \A w \in Workloads, q \in Requests : w[q].op \in {"create", "import"} <=> w[q].id = 0

VARIABLES pc,        \* per request: what it does next, "ok" after a success, or "failed"
          job        \* per request: what it asks for; a create has its id once it is inserted

vars == <<sessionVars, role, owner, trail, batches, pc, job>>

Running(q) == pc[q] \notin {"idle", "ok", "failed"}

Init ==
  /\ SessionsInit
  /\ RecordsInit
  /\ pc = [q \in Requests |-> "idle"]
  /\ job \in Workloads

---------------------------------------------------------------------------
(* The steps of a request.                                                 *)

Goto(q, next) == pc' = [pc EXCEPT ![q] = next]

\* The request reaches the server and waits for a connection.
Arrive(q) ==
  /\ pc[q] = "idle"
  /\ Goto(q, "begin")
  /\ UNCHANGED <<sessionVars, database, job>>

\* Authentication, role, the record and its owner are read and pass; what is to
\* be written is staged.
Read(q) ==
  /\ pc[q] = "begin" /\ Permitted(job[q])
  /\ Begin(q)
  /\ Goto(q, "commit")
  /\ UNCHANGED <<database, job>>

\* 400, 401, 403 or 404.
Refuse(q) ==
  /\ pc[q] = "begin" /\ ~Permitted(job[q])
  /\ FreeConnection
  /\ Goto(q, "failed")
  /\ UNCHANGED <<sessionVars, database, job>>

\* The server has executed a commit.  Its answer arrives and the request goes on,
\* or the answer is lost and the request fails.
Committed(q, next) == Goto(q, next) \/ Goto(q, "failed")

CommitCreate(q) ==
  /\ pc[q] = "commit" /\ job[q].op = "create"
  /\ \E id \in Free :
       /\ AreNext({id})
       /\ Inserted({id}, job[q].user)
       /\ job' = [job EXCEPT ![q].id = id]
  /\ Commit(q, {})
  /\ Committed(q, "refresh")
  /\ UNCHANGED <<role, trail, batches>>

CommitUpdateUnconditional_mutant(q) ==
  /\ pc[q] = "commit" /\ job[q].op \in {"update", "touch"}
  /\ Commit(q, {})
  /\ Audited(job[q].id, job[q].op)
  /\ Committed(q, "refresh")
  /\ UNCHANGED <<role, owner, batches, job>>

CommitUpdateUnaudited_mutant(q) ==
  /\ pc[q] = "commit" /\ job[q].op \in {"update", "touch"}
  /\ Commit(q, IF job[q].op = "update" THEN {job[q].id} ELSE {})
  /\ Committed(q, "refresh")
  /\ UNCHANGED <<database, job>>

CommitUpdate(q) ==
  /\ pc[q] = "commit" /\ job[q].op \in {"update", "touch"}
  /\ Commit(q, IF job[q].op = "update" THEN {job[q].id} ELSE {})
  /\ Audited(job[q].id, job[q].op)
  /\ Committed(q, "refresh")
  /\ UNCHANGED <<role, owner, batches, job>>

CommitDeleteUnconditional_mutant(q) ==
  /\ pc[q] = "commit" /\ job[q].op = "delete"
  /\ Commit(q, {})
  /\ owner' = [owner EXCEPT ![job[q].id] = "deleted"]
  /\ Audited(job[q].id, "delete")
  /\ Committed(q, "ok")
  /\ UNCHANGED <<role, batches, job>>

CommitDelete(q) ==
  /\ pc[q] = "commit" /\ job[q].op = "delete"
  /\ Commit(q, {job[q].id})
  /\ owner' = [owner EXCEPT ![job[q].id] = "deleted"]
  /\ Audited(job[q].id, "delete")
  /\ Committed(q, "ok")
  /\ UNCHANGED <<role, batches, job>>

CommitImport(q) ==
  /\ pc[q] = "commit" /\ job[q].op = "import"
  /\ \E ids \in SUBSET Free :
       /\ Cardinality(ids) = ParseUpload(job[q].file).rows /\ AreNext(ids)
       /\ Inserted(ids, job[q].user)
       /\ batches' = batches \cup {ids}
  /\ Commit(q, {})
  /\ Committed(q, "ok")
  /\ UNCHANGED <<role, trail, job>>

\* refresh() in a transaction of its own: create goes on to stage its audit
\* row there, update has its answer.
Refresh(q) ==
  /\ pc[q] = "refresh" /\ Exists(job[q].id)
  /\ \/ /\ job[q].op = "create"
        /\ Begin(q)
        /\ Goto(q, "audit")
     \/ /\ job[q].op # "create" /\ FreeConnection
        /\ Goto(q, "ok")
        /\ UNCHANGED sessionVars
  /\ UNCHANGED <<database, job>>

\* The second transaction of create.
CommitAudit(q) ==
  /\ pc[q] = "audit"
  /\ Commit(q, {})
  /\ Audited(job[q].id, "create")
  /\ Committed(q, "ok")
  /\ UNCHANGED <<role, owner, batches, job>>

FailNoTimeout_mutant(q) ==
  /\ Running(q) /\ (q \in open \/ FreeConnection)
  /\ Close(q)
  /\ Goto(q, "failed")
  /\ UNCHANGED <<database, job>>

\* The pool's timeout, a lost connection, a conflict or another error of the
\* database, a row that is gone when it is refreshed: 500, rolled back.
Fail(q) ==
  /\ Running(q)
  /\ Close(q)
  /\ Goto(q, "failed")
  /\ UNCHANGED <<database, job>>

---------------------------------------------------------------------------
(* Everybody else.                                                         *)

\* ws.py: the handler's session reads the user and stays as it is.
Subscribe(h) ==
  /\ h \notin open /\ Begin(h)
  /\ UNCHANGED <<database, pc, job>>

Unsubscribe(h) ==
  /\ h \in open /\ Close(h)
  /\ UNCHANGED <<database, pc, job>>

\* The flusher writes a batch (of one) when it gets a connection, or fails.
Flush ==
  /\ Flusher \notin open /\ Begin(Flusher)
  /\ UNCHANGED <<database, pc, job>>

FlushEnds ==
  /\ Flusher \in open
  /\ \/ /\ Commit(Flusher, {})
        /\ \E id \in Free : AreNext({id}) /\ Inserted({id}, "nobody")
     \/ Close(Flusher) /\ UNCHANGED owner
  /\ UNCHANGED <<role, trail, batches, pc, job>>

\* An administrator changes a role or deactivates an account (module Accounts).
ChangeRole(u, to) ==
  /\ role[u] # to
  /\ role' = [role EXCEPT ![u] = to]
  /\ ChangedElsewhere({u})
  /\ UNCHANGED <<owner, trail, batches, pc, job>>

\* The process is killed; its transactions are rolled back.
Crash ==
  /\ \E q \in Requests : Running(q)
  /\ Disconnect
  /\ pc' = [q \in Requests |-> IF Running(q) THEN "failed" ELSE pc[q]]
  /\ UNCHANGED <<database, job>>

Step(q) ==
  \/ Read(q) \/ Refuse(q)
  \/ CommitCreate(q) \/ CommitUpdate(q) \/ CommitDelete(q) \/ CommitImport(q)
  \/ Refresh(q) \/ CommitAudit(q) \/ Fail(q)

Next ==
  \/ \E q \in Requests : Arrive(q) \/ Step(q)
  \/ \E h \in Handlers : Subscribe(h) \/ Unsubscribe(h)
  \/ Flush \/ FlushEnds \/ Crash
  \/ \E u \in Users, to \in NewRoles : ChangeRole(u, to)

Spec == Init /\ [][Next]_vars

\* The event loop runs every request, and waiting for a connection or for the
\* database ends, if only by a timeout.  Handlers owe nothing.
Fairness == \A q \in Requests : WF_vars(Step(q))
FairSpec == Spec /\ Fairness
---------------------------------------------------------------------------
(* Properties.                                                             *)

TypeOK ==
  /\ open \in SUBSET Actors /\ Cardinality(open) <= PoolLimit
  /\ changed \in [Actors -> SUBSET (Ids \cup Users)]
  /\ role \in [Users -> Roles]
  /\ owner \in [Ids -> Owners]
  /\ trail \in [Ids -> [create : Nat, update : Nat, touch : Nat, delete : Nat]]
  /\ batches \in SUBSET SUBSET Ids
  /\ pc \in [Requests -> {"idle", "begin", "commit", "refresh", "audit", "ok", "failed"}]
  /\ job \in [Requests -> Job]

\* A record is gone exactly if one DELETE is in the audit log, however many
\* requests had read it before, and nothing is audited of a record that was
\* never there (records.py:286-298: the row is read, the audit row staged, and
\* both committed; a second DELETE of the row must not commit its audit row).
DeletedOnce ==
  \A id \in Ids :
    /\ trail[id].delete = IF owner[id] = "deleted" THEN 1 ELSE 0
    /\ owner[id] = "unused" => trail[id].create = 0 /\ trail[id].update = 0 /\ trail[id].touch = 0

\* A record somebody created has one RECORD_CREATE row, or its request is still
\* between its two commits or ended there (records.py:80-90).
CreateAudited ==
  \A id \in Ids : owner[id] \in Users /\ id \notin UNION batches =>
    \/ trail[id].create = 1
    \/ /\ trail[id].create = 0
       /\ \E q \in Requests : job[q].op = "create" /\ job[q].id = id
                                /\ pc[q] \in {"refresh", "audit", "failed"}

\* An import is one audit row for all of its records, which came together: they
\* are there or were deleted since, and no record belongs to two imports
\* (records.py:158-168).
ImportsWhole ==
  \A ids \in batches :
    /\ \A id \in ids : owner[id] # "unused" /\ trail[id].create = 0
    /\ \A other \in batches : other = ids \/ other \cap ids = {}

\* The audit log tells the history of every record, whatever interleaves and
\* whoever fails where: what was deleted, created and imported, each once and
\* nothing else.
TrailMatches == DeletedOnce /\ CreateAudited /\ ImportsWhole

\* A client that was told that its request succeeded finds the change and its
\* audit row in the database, whatever the others did in between; and a file
\* that was accepted had no bad line and came in with all of its rows.
SuccessIsDurable ==
  \A q \in Requests : pc[q] = "ok" =>
    LET j == job[q]
        Lines(kind) == {n \in DOMAIN j.file.lines : j.file.lines[n] = kind}
    IN  IF j.op = "import"
        THEN /\ Lines("bad") = {}
             /\ \E ids \in batches : Cardinality(ids) = Cardinality(Lines("good"))
        ELSE trail[j.id][j.op] > 0

\* Nobody waits for a connection while holding one, so requests alone can never
\* exhaust the pool for good (crud/data_record.py:44-45 gives the connection back
\* between the two transactions of a request).
NoHoldAndWait ==
  \A q \in open \cap Requests : pc[q] \in {"commit", "audit"}

\* A record is deleted or updated by an administrator or its owner.  Whoever is
\* neither any more had his rights changed after his transaction began: the
\* check of records.py:254 is never older than that.  The row of a PATCH that
\* changes nothing may be about a record that has gone in the meantime.
RightsFresh ==
  [][\A id \in Ids, q \in Requests :
       /\ pc[q] = "commit" /\ pc'[q] # "commit" /\ job[q].id = id
       /\ trail'[id] # trail[id]
       => \/ MayWrite(job[q].user) /\ MayModify(job[q].user, id)
          \/ job[q].user \in changed[q] \/ ~Exists(id)]_vars

\* The requests implement AuditedRecords: as if each had looked and written at
\* one moment, although it writes what it has read before others changed it
\* (records.py:253-268, 286-298), may lose the answer of a commit, and is killed
\* anywhere.
Phase ==
  [q \in Requests |->
     CASE pc[q] \in {"idle", "begin"}    -> "new"
       [] pc[q] = "commit"               -> "admitted"
       [] pc[q] \in {"refresh", "audit"} -> IF job[q].op = "create" THEN "created" ELSE "done"
       [] OTHER                          -> pc[q]]

Promise == INSTANCE AuditedRecords WITH phase <- Phase

ImplementsPromise == Promise!Spec

\* Every request ends, also when subscribers hold every connection for ever.
RequestsEnd == \A q \in Requests : Running(q) ~> ~Running(q)
=============================================================================
