--------------------------- MODULE AuditedRecords ---------------------------
(***************************************************************************)
(* What the write operations promise, without sessions, snapshots or       *)
(* connections.  A request is admitted at one moment, by the rights its    *)
(* user has then, and takes effect at one later moment or never: on the    *)
(* tables as they are at that moment, wholly, with its audit row, and only *)
(* once, however often its answer is lost.  An update or a deletion takes  *)
(* effect on a record that exists.  Only a creation has a second moment,   *)
(* at which it is audited.                                                 *)
(***************************************************************************)
EXTENDS Records

CONSTANTS Requests,
          Workloads      \* what the requests ask for

VARIABLES job,           \* per request: what it asks for; a create gets its id
          phase          \* per request: "new", "admitted", "created" if its audit row
                         \* is to come, "done" without its answer, "ok" or "failed"

vars == <<role, owner, trail, batches, job, phase>>

Init ==
  /\ RecordsInit
  /\ job \in Workloads
  /\ phase = [q \in Requests |-> "new"]

Admitted(q, op) == phase[q] = "admitted" /\ job[q].op = op

\* The request goes on to next, or its answer is lost.
Becomes(q, next) == \E to \in {next, "failed"} : phase' = [phase EXCEPT ![q] = to]

Admit(q) ==
  /\ phase[q] = "new" /\ Permitted(job[q])
  /\ phase' = [phase EXCEPT ![q] = "admitted"]
  /\ UNCHANGED <<database, job>>

Create(q) ==
  /\ Admitted(q, "create")
  /\ \E id \in Free :
       /\ AreNext({id})
       /\ Inserted({id}, job[q].user)
       /\ job' = [job EXCEPT ![q].id = id]
  /\ Becomes(q, "created")
  /\ UNCHANGED <<role, trail, batches>>

AuditCreation(q) ==
  /\ phase[q] = "created"
  /\ Audited(job[q].id, "create")
  /\ Becomes(q, "ok")
  /\ UNCHANGED <<role, owner, batches, job>>

Update(q) ==
  /\ Admitted(q, "update") /\ Exists(job[q].id)
  /\ Audited(job[q].id, "update")
  /\ Becomes(q, "done")
  /\ UNCHANGED <<role, owner, batches, job>>

\* It writes no record, which may be gone by now.
Touch(q) ==
  /\ Admitted(q, "touch")
  /\ Audited(job[q].id, "touch")
  /\ Becomes(q, "done")
  /\ UNCHANGED <<role, owner, batches, job>>

Delete(q) ==
  /\ Admitted(q, "delete") /\ Exists(job[q].id)
  /\ owner' = [owner EXCEPT ![job[q].id] = "deleted"]
  /\ Audited(job[q].id, "delete")
  /\ Becomes(q, "ok")
  /\ UNCHANGED <<role, batches, job>>

Import(q) ==
  /\ Admitted(q, "import") /\ ParseUpload(job[q].file).ok
  /\ \E ids \in SUBSET Free :
       /\ Cardinality(ids) = ParseUpload(job[q].file).rows /\ AreNext(ids)
       /\ Inserted(ids, job[q].user)
       /\ batches' = batches \cup {ids}
  /\ Becomes(q, "ok")
  /\ UNCHANGED <<role, trail, job>>

Answer(q) ==
  /\ phase[q] = "done"
  /\ phase' = [phase EXCEPT ![q] = "ok"]
  /\ UNCHANGED <<database, job>>

\* One request fails, or all that a killed process had, without an effect.
Fail ==
  /\ \E some \in SUBSET Requests :
       phase' = [q \in Requests |->
                   IF q \in some /\ phase[q] # "ok" THEN "failed" ELSE phase[q]]
  /\ UNCHANGED <<database, job>>

\* A reading is stored, of nobody; or an administrator changes a role.
OthersWrite ==
  /\ \/ /\ \E id \in Free : AreNext({id}) /\ Inserted({id}, "nobody")
        /\ UNCHANGED role
     \/ /\ \E u \in Users, to \in NewRoles : role' = [role EXCEPT ![u] = to]
        /\ UNCHANGED owner
  /\ UNCHANGED <<trail, batches, job, phase>>

Next ==
  \/ \E q \in Requests :
       \/ Admit(q) \/ Create(q) \/ AuditCreation(q) \/ Update(q) \/ Touch(q)
       \/ Delete(q) \/ Import(q) \/ Answer(q)
  \/ Fail \/ OthersWrite

Spec == Init /\ [][Next]_vars
=============================================================================
