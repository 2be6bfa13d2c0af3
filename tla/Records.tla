------------------------------ MODULE Records ------------------------------
(***************************************************************************)
(* The tables that the write operations of routes/records.py are about,    *)
(* data_records and audit_logs, with the roles of the accounts, and what   *)
(* these operations ask of them and do to them.                            *)
(***************************************************************************)
EXTENDS Importer, FiniteSets

CONSTANTS Users,
          MaxId,         \* bound: records ever inserted
          Files,         \* the files that are uploaded
          InitialRoles, InitialOwners, \* the accounts and the records at the beginning
          NewRoles       \* what an administrator changes roles to

Ids == 1..MaxId
Ops == {"create", "update", "touch", "delete", "import"}
Roles == {"ADMIN", "USER", "VIEWER", "INACTIVE"}
Owners == Users \cup {"nobody", "unused", "deleted"}
Job == [op : Ops, user : Users, id : 0..MaxId, file : Files]

VARIABLES role,      \* per user, the role, or "INACTIVE"
          owner,     \* data_records: per id its owner, "nobody", "unused" or "deleted"
          trail,     \* audit_logs: per id and action, the number of rows
          batches    \* audit_logs: the RECORD_IMPORT rows, each with the ids it brought

database == <<role, owner, trail, batches>>

Free == {id \in Ids : owner[id] = "unused"}
Exists(id) == owner[id] \notin {"unused", "deleted"}

\* AUTO_INCREMENT: ids are the next Cardinality(ids) ones.
AreNext(ids) == \A i \in ids, j \in Free \ ids : i < j

RecordsInit ==
  /\ role = InitialRoles
  /\ owner = InitialOwners
  /\ trail = [id \in Ids |-> [create |-> IF InitialOwners[id] = "unused" THEN 0 ELSE 1,
                              update |-> 0, touch |-> 0, delete |-> 0]]
  /\ batches = {}

\* require_write: an active account that is not a viewer.
MayWrite(u) == role[u] \in {"ADMIN", "USER"}

\* _ensure_may_modify.
MayModify(u, id) == role[u] = "ADMIN" \/ owner[id] = u

PermittedWithoutOwner_mutant(j) ==
  /\ MayWrite(j.user)
  /\ j.op = "import" => ParseUpload(j.file).ok
  /\ j.op \in {"update", "touch", "delete"} => Exists(j.id)

\* What a route asks before it writes: require_write, parse_upload() of an import,
\* _get_or_404() and _ensure_may_modify() of an update or a deletion.
Permitted(j) ==
  /\ MayWrite(j.user)
  /\ j.op = "import" => ParseUpload(j.file).ok
  /\ j.op \in {"update", "touch", "delete"} => Exists(j.id) /\ MayModify(j.user, j.id)

Inserted(ids, u) == owner' = [id \in Ids |-> IF id \in ids THEN u ELSE owner[id]]

Audited(id, action) == trail' = [trail EXCEPT ![id][action] = @ + 1]
=============================================================================
