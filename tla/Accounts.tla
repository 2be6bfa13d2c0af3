------------------------------ MODULE Accounts ------------------------------
(***************************************************************************)
(* The accounts and their audit rows: services/bootstrap.py before every   *)
(* start of the server, and the requests of routes/auth.py and             *)
(* routes/admin.py that write, interleaving over one database:             *)
(*   register     INSERT; refresh and INSERT of the audit row              *)
(*   login        INSERT of the audit row, then the token                  *)
(*   role, status UPDATE with its audit row; refresh                       *)
(* Accounts are never deleted.  Passwords are correct or the login is not  *)
(* sent: a wrong one changes nothing.                                      *)
(***************************************************************************)
EXTENDS Sessions, Sequences, SequencesExt

CONSTANTS Requests,
          MaxUsers,     \* bound: accounts ever inserted
          MaxStarts,    \* bound: starts of the process
          Names, Emails,
          Configurations,  \* the demo accounts, in order, that a start may find configured
          Workloads     \* what the requests ask for

Ids == 1..MaxUsers
Roles == {"ADMIN", "USER", "VIEWER"}
Statuses == {"active", "inactive"}  \* is_active
NoUser == [name |-> "none"]
User == [name : Names, email : Emails, role : Roles, status : Statuses, born : Roles,
         by : {"bootstrap", "register"}]
Job == [op : {"register"}, name : Names, email : Emails]
  \cup [op : {"login"}, name : Names]
  \cup [op : {"role"}, actor : Ids, target : Ids, to : Roles]
  \cup [op : {"status"}, actor : Ids, target : Ids, to : Statuses]

ASSUME AccountsAssumption ==
  /\ Requests = Actors /\ MaxUsers \in Nat /\ MaxStarts \in Nat \ {0}
  /\ "none" \notin Names
  /\ Configurations \subseteq Seq([role : Roles, name : Names, email : Emails])
  /\ Workloads \subseteq [Requests -> Job]

VARIABLES users,    \* per id, the row, with the role it was born with and who made it, or NoUser
          log,      \* audit_logs: per account its rows, in the order of their commits
          starts,   \* how often the process was started
          configured,  \* the environment of this start
          seeded,   \* how many demo accounts bootstrap has gone through
          pc,       \* per request: what it does next, its answer, or "failed"
          job,      \* per request: what it asks for
          about     \* per request: the id it works on and the value it read there

vars == <<sessionVars, users, log, starts, seeded, configured, pc, job, about>>

Row(action, from, to) == [action |-> action, from |-> from, to |-> to]
Known == {id \in Ids : users[id] # NoUser}
Named(name) == {id \in Known : users[id].name = name}
Taken(name, email) == \E id \in Known : users[id].name = name \/ users[id].email = email
Serving == seeded = Len(configured)
Running(q) == pc[q] \in {"begin", "commit", "refresh", "audit"}
Unknown == [id |-> 0, from |-> "none"]

Init ==
  /\ SessionsInit
  /\ users = [id \in Ids |-> NoUser]
  /\ log = [id \in Ids |-> <<>>]
  /\ starts = 1 /\ seeded = 0 /\ configured \in Configurations
  /\ pc = [q \in Requests |-> "idle"]
  /\ job \in Workloads
  /\ about = [q \in Requests |-> Unknown]

Goto(q, next) == pc' = [pc EXCEPT ![q] = next]
Appended(id, row) == log' = [log EXCEPT ![id] = Append(@, row)]

\* crud/user.py create(): the next id.
Insert(id, name, email, role, by) ==
  /\ id \in Ids \ Known /\ \A other \in Ids \ Known : id <= other
  /\ users' = [users EXCEPT ![id] = [name |-> name, email |-> email, role |-> role,
                                     status |-> "active", born |-> role, by |-> by]]

---------------------------------------------------------------------------
(* bootstrap.py: no request is served yet.  A name or an address that is    *)
(* there, from an earlier start or because somebody registered it while it  *)
(* was not configured, is left as it is.                                   *)

Seed ==
  /\ ~Serving
  /\ LET account == configured[seeded + 1] IN
       \/ Taken(account.name, account.email) /\ UNCHANGED users
       \/ /\ ~Taken(account.name, account.email)
          /\ \E id \in Ids : Insert(id, account.name, account.email, account.role, "bootstrap")
  /\ seeded' = seeded + 1
  /\ UNCHANGED <<sessionVars, log, starts, configured, pc, job, about>>

\* The process is killed, or bootstrap fails; the container starts it again, with the
\* environment of the day.
Restart ==
  /\ starts < MaxStarts /\ starts' = starts + 1 /\ seeded' = 0
  /\ configured' \in Configurations
  /\ Disconnect
  /\ pc' = [q \in Requests |-> IF Running(q) THEN "failed" ELSE pc[q]]
  /\ UNCHANGED <<users, log, job, about>>

---------------------------------------------------------------------------
(* The steps of a request.                                                 *)

Arrive(q) ==
  /\ Serving /\ pc[q] = "idle" /\ FreeConnection
  /\ Goto(q, "begin")
  /\ UNCHANGED <<sessionVars, users, log, starts, seeded, configured, job, about>>

\* A refusal: the transaction has only read.
Refuse(q, answer) ==
  /\ pc[q] = "begin" /\ FreeConnection
  /\ Goto(q, answer)
  /\ UNCHANGED <<sessionVars, users, log, starts, seeded, configured, job, about>>

\* What the request reads passes, and what is to be written is staged.
Stage(q, id, from) ==
  /\ pc[q] = "begin" /\ Begin(q)
  /\ Goto(q, "commit")
  /\ about' = [about EXCEPT ![q] = [id |-> id, from |-> from]]
  /\ UNCHANGED <<users, log, starts, seeded, configured, job>>

\* register(): the name and the address are looked up before the password is hashed.
ReadRegister(q) ==
  /\ job[q].op = "register"
  /\ \/ Taken(job[q].name, job[q].email) /\ Refuse(q, "taken")
     \/ ~Taken(job[q].name, job[q].email) /\ Stage(q, 0, "none")

\* login(): an account that is there and active.
ReadLogin(q) ==
  /\ job[q].op = "login"
  /\ \/ (\A id \in Named(job[q].name) : users[id].status = "inactive") /\ Refuse(q, "refused")
     \/ \E id \in Named(job[q].name) : users[id].status = "active" /\ Stage(q, id, "none")

\* require_admin, on the same session.
IsAdmin(id) == id \in Known /\ users[id].status = "active" /\ users[id].role = "ADMIN"

ChangePermittedToSelf_mutant(j) == IsAdmin(j.actor) /\ j.target \in Known

\* change_user_role(), change_user_status(): _get_user_or_404 and _refuse_self_change.
ChangePermitted(j) ==
  /\ IsAdmin(j.actor) /\ j.target \in Known
  /\ j.to \notin {"ADMIN", "active"} => j.target # j.actor

ReadChange(q) ==
  /\ job[q].op \in {"role", "status"}
  /\ \/ ~ChangePermitted(job[q]) /\ Refuse(q, "refused")
     \/ /\ ChangePermitted(job[q])
        /\ Stage(q, job[q].target, users[job[q].target][job[q].op])

\* The server has executed a commit; its answer arrives, or it is lost.
Committed(q, next) == Goto(q, next) \/ Goto(q, "failed")

InsertUserBroadly_mutant(q) ==
  /\ pc[q] = "commit" /\ job[q].op = "register"
  /\ \/ /\ ~Taken(job[q].name, job[q].email)
        /\ \E id \in Ids :
             /\ Insert(id, job[q].name, job[q].email, "USER", "register")
             /\ about' = [about EXCEPT ![q].id = id]
        /\ Commit(q, {}) /\ Committed(q, "refresh")
     \/ Close(q) /\ Goto(q, "taken") /\ UNCHANGED <<users, about>>
  /\ UNCHANGED <<log, starts, seeded, configured, job>>

\* The insert of register(): the unique indexes decide on what is there now.
InsertUser(q) ==
  /\ pc[q] = "commit" /\ job[q].op = "register"
  /\ \/ /\ ~Taken(job[q].name, job[q].email)
        /\ \E id \in Ids :
             /\ Insert(id, job[q].name, job[q].email, "USER", "register")
             /\ about' = [about EXCEPT ![q].id = id]
        /\ Commit(q, {}) /\ Committed(q, "refresh")
     \/ /\ Taken(job[q].name, job[q].email)
        /\ Close(q) /\ Goto(q, "taken")
        /\ UNCHANGED <<users, about>>
  /\ UNCHANGED <<log, starts, seeded, configured, job>>

\* The audit row of login(), and with its commit the token.
CommitLogin(q) ==
  /\ pc[q] = "commit" /\ job[q].op = "login"
  /\ Commit(q, {}) /\ Committed(q, "ok")
  /\ Appended(about[q].id, Row("login", "none", "none"))
  /\ UNCHANGED <<users, starts, seeded, configured, job, about>>

CommitChangeBlindly_mutant(q) ==
  /\ pc[q] = "commit" /\ job[q].op \in {"role", "status"}
  /\ LET j == job[q] IN
       /\ Commit(q, {}) /\ Committed(q, "refresh")
       /\ users' = [users EXCEPT ![j.target][j.op] = IF about[q].from = j.to THEN @ ELSE j.to]
       /\ Appended(j.target, Row(j.op, about[q].from, j.to))
  /\ UNCHANGED <<starts, seeded, configured, job, about>>

\* The change and its audit row.  A value that was already there is no UPDATE.
CommitChange(q) ==
  /\ pc[q] = "commit" /\ job[q].op \in {"role", "status"}
  /\ LET j == job[q]
         same == about[q].from = j.to
     IN  /\ Commit(q, IF same THEN {} ELSE {j.target}) /\ Committed(q, "refresh")
         /\ users' = [users EXCEPT ![j.target][j.op] = IF same THEN @ ELSE j.to]
         /\ Appended(j.target, Row(j.op, about[q].from, j.to))
  /\ UNCHANGED <<starts, seeded, configured, job, about>>

\* refresh(): register() goes on to its audit row in that transaction.
Refresh(q) ==
  /\ pc[q] = "refresh"
  /\ \/ job[q].op = "register" /\ Begin(q) /\ Goto(q, "audit")
     \/ job[q].op # "register" /\ FreeConnection /\ Goto(q, "ok") /\ UNCHANGED sessionVars
  /\ UNCHANGED <<users, log, starts, seeded, configured, job, about>>

CommitRegister(q) ==
  /\ pc[q] = "audit"
  /\ Commit(q, {}) /\ Committed(q, "ok")
  /\ Appended(about[q].id, Row("register", "none", "none"))
  /\ UNCHANGED <<users, starts, seeded, configured, job, about>>

\* The pool's timeout, a conflict or another error of the database: 500.
Fail(q) ==
  /\ Running(q)
  /\ Close(q)
  /\ Goto(q, "failed")
  /\ UNCHANGED <<users, log, starts, seeded, configured, job, about>>

Next ==
  \/ Seed \/ Restart
  \/ \E q \in Requests :
       \/ Arrive(q) \/ ReadRegister(q) \/ ReadLogin(q) \/ ReadChange(q)
       \/ InsertUser(q) \/ CommitLogin(q) \/ CommitChange(q)
       \/ Refresh(q) \/ CommitRegister(q) \/ Fail(q)

Spec == Init /\ [][Next]_vars
---------------------------------------------------------------------------
(* Properties.                                                             *)

Values == Roles \cup Statuses \cup {"none"}

TypeOK ==
  /\ open \in SUBSET Actors /\ Cardinality(open) <= PoolLimit
  /\ changed \in [Actors -> SUBSET Ids]
  /\ users \in [Ids -> User \cup {NoUser}]
  /\ log \in [Ids -> Seq([action : {"register", "login", "role", "status"},
                          from : Values, to : Values])]
  /\ starts \in 1..MaxStarts /\ configured \in Configurations
  /\ seeded \in 0..Len(configured)
  /\ pc \in [Requests -> {"idle", "begin", "commit", "refresh", "audit",
                          "ok", "taken", "refused", "failed"}]
  /\ job \in [Requests -> Job]
  /\ about \in [Requests -> [id : 0..MaxUsers, from : Values]]

\* The audit log explains every account: its changes of role, and of status, lead
\* from the value it was born with to the one it has, each from where the one
\* before left off, through concurrent changes with stale reads and restarts with
\* their bootstrap (admin.py:96-107, bootstrap.py:60-62).  Rows whose two values
\* are equal noted a request that changed nothing.
Explains(field, birth, now, rows) ==
  LET moves == {n \in DOMAIN rows : rows[n].action = field /\ rows[n].from # rows[n].to}
      LeftOff(value, before) ==
        IF before = {} THEN value = birth
        ELSE \E n \in before : rows[n].to = value /\ \A m \in before : m <= n
  IN  /\ \A n \in moves : LeftOff(rows[n].from, {m \in moves : m < n})
      /\ LeftOff(now, moves)

TrailExplains ==
  \A id \in Known :
    /\ Explains("role", users[id].born, users[id].role, log[id])
    /\ Explains("status", "active", users[id].status, log[id])

\* The last active administrator goes only by the hand of one who had himself been
\* changed while his request was under way (admin.py:47-56: nobody may lock
\* himself out, which two that act on each other at once can still do).
LastAdminGoes ==
  [][(\E id \in Ids : IsAdmin(id)) /\ ~(\E id \in Ids : IsAdmin(id)')
       => \E q \in Requests : pc[q] = "commit" /\ pc'[q] # "commit"
                                /\ job[q].actor \in changed[q]]_vars

\* Registrations race, with each other and with what bootstrap left: of those that
\* claim one name or address at most one is told 201, and it owns the account; one
\* that is told 409 finds the name or the address taken, by the look-up or by losing
\* to the unique index, never because something else failed (auth.py:51-75).
OneWinner ==
  \A q \in Requests : job[q].op = "register" =>
    LET j == job[q] IN
      /\ pc[q] = "taken" => Taken(j.name, j.email)
      /\ pc[q] = "ok" =>
           /\ users[about[q].id].name = j.name /\ users[about[q].id].email = j.email
           /\ \A r \in Requests \ {q} : pc[r] = "ok" /\ job[r].op = "register" =>
                job[r].name # j.name /\ job[r].email # j.email

\* A success is in the audit log, whatever happens later (auth.py:79-87, 119-127);
\* and an account that registered itself has its row unless its request ended
\* between the two commits.
Has(id, action) == \E n \in DOMAIN log[id] : log[id][n].action = action

SuccessAudited ==
  /\ \A q \in Requests : pc[q] = "ok" => Has(about[q].id, job[q].op)
  /\ \A id \in Known :
       \/ Has(id, "register")
       \/ users[id].by = "bootstrap"
       \/ \E q \in Requests : about[q].id = id /\ job[q].op = "register"
                                /\ pc[q] \in {"refresh", "audit", "failed"}

\* What a request was told is true, of the accounts and of the log.
AnswersTrue == OneWinner /\ SuccessAudited
=============================================================================
