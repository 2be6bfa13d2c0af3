--------------------------- MODULE Accounts_proofs ---------------------------
(***************************************************************************)
(* Registration, sign-in and administration, for every number of requests, *)
(* accounts, connections and starts: the audit log explains every account, *)
(* answers are true, and the last administrator goes only by the hand of   *)
(* one who had been changed himself.                                       *)
(***************************************************************************)
EXTENDS Accounts, SharedFacts

(* A request is in a transaction exactly between a read and its commit.    *)
Transactions == \A q \in Requests : q \in open <=> pc[q] \in {"commit", "audit"}

(* What the unique indexes promise, and no rows about nobody.              *)
Indexes ==
  /\ \A id, other \in Known : id # other =>
       users[id].name # users[other].name /\ users[id].email # users[other].email
  /\ \A id \in Ids \ Known : log[id] = <<>>

(* What was read still holds, unless the rows it was read from have been   *)
(* changed since, which the commit finds out of the row it writes.         *)
UpToDate(q) ==
  LET j == job[q] IN
    /\ j.op = "login" => about[q].id \in Known
    /\ j.op \in {"role", "status"} =>
         /\ j.target \in Known /\ about[q].id = j.target
         /\ j.target \in changed[q] \/ users[j.target][j.op] = about[q].from
         /\ j.actor \in changed[q] \/ IsAdmin(j.actor)
         /\ j.to \notin {"ADMIN", "active"} => j.target # j.actor

Snapshot == \A q \in Requests : pc[q] = "commit" => UpToDate(q)

(* A registration owns the account it inserted, and no two the same.       *)
Registrations ==
  /\ \A q \in Requests : job[q].op = "register" =>
       /\ about[q].id # 0 => /\ about[q].id \in Known
                             /\ users[about[q].id].name = job[q].name
                             /\ users[about[q].id].email = job[q].email
       /\ pc[q] \in {"refresh", "audit", "ok"} => about[q].id # 0
       /\ pc[q] = "taken" => Taken(job[q].name, job[q].email)
  /\ \A q, r \in Requests :
       job[q].op = "register" /\ job[r].op = "register" /\ about[q].id # 0 /\ q # r =>
         about[q].id # about[r].id

(* What a request has done when it has only its answer to fetch.           *)
ExecutedBy(q) ==
  /\ pc[q] = "refresh" => job[q].op \in {"register", "role", "status"}
  /\ pc[q] = "audit" => job[q].op = "register"
  /\ pc[q] = "taken" => job[q].op = "register"
  /\ pc[q] \in {"refresh", "audit", "ok"} => about[q].id \in Known
  /\ pc[q] = "ok" \/ (pc[q] = "refresh" /\ job[q].op # "register") => Has(about[q].id, job[q].op)

Executed == \A q \in Requests : ExecutedBy(q)

Registered ==
  \A id \in Known :
    \/ Has(id, "register")
    \/ users[id].by = "bootstrap"
    \/ \E q \in Requests : about[q].id = id /\ job[q].op = "register"
                             /\ pc[q] \in {"refresh", "audit", "failed"}

AccountsInv ==
  /\ TypeOK /\ PoolInv(Ids) /\ Transactions /\ Indexes /\ Snapshot
  /\ Registrations /\ Executed /\ Registered /\ TrailExplains

---------------------------------------------------------------------------
(* What the types say, once for all proofs.                                *)

LogRow == [action : {"register", "login", "role", "status"}, from : Values, to : Values]

LEMMA Requesting == Requests = Actors
BY AccountsAssumption

LEMMA JobKinds ==
  ASSUME TypeOK, NEW q \in Requests
  PROVE  /\ job[q].op \in {"register", "login", "role", "status"}
         /\ job[q].op = "register" => job[q].name \in Names /\ job[q].email \in Emails
         /\ job[q].op = "login" => job[q].name \in Names
         /\ job[q].op \in {"role", "status"} => job[q].actor \in Ids /\ job[q].target \in Ids
         /\ job[q].op = "role" => job[q].to \in Roles
         /\ job[q].op = "status" => job[q].to \in Statuses
<1>1. job[q] \in Job
  BY DEF TypeOK
<1> QED BY <1>1 DEF Job

LEMMA Users ==
  /\ \A user \in User : user # NoUser
  /\ TypeOK => \A id \in Known : id \in Ids /\ users[id] \in User
<1>1. ASSUME NEW user \in User PROVE user # NoUser
  <2>1. user.name \in Names /\ "none" \notin Names
    BY AccountsAssumption DEF User
  <2>2. NoUser.name = "none"
    BY DEF NoUser
  <2> QED BY <2>1, <2>2
<1> QED BY <1>1 DEF TypeOK, Known

LEMMA IdsAreNot0 == \A id : id \in Ids <=> id \in 0..MaxUsers /\ id # 0
BY AccountsAssumption DEF Ids

LEMMA Places ==
  ASSUME TypeOK, NEW q \in Requests,
         NEW next \in {"begin", "commit", "refresh", "audit", "ok", "taken", "refused", "failed"},
         Goto(q, next) \/ Committed(q, next)
  PROVE  /\ pc' \in [Requests -> {"idle", "begin", "commit", "refresh", "audit",
                                  "ok", "taken", "refused", "failed"}]
         /\ pc'[q] \in {next, "failed"}
         /\ \A r \in Requests \ {q} : pc'[r] = pc[r]
BY DEF TypeOK, Goto, Committed

LEMMA PlaceOf ==
  ASSUME TypeOK, NEW q \in Requests, NEW next, Goto(q, next)
  PROVE  pc'[q] = next
BY DEF TypeOK, Goto

---------------------------------------------------------------------------
(* What the steps do to the accounts and to the log.                       *)

(* An account more.                                                        *)
NewAccount(id, name, email, birth, by) ==
  /\ id \in Ids \ Known
  /\ users' \in [Ids -> User \cup {NoUser}]
  /\ \A other \in Ids \ {id} : users'[other] = users[other]
  /\ users'[id] = [name |-> name, email |-> email, role |-> birth, status |-> "active",
                   born |-> birth, by |-> by]
  /\ Known' = Known \cup {id}

LEMMA InsertEffect ==
  ASSUME TypeOK, NEW id \in Ids, NEW name \in Names, NEW email \in Emails,
         NEW birth \in Roles, NEW by \in {"bootstrap", "register"},
         Insert(id, name, email, birth, by)
  PROVE  NewAccount(id, name, email, birth, by)
<1> DEFINE row == [name |-> name, email |-> email, role |-> birth, status |-> "active",
                   born |-> birth, by |-> by]
<1>1. row \in User
  BY DEF User, Statuses
<1>2. id \notin Known /\ users' = [users EXCEPT ![id] = row]
  BY DEF Insert
<1>3. row # NoUser
  BY <1>1, Users
<1> HIDE DEF row
<1>4. /\ users' \in [Ids -> User \cup {NoUser}] /\ users'[id] = row
      /\ \A other \in Ids \ {id} : users'[other] = users[other]
  BY <1>1, <1>2 DEF TypeOK
<1>5. Known' = Known \cup {id}
  BY <1>3, <1>4 DEF Known
<1> QED BY <1>2, <1>4, <1>5 DEF NewAccount, row

(* A row more.                                                             *)
LEMMA AppendEffect ==
  ASSUME TypeOK, NEW id \in Ids, NEW row \in LogRow, Appended(id, row)
  PROVE  /\ log' \in [Ids -> Seq(LogRow)]
         /\ log'[id] = Append(log[id], row)
         /\ \A other \in Ids \ {id} : log'[other] = log[other]
         /\ Has(id, row.action)'
         /\ \A other \in Ids : \A action : Has(other, action) => Has(other, action)'
<1>1. log \in [Ids -> Seq(LogRow)] /\ log[id] \in Seq(LogRow)
  BY DEF TypeOK, LogRow
<1>2. /\ log' \in [Ids -> Seq(LogRow)]
      /\ log'[id] = Append(log[id], row)
      /\ \A other \in Ids \ {id} : log'[other] = log[other]
  BY <1>1 DEF Appended
<1>3. /\ Len(log[id]) \in Nat /\ Len(log'[id]) = Len(log[id]) + 1
      /\ log'[id][Len(log[id]) + 1] = row
      /\ \A n \in 1..Len(log[id]) : log'[id][n] = log[id][n]
      /\ DOMAIN log[id] = 1..Len(log[id]) /\ DOMAIN log'[id] = 1..Len(log[id]) + 1
  BY <1>1, <1>2, AppendProperties, LenProperties
<1>4. Has(id, row.action)'
  BY <1>3 DEF Has
<1>5. ASSUME NEW action, Has(id, action) PROVE Has(id, action)'
  BY <1>3, <1>5 DEF Has
<1>6. ASSUME NEW other \in Ids \ {id}, NEW action, Has(other, action) PROVE Has(other, action)'
  BY <1>2, <1>6 DEF Has
<1> QED BY <1>2, <1>4, <1>5, <1>6

(* The change of a role or of a status, as the commit makes it.            *)
Changed(q) ==
  LET j == job[q]
      u == users[j.target]
  IN  /\ j.op \in {"role", "status"} /\ j.target \in Known /\ about[q].id = j.target
      /\ Known' = Known
      /\ users' \in [Ids -> User \cup {NoUser}]
      /\ \A other \in Ids \ {j.target} : users'[other] = users[other]
      /\ users'[j.target].name = u.name /\ users'[j.target].email = u.email
      /\ users'[j.target].born = u.born /\ users'[j.target].by = u.by
      /\ about[q].from = j.to => users'[j.target] = u
      /\ about[q].from # j.to =>
           /\ about[q].from = u[j.op]
           /\ j.op = "role" => users'[j.target].role = j.to /\ users'[j.target].status = u.status
           /\ j.op = "status" => users'[j.target].status = j.to /\ users'[j.target].role = u.role

LEMMA ChangeEffect ==
  ASSUME AccountsInv, NEW q \in Requests, CommitChange(q)
  PROVE  Changed(q)
<1> DEFINE j == job[q]
           t == j.target
           u == users[t]
<1>1. /\ pc[q] = "commit" /\ j.op \in {"role", "status"}
      /\ Commit(q, IF about[q].from = j.to THEN {} ELSE {t})
      /\ users' = [users EXCEPT ![t][j.op] = IF about[q].from = j.to THEN @ ELSE j.to]
  BY DEF CommitChange
<1>2. TypeOK /\ UpToDate(q)
  BY <1>1 DEF AccountsInv, Snapshot
<1>3. /\ t \in Known /\ about[q].id = t /\ t \in Ids /\ u \in User
      /\ t \in changed[q] \/ u[j.op] = about[q].from
      /\ j.op = "role" => j.to \in Roles
      /\ j.op = "status" => j.to \in Statuses
  BY <1>1, <1>2, JobKinds, Users DEF UpToDate
<1>4. about[q].from # j.to => about[q].from = u[j.op]
  BY <1>1, <1>3 DEF Commit
<1> DEFINE new == [u EXCEPT ![j.op] = IF about[q].from = j.to THEN u[j.op] ELSE j.to]
<1>5. /\ new \in User /\ new.name = u.name /\ new.email = u.email /\ new.born = u.born
      /\ new.by = u.by
      /\ about[q].from = j.to => new = u
      /\ about[q].from # j.to =>
           /\ j.op = "role" => new.role = j.to /\ new.status = u.status
           /\ j.op = "status" => new.status = j.to /\ new.role = u.role
  <2> HIDE DEF j, t, u
  <2>1. CASE j.op = "role"
    BY <1>3, <2>1 DEF User
  <2>2. CASE j.op = "status"
    BY <1>3, <2>2 DEF User
  <2> QED BY <1>1, <2>1, <2>2
<1>6. users' = [users EXCEPT ![t] = new]
  BY <1>1
<1> HIDE DEF new
<1>7. /\ users' \in [Ids -> User \cup {NoUser}] /\ users'[t] = new
      /\ \A other \in Ids \ {t} : users'[other] = users[other]
  BY <1>2, <1>3, <1>5, <1>6 DEF TypeOK
<1>8. Known' = Known
  BY <1>3, <1>5, <1>7, Users DEF Known
<1> QED BY <1>1, <1>3, <1>4, <1>5, <1>7, <1>8 DEF Changed

LEMMA ChangeRow ==
  ASSUME AccountsInv, NEW q \in Requests, CommitChange(q)
  PROVE  /\ Appended(job[q].target, Row(job[q].op, about[q].from, job[q].to))
         /\ Row(job[q].op, about[q].from, job[q].to) \in LogRow
         /\ pc[q] = "commit" /\ pc'[q] \in {"refresh", "failed"}
         /\ \A r \in Requests \ {q} : pc'[r] = pc[r]
         /\ UNCHANGED <<job, about>>
<1>1. TypeOK
  BY DEF AccountsInv
<1>2. /\ Appended(job[q].target, Row(job[q].op, about[q].from, job[q].to))
      /\ job[q].op \in {"role", "status"} /\ pc[q] = "commit" /\ Committed(q, "refresh")
      /\ UNCHANGED <<job, about>>
  BY DEF CommitChange
<1>3. about[q].from \in Values /\ job[q].to \in Values
  BY <1>1, <1>2, JobKinds DEF TypeOK, Values
<1>4. Row(job[q].op, about[q].from, job[q].to) \in LogRow
  BY <1>2, <1>3 DEF Row, LogRow
<1> QED BY <1>1, <1>2, <1>4, Places

LEMMA SeedEffect ==
  ASSUME AccountsInv, Seed
  PROVE  /\ \/ UNCHANGED users
            \/ \E id \in Ids, n \in DOMAIN configured :
                 /\ NewAccount(id, configured[n].name, configured[n].email, configured[n].role,
                               "bootstrap")
                 /\ ~Taken(configured[n].name, configured[n].email)
         /\ seeded' \in 0..Len(configured)
         /\ UNCHANGED <<sessionVars, log, starts, configured, pc, job, about>>
<1>1. TypeOK /\ configured \in Seq([role : Roles, name : Names, email : Emails])
  BY AccountsAssumption DEF AccountsInv, TypeOK
<1>2. /\ seeded + 1 \in 1..Len(configured) /\ seeded' \in 0..Len(configured)
      /\ DOMAIN configured = 1..Len(configured)
      /\ configured[seeded + 1] \in [role : Roles, name : Names, email : Emails]
  <2>1. Len(configured) \in Nat
    BY <1>1, LenProperties
  <2>2. seeded \in 0..Len(configured) /\ seeded # Len(configured) /\ seeded' = seeded + 1
    BY <1>1 DEF TypeOK, Seed, Serving
  <2>3. seeded + 1 \in 1..Len(configured) /\ seeded' \in 0..Len(configured)
    BY <2>1, <2>2
  <2>4. DOMAIN configured = 1..Len(configured)
    BY <1>1, LenProperties
  <2> QED BY <1>1, <2>3, <2>4, ElementOfSeq
<1> DEFINE account == configured[seeded + 1]
<1>3. account.name \in Names /\ account.email \in Emails /\ account.role \in Roles
  BY <1>2
<1> HIDE DEF account
<1>4. \/ UNCHANGED users
      \/ /\ ~Taken(account.name, account.email)
         /\ \E id \in Ids : Insert(id, account.name, account.email, account.role, "bootstrap")
  BY DEF Seed, account
<1>5. ASSUME NEW id \in Ids, Insert(id, account.name, account.email, account.role, "bootstrap")
      PROVE  NewAccount(id, account.name, account.email, account.role, "bootstrap")
  BY <1>1, <1>3, <1>5, InsertEffect
<1>6. UNCHANGED <<sessionVars, log, starts, configured, pc, job, about>>
  BY DEF Seed
<1> QED BY <1>2, <1>4, <1>5, <1>6 DEF account

(* The insert of a registration, or its loss to the unique index.          *)
LEMMA RegisterEffect ==
  ASSUME AccountsInv, NEW q \in Requests, InsertUser(q)
  PROVE  /\ pc[q] = "commit" /\ job[q].op = "register" /\ UNCHANGED <<log, job, starts, seeded, configured>>
         /\ \A r \in Requests \ {q} : pc'[r] = pc[r] /\ about'[r] = about[r]
         /\ about' \in [Requests -> [id : 0..MaxUsers, from : Values]]
         /\ \/ /\ \E id \in Ids :
                    /\ NewAccount(id, job[q].name, job[q].email, "USER", "register")
                    /\ about'[q].id = id
               /\ ~Taken(job[q].name, job[q].email)
               /\ pc'[q] \in {"refresh", "failed"} /\ Commit(q, {})
            \/ /\ Taken(job[q].name, job[q].email)
               /\ pc'[q] = "taken" /\ UNCHANGED <<users, about>> /\ Close(q)
<1>1. TypeOK /\ about \in [Requests -> [id : 0..MaxUsers, from : Values]]
  BY DEF AccountsInv, TypeOK
<1>2. /\ pc[q] = "commit" /\ job[q].op = "register" /\ UNCHANGED <<log, job, starts, seeded, configured>>
      /\ job[q].name \in Names /\ job[q].email \in Emails
  BY <1>1, JobKinds DEF InsertUser
<1>3. CASE ~Taken(job[q].name, job[q].email)
  <2>1. PICK id \in Ids : /\ Insert(id, job[q].name, job[q].email, "USER", "register")
                          /\ about' = [about EXCEPT ![q].id = id]
    BY <1>3 DEF InsertUser
  <2>2. Commit(q, {}) /\ Committed(q, "refresh")
    BY <1>3 DEF InsertUser
  <2>3. NewAccount(id, job[q].name, job[q].email, "USER", "register")
    <3>1. Insert(id, job[q].name, job[q].email, "USER", "register") /\ "USER" \in Roles
      BY <2>1 DEF Roles
    <3> QED BY <1>1, <1>2, <3>1, InsertEffect
  <2>4. /\ about' \in [Requests -> [id : 0..MaxUsers, from : Values]] /\ about'[q].id = id
        /\ \A r \in Requests \ {q} : about'[r] = about[r]
    <3>1. id \in 0..MaxUsers /\ about' = [about EXCEPT ![q].id = id]
      BY <2>1, IdsAreNot0
    <3> QED BY <1>1, <3>1
  <2>5. pc'[q] \in {"refresh", "failed"} /\ \A r \in Requests \ {q} : pc'[r] = pc[r]
    BY <1>1, <2>2, Places
  <2> QED BY <1>2, <1>3, <2>2, <2>3, <2>4, <2>5
<1>4. CASE Taken(job[q].name, job[q].email)
  <2>1. Close(q) /\ Goto(q, "taken") /\ UNCHANGED <<users, about>>
    BY <1>4 DEF InsertUser
  <2>2. pc'[q] = "taken" /\ \A r \in Requests \ {q} : pc'[r] = pc[r]
    BY <1>1, <2>1, Places, PlaceOf
  <2> QED BY <1>1, <1>2, <1>4, <2>1, <2>2
<1> QED BY <1>3, <1>4

(* A request reads: it is refused or stages what it found.                 *)
LEMMA StageEffect ==
  ASSUME TypeOK, NEW q \in Requests, NEW id \in 0..MaxUsers, NEW from \in Values, Stage(q, id, from)
  PROVE  /\ about' \in [Requests -> [id : 0..MaxUsers, from : Values]]
         /\ about'[q].id = id /\ about'[q].from = from
         /\ \A r \in Requests \ {q} : pc'[r] = pc[r] /\ about'[r] = about[r]
         /\ pc[q] = "begin" /\ pc'[q] = "commit" /\ Begin(q)
         /\ UNCHANGED <<users, log, starts, seeded, configured, job>>
<1>1. Goto(q, "commit") /\ about' = [about EXCEPT ![q] = [id |-> id, from |-> from]]
  BY DEF Stage
<1>2. pc'[q] = "commit" /\ \A r \in Requests \ {q} : pc'[r] = pc[r]
  BY <1>1, Places, PlaceOf
<1>3. /\ about' \in [Requests -> [id : 0..MaxUsers, from : Values]]
      /\ about'[q].id = id /\ about'[q].from = from
      /\ \A r \in Requests \ {q} : about'[r] = about[r]
  BY <1>1 DEF TypeOK
<1> QED BY <1>2, <1>3 DEF Stage

Reads(q) == ReadRegister(q) \/ ReadLogin(q) \/ ReadChange(q)

LEMMA ReadEffect ==
  ASSUME AccountsInv, NEW q \in Requests, Reads(q)
  PROVE  /\ UNCHANGED <<users, log, starts, seeded, configured, job>> /\ pc[q] = "begin"
         /\ about' \in [Requests -> [id : 0..MaxUsers, from : Values]]
         /\ \A r \in Requests \ {q} : pc'[r] = pc[r] /\ about'[r] = about[r]
         /\ \/ /\ pc'[q] \in {"taken", "refused"} /\ UNCHANGED <<sessionVars, about>>
               /\ pc'[q] = "taken" => /\ job[q].op = "register"
                                      /\ Taken(job[q].name, job[q].email)
            \/ /\ pc'[q] = "commit" /\ Begin(q) /\ UpToDate(q)'
               /\ job[q].op = "register" => about'[q].id = 0
<1>1. TypeOK /\ about \in [Requests -> [id : 0..MaxUsers, from : Values]]
  BY DEF AccountsInv, TypeOK
<1>2. ASSUME NEW answer \in {"taken", "refused"}, Refuse(q, answer)
      PROVE  /\ UNCHANGED <<users, log, starts, seeded, configured, job, sessionVars, about>>
             /\ pc[q] = "begin" /\ pc'[q] = answer
             /\ \A r \in Requests \ {q} : pc'[r] = pc[r]
  <2>1. /\ Goto(q, answer) /\ pc[q] = "begin"
        /\ UNCHANGED <<users, log, starts, seeded, configured, job, sessionVars, about>>
    BY <1>2 DEF Refuse
  <2> QED BY <1>1, <2>1, Places, PlaceOf
<1>3. CASE ReadRegister(q)
  <2>1. CASE Taken(job[q].name, job[q].email)
    <3>1. Refuse(q, "taken") /\ job[q].op = "register"
      BY <1>3, <2>1 DEF ReadRegister
    <3> QED BY <1>1, <1>2, <2>1, <3>1
  <2>2. CASE ~Taken(job[q].name, job[q].email)
    <3>1. Stage(q, 0, "none") /\ job[q].op = "register"
      BY <1>3, <2>2 DEF ReadRegister
    <3>2. 0 \in 0..MaxUsers /\ "none" \in Values
      BY AccountsAssumption DEF Values
    <3> QED BY <1>1, <3>1, <3>2, StageEffect DEF UpToDate
  <2> QED BY <2>1, <2>2
<1>4. CASE ReadLogin(q)
  <2>1. CASE Refuse(q, "refused")
    BY <1>1, <1>2, <2>1
  <2>2. CASE ~Refuse(q, "refused")
    <3>1. PICK id \in Known : Stage(q, id, "none")
      BY <1>4, <2>2 DEF ReadLogin, Named
    <3>2. id \in 0..MaxUsers /\ "none" \in Values /\ job[q].op = "login"
      BY <1>4, IdsAreNot0 DEF Values, Known, ReadLogin
    <3>3. about'[q].id \in Known' /\ job' = job
      BY <1>1, <3>1, <3>2, StageEffect DEF Known
    <3> QED BY <1>1, <3>1, <3>2, <3>3, StageEffect DEF UpToDate
  <2> QED BY <2>1, <2>2
<1>5. CASE ReadChange(q)
  <2> DEFINE j == job[q]
  <2>1. CASE ~ChangePermitted(j)
    BY <1>1, <1>2, <1>5, <2>1 DEF ReadChange
  <2>2. CASE ChangePermitted(j)
    <3>1. Stage(q, j.target, users[j.target][j.op]) /\ j.op \in {"role", "status"}
      BY <1>5, <2>2 DEF ReadChange
    <3>2. /\ IsAdmin(j.actor) /\ j.target \in Known
          /\ j.to \notin {"ADMIN", "active"} => j.target # j.actor
      BY <2>2 DEF ChangePermitted
    <3>3. users[j.target] \in User /\ j.target \in 0..MaxUsers
      BY <1>1, <3>2, Users, IdsAreNot0
    <3>4. users[j.target][j.op] \in Values
      BY <3>1, <3>3 DEF User, Values
    <3>5. /\ about'[q].id = j.target /\ about'[q].from = users[j.target][j.op]
          /\ UNCHANGED <<users, job>>
      BY <1>1, <3>1, <3>3, <3>4, StageEffect
    <3>6. UpToDate(q)'
      BY <3>1, <3>2, <3>5 DEF UpToDate, Known, IsAdmin
    <3> QED BY <1>1, <3>1, <3>3, <3>4, <3>6, StageEffect
  <2> QED BY <2>1, <2>2
<1> QED BY <1>3, <1>4, <1>5 DEF Reads

(* The audit rows of a sign-in and of a registration.                      *)
LEMMA NoteEffect ==
  ASSUME AccountsInv, NEW q \in Requests, CommitLogin(q) \/ CommitRegister(q)
  PROVE  /\ UNCHANGED <<users, starts, seeded, configured, job, about>> /\ Commit(q, {})
         /\ pc[q] \in {"commit", "audit"} /\ pc'[q] \in {"ok", "failed"}
         /\ \A r \in Requests \ {q} : pc'[r] = pc[r]
         /\ job[q].op \in {"login", "register"} /\ about[q].id \in Known
         /\ job[q].op = "register" => pc[q] = "audit"
         /\ Appended(about[q].id, Row(job[q].op, "none", "none"))
         /\ Row(job[q].op, "none", "none") \in LogRow
<1>1. TypeOK /\ Executed /\ Snapshot
  BY DEF AccountsInv
<1>2. \/ pc[q] = "commit" /\ job[q].op = "login" /\ Appended(about[q].id, Row("login", "none", "none"))
      \/ /\ pc[q] = "audit" /\ job[q].op = "register"
         /\ Appended(about[q].id, Row("register", "none", "none"))
  BY <1>1 DEF CommitLogin, CommitRegister, Executed, ExecutedBy
<1>3. /\ UNCHANGED <<users, starts, seeded, configured, job, about>> /\ Commit(q, {}) /\ Committed(q, "ok")
  BY DEF CommitLogin, CommitRegister
<1>4. about[q].id \in Known
  BY <1>1, <1>2 DEF Executed, ExecutedBy, Snapshot, UpToDate
<1>5. pc'[q] \in {"ok", "failed"} /\ \A r \in Requests \ {q} : pc'[r] = pc[r]
  BY <1>1, <1>3, Places
<1>6. Row(job[q].op, "none", "none") \in LogRow
  BY <1>2 DEF Row, LogRow, Values
<1> QED BY <1>2, <1>3, <1>4, <1>5, <1>6

(* The other steps leave the accounts and the log alone.                   *)
Idle(q) == Arrive(q) \/ Refresh(q) \/ Fail(q)

LEMMA IdleEffect ==
  ASSUME AccountsInv, NEW q \in Requests, Idle(q)
  PROVE  /\ UNCHANGED <<users, log, starts, seeded, configured, job, about>>
         /\ \A r \in Requests \ {q} : pc'[r] = pc[r]
         /\ \/ pc[q] = "idle" /\ pc'[q] = "begin" /\ UNCHANGED sessionVars
            \/ /\ pc[q] = "refresh" /\ job[q].op = "register"
               /\ pc'[q] = "audit" /\ Begin(q)
            \/ /\ pc[q] = "refresh" /\ job[q].op # "register"
               /\ pc'[q] = "ok" /\ UNCHANGED sessionVars
            \/ Running(q) /\ pc'[q] = "failed" /\ Close(q)
<1>1. TypeOK
  BY DEF AccountsInv
<1>2. ASSUME NEW next \in {"begin", "audit", "ok", "failed"}, Goto(q, next)
      PROVE  pc'[q] = next /\ \A r \in Requests \ {q} : pc'[r] = pc[r]
  BY <1>1, <1>2, Places, PlaceOf
<1>3. CASE Arrive(q)
  BY <1>2, <1>3 DEF Arrive
<1>4. CASE Refresh(q)
  BY <1>2, <1>4 DEF Refresh
<1>5. CASE Fail(q)
  BY <1>2, <1>5 DEF Fail
<1> QED BY <1>3, <1>4, <1>5 DEF Idle

LEMMA RestartEffect ==
  ASSUME AccountsInv, Restart
  PROVE  /\ UNCHANGED <<users, log, job, about>> /\ Disconnect /\ seeded' = 0
         /\ configured' \in Configurations /\ starts' \in 1..MaxStarts
         /\ pc' \in [Requests -> {"idle", "begin", "commit", "refresh", "audit",
                                  "ok", "taken", "refused", "failed"}]
         /\ \A q \in Requests : IF Running(q) THEN pc'[q] = "failed" ELSE pc'[q] = pc[q]
<1>1. /\ starts \in 1..MaxStarts /\ MaxStarts \in Nat
      /\ pc \in [Requests -> {"idle", "begin", "commit", "refresh", "audit",
                              "ok", "taken", "refused", "failed"}]
  BY AccountsAssumption DEF AccountsInv, TypeOK
<1>2. starts < MaxStarts /\ starts' = starts + 1
  BY DEF Restart
<1>3. starts' \in 1..MaxStarts
  BY <1>1, <1>2
<1>4. pc' = [q \in Requests |-> IF Running(q) THEN "failed" ELSE pc[q]]
  BY DEF Restart
<1> QED BY <1>1, <1>3, <1>4 DEF Restart

Acts(q) ==
  Idle(q) \/ Reads(q) \/ InsertUser(q) \/ CommitChange(q) \/ CommitLogin(q) \/ CommitRegister(q)

LEMMA StepKinds ==
  [Next]_vars => \/ Seed \/ Restart \/ UNCHANGED vars
                 \/ \E q \in Requests : Acts(q)
BY DEF Next, Acts, Idle, Reads

---------------------------------------------------------------------------
(* Types and the pool.                                                     *)

LEMMA PoolStep == AccountsInv /\ [Next]_vars => PoolInv(Ids)'
<1> SUFFICES ASSUME AccountsInv, [Next]_vars PROVE PoolInv(Ids)'
  OBVIOUS
<1>1. PoolInv(Ids) /\ Requests = Actors
  BY Requesting DEF AccountsInv
<1>2. ASSUME UNCHANGED sessionVars PROVE PoolInv(Ids)'
  BY <1>1, <1>2 DEF PoolInv, sessionVars
<1>fewer. ASSUME open' \in SUBSET open, changed' \in [Actors -> SUBSET Ids],
             \A a \in Actors \ open' : changed'[a] = {}
      PROVE  PoolInv(Ids)'
  BY <1>1, <1>fewer, FewerHold, SessionsAssumption DEF PoolInv
<1>3. ASSUME NEW q \in Requests, Begin(q) \/ Close(q) PROVE PoolInv(Ids)'
  <2>1. CASE Begin(q)
    BY <1>1, <2>1, OneMoreHolds, SessionsAssumption DEF Begin, FreeConnection, PoolInv
  <2>2. CASE Close(q)
    BY <1>1, <1>fewer, <2>2 DEF Close, PoolInv
  <2> QED BY <1>3, <2>1, <2>2
<1>4. ASSUME NEW q \in Requests, NEW written \in SUBSET Ids, Commit(q, written)
      PROVE  PoolInv(Ids)'
  BY <1>1, <1>4, <1>fewer DEF Commit, PoolInv
<1>5. CASE Seed
  BY <1>2, <1>5, SeedEffect
<1>6. CASE Restart
  BY <1>1, <1>6, <1>fewer, RestartEffect DEF Disconnect, PoolInv
<1>7. CASE UNCHANGED vars
  BY <1>2, <1>7 DEF vars
<1>8. ASSUME NEW q \in Requests, Acts(q) PROVE PoolInv(Ids)'
  <2>1. CASE Idle(q)
    BY <1>2, <1>3, <2>1, IdleEffect
  <2>2. CASE Reads(q)
    BY <1>2, <1>3, <2>2, ReadEffect
  <2>3. CASE InsertUser(q)
    BY <1>3, <1>4, <2>3, RegisterEffect
  <2>4. CASE CommitChange(q)
    <3>1. job[q].target \in Ids
      BY <2>4, ChangeEffect DEF Changed, Known
    <3>2. PICK written \in SUBSET Ids : Commit(q, written)
      BY <2>4, <3>1 DEF CommitChange
    <3> QED BY <1>4, <3>2
  <2>5. CASE CommitLogin(q) \/ CommitRegister(q)
    BY <1>4, <2>5, NoteEffect
  <2> QED BY <1>8, <2>1, <2>2, <2>3, <2>4, <2>5 DEF Acts
<1> QED BY <1>5, <1>6, <1>7, <1>8, StepKinds

LEMMA TypeStep == AccountsInv /\ [Next]_vars => TypeOK'
<1> SUFFICES ASSUME AccountsInv, [Next]_vars PROVE TypeOK'
  OBVIOUS
<1> DEFINE Pcs == [Requests -> {"idle", "begin", "commit", "refresh", "audit",
                                "ok", "taken", "refused", "failed"}]
           Abouts == [Requests -> [id : 0..MaxUsers, from : Values]]
<1>1. /\ users \in [Ids -> User \cup {NoUser}] /\ log \in [Ids -> Seq(LogRow)]
      /\ starts \in 1..MaxStarts /\ seeded \in 0..Len(configured)
      /\ pc \in Pcs /\ job \in [Requests -> Job] /\ about \in Abouts
      /\ configured \in Configurations
      /\ \A c \in Configurations : Len(c) \in Nat
  BY AccountsAssumption, LenProperties DEF AccountsInv, TypeOK, LogRow
<1>2. /\ (open \in SUBSET Actors /\ Cardinality(open) <= PoolLimit)'
      /\ changed' \in [Actors -> SUBSET Ids]
  BY PoolStep DEF PoolInv
<1>3. ASSUME users' \in [Ids -> User \cup {NoUser}], log' \in [Ids -> Seq(LogRow)],
             starts' \in 1..MaxStarts, configured' \in Configurations,
             seeded' \in 0..Len(configured'),
             pc' \in Pcs, job' \in [Requests -> Job], about' \in Abouts
      PROVE  TypeOK'
  BY <1>2, <1>3 DEF TypeOK, LogRow
<1> HIDE DEF Pcs, Abouts
<1>4. CASE Seed
  <2>1. users' \in [Ids -> User \cup {NoUser}]
    BY <1>1, <1>4, SeedEffect DEF NewAccount
  <2> QED BY <1>1, <1>3, <1>4, <2>1, SeedEffect
<1>5. CASE Restart
  <2>1. seeded' \in 0..Len(configured')
    BY <1>1, <1>5, RestartEffect
  <2> QED BY <1>1, <1>3, <1>5, <2>1, RestartEffect DEF Pcs
<1>6. CASE UNCHANGED vars
  BY <1>1, <1>3, <1>6 DEF vars
<1>7. ASSUME NEW q \in Requests, Acts(q) PROVE TypeOK'
  <2>1. pc' \in Pcs
    <3>1. ASSUME NEW next \in {"begin", "commit", "refresh", "audit", "ok", "taken", "refused", "failed"},
                 Goto(q, next) \/ Committed(q, next)
          PROVE  pc' \in Pcs
      BY <3>1, Places DEF AccountsInv, Pcs
    <3> QED BY <1>7, <3>1 DEF Acts, Idle, Reads, Arrive, Refresh, Fail, ReadRegister, ReadLogin,
          ReadChange, Refuse, Stage, InsertUser, CommitChange, CommitLogin, CommitRegister
  <2>2. CASE Idle(q)
    BY <1>1, <1>3, <2>1, <2>2, IdleEffect
  <2>3. CASE Reads(q)
    BY <1>1, <1>3, <2>1, <2>3, ReadEffect DEF Abouts
  <2>4. CASE InsertUser(q)
    BY <1>1, <1>3, <2>1, <2>4, RegisterEffect DEF NewAccount, Abouts
  <2>5. CASE CommitChange(q)
    <3>1. log' \in [Ids -> Seq(LogRow)]
      BY <2>5, ChangeEffect, ChangeRow, AppendEffect DEF AccountsInv, Changed, Known
    <3>2. users' \in [Ids -> User \cup {NoUser}] /\ UNCHANGED <<starts, seeded, configured, job, about>>
      BY <2>5, ChangeEffect DEF Changed, CommitChange
    <3> QED BY <1>1, <1>3, <2>1, <3>1, <3>2
  <2>6. CASE CommitLogin(q) \/ CommitRegister(q)
    <3>1. log' \in [Ids -> Seq(LogRow)]
      BY <2>6, NoteEffect, AppendEffect DEF AccountsInv, Known
    <3> QED BY <1>1, <1>3, <2>1, <2>6, <3>1, NoteEffect
  <2> QED BY <1>7, <2>2, <2>3, <2>4, <2>5, <2>6 DEF Acts
<1> QED BY <1>4, <1>5, <1>6, <1>7, StepKinds

---------------------------------------------------------------------------
(* The parts of the invariant, one lemma each.                             *)

LEMMA TransactionsStep == AccountsInv /\ [Next]_vars => Transactions'
<1> SUFFICES ASSUME AccountsInv, [Next]_vars PROVE Transactions'
  OBVIOUS
<1>1. Transactions /\ Requests = Actors
  BY Requesting DEF AccountsInv
<1>2. ASSUME UNCHANGED <<sessionVars, pc>> PROVE Transactions'
  BY <1>1, <1>2 DEF Transactions, sessionVars
<1>3. ASSUME NEW q \in Requests, \A r \in Requests \ {q} : pc'[r] = pc[r],
             \/ open' = open \cup {q} /\ pc'[q] \in {"commit", "audit"}
             \/ open' = open \ {q} /\ pc'[q] \notin {"commit", "audit"}
             \/ /\ open' = open /\ pc[q] \notin {"commit", "audit"}
                /\ pc'[q] \notin {"commit", "audit"}
      PROVE  Transactions'
  BY <1>1, <1>3 DEF Transactions
<1>4. CASE Seed
  BY <1>2, <1>4, SeedEffect
<1>5. CASE Restart
  BY <1>5, RestartEffect DEF Transactions, Disconnect, Running
<1>6. CASE UNCHANGED vars
  BY <1>2, <1>6 DEF vars
<1>7. ASSUME NEW q \in Requests, Acts(q) PROVE Transactions'
  <2>1. CASE Idle(q)
    BY <1>3, <2>1, IdleEffect DEF Begin, Close, sessionVars
  <2>2. CASE Reads(q)
    BY <1>3, <2>2, ReadEffect DEF Begin, sessionVars
  <2>3. CASE InsertUser(q)
    BY <1>3, <2>3, RegisterEffect DEF Commit, Close
  <2>4. CASE CommitChange(q)
    <3>1. open' = open \ {q}
      BY <2>4 DEF CommitChange, Commit
    <3> QED BY <1>3, <2>4, <3>1, ChangeRow
  <2>5. CASE CommitLogin(q) \/ CommitRegister(q)
    BY <1>3, <2>5, NoteEffect DEF Commit
  <2> QED BY <1>7, <2>1, <2>2, <2>3, <2>4, <2>5 DEF Acts
<1> QED BY <1>4, <1>5, <1>6, <1>7, StepKinds

(* Accounts stay, under their name and address; so do rows of the log.     *)
Steady ==
  /\ job' = job /\ Known \subseteq Known'
  /\ \A id \in Known : /\ users'[id].name = users[id].name
                       /\ users'[id].email = users[id].email
                       /\ users'[id].born = users[id].born /\ users'[id].by = users[id].by
  /\ \A id \in Ids : \A action : Has(id, action) => Has(id, action)'

LEMMA StaysSteady == AccountsInv /\ [Next]_vars => Steady
<1> SUFFICES ASSUME AccountsInv, [Next]_vars PROVE Steady
  OBVIOUS
<1>1. TypeOK
  BY DEF AccountsInv
<1>2. ASSUME UNCHANGED <<users, log, job>> PROVE Steady
  BY <1>2 DEF Steady, Known, Has
<1>3. ASSUME NEW id \in Ids, NEW name, NEW email, NEW birth, NEW by,
             NewAccount(id, name, email, birth, by),
             UNCHANGED <<log, job>>
      PROVE  Steady
  BY <1>3 DEF Steady, NewAccount, Known, Has
<1>4. CASE Seed
  BY <1>2, <1>3, <1>4, SeedEffect
<1>5. CASE Restart
  BY <1>2, <1>5, RestartEffect
<1>6. CASE UNCHANGED vars
  BY <1>2, <1>6 DEF vars
<1>7. ASSUME NEW q \in Requests, Acts(q) PROVE Steady
  <2>1. CASE Idle(q) \/ Reads(q)
    BY <1>2, <2>1, IdleEffect, ReadEffect
  <2>2. CASE InsertUser(q)
    BY <1>2, <1>3, <2>2, RegisterEffect
  <2>3. CASE CommitChange(q)
    <3>1. /\ job[q].target \in Ids /\ job' = job /\ Known' = Known
          /\ \A id \in Known : /\ users'[id].name = users[id].name
                               /\ users'[id].email = users[id].email
                               /\ users'[id].born = users[id].born
                               /\ users'[id].by = users[id].by
      BY <2>3, ChangeEffect, ChangeRow DEF Changed, Known
    <3>2. \A id \in Ids : \A action : Has(id, action) => Has(id, action)'
      BY <1>1, <2>3, <3>1, ChangeRow, AppendEffect
    <3> QED BY <3>1, <3>2 DEF Steady
  <2>4. CASE CommitLogin(q) \/ CommitRegister(q)
    <3>1. /\ about[q].id \in Ids /\ UNCHANGED <<users, job>>
      BY <2>4, NoteEffect DEF Known
    <3>2. \A id \in Ids : \A action : Has(id, action) => Has(id, action)'
      BY <1>1, <2>4, <3>1, NoteEffect, AppendEffect
    <3> QED BY <3>1, <3>2 DEF Steady, Known
  <2> QED BY <1>7, <2>1, <2>2, <2>3, <2>4 DEF Acts
<1> QED BY <1>4, <1>5, <1>6, <1>7, StepKinds

(* The same of the account and the action that a request is about.         *)
LEMMA AppendHas ==
  ASSUME TypeOK, NEW q \in Requests, NEW from, NEW to, about[q].id \in Ids,
         Row(job[q].op, from, to) \in LogRow,
         Appended(about[q].id, Row(job[q].op, from, to)), UNCHANGED <<job, about>>
  PROVE  Has(about[q].id, job[q].op)'
<1>1. PICK id \in Ids, row \in LogRow : id = about[q].id /\ row = Row(job[q].op, from, to)
  OBVIOUS
<1>2. Has(id, row.action)'
  BY <1>1, AppendEffect
<1>3. row.action = job[q].op
  BY <1>1 DEF Row
<1> QED BY <1>1, <1>2, <1>3 DEF Has

LEMMA HasStays ==
  ASSUME Steady, NEW q \in Requests, about[q].id \in Ids, UNCHANGED <<job, about>>,
         Has(about[q].id, job[q].op)
  PROVE  Has(about[q].id, job[q].op)'
<1>1. PICK id, action : id \in Ids /\ id = about[q].id /\ action = job[q].op
  OBVIOUS
<1>2. Has(id, action)'
  BY <1>1 DEF Steady
<1> QED BY <1>1, <1>2 DEF Has

LEMMA IndexesStep == AccountsInv /\ [Next]_vars => Indexes'
<1> SUFFICES ASSUME AccountsInv, [Next]_vars PROVE Indexes'
  OBVIOUS
<1>1. TypeOK /\ Indexes /\ Steady
  BY StaysSteady DEF AccountsInv
<1>2. ASSUME Known' = Known, \A id \in Ids \ Known : log'[id] = log[id] PROVE Indexes'
  BY <1>1, <1>2 DEF Indexes, Steady
<1>3. ASSUME NEW id \in Ids, NEW name, NEW email, NEW birth, NEW by,
             NewAccount(id, name, email, birth, by), ~Taken(name, email), log' = log
      PROVE  Indexes'
  <2>1. /\ Known' = Known \cup {id} /\ id \notin Known
        /\ users'[id].name = name /\ users'[id].email = email
        /\ \A other \in Known : users'[other] = users[other]
    BY <1>3 DEF NewAccount, Known
  <2>2. \A other \in Known : users[other].name # name /\ users[other].email # email
    BY <1>3 DEF Taken
  <2>3. \A other \in Ids \ Known' : log'[other] = <<>>
    BY <1>1, <1>3, <2>1 DEF Indexes
  <2> QED BY <1>1, <2>1, <2>2, <2>3 DEF Indexes
<1>4. CASE Seed
  BY <1>2, <1>3, <1>4, SeedEffect DEF Known
<1>5. CASE Restart
  BY <1>2, <1>5, RestartEffect DEF Known
<1>6. CASE UNCHANGED vars
  BY <1>2, <1>6 DEF vars, Known
<1>7. ASSUME NEW q \in Requests, Acts(q) PROVE Indexes'
  <2>1. CASE Idle(q) \/ Reads(q)
    BY <1>2, <2>1, IdleEffect, ReadEffect DEF Known
  <2>2. CASE InsertUser(q)
    BY <1>2, <1>3, <2>2, RegisterEffect DEF Known
  <2>3. CASE CommitChange(q)
    <3>1. job[q].target \in Known /\ job[q].target \in Ids /\ Known' = Known
      BY <2>3, ChangeEffect DEF Changed, Known
    <3>2. \A id \in Ids \ {job[q].target} : log'[id] = log[id]
      BY <1>1, <2>3, <3>1, ChangeRow, AppendEffect
    <3> QED BY <1>2, <3>1, <3>2
  <2>4. CASE CommitLogin(q) \/ CommitRegister(q)
    <3>1. about[q].id \in Known /\ about[q].id \in Ids /\ Known' = Known
      BY <2>4, NoteEffect DEF Known
    <3>2. \A id \in Ids \ {about[q].id} : log'[id] = log[id]
      BY <1>1, <2>4, <3>1, NoteEffect, AppendEffect
    <3> QED BY <1>2, <3>1, <3>2
  <2> QED BY <1>7, <2>1, <2>2, <2>3, <2>4 DEF Acts
<1> QED BY <1>4, <1>5, <1>6, <1>7, StepKinds

(* What a request read stays good while others act on other rows, or on    *)
(* rows that its commit will find changed.                                 *)
LEMMA UpToDateKept ==
  ASSUME TypeOK, Steady, NEW r \in Requests, UpToDate(r), about'[r] = about[r],
         changed[r] \subseteq changed'[r],
         \A id \in Known : id \in changed'[r] \/ users'[id] = users[id]
  PROVE  UpToDate(r)'
<1> DEFINE j == job[r]
<1>1. job' = job /\ Known \subseteq Known'
  BY DEF Steady
<1>2. j.op = "login" => about'[r].id \in Known'
  BY <1>1 DEF UpToDate
<1>3. ASSUME j.op \in {"role", "status"}
      PROVE  /\ j.target \in Known' /\ about'[r].id = j.target
             /\ j.target \in changed'[r] \/ users'[j.target][j.op] = about'[r].from
             /\ j.actor \in changed'[r] \/ IsAdmin(j.actor)'
             /\ j.to \notin {"ADMIN", "active"} => j.target # j.actor
  <2>1. /\ j.target \in Known /\ about[r].id = j.target
        /\ j.target \in changed[r] \/ users[j.target][j.op] = about[r].from
        /\ j.actor \in changed[r] \/ IsAdmin(j.actor)
        /\ j.to \notin {"ADMIN", "active"} => j.target # j.actor
    BY <1>3 DEF UpToDate
  <2>2. j.target \in changed'[r] \/ users'[j.target][j.op] = about'[r].from
    <3>1. users[j.target] = users'[j.target] \/ j.target \in changed'[r]
      BY <2>1
    <3> HIDE DEF j
    <3> QED BY <2>1, <3>1
  <2>3. j.actor \in changed'[r] \/ IsAdmin(j.actor)'
    BY <1>1, <2>1 DEF IsAdmin
  <2> QED BY <1>1, <2>1, <2>2, <2>3
<1> QED BY <1>1, <1>2, <1>3 DEF UpToDate

LEMMA SnapshotStep == AccountsInv /\ [Next]_vars => Snapshot'
<1> SUFFICES ASSUME AccountsInv, [Next]_vars PROVE Snapshot'
  OBVIOUS
<1>1. /\ TypeOK /\ Snapshot /\ Transactions /\ Steady /\ Requests = Actors
      /\ changed \in [Requests -> SUBSET Ids]
  BY StaysSteady, Requesting DEF AccountsInv, TypeOK
<1>2. ASSUME NEW r \in Requests, pc[r] = "commit", about'[r] = about[r],
             changed[r] \subseteq changed'[r],
             \A id \in Known : id \in changed'[r] \/ users'[id] = users[id]
      PROVE  UpToDate(r)'
  BY <1>1, <1>2, UpToDateKept DEF Snapshot
<1>3. \A r \in Requests : pc[r] = "commit" => r \in open
  BY <1>1 DEF Transactions
<1>4. ASSUME NEW id \in Ids, NEW name, NEW email, NEW birth, NEW by,
             NewAccount(id, name, email, birth, by)
      PROVE  \A other \in Known : users'[other] = users[other]
  BY <1>4 DEF NewAccount, Known
<1>5. ASSUME NEW q \in Requests, NEW r \in Requests \ {q}, NEW written,
             r \in open, Commit(q, written)
      PROVE  changed'[r] = changed[r] \cup written
  BY <1>1, <1>5 DEF Commit
<1>6. CASE Seed
  <2>1. /\ UNCHANGED <<sessionVars, pc, about>>
        /\ \A id \in Known : users'[id] = users[id]
    BY <1>4, <1>6, SeedEffect
  <2> QED BY <1>2, <2>1 DEF Snapshot, sessionVars
<1>7. CASE Restart
  BY <1>7, RestartEffect DEF Snapshot, Running
<1>8. CASE UNCHANGED vars
  BY <1>2, <1>8 DEF Snapshot, vars, sessionVars
<1>9. ASSUME NEW q \in Requests, Acts(q) PROVE Snapshot'
  <2>1. ASSUME NEW r \in Requests \ {q}, pc'[r] = "commit" PROVE UpToDate(r)'
    <3>1. CASE Idle(q)
      BY <1>1, <1>2, <2>1, <3>1, IdleEffect DEF Begin, Close, sessionVars
    <3>2. CASE Reads(q)
      BY <1>2, <2>1, <3>2, ReadEffect DEF Begin, sessionVars
    <3>3. CASE InsertUser(q)
      <4>1. /\ pc[r] = "commit" /\ about'[r] = about[r]
            /\ \A id \in Known : users'[id] = users[id]
        BY <1>4, <2>1, <3>3, RegisterEffect
      <4>2. Commit(q, {}) \/ Close(q)
        BY <3>3, RegisterEffect
      <4>3. changed[r] \subseteq changed'[r]
        <5>1. CASE Commit(q, {})
          BY <1>3, <1>5, <2>1, <4>1, <5>1
        <5>2. CASE Close(q)
          BY <1>1, <5>2 DEF Close
        <5> QED BY <4>2, <5>1, <5>2
      <4> QED BY <1>2, <4>1, <4>3
    <3>4. CASE CommitChange(q)
      <4>1. /\ pc[r] = "commit" /\ about'[r] = about[r] /\ Changed(q)
            /\ Commit(q, IF about[q].from = job[q].to THEN {} ELSE {job[q].target})
        BY <2>1, <3>4, ChangeEffect, ChangeRow DEF CommitChange
      <4>2. changed'[r] = changed[r] \cup (IF about[q].from = job[q].to THEN {} ELSE {job[q].target})
        BY <1>3, <1>5, <4>1
      <4>3. \A id \in Known : id \in changed'[r] \/ users'[id] = users[id]
        BY <4>1, <4>2 DEF Changed, Known
      <4> QED BY <1>2, <4>1, <4>2, <4>3
    <3>5. CASE CommitLogin(q) \/ CommitRegister(q)
      <4>1. pc[r] = "commit" /\ UNCHANGED <<users, about>> /\ Commit(q, {})
        BY <2>1, <3>5, NoteEffect
      <4> QED BY <1>2, <1>3, <1>5, <4>1
    <3> QED BY <1>9, <3>1, <3>2, <3>3, <3>4, <3>5 DEF Acts
  <2>2. ASSUME pc'[q] = "commit" PROVE UpToDate(q)'
    <3>1. Reads(q)
      BY <1>9, <2>2, IdleEffect, RegisterEffect, ChangeRow, NoteEffect DEF Acts
    <3> QED BY <2>2, <3>1, ReadEffect
  <2> QED BY <2>1, <2>2 DEF Snapshot
<1> QED BY <1>6, <1>7, <1>8, <1>9, StepKinds

Answering == {"refresh", "audit", "ok"}

LEMMA TakenStays ==
  ASSUME Steady, NEW name, NEW email, Taken(name, email) PROVE Taken(name, email)'
<1>1. PICK id \in Known : users[id].name = name \/ users[id].email = email
  BY DEF Taken
<1>2. id \in Known' /\ (users'[id].name = name \/ users'[id].email = email)
  BY <1>1 DEF Steady
<1> QED BY <1>2 DEF Taken

(* Registrations that insert nothing.                                      *)
LEMMA RegistrationsKept ==
  ASSUME Registrations, Steady,
         \A r \in Requests : job[r].op = "register" =>
           /\ about'[r].id \in {about[r].id, 0}
           /\ pc'[r] \in Answering => pc[r] \in Answering /\ about'[r].id = about[r].id
           /\ pc'[r] = "taken" => pc[r] = "taken" \/ Taken(job[r].name, job[r].email)
  PROVE  Registrations'
<1>1. ASSUME NEW r \in Requests, job[r].op = "register"
      PROVE  /\ about'[r].id # 0 => /\ about'[r].id \in Known'
                                    /\ users'[about'[r].id].name = job[r].name
                                    /\ users'[about'[r].id].email = job[r].email
             /\ pc'[r] \in {"refresh", "audit", "ok"} => about'[r].id # 0
             /\ pc'[r] = "taken" => Taken(job[r].name, job[r].email)'
  <2>1. /\ about[r].id # 0 => /\ about[r].id \in Known
                              /\ users[about[r].id].name = job[r].name
                              /\ users[about[r].id].email = job[r].email
        /\ pc[r] \in {"refresh", "audit", "ok"} => about[r].id # 0
        /\ pc[r] = "taken" => Taken(job[r].name, job[r].email)
    BY <1>1 DEF Registrations
  <2>2. about'[r].id # 0 => /\ about'[r].id \in Known'
                            /\ users'[about'[r].id].name = job[r].name
                            /\ users'[about'[r].id].email = job[r].email
    BY <1>1, <2>1 DEF Steady
  <2>3. pc'[r] = "taken" => Taken(job[r].name, job[r].email)'
    BY <1>1, <2>1, TakenStays DEF Steady
  <2> QED BY <1>1, <2>1, <2>2, <2>3 DEF Answering
<1>2. ASSUME NEW q \in Requests, NEW r \in Requests, job[q].op = "register",
             job[r].op = "register", about'[q].id # 0, q # r
      PROVE  about'[q].id # about'[r].id
  BY <1>2 DEF Registrations
<1>3. job' = job
  BY DEF Steady
<1> QED BY <1>1, <1>2, <1>3 DEF Registrations

LEMMA RegistrationsStep == AccountsInv /\ [Next]_vars => Registrations'
<1> SUFFICES ASSUME AccountsInv, [Next]_vars PROVE Registrations'
  OBVIOUS
<1>1. Registrations /\ Executed /\ Steady
  BY StaysSteady DEF AccountsInv
<1>2. ASSUME \A r \in Requests : job[r].op = "register" =>
               /\ about'[r].id \in {about[r].id, 0}
               /\ pc'[r] \in Answering => pc[r] \in Answering /\ about'[r].id = about[r].id
               /\ pc'[r] = "taken" => pc[r] = "taken" \/ Taken(job[r].name, job[r].email)
      PROVE  Registrations'
  BY <1>1, <1>2, RegistrationsKept
<1>3. CASE Seed
  BY <1>2, <1>3, SeedEffect
<1>4. CASE Restart
  BY <1>2, <1>4, RestartEffect DEF Answering
<1>5. CASE UNCHANGED vars
  BY <1>2, <1>5 DEF vars
<1>6. ASSUME NEW q \in Requests, Acts(q) PROVE Registrations'
  <2>1. CASE Idle(q)
    BY <1>2, <2>1, IdleEffect DEF Answering
  <2>2. CASE Reads(q)
    BY <1>2, <2>2, ReadEffect DEF Answering
  <2>3. CASE InsertUser(q)
    <3>1. /\ pc[q] = "commit" /\ job[q].op = "register"
          /\ \A r \in Requests \ {q} : pc'[r] = pc[r] /\ about'[r] = about[r]
      BY <2>3, RegisterEffect
    <3>2. CASE Taken(job[q].name, job[q].email) /\ pc'[q] = "taken" /\ UNCHANGED about
      BY <1>2, <3>1, <3>2 DEF Answering
    <3>3. ASSUME NEW id \in Ids, NewAccount(id, job[q].name, job[q].email, "USER", "register"),
                 about'[q].id = id, pc'[q] \in {"refresh", "failed"}
          PROVE  Registrations'
      <4>1. /\ id \in Known' /\ id \notin Known /\ id # 0
            /\ users'[id].name = job[q].name /\ users'[id].email = job[q].email
        BY <3>3, IdsAreNot0 DEF NewAccount
      <4>2. ASSUME NEW r \in Requests \ {q}, job[r].op = "register"
            PROVE  /\ about'[r].id # 0 => /\ about'[r].id \in Known'
                                          /\ users'[about'[r].id].name = job[r].name
                                          /\ users'[about'[r].id].email = job[r].email
                   /\ pc'[r] \in {"refresh", "audit", "ok"} => about'[r].id # 0
                   /\ pc'[r] = "taken" => Taken(job[r].name, job[r].email)'
                   /\ about'[r].id # id
        <5>1. /\ about[r].id # 0 => /\ about[r].id \in Known
                                    /\ users[about[r].id].name = job[r].name
                                    /\ users[about[r].id].email = job[r].email
              /\ pc[r] \in {"refresh", "audit", "ok"} => about[r].id # 0
              /\ pc[r] = "taken" => Taken(job[r].name, job[r].email)
          BY <1>1, <4>2 DEF Registrations
        <5>2. pc'[r] = "taken" => Taken(job[r].name, job[r].email)'
          BY <1>1, <3>1, <4>2, <5>1, TakenStays DEF Steady
        <5>3. about'[r].id # 0 => /\ about'[r].id \in Known'
                                  /\ users'[about'[r].id].name = job[r].name
                                  /\ users'[about'[r].id].email = job[r].email
          BY <1>1, <3>1, <4>2, <5>1 DEF Steady
        <5> QED BY <3>1, <4>1, <4>2, <5>1, <5>2, <5>3
      <4>3. \A r, s \in Requests \ {q} :
              job[r].op = "register" /\ job[s].op = "register" /\ about'[r].id # 0 /\ r # s =>
                about'[r].id # about'[s].id
        BY <1>1, <3>1 DEF Registrations
      <4>4. job' = job
        BY <1>1 DEF Steady
      <4> QED BY <3>1, <3>3, <4>1, <4>2, <4>3, <4>4 DEF Registrations
    <3> QED BY <2>3, <3>2, <3>3, RegisterEffect
  <2>4. CASE CommitChange(q)
    <3>1. job[q].op # "register"
      BY <2>4 DEF CommitChange
    <3> QED BY <1>2, <2>4, <3>1, ChangeRow
  <2>5. CASE CommitLogin(q) \/ CommitRegister(q)
    BY <1>2, <2>5, NoteEffect DEF Answering
  <2> QED BY <1>6, <2>1, <2>2, <2>3, <2>4, <2>5 DEF Acts
<1> QED BY <1>3, <1>4, <1>5, <1>6, StepKinds

LEMMA ExecutedStep == AccountsInv /\ [Next]_vars => Executed'
<1> SUFFICES ASSUME AccountsInv, [Next]_vars PROVE Executed'
  OBVIOUS
<1>1. TypeOK /\ Executed /\ Steady
  BY StaysSteady DEF AccountsInv
<1>2. ASSUME NEW r \in Requests, pc'[r] = pc[r], about'[r] = about[r] PROVE ExecutedBy(r)'
  <2>1. ExecutedBy(r)
    BY <1>1 DEF Executed
  <2> QED BY <1>1, <1>2, <2>1 DEF ExecutedBy, Steady, Known
<1>3. ASSUME NEW r \in Requests, pc'[r] \in {"begin", "commit", "refused", "failed"}
      PROVE  ExecutedBy(r)'
  BY <1>3 DEF ExecutedBy
<1>4. CASE Seed
  BY <1>2, <1>4, SeedEffect DEF Executed
<1>5. CASE Restart
  BY <1>2, <1>3, <1>5, RestartEffect DEF Executed
<1>6. CASE UNCHANGED vars
  BY <1>2, <1>6 DEF vars, Executed
<1>7. ASSUME NEW q \in Requests, Acts(q) PROVE Executed'
  <2>1. \A r \in Requests \ {q} : pc'[r] = pc[r] /\ about'[r] = about[r]
    BY <1>7, IdleEffect, ReadEffect, RegisterEffect, ChangeRow, NoteEffect DEF Acts
  <2>2. job' = job /\ Known \subseteq Known' /\ ExecutedBy(q)
    BY <1>1 DEF Steady, Executed
  <2>3. ASSUME Idle(q) PROVE ExecutedBy(q)'
    <3>1. about' = about
      BY <2>3, IdleEffect
    <3>2. CASE pc[q] = "refresh" /\ job[q].op = "register" /\ pc'[q] = "audit"
      BY <2>2, <3>1, <3>2 DEF ExecutedBy
    <3>3. CASE pc[q] = "refresh" /\ job[q].op # "register" /\ pc'[q] = "ok"
      <4>1. Has(about[q].id, job[q].op)'
        <5>1. about[q].id \in Ids /\ Has(about[q].id, job[q].op)
          BY <2>2, <3>3 DEF ExecutedBy, Known
        <5> QED BY <1>1, <2>2, <3>1, <5>1, HasStays
      <4> QED BY <2>2, <3>1, <3>3, <4>1 DEF ExecutedBy
    <3> QED BY <1>3, <2>3, <3>2, <3>3, IdleEffect
  <2>4. ASSUME Reads(q) PROVE ExecutedBy(q)'
    BY <1>3, <2>2, <2>4, ReadEffect DEF ExecutedBy
  <2>5. ASSUME InsertUser(q) PROVE ExecutedBy(q)'
    <3>1. job[q].op = "register"
      BY <2>5, RegisterEffect
    <3>2. ASSUME NEW id \in Ids, NewAccount(id, job[q].name, job[q].email, "USER", "register"),
                 about'[q].id = id, pc'[q] \in {"refresh", "failed"}
          PROVE  ExecutedBy(q)'
      BY <2>2, <3>1, <3>2 DEF ExecutedBy, NewAccount
    <3>3. CASE pc'[q] = "taken"
      BY <2>2, <3>1, <3>3 DEF ExecutedBy
    <3> QED BY <2>5, <3>2, <3>3, RegisterEffect
  <2>6. ASSUME CommitChange(q) PROVE ExecutedBy(q)'
    <3>1. /\ job[q].op \in {"role", "status"} /\ job[q].target \in Known /\ about' = about
          /\ about[q].id = job[q].target /\ Known' = Known
          /\ Appended(job[q].target, Row(job[q].op, about[q].from, job[q].to))
          /\ Row(job[q].op, about[q].from, job[q].to) \in LogRow
      BY <2>6, ChangeEffect, ChangeRow DEF Changed
    <3>2. Has(about[q].id, job[q].op)'
      <4>1. about[q].id \in Ids /\ Appended(about[q].id, Row(job[q].op, about[q].from, job[q].to))
        BY <3>1 DEF Known
      <4> QED BY <1>1, <2>2, <3>1, <4>1, AppendHas
    <3> QED BY <2>2, <2>6, <3>1, <3>2, ChangeRow DEF ExecutedBy
  <2>7. ASSUME CommitLogin(q) \/ CommitRegister(q) PROVE ExecutedBy(q)'
    <3>1. /\ about' = about /\ about[q].id \in Known
          /\ Appended(about[q].id, Row(job[q].op, "none", "none"))
          /\ Row(job[q].op, "none", "none") \in LogRow
      BY <2>7, NoteEffect
    <3>2. Has(about[q].id, job[q].op)'
      <4>1. about[q].id \in Ids
        BY <3>1 DEF Known
      <4> QED BY <1>1, <2>2, <3>1, <4>1, AppendHas
    <3> QED BY <2>2, <2>7, <3>1, <3>2, NoteEffect DEF ExecutedBy
  <2>8. ExecutedBy(q)'
    BY <1>7, <2>3, <2>4, <2>5, <2>6, <2>7 DEF Acts
  <2> QED BY <1>2, <2>1, <2>8 DEF Executed
<1> QED BY <1>4, <1>5, <1>6, <1>7, StepKinds

LEMMA RegisteredStep == AccountsInv /\ [Next]_vars => Registered'
<1> SUFFICES ASSUME AccountsInv, [Next]_vars PROVE Registered'
  OBVIOUS
<1>1. TypeOK /\ Registered /\ Executed /\ Transactions /\ Steady
  BY StaysSteady DEF AccountsInv
<1> DEFINE Pending(id) == \E q \in Requests : about[q].id = id /\ job[q].op = "register"
                                                /\ pc[q] \in {"refresh", "audit", "failed"}
           Founded(id) == users[id].by = "bootstrap"
<1>2. ASSUME NEW id \in Known, Pending(id) => Has(id, "register")' \/ Pending(id)'
      PROVE  Has(id, "register")' \/ Founded(id)' \/ Pending(id)'
  <2>1. Has(id, "register") \/ Founded(id) \/ Pending(id)
    BY <1>1 DEF Registered
  <2>2. id \in Ids /\ users'[id].by = users[id].by
    BY <1>1 DEF Known, Steady
  <2>3. Has(id, "register") => Has(id, "register")'
    BY <1>1, <2>2 DEF Steady
  <2>4. Founded(id) => Founded(id)'
    BY <2>2
  <2> HIDE DEF Founded, Pending
  <2> QED BY <1>2, <2>1, <2>3, <2>4
<1>3. ASSUME \A id \in Known : Pending(id) => Has(id, "register")' \/ Pending(id)',
             \A id \in Known' \ Known : Founded(id)' \/ Pending(id)'
      PROVE  Registered'
  BY <1>2, <1>3 DEF Registered
<1>4. job' = job
  BY <1>1 DEF Steady
<1>5. ASSUME NEW q \in Requests, Known' = Known,
             \A r \in Requests \ {q} : pc'[r] = pc[r] /\ about'[r] = about[r],
             job[q].op = "register" /\ pc[q] \in {"refresh", "audit", "failed"} =>
               \/ about'[q].id = about[q].id /\ pc'[q] \in {"refresh", "audit", "failed"}
               \/ about'[q].id = about[q].id /\ Has(about[q].id, "register")'
      PROVE  Registered'
  <2>1. ASSUME NEW id \in Known, Pending(id) PROVE Has(id, "register")' \/ Pending(id)'
    <3>1. PICK r \in Requests : /\ about[r].id = id /\ job[r].op = "register"
                                /\ pc[r] \in {"refresh", "audit", "failed"}
      BY <2>1
    <3>2. CASE r = q
      <4>1. CASE about'[q].id = about[q].id /\ pc'[q] \in {"refresh", "audit", "failed"}
        BY <1>4, <3>1, <3>2, <4>1
      <4>2. CASE Has(about[q].id, "register")'
        BY <1>5, <3>1, <3>2, <4>2 DEF Has
      <4> QED BY <1>5, <3>1, <3>2, <4>1, <4>2
    <3>3. CASE r # q
      BY <1>4, <1>5, <3>1, <3>3
    <3> QED BY <3>2, <3>3
  <2> QED BY <1>3, <1>5, <2>1
<1>6. CASE Seed
  <2>1. UNCHANGED <<pc, about, log>>
    BY <1>6, SeedEffect
  <2>2. ASSUME NEW id \in Known' \ Known PROVE Founded(id)'
    <3>1. PICK n \in DOMAIN configured, new \in Ids :
            NewAccount(new, configured[n].name, configured[n].email, configured[n].role,
                       "bootstrap")
      BY <1>6, <2>2, SeedEffect DEF Known
    <3>2. id = new
      BY <2>2, <3>1 DEF NewAccount
    <3> QED BY <3>1, <3>2 DEF NewAccount
  <2> QED BY <1>3, <1>4, <2>1, <2>2
<1>7. CASE Restart
  <2>1. Known' = Known /\ UNCHANGED <<about, job>>
    BY <1>7, RestartEffect DEF Known
  <2>2. \A r \in Requests : pc[r] \in {"refresh", "audit", "failed"} => pc'[r] \in {"failed"}
    BY <1>7, RestartEffect DEF Running
  <2> QED BY <1>3, <2>1, <2>2
<1>8. CASE UNCHANGED vars
  BY <1>3, <1>8 DEF vars, Known
<1>9. ASSUME NEW q \in Requests, Acts(q) PROVE Registered'
  <2>1. \A r \in Requests \ {q} : pc'[r] = pc[r] /\ about'[r] = about[r]
    BY <1>9, IdleEffect, ReadEffect, RegisterEffect, ChangeRow, NoteEffect DEF Acts
  <2>2. CASE Idle(q)
    BY <1>5, <2>1, <2>2, IdleEffect DEF Known, Running
  <2>3. CASE Reads(q)
    BY <1>5, <2>1, <2>3, ReadEffect DEF Known
  <2>4. CASE InsertUser(q)
    <3>1. pc[q] = "commit" /\ job[q].op = "register"
      BY <2>4, RegisterEffect
    <3>2. ASSUME NEW id \in Ids, NewAccount(id, job[q].name, job[q].email, "USER", "register"),
                 about'[q].id = id, pc'[q] \in {"refresh", "failed"}
          PROVE  Registered'
      <4>1. ASSUME NEW other \in Known, Pending(other) PROVE Pending(other)'
        BY <1>4, <2>1, <3>1, <4>1
      <4>2. Pending(id)' /\ \A other \in Known' \ Known : other = id
        BY <1>4, <3>1, <3>2 DEF NewAccount
      <4> QED BY <1>3, <4>1, <4>2
    <3>3. CASE Known' = Known
      BY <1>5, <2>1, <3>1, <3>3
    <3> QED BY <2>4, <3>2, <3>3, RegisterEffect DEF Known
  <2>5. CASE CommitChange(q)
    BY <1>5, <2>1, <2>5, ChangeEffect, ChangeRow DEF Changed
  <2>6. CASE CommitLogin(q) \/ CommitRegister(q)
    <3>1. /\ Known' = Known /\ about' = about
          /\ job[q].op = "register" => Has(about[q].id, "register")'
      <4>1. /\ UNCHANGED <<users, job, about>> /\ about[q].id \in Ids
            /\ Appended(about[q].id, Row(job[q].op, "none", "none"))
            /\ Row(job[q].op, "none", "none") \in LogRow
        BY <2>6, NoteEffect DEF Known
      <4>2. Has(about[q].id, job[q].op)'
        BY <1>1, <4>1, AppendHas
      <4> QED BY <4>1, <4>2 DEF Known, Has
    <3> QED BY <1>5, <2>1, <3>1
  <2> QED BY <1>9, <2>2, <2>3, <2>4, <2>5, <2>6 DEF Acts
<1> QED BY <1>6, <1>7, <1>8, <1>9, StepKinds

---------------------------------------------------------------------------
(* The audit log explains the accounts.                                    *)

Moves(field, rows) == {n \in DOMAIN rows : rows[n].action = field /\ rows[n].from # rows[n].to}

LeftOffAt(birth, rows, value, before) ==
  IF before = {} THEN value = birth
  ELSE \E n \in before : rows[n].to = value /\ \A m \in before : m <= n

LEMMA ExplainsIs ==
  ASSUME NEW field, NEW birth, NEW now, NEW rows
  PROVE  Explains(field, birth, now, rows) <=>
           /\ \A n \in Moves(field, rows) :
                LeftOffAt(birth, rows, rows[n].from, {m \in Moves(field, rows) : m < n})
           /\ LeftOffAt(birth, rows, now, Moves(field, rows))
BY DEF Explains, Moves, LeftOffAt

LEMMA ExplainsEmpty == \A field, value : Explains(field, value, value, <<>>)
BY DEF Explains

LEMMA Appending ==
  ASSUME NEW rows \in Seq(LogRow), NEW row \in LogRow, NEW field
  PROVE  /\ Len(rows) \in Nat /\ Moves(field, rows) \subseteq 1..Len(rows)
         /\ Append(rows, row)[Len(rows) + 1] = row
         /\ \A n \in Moves(field, rows) : Append(rows, row)[n] = rows[n]
         /\ Moves(field, Append(rows, row)) =
              Moves(field, rows) \cup (IF row.action = field /\ row.from # row.to
                                       THEN {Len(rows) + 1} ELSE {})
<1> DEFINE more == Append(rows, row)
<1>1. /\ Len(rows) \in Nat /\ DOMAIN rows = 1..Len(rows)
      /\ DOMAIN more = 1..Len(rows) + 1 /\ more[Len(rows) + 1] = row
      /\ \A n \in 1..Len(rows) : more[n] = rows[n]
  BY AppendProperties, LenProperties
<1>2. DOMAIN more = DOMAIN rows \cup {Len(rows) + 1}
  BY <1>1
<1> HIDE DEF more
<1>3. \A n \in DOMAIN rows : more[n] = rows[n]
  BY <1>1
<1>4. Moves(field, more) = Moves(field, rows) \cup (IF row.action = field /\ row.from # row.to
                                                    THEN {Len(rows) + 1} ELSE {})
  BY <1>1, <1>2, <1>3, Zenon DEF Moves
<1> QED BY <1>1, <1>3, <1>4 DEF Moves, more

(* Values of known moves do not depend on what comes after them.           *)
LEMMA LeftOffKept ==
  ASSUME NEW birth, NEW rows, NEW more, NEW value, NEW before,
         \A n \in before : more[n] = rows[n], LeftOffAt(birth, rows, value, before)
  PROVE  LeftOffAt(birth, more, value, before)
BY DEF LeftOffAt

(* A row that is no move of the field leaves it where it was.              *)
LEMMA ExplainsSkip ==
  ASSUME NEW rows \in Seq(LogRow), NEW row \in LogRow, NEW field, NEW birth, NEW now,
         Explains(field, birth, now, rows), ~(row.action = field /\ row.from # row.to)
  PROVE  Explains(field, birth, now, Append(rows, row))
<1> DEFINE more == Append(rows, row)
           moves == Moves(field, rows)
<1>1. Moves(field, more) = moves /\ \A n \in moves : more[n] = rows[n]
  <2>1. /\ Moves(field, more) = moves \cup (IF row.action = field /\ row.from # row.to
                                            THEN {Len(rows) + 1} ELSE {})
        /\ \A n \in moves : more[n] = rows[n]
    BY Appending
  <2> HIDE DEF more, moves
  <2> QED BY <2>1
<1>2. /\ \A n \in moves : LeftOffAt(birth, rows, rows[n].from, {m \in moves : m < n})
      /\ LeftOffAt(birth, rows, now, moves)
  BY ExplainsIs
<1> HIDE DEF more, moves
<1>3. \A n \in moves : LeftOffAt(birth, more, more[n].from, {m \in moves : m < n})
  BY <1>1, <1>2, LeftOffKept
<1>4. LeftOffAt(birth, more, now, moves)
  BY <1>1, <1>2, LeftOffKept
<1>5. Explains(field, birth, now, more)
  BY <1>1, <1>3, <1>4, ExplainsIs
<1> QED BY <1>5 DEF more

(* A move from where the field is leads to where it is next.               *)
LEMMA ExplainsMove ==
  ASSUME NEW rows \in Seq(LogRow), NEW row \in LogRow, NEW field, NEW birth,
         Explains(field, birth, row.from, rows), row.action = field, row.from # row.to
  PROVE  Explains(field, birth, row.to, Append(rows, row))
<1> DEFINE more == Append(rows, row)
           moves == Moves(field, rows)
           last == Len(rows) + 1
<1>1. /\ Len(rows) \in Nat /\ moves \subseteq 1..Len(rows) /\ more[last] = row
      /\ Moves(field, more) = moves \cup {last} /\ \A n \in moves : more[n] = rows[n]
  BY Appending
<1>2. /\ \A n \in moves : LeftOffAt(birth, rows, rows[n].from, {m \in moves : m < n})
      /\ LeftOffAt(birth, rows, row.from, moves)
  BY ExplainsIs
<1> HIDE DEF more, moves
<1>3. ASSUME NEW n \in moves
      PROVE  LeftOffAt(birth, more, more[n].from, {m \in moves \cup {last} : m < n})
  <2>1. {m \in moves \cup {last} : m < n} = {m \in moves : m < n}
    BY <1>1
  <2>2. LeftOffAt(birth, more, more[n].from, {m \in moves : m < n})
    BY <1>1, <1>2, LeftOffKept
  <2> QED BY <2>1, <2>2
<1>4. LeftOffAt(birth, more, more[last].from, {m \in moves \cup {last} : m < last})
  <2>1. last \in Nat /\ \A m \in moves : m \in Nat /\ m < last
    BY <1>1
  <2>2. {m \in moves \cup {last} : m < last} = moves
    <3> HIDE DEF last
    <3> QED BY <2>1
  <2>3. LeftOffAt(birth, more, row.from, moves)
    BY <1>1, <1>2, LeftOffKept
  <2> QED BY <1>1, <2>2, <2>3
<1>5. LeftOffAt(birth, more, row.to, moves \cup {last})
  <2>1. \A m \in moves \cup {last} : m <= last
    BY <1>1
  <2> QED BY <1>1, <2>1 DEF LeftOffAt
<1>6. Explains(field, birth, row.to, more)
  <2> HIDE DEF last
  <2>1. \A n \in moves \cup {last} :
          LeftOffAt(birth, more, more[n].from, {m \in moves \cup {last} : m < n})
    BY <1>3, <1>4
  <2> QED BY <1>1, <1>5, <2>1, ExplainsIs
<1> QED BY <1>6 DEF more

TrailOf(id) ==
  /\ Explains("role", users[id].born, users[id].role, log[id])
  /\ Explains("status", "active", users[id].status, log[id])

LEMMA TrailStep == AccountsInv /\ [Next]_vars => TrailExplains'
<1> SUFFICES ASSUME AccountsInv, [Next]_vars PROVE TrailExplains'
  OBVIOUS
<1>1. /\ TypeOK /\ Indexes /\ Steady /\ \A id \in Known : TrailOf(id)
  BY StaysSteady DEF AccountsInv, TrailExplains, TrailOf
<1>2. ASSUME \A id \in Known' : TrailOf(id)' PROVE TrailExplains'
  BY <1>2 DEF TrailExplains, TrailOf
<1>3. ASSUME NEW id \in Known, users'[id] = users[id], log'[id] = log[id] PROVE TrailOf(id)'
  BY <1>1, <1>3 DEF TrailOf
<1>4. ASSUME NEW id \in Known, NEW from, NEW to, NEW action, Row(action, from, to) \in LogRow,
             Appended(id, Row(action, from, to)), users'[id] = users[id],
             action \in {"role", "status"} => from = to
      PROVE  TrailOf(id)'
  <2> DEFINE row == Row(action, from, to)
  <2>1. /\ log[id] \in Seq(LogRow) /\ log'[id] = Append(log[id], row)
    BY <1>1, <1>4, AppendEffect DEF TypeOK, LogRow, Known
  <2>2. row.action = action /\ row.from = from /\ row.to = to /\ row \in LogRow
    BY <1>4 DEF Row
  <2> HIDE DEF row
  <2>3. /\ Explains("role", users[id].born, users[id].role, Append(log[id], row))
        /\ Explains("status", "active", users[id].status, Append(log[id], row))
    BY <1>1, <1>4, <2>1, <2>2, ExplainsSkip DEF TrailOf
  <2> QED BY <1>4, <2>1, <2>3 DEF TrailOf
<1>5. ASSUME NEW id \in Ids, NEW name, NEW email, NEW birth, NEW by,
             NewAccount(id, name, email, birth, by), log' = log
      PROVE  \A other \in Known' : TrailOf(other)'
  <2>1. /\ Known' = Known \cup {id} /\ id \notin Known
        /\ users'[id].role = birth /\ users'[id].born = birth /\ users'[id].status = "active"
        /\ \A other \in Known : users'[other] = users[other]
    BY <1>5 DEF NewAccount, Known
  <2>2. log'[id] = <<>>
    BY <1>1, <1>5, <2>1 DEF Indexes
  <2>3. TrailOf(id)'
    BY <2>1, <2>2, ExplainsEmpty DEF TrailOf
  <2> QED BY <1>3, <1>5, <2>1, <2>3
<1>6. ASSUME UNCHANGED <<users, log>> PROVE \A id \in Known' : TrailOf(id)'
  BY <1>3, <1>6 DEF Known
<1>7. CASE Seed
  BY <1>2, <1>5, <1>6, <1>7, SeedEffect
<1>8. CASE Restart
  BY <1>2, <1>6, <1>8, RestartEffect
<1>9. CASE UNCHANGED vars
  BY <1>2, <1>6, <1>9 DEF vars
<1>10. ASSUME NEW q \in Requests, Acts(q) PROVE \A id \in Known' : TrailOf(id)'
  <2>1. CASE Idle(q) \/ Reads(q)
    BY <1>6, <2>1, IdleEffect, ReadEffect
  <2>2. CASE InsertUser(q)
    BY <1>5, <1>6, <2>2, RegisterEffect
  <2>3. CASE CommitLogin(q) \/ CommitRegister(q)
    <3>1. /\ UNCHANGED users /\ about[q].id \in Known /\ about[q].id \in Ids
          /\ job[q].op \notin {"role", "status"}
          /\ Appended(about[q].id, Row(job[q].op, "none", "none"))
          /\ Row(job[q].op, "none", "none") \in LogRow
      BY <2>3, NoteEffect DEF Known
    <3>2. \A other \in Ids \ {about[q].id} : log'[other] = log[other]
      BY <1>1, <3>1, AppendEffect
    <3>3. ASSUME NEW id \in Known PROVE TrailOf(id)'
      <4>1. CASE id = about[q].id
        <5>1. /\ Appended(id, Row(job[q].op, "none", "none")) /\ users'[id] = users[id]
              /\ Row(job[q].op, "none", "none") \in LogRow
          BY <3>1, <4>1
        <5> QED BY <1>4, <3>1, <5>1
      <4>2. CASE id # about[q].id
        BY <1>3, <3>1, <3>2, <4>2 DEF Known
      <4> QED BY <4>1, <4>2
    <3> QED BY <3>1, <3>3 DEF Known
  <2>4. CASE CommitChange(q)
    <3> DEFINE j == job[q]
               from == about[q].from
               row == Row(j.op, from, j.to)
    <3>1. /\ Changed(q) /\ Appended(j.target, row) /\ row \in LogRow
          /\ j.op \in {"role", "status"} /\ j.target \in Known /\ j.target \in Ids
          /\ Known' = Known
      BY <2>4, ChangeEffect, ChangeRow DEF Changed, Known
    <3>2. \A other \in Ids \ {j.target} : log'[other] = log[other] /\ users'[other] = users[other]
      BY <1>1, <3>1, AppendEffect DEF Changed
    <3>3. log[j.target] \in Seq(LogRow) /\ log'[j.target] = Append(log[j.target], row)
      BY <1>1, <3>1, AppendEffect DEF TypeOK, LogRow
    <3>4. row.action = j.op /\ row.from = from /\ row.to = j.to
      BY DEF Row
    <3>5. ASSUME NEW id \in Known PROVE TrailOf(id)'
      <4>1. CASE id # j.target
        BY <1>3, <3>2, <4>1 DEF Known
      <4>2. CASE id = j.target /\ from = j.to
        <5>1. Appended(id, row) /\ users'[id] = users[id]
          BY <3>1, <4>2 DEF Changed
        <5> QED BY <1>4, <3>1, <4>2, <5>1
      <4>3. CASE id = j.target /\ from # j.to
        <5>1. /\ from = users[id][j.op] /\ users'[id].born = users[id].born
              /\ j.op = "role" => users'[id].role = j.to /\ users'[id].status = users[id].status
              /\ j.op = "status" => users'[id].status = j.to /\ users'[id].role = users[id].role
          BY <3>1, <4>3 DEF Changed
        <5>2. TrailOf(id) /\ log[id] \in Seq(LogRow) /\ log'[id] = Append(log[id], row)
          BY <1>1, <3>3, <4>3
        <5> HIDE DEF row, from, j
        <5>3. CASE j.op = "role"
          <6>1. /\ Explains("role", users[id].born, j.to, log'[id])
                /\ Explains("status", "active", users[id].status, log'[id])
            BY <3>1, <3>4, <4>3, <5>1, <5>2, <5>3, ExplainsMove, ExplainsSkip DEF TrailOf
          <6> QED BY <5>1, <5>3, <6>1 DEF TrailOf
        <5>4. CASE j.op = "status"
          <6>1. /\ Explains("role", users[id].born, users[id].role, log'[id])
                /\ Explains("status", "active", j.to, log'[id])
            BY <3>1, <3>4, <4>3, <5>1, <5>2, <5>4, ExplainsMove, ExplainsSkip DEF TrailOf
          <6> QED BY <5>1, <5>4, <6>1 DEF TrailOf
        <5> QED BY <3>1, <5>3, <5>4
      <4> QED BY <4>1, <4>2, <4>3
    <3> QED BY <3>1, <3>5
  <2> QED BY <1>10, <2>1, <2>2, <2>3, <2>4 DEF Acts
<1> QED BY <1>2, <1>7, <1>8, <1>9, <1>10, StepKinds

---------------------------------------------------------------------------
(* The invariant and what it says.                                         *)

LEMMA AccountsInit == Init => AccountsInv
<1> SUFFICES ASSUME Init PROVE AccountsInv
  OBVIOUS
<1>1. /\ users = [id \in Ids |-> NoUser] /\ log = [id \in Ids |-> <<>>]
      /\ pc = [q \in Requests |-> "idle"] /\ about = [q \in Requests |-> Unknown]
      /\ job \in [Requests -> Job] /\ starts = 1 /\ seeded = 0 /\ open = {}
      /\ configured \in Configurations
  BY AccountsAssumption DEF Init, SessionsInit
<1>2. PoolInv(Ids)
  BY SessionsAssumption, FS_EmptySet DEF Init, SessionsInit, PoolInv
<1>3. TypeOK
  <2>1. 0 \in 0..MaxUsers /\ starts \in 1..MaxStarts
    BY <1>1, AccountsAssumption
  <2>2. Len(configured) \in Nat
    BY AccountsAssumption, LenProperties
  <2>3. seeded \in 0..Len(configured)
    BY <1>1, <2>2
  <2>4. about \in [Requests -> [id : 0..MaxUsers, from : Values]]
    BY <1>1, <2>1 DEF Unknown, Values
  <2>5. log \in [Ids -> Seq(LogRow)]
    BY <1>1
  <2> QED BY <1>1, <1>2, <2>1, <2>3, <2>4, <2>5 DEF TypeOK, PoolInv, LogRow
<1>4. Known = {} /\ \A q \in Requests : pc[q] = "idle" /\ about[q].id = 0
  BY <1>1 DEF Known, Unknown
<1>5. Transactions /\ Indexes /\ Snapshot
  BY <1>1, <1>4 DEF Transactions, Indexes, Snapshot
<1>6. Registrations /\ Executed /\ Registered /\ TrailExplains
  BY <1>4 DEF Registrations, Executed, ExecutedBy, Registered, TrailExplains
<1> QED BY <1>2, <1>3, <1>5, <1>6 DEF AccountsInv

LEMMA AccountsStep == AccountsInv /\ [Next]_vars => AccountsInv'
<1> SUFFICES ASSUME AccountsInv, [Next]_vars PROVE AccountsInv'
  OBVIOUS
<1> QED BY TypeStep, PoolStep, TransactionsStep, IndexesStep, SnapshotStep,
           RegistrationsStep, ExecutedStep, RegisteredStep, TrailStep DEF AccountsInv

LEMMA AccountsInvariant == Spec => []AccountsInv
BY AccountsInit, AccountsStep, PTL DEF Spec

(* Every variable keeps its type, and the pool its limit, however many     *)
(* requests, accounts and starts there are.                                *)
THEOREM AccountsTypeOK == Spec => []TypeOK
<1>1. AccountsInv => TypeOK
  BY DEF AccountsInv
<1> QED BY <1>1, AccountsInvariant, PTL

(* The audit log explains every role and every status, as admin.py:96-107  *)
(* write it beside the change, in the same transaction.                    *)
THEOREM AccountsTrailExplains == Spec => []TrailExplains
<1>1. AccountsInv => TrailExplains
  BY DEF AccountsInv
<1> QED BY <1>1, AccountsInvariant, PTL

LEMMA InvAnswers == AccountsInv => AnswersTrue
<1> SUFFICES ASSUME AccountsInv PROVE AnswersTrue
  OBVIOUS
<1>1. Registrations /\ Indexes /\ Executed /\ Registered
  BY DEF AccountsInv
<1>2. ASSUME NEW q \in Requests, job[q].op = "register"
      PROVE  /\ pc[q] = "taken" => Taken(job[q].name, job[q].email)
             /\ pc[q] = "ok" => /\ about[q].id # 0 /\ about[q].id \in Known
                                /\ users[about[q].id].name = job[q].name
                                /\ users[about[q].id].email = job[q].email
  BY <1>1, <1>2 DEF Registrations
<1>3. ASSUME NEW q \in Requests, job[q].op = "register", pc[q] = "ok",
             NEW r \in Requests \ {q}, pc[r] = "ok", job[r].op = "register"
      PROVE  job[r].name # job[q].name /\ job[r].email # job[q].email
  <2>1. about[q].id # about[r].id
    BY <1>1, <1>2, <1>3 DEF Registrations
  <2> QED BY <1>1, <1>2, <1>3, <2>1 DEF Indexes
<1>4. OneWinner
  BY <1>2, <1>3 DEF OneWinner
<1>5. SuccessAudited
  BY <1>1 DEF SuccessAudited, Executed, ExecutedBy, Registered
<1> QED BY <1>4, <1>5 DEF AnswersTrue

(* What register(), login() and the changes answer is true: one winner per *)
(* name and address, a 409 only for a name or an address that is taken,    *)
(* and no success without its audit row (auth.py:51-87, 119-127).          *)
THEOREM AccountsAnswersTrue == Spec => []AnswersTrue
BY InvAnswers, AccountsInvariant, PTL

LEMMA InvLastAdmin ==
  ASSUME AccountsInv, [Next]_vars, \E id \in Ids : IsAdmin(id), ~ \E id \in Ids : IsAdmin(id)'
  PROVE  \E q \in Requests : pc[q] = "commit" /\ pc'[q] # "commit"
                               /\ job[q].actor \in changed[q]
<1>1. ASSUME NEW id \in Ids, IsAdmin(id), users'[id] = users[id], id \in Known' PROVE FALSE
  BY <1>1 DEF IsAdmin
<1>2. PICK admin \in Ids : IsAdmin(admin) /\ admin \in Known /\ admin \in Known'
  BY StaysSteady DEF IsAdmin, Steady
<1>3. users'[admin] # users[admin]
  BY <1>1, <1>2
<1>4. ASSUME NEW id \in Ids, NEW name, NEW email, NEW birth, NEW by,
             NewAccount(id, name, email, birth, by)
      PROVE  users'[admin] = users[admin]
  BY <1>2, <1>4 DEF NewAccount
<1>5. PICK q \in Requests : CommitChange(q)
  <2>1. ~Seed /\ ~Restart /\ ~UNCHANGED vars
    BY <1>3, <1>4, SeedEffect, RestartEffect DEF vars
  <2>2. PICK q \in Requests : Acts(q)
    BY <2>1, StepKinds
  <2> QED BY <1>3, <1>4, <2>2, IdleEffect, ReadEffect, RegisterEffect, NoteEffect DEF Acts
<1> DEFINE j == job[q]
<1>6. /\ pc[q] = "commit" /\ pc'[q] # "commit" /\ Changed(q) /\ UpToDate(q)
      /\ j.op \in {"role", "status"}
  BY <1>5, ChangeEffect, ChangeRow DEF AccountsInv, Snapshot, Changed
<1>7. ASSUME j.actor \notin changed[q] PROVE FALSE
  <2>1. IsAdmin(j.actor) /\ j.actor \in Ids /\ j.actor \in Known'
    BY <1>6, <1>7 DEF UpToDate, IsAdmin, Known, Changed
  <2>2. j.target = j.actor
    BY <1>1, <1>6, <2>1 DEF Changed
  <2>3. j.to \in {"ADMIN", "active"} /\ about[q].from # j.to
    BY <1>1, <1>6, <2>1, <2>2 DEF UpToDate, Changed
  <2>4. /\ j.op = "role" => users'[j.actor].role = j.to
                            /\ users'[j.actor].status = users[j.actor].status
        /\ j.op = "status" => users'[j.actor].status = j.to
                              /\ users'[j.actor].role = users[j.actor].role
    BY <1>6, <2>2, <2>3 DEF Changed
  <2>5. /\ j.op = "role" => j.to = "ADMIN"
        /\ j.op = "status" => j.to = "active"
    BY <1>6, <2>3, JobKinds DEF AccountsInv, Roles, Statuses
  <2>6. PICK a \in Ids : a = j.actor
    BY <2>1
  <2>7. a \in Known' /\ users'[a].status = "active" /\ users'[a].role = "ADMIN"
    BY <1>6, <2>1, <2>4, <2>5, <2>6 DEF IsAdmin
  <2> QED BY <2>7 DEF IsAdmin
<1> QED BY <1>6, <1>7

(* Nobody locks himself out, and so the last administrator goes only by    *)
(* one whose own row had been changed since he read it (admin.py:47-56).   *)
THEOREM AccountsLastAdminGoes == Spec => LastAdminGoes
<1>1. AccountsInv /\ [Next]_vars =>
        [(\E id \in Ids : IsAdmin(id)) /\ ~(\E id \in Ids : IsAdmin(id)')
           => \E q \in Requests : pc[q] = "commit" /\ pc'[q] # "commit"
                                    /\ job[q].actor \in changed[q]]_vars
  BY InvLastAdmin
<1> QED BY <1>1, AccountsInvariant, PTL DEF Spec, LastAdminGoes
=============================================================================
