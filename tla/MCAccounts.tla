----------------------------- MODULE MCAccounts -----------------------------
(* An administrator and a user from bootstrap, which a second start may find  *)
(* configured otherwise, two self-registrations of one name, and four        *)
(* requests at a time.                                                       *)
EXTENDS Accounts, TLC

CONSTANTS q1, q2, q3, q4

MCRequests == {q1, q2, q3, q4}
MCNames == {"admin", "bob", "carol"}
MCEmails == {"admin@", "bob@", "carol@", "other@"}
MCAdmin == [role |-> "ADMIN", name |-> "admin", email |-> "admin@"]
MCUser(name, email) == [role |-> "USER", name |-> name, email |-> email]
MCConfigurations ==
  {<<MCAdmin, MCUser("bob", "bob@")>>, <<MCAdmin, MCUser("carol", "carol@")>>}

Register(name, email) == [op |-> "register", name |-> name, email |-> email]
Login(name) == [op |-> "login", name |-> name]
Change(op, actor, target, to) == [op |-> op, actor |-> actor, target |-> target, to |-> to]

MCWorkloads ==
  {(q1 :> one) @@ (q2 :> two) @@ (q3 :> three) @@ (q4 :> four) : <<one, two, three, four>> \in
     {<<Register("carol", "carol@"), Register("carol", "other@"),
        Register("bob", "other@"), Login("carol")>>,
      <<Change("role", 1, 2, "ADMIN"), Change("role", 1, 2, "USER"),
        Change("role", 2, 1, "VIEWER"), Change("status", 1, 2, "inactive")>>,
      <<Change("role", 1, 2, "ADMIN"), Change("status", 2, 1, "inactive"),
        Change("role", 1, 1, "USER"), Login("bob")>>,
      <<Change("status", 1, 2, "inactive"), Change("role", 1, 2, "ADMIN"),
        Change("role", 1, 2, "VIEWER"), Login("bob")>>,
      <<Change("status", 1, 2, "inactive"), Change("status", 1, 2, "active"),
        Change("status", 1, 2, "inactive"), Login("bob")>>}}
=============================================================================
