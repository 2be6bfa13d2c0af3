--------------------------- MODULE MCRecordStore ---------------------------
(* An administrator and a user with one record, three requests, one         *)
(* subscriber and the flusher over two connections.                         *)
EXTENDS RecordStore, TLC

CONSTANTS admin, bob, q1, q2, q3, handler, flusher

MCUsers == {admin, bob}
MCRequests == {q1, q2, q3}
MCHandlers == {handler}
MCActors == MCRequests \cup {handler, flusher}
MCInitialRoles == [u \in MCUsers |-> IF u = admin THEN "ADMIN" ELSE "USER"]
MCInitialOwners == [id \in 1..MaxId |-> IF id = 1 THEN bob ELSE "unused"]
MCNewRoles == {"INACTIVE"}

File(kind, lines) == [kind |-> kind, large |-> FALSE, readable |-> TRUE, lines |-> lines]
good == File("csv", <<"good", "blank", "good">>)
bad == File("json", <<"good", "bad">>)
MCFiles == {good, bad}

Ask(u, op, id, file) == [user |-> u, op |-> op, id |-> id, file |-> file]
create == Ask(bob, "create", 0, good)
import == Ask(bob, "import", 0, good)
refused == Ask(bob, "import", 0, bad)
Edit(op, id) == Ask(bob, op, id, good)
Remove(id) == Ask(admin, "delete", id, good)

MCWorkloads ==
  {(q1 :> one) @@ (q2 :> two) @@ (q3 :> three) : <<one, two, three>> \in
     {<<create, Edit("delete", 2), Remove(2)>>, <<create, Edit("update", 2), import>>,
      <<Edit("update", 1), Edit("delete", 1), Remove(1)>>, <<Edit("touch", 1), refused, Remove(1)>>,
      <<import, import, Remove(2)>>}}
=============================================================================
