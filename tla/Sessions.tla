------------------------------ MODULE Sessions ------------------------------
(***************************************************************************)
(* db/session.py and what stands behind it: sessions that take a           *)
(* connection from a pool of PoolLimit (pool_size + max_overflow) for each *)
(* transaction, and MariaDB's transactions.  A transaction reads a         *)
(* snapshot taken by its first read.  With innodb_snapshot_isolation, the  *)
(* server's default, writing a row that somebody has changed since the     *)
(* snapshot is an error, so a commit succeeds only if it overwrites what   *)
(* was read.  The session of a request is shared by authentication and the *)
(* handler, neither flushes before the commit, and the first read opens    *)
(* the transaction: reading is one step and committing is another.         *)
(***************************************************************************)
EXTENDS Naturals, FiniteSets

CONSTANTS Actors,    \* whoever opens sessions: requests, handlers, the flusher
          PoolLimit  \* connections

ASSUME SessionsAssumption == IsFiniteSet(Actors) /\ PoolLimit \in Nat \ {0}

VARIABLES open,      \* the actors that hold a connection, each in a transaction
          changed    \* per actor, the rows others committed since its snapshot

sessionVars == <<open, changed>>

SessionsInit == open = {} /\ changed = [a \in Actors |-> {}]

\* There is a connection in the pool, or room to open one.
FreeConnection == Cardinality(open) < PoolLimit

BeginUnlimited_mutant(a) ==
  /\ open' = open \cup {a}
  /\ UNCHANGED changed

\* The first statement of a transaction: a connection and a snapshot.
Begin(a) ==
  /\ FreeConnection
  /\ open' = open \cup {a}
  /\ UNCHANGED changed

\* commit(): the written rows are as in the snapshot; the connection goes back.
Commit(a, written) ==
  /\ changed[a] \cap written = {}
  /\ open' = open \ {a}
  /\ changed' = [b \in Actors |->
                   IF b \in open \ {a} THEN changed[b] \cup written ELSE {}]

\* The session is closed, or rolled back by an exception.
Close(a) ==
  /\ open' = open \ {a}
  /\ changed' = [changed EXCEPT ![a] = {}]

\* Rows are changed by somebody this module's user does not model.
ChangedElsewhere(rows) ==
  /\ changed' = [b \in Actors |-> IF b \in open THEN changed[b] \cup rows ELSE {}]
  /\ UNCHANGED open

\* The process ends with its connections.
Disconnect == open' = {} /\ changed' = [a \in Actors |-> {}]
---------------------------------------------------------------------------

\* Types, for users of this module that change the given rows; the pool is not
\* exceeded, and who has no transaction has no snapshot to be stale.
PoolInv(rows) ==
  /\ open \in SUBSET Actors /\ Cardinality(open) <= PoolLimit
  /\ changed \in [Actors -> SUBSET rows]
  /\ \A a \in Actors \ open : changed[a] = {}
=============================================================================
