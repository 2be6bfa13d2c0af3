--------------------------- MODULE RealtimeBuffer ---------------------------
(***************************************************************************)
(* backend/app/realtime/buffer.py: RealtimePersistenceBuffer.               *)
(*                                                                          *)
(* One asyncio event loop runs all callers, and the buffer's lock is never  *)
(* held across an await, so add() and each locked section of flush() are    *)
(* single steps.  flush() suspends only inside the database session:        *)
(*                                                                          *)
(*   "idle"     no flush is running                                         *)
(*   "writing"  the batch is taken; checkout, INSERTs and COMMIT are under  *)
(*              way and nothing is durable                                  *)
(*   "applied"  the server has committed, the answer is not back            *)
(*   "closing"  commit() has returned, the session's __aexit__ is awaited   *)
(*                                                                          *)
(* A reading is the number it was produced with.  The rows a flush inserts  *)
(* are ordered by the INSERTs of its transaction; the server's side of the  *)
(* transaction (Apply) is external.                                         *)
(*                                                                          *)
(* Definitions named X_mutant are broken variants of X, kept to show that   *)
(* the properties of this project can fail; no specification uses them.     *)
(***************************************************************************)
EXTENDS BufferParameters, Sequences, SequencesExt

VARIABLES
  pending,      \* _pending: list of readings
  batchReady,   \* batch_ready: asyncio.Event
  batch,        \* the local variable `batch` of the flush that is running
  flushing,     \* where that flush is
  table,        \* the REALTIME rows of data_records, by id
  accepted,     \* history: readings passed to add()
  lost,         \* history: readings dropped with the memory of a process
  inDoubt,      \* history: readings put back although the server had them
  retrying      \* history: the last non-empty flush of this process raised an
                \* Exception and its batch waits in the buffer

vars == <<pending, batchReady, batch, flushing, table,
          accepted, lost, inDoubt, retrying>>

Reading == 1 .. MaxReadings

(* What this process still has to write.                                    *)
Unwritten == batch \o pending

Init ==
  /\ pending = <<>> /\ batchReady = FALSE
  /\ batch = <<>> /\ flushing = "idle"
  /\ table = <<>>
  /\ accepted = {} /\ lost = {} /\ inDoubt = {} /\ retrying = FALSE

-----------------------------------------------------------------------------
(* add(): append, and raise the size trigger.                               *)

AddLateTrigger_mutant(r) ==
  /\ pending' = Append(pending, r)
  /\ batchReady' = (batchReady \/ Len(pending') > BatchSize)
  /\ accepted' = accepted \cup {r}
  /\ UNCHANGED <<batch, flushing, table, lost, inDoubt, retrying>>

AddRenumbers_mutant(r) ==
  /\ pending' = Append(pending, r + 1)
  /\ batchReady' = (batchReady \/ Len(pending') >= BatchSize)
  /\ accepted' = accepted \cup {r}
  /\ UNCHANGED <<batch, flushing, table, lost, inDoubt, retrying>>

Add(r) ==
  /\ pending' = Append(pending, r)
  /\ batchReady' = (batchReady \/ Len(pending') >= BatchSize)
  /\ accepted' = accepted \cup {r}
  /\ UNCHANGED <<batch, flushing, table, lost, inDoubt, retrying>>

-----------------------------------------------------------------------------
(* flush(), first locked section: swap the list and clear the trigger.  An  *)
(* empty batch returns at once.  The guard is not flush()'s own but that of *)
(* its callers, the flusher and the final flush, which follow each other.   *)

FlushTakeCopies_mutant ==
  /\ flushing = "idle"
  /\ batch' = pending
  /\ batchReady' = FALSE
  /\ flushing' = IF pending = <<>> THEN "idle" ELSE "writing"
  /\ retrying' = FALSE
  /\ UNCHANGED <<pending, table, accepted, lost, inDoubt>>

FlushTake ==
  /\ flushing = "idle"
  /\ batch' = pending
  /\ pending' = <<>>
  /\ batchReady' = FALSE
  /\ flushing' = IF pending = <<>> THEN "idle" ELSE "writing"
  /\ retrying' = FALSE
  /\ UNCHANGED <<table, accepted, lost, inDoubt>>

(* The transaction of flush() on the server: all rows of the batch or none. *)
Apply ==
  /\ flushing = "writing"
  /\ table' = table \o batch
  /\ flushing' = "applied"
  /\ UNCHANGED <<pending, batchReady, batch, accepted, lost, inDoubt, retrying>>

(* commit() returns.                                                        *)
Acknowledge ==
  /\ flushing = "applied"
  /\ flushing' = "closing"
  /\ UNCHANGED <<pending, batchReady, batch, table, accepted, lost, inDoubt,
                 retrying>>

(* The session is closed and flush() returns len(batch).                    *)
Return ==
  /\ flushing = "closing"
  /\ flushing' = "idle"
  /\ batch' = <<>>
  /\ UNCHANGED <<pending, batchReady, table, accepted, lost, inDoubt, retrying>>

-----------------------------------------------------------------------------
(* flush(), the two handlers.  Both put the batch back ahead of what was     *)
(* added meanwhile: self._pending[:0] = batch.                              *)

RestoreBehind_mutant ==
  /\ pending' = pending \o batch
  /\ batch' = <<>>
  /\ flushing' = "idle"
  /\ inDoubt' = IF flushing = "writing" THEN inDoubt
                                        ELSE inDoubt \cup ToSet(batch)

RestoreNothing_mutant ==
  /\ pending' = pending
  /\ batch' = <<>>
  /\ flushing' = "idle"
  /\ inDoubt' = IF flushing = "writing" THEN inDoubt
                                        ELSE inDoubt \cup ToSet(batch)

Restore ==
  /\ pending' = batch \o pending
  /\ batch' = <<>>
  /\ flushing' = "idle"
  /\ inDoubt' = IF flushing = "writing" THEN inDoubt
                                        ELSE inDoubt \cup ToSet(batch)

(* The bound on duplicate rows.                                             *)
MayDoubt == flushing = "writing" \/ Len(table) < MaxRows

(* except Exception: the write failed, or its answer was lost after the      *)
(* server had committed.                                                    *)
WriteFails ==
  /\ flushing \in {"writing", "applied"}
  /\ MayDoubt
  /\ Restore
  /\ batchReady' = FALSE
  /\ retrying' = TRUE
  /\ UNCHANGED <<table, accepted, lost>>

(* except CancelledError: the task running flush() is cancelled at one of    *)
(* its suspension points.  The close that __aexit__ awaits after a           *)
(* successful commit is one of them.  The trigger keeps its value.          *)
Cancelled ==
  /\ flushing \in {"writing", "applied", "closing"}
  /\ MayDoubt
  /\ Restore
  /\ UNCHANGED <<batchReady, table, accepted, lost, retrying>>

(* The process ends: its memory goes, the table stays, and the next process  *)
(* starts with __init__.                                                    *)
Discard ==
  /\ pending' = <<>> /\ batchReady' = FALSE
  /\ batch' = <<>> /\ flushing' = "idle"
  /\ lost' = lost \cup (ToSet(Unwritten) \ ToSet(table))
  /\ retrying' = FALSE
  /\ UNCHANGED <<table, accepted, inDoubt>>

-----------------------------------------------------------------------------
(* Any caller, in any order: readings arrive in production order, one flush  *)
(* runs at a time, and it may fail or be cancelled wherever it suspends.     *)

AddNext == \E r \in Reading : (\A a \in accepted : a < r) /\ Add(r)

Next ==
  \/ AddNext
  \/ FlushTake \/ Apply \/ Acknowledge \/ Return
  \/ WriteFails \/ Cancelled
  \/ Discard

Spec == Init /\ [][Next]_vars

-----------------------------------------------------------------------------

TypeOK ==
  /\ pending \in Seq(Reading)
  /\ batchReady \in BOOLEAN
  /\ batch \in Seq(Reading)
  /\ flushing \in {"idle", "writing", "applied", "closing"}
  /\ table \in Seq(Reading)
  /\ accepted \subseteq Reading
  /\ lost \subseteq Reading
  /\ inDoubt \subseteq Reading
  /\ retrying \in BOOLEAN

(* The buffer implements the at-least-once ordered log of ReadingLog: what   *)
(* flush() has taken and what is pending form the queue, the table the log.  *)
Log == INSTANCE ReadingLog WITH queue <- Unwritten, log <- table

ImplementsLog == Log!Spec

(* flush() loses nothing ("so nothing is lost", buffer.py:53): whatever      *)
(* fails or is cancelled, an accepted reading is in the table or still in    *)
(* this process, unless the process itself went away.                        *)
NothingLost == Log!NothingLost

(* "Restore ahead of newer readings so ordering survives" (buffer.py:76):    *)
(* the list and the first rows of the table stay in production order over    *)
(* any number of failed writes interleaved with add().                       *)
InOrder == Log!InOrder

(* A reading gets a second row only if an earlier write of it had reached    *)
(* the server when flush() put it back.                                      *)
SecondRowOnlyInDoubt ==
  \A i, j \in DOMAIN table : i # j /\ table[i] = table[j] => table[i] \in inDoubt

(* The size trigger never outlives the batch it announced: while it is set   *)
(* there are BatchSize readings to write.                                    *)
ReadyMeansFull == batchReady => Len(pending) >= BatchSize

(* "nothing is written twice" (buffer.py:54).                                *)
WrittenOnce == \A i, j \in DOMAIN table : i # j => table[i] # table[j]
=============================================================================
