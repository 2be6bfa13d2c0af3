--------------------------- MODULE RealtimePacing ---------------------------
(***************************************************************************)
(* The flusher's two triggers in discrete time: how many readings a kill of   *)
(* the process would take with it.                                           *)
(*                                                                          *)
(* A tick is one period of the generator (realtime_interval_seconds) and      *)
(* brings one reading.  wait_for() ends as soon as the size trigger is set or *)
(* IntervalTicks have passed, and a write that does not fail has returned     *)
(* after WriteTicks: time does not pass those points.                         *)
(*                                                                          *)
(* Definitions named X_mutant are broken variants of X that no specification  *)
(* uses; they show that the properties can fail.                              *)
(***************************************************************************)
EXTENDS Naturals, Sequences, FiniteSetsExt, SequencesExt

CONSTANTS
  BatchSize, MaxReadings, MaxRows,   \* see RealtimeBuffer
  IntervalTicks,    \* batch_interval_seconds / realtime_interval_seconds
  WriteTicks,       \* ticks a write takes at most, the wait for a connection included
  MaxFailures       \* bound: number of writes that fail

ASSUME TicksAssumption ==
  /\ BatchSize \in Nat \ {0} /\ IntervalTicks \in Nat \ {0}
  /\ WriteTicks \in Nat /\ MaxReadings \in Nat /\ MaxFailures \in Nat

VARIABLES
  pending, batchReady, batch, flushing, table,
  accepted, lost, inDoubt, retrying,        \* see RealtimeBuffer
  now,          \* ticks since the start, and readings produced
  since,        \* when the flusher began to wait, or its write began
  failures      \* writes that failed so far

Buffer == INSTANCE RealtimeBuffer

vars == <<pending, batchReady, batch, flushing, table, accepted, lost,
          inDoubt, retrying, now, since, failures>>

Init == Buffer!Init /\ now = 0 /\ since = 0 /\ failures = 0

Elapsed == now - since

(* The flusher is woken, or its write is due to end.                          *)
TriggeredOnInterval_mutant == flushing = "idle" /\ Elapsed >= IntervalTicks

Triggered == flushing = "idle" /\ (batchReady \/ Elapsed >= IntervalTicks)
WriteDue  == flushing # "idle" /\ Elapsed >= WriteTicks

(* One tick of run_generator.                                                *)
TickSkips_mutant ==
  /\ ~Triggered /\ ~WriteDue
  /\ now < MaxReadings
  /\ now' = now + 1
  /\ Buffer!Add(now' + 1)
  /\ UNCHANGED <<since, failures>>

Tick ==
  /\ ~Triggered /\ ~WriteDue
  /\ now < MaxReadings
  /\ now' = now + 1
  /\ Buffer!Add(now')
  /\ UNCHANGED <<since, failures>>

(* run_flusher: wait_for() ends, flush() takes the batch.                     *)
StartFlush ==
  /\ Triggered
  /\ Buffer!FlushTake
  /\ since' = now
  /\ UNCHANGED <<now, failures>>

Write ==
  /\ Buffer!Apply \/ Buffer!Acknowledge
  /\ UNCHANGED <<now, since, failures>>

(* flush() returns and the flusher waits again, for a whole interval.         *)
Return ==
  /\ Buffer!Return
  /\ since' = now
  /\ UNCHANGED <<now, failures>>

WriteFails ==
  /\ failures < MaxFailures
  /\ Buffer!WriteFails
  /\ failures' = failures + 1
  /\ since' = now
  /\ UNCHANGED now

Next == Tick \/ StartFlush \/ Write \/ Return \/ WriteFails

Spec == Init /\ [][Next]_vars

-----------------------------------------------------------------------------

TypeOK ==
  /\ Buffer!TypeOK
  /\ now \in 0 .. MaxReadings /\ since \in 0 .. now
  /\ failures \in 0 .. MaxFailures

(* What a kill would lose now.                                               *)
AtRisk == Cardinality(ToSet(Buffer!Unwritten) \ ToSet(table))

(* What a batch holds when no write failed before it: what arrived during the  *)
(* write before, and, unless that is a full batch already, until the earlier    *)
(* of the two triggers.                                                         *)
Taken == Max({WriteTicks, Min({BatchSize, WriteTicks + IntervalTicks})})

(* A kill takes at most such a batch, what arrives during its own write, and    *)
(* for every write that failed one more interval and one more write, however    *)
(* long a write takes (buffer.py:44-82, 116-122).  "Up to BATCH_SIZE records (or *)
(* one interval's worth) are lost" (docs/ARCHITECTURE.md:152) is less than that  *)
(* as soon as a write takes time or fails.                                      *)
Exposure == AtRisk <= Taken + WriteTicks + failures * (IntervalTicks + WriteTicks)
=============================================================================
