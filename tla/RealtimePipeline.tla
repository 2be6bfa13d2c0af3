-------------------------- MODULE RealtimePipeline --------------------------
(***************************************************************************)
(* The realtime pipeline of one backend process: the generator task, the     *)
(* flusher task, the buffer between them and the lifespan that starts and    *)
(* stops them (realtime/generator.py, realtime/buffer.py:run_flusher,        *)
(* main.py:lifespan), over processes that are killed and restarted.          *)
(*                                                                          *)
(* A step is what one task runs between two suspensions.  Cancelling a task  *)
(* and awaiting it is one step: a cancelled task runs nothing of its body    *)
(* any more but flush()'s handler, which does not suspend.                   *)
(*                                                                          *)
(* Definitions named X_mutant are broken variants of X that no specification  *)
(* uses; they show that the properties can fail.                              *)
(***************************************************************************)
EXTENDS BufferParameters, Sequences, SequencesExt

VARIABLES
  pending, batchReady, batch, flushing, table,
  accepted, lost, inDoubt, retrying,        \* see RealtimeBuffer
  produced,     \* number of readings the generator has made
  generator,    \* "off", "between" ticks, "sending" a broadcast, "stopped"
  flusher,      \* "off", "waiting" for a trigger, "flushing", "stopped"
  lifespan      \* "down", "serving", then the steps of the shutdown:
                \* "generatorStopped", "flusherStopped", "final", "exiting"

Buffer == INSTANCE RealtimeBuffer

bufferVars == <<pending, batchReady, batch, flushing, table,
                accepted, lost, inDoubt, retrying>>
tasks == <<generator, flusher, lifespan>>
vars  == <<pending, batchReady, batch, flushing, table, accepted, lost,
           inDoubt, retrying, produced, generator, flusher, lifespan>>

Init ==
  /\ Buffer!Init
  /\ produced = 0
  /\ generator = "off" /\ flusher = "off" /\ lifespan = "down"

-----------------------------------------------------------------------------
(* main.py:lifespan, before the yield.                                      *)

Start ==
  /\ lifespan = "down"
  /\ lifespan' = "serving"
  /\ generator' = "between" /\ flusher' = "waiting"
  /\ UNCHANGED <<bufferVars, produced>>

-----------------------------------------------------------------------------
(* generator.py:run_generator.  The reading is made and its broadcast        *)
(* started, the broadcast ends and the reading is buffered, or anything in   *)
(* the tick raises and the reading is dropped.                              *)

Tick ==
  /\ generator = "between"
  /\ produced < MaxReadings
  /\ produced' = produced + 1
  /\ generator' = "sending"
  /\ UNCHANGED <<bufferVars, flusher, lifespan>>

Deliver ==
  /\ generator = "sending"
  /\ Buffer!Add(produced)
  /\ generator' = "between"
  /\ UNCHANGED <<produced, flusher, lifespan>>

TickFails ==
  /\ generator = "sending"
  /\ generator' = "between"
  /\ UNCHANGED <<bufferVars, produced, flusher, lifespan>>

-----------------------------------------------------------------------------
(* buffer.py:run_flusher.  wait_for() ends when the size trigger is set or   *)
(* when the interval has elapsed, whatever the trigger; a flush that finds   *)
(* nothing returns without suspending.                                      *)

StartFlush ==
  /\ flusher = "waiting"
  /\ Buffer!FlushTake
  /\ flusher' = IF pending = <<>> THEN "waiting" ELSE "flushing"
  /\ UNCHANGED <<produced, generator, lifespan>>

FlushOnSize == batchReady /\ StartFlush

FlushOnIntervalNever_mutant == batchReady /\ StartFlush

FlushOnInterval == StartFlush

(* The body of flush(), for whoever called it.                               *)
Apply == Buffer!Apply /\ UNCHANGED <<produced, tasks>>

Acknowledge == Buffer!Acknowledge /\ UNCHANGED <<produced, tasks>>

(* flush() returns to its caller: the flusher waits again, the lifespan goes *)
(* on to dispose of the engine.                                             *)
FlushEndsRetry_mutant ==
  /\ flusher' = IF flusher = "flushing" THEN "waiting" ELSE flusher
  /\ lifespan' = IF lifespan = "final" THEN "flusherStopped" ELSE lifespan
  /\ UNCHANGED <<produced, generator>>

FlushEnds ==
  /\ flusher' = IF flusher = "flushing" THEN "waiting" ELSE flusher
  /\ lifespan' = IF lifespan = "final" THEN "exiting" ELSE lifespan
  /\ UNCHANGED <<produced, generator>>

Return == Buffer!Return /\ FlushEnds

WriteFails == Buffer!WriteFails /\ FlushEnds

-----------------------------------------------------------------------------
(* main.py:lifespan, after the yield.                                       *)

StopGeneratorLate_mutant ==
  /\ lifespan = "serving"
  /\ lifespan' = "generatorStopped"
  /\ UNCHANGED <<bufferVars, produced, generator, flusher>>

StopGenerator ==
  /\ lifespan = "serving"
  /\ lifespan' = "generatorStopped"
  /\ generator' = "stopped"
  /\ UNCHANGED <<bufferVars, produced, flusher>>

StopFlusherLosesBatch_mutant ==
  /\ lifespan = "generatorStopped"
  /\ lifespan' = "flusherStopped"
  /\ flusher' = "stopped"
  /\ IF flusher = "flushing"
       THEN /\ batch' = <<>> /\ flushing' = "idle"
            /\ UNCHANGED <<pending, batchReady, table, accepted, lost, inDoubt,
                           retrying>>
       ELSE UNCHANGED bufferVars
  /\ UNCHANGED <<produced, generator>>

StopFlusher ==
  /\ lifespan = "generatorStopped"
  /\ lifespan' = "flusherStopped"
  /\ flusher' = "stopped"
  /\ IF flusher = "flushing" THEN Buffer!Cancelled ELSE UNCHANGED bufferVars
  /\ UNCHANGED <<produced, generator>>

FinalFlush ==
  /\ lifespan = "flusherStopped"
  /\ IF pending # <<>>
       THEN Buffer!FlushTake /\ lifespan' = "final"
       ELSE UNCHANGED bufferVars /\ lifespan' = "exiting"
  /\ UNCHANGED <<produced, generator, flusher>>

(* The process ends with nothing left to do, or is killed.                   *)
Gone ==
  /\ Buffer!Discard
  /\ generator' = "off" /\ flusher' = "off" /\ lifespan' = "down"
  /\ UNCHANGED produced

Exit  == lifespan = "exiting" /\ Gone
Crash == lifespan \notin {"down", "exiting"} /\ Gone

-----------------------------------------------------------------------------

Next ==
  \/ Start
  \/ Tick \/ Deliver \/ TickFails
  \/ FlushOnSize \/ FlushOnInterval
  \/ Apply \/ Acknowledge \/ Return \/ WriteFails
  \/ StopGenerator \/ StopFlusher \/ FinalFlush
  \/ Exit \/ Crash

Spec == Init /\ [][Next]_vars

(* The event loop runs every task that is ready, the timer of wait_for()     *)
(* fires, and a statement sent to the database is answered or raises.        *)
FairTasks ==
  /\ WF_vars(FlushOnInterval)
  /\ WF_vars(Apply \/ Acknowledge \/ WriteFails)
  /\ WF_vars(Return)
  /\ WF_vars(StopFlusher) /\ WF_vars(FinalFlush) /\ WF_vars(Exit)

(* The database is not down for ever: writes that keep being tried commit,   *)
(* and answers that keep being sent arrive.                                  *)
FairDatabase == SF_vars(Apply) /\ SF_vars(Acknowledge)

FairSpec == Spec /\ FairTasks

-----------------------------------------------------------------------------

TypeOK ==
  /\ Buffer!TypeOK
  /\ produced \in 0 .. MaxReadings
  /\ generator \in {"off", "between", "sending", "stopped"}
  /\ flusher \in {"off", "waiting", "flushing", "stopped"}
  /\ lifespan \in {"down", "serving", "generatorStopped", "flusherStopped",
                   "final", "exiting"}

(* The tasks use the buffer as it expects: one flush at a time, readings in  *)
(* order, and nothing else touches it.  Everything RealtimeBuffer promises   *)
(* then holds of the process.                                               *)
ImplementsBuffer == Buffer!Spec

(* What RealtimeBuffer says of its part of the state, and the log it           *)
(* implements (see there).                                                    *)
NothingLost == Buffer!NothingLost
InOrder == Buffer!InOrder
SecondRowOnlyInDoubt == Buffer!SecondRowOnlyInDoubt
ImplementsLog == Buffer!ImplementsLog

(* A full batch never waits silently for the interval ("flushes when it      *)
(* reaches BATCH_SIZE"): if the flusher sleeps over BatchSize readings       *)
(* without the trigger set, they are a failed batch that was put back.       *)
NoMissedTrigger ==
  flusher = "waiting" /\ Len(pending) >= BatchSize /\ ~batchReady => retrying

(* "buffered readings are not lost on a graceful shutdown" (main.py:42): a    *)
(* process that got through its final flush exits with nothing unwritten,     *)
(* unless that very flush failed.                                            *)
CleanExit == lifespan = "exiting" /\ ~retrying => Buffer!Unwritten = <<>>

(* "retrying is paced by the flush interval instead of spinning on a failing *)
(* write" (buffer.py:77): while a failed batch waits for its retry, the size  *)
(* trigger is clear, so only the interval can start the retry.               *)
RetryPaced == flusher = "waiting" /\ retrying => ~batchReady

(* "nothing is written twice" (buffer.py:54).                                *)
WrittenOnce == Buffer!WrittenOnce

(* With a database that is not down for ever a reading in memory does not    *)
(* stay there: the interval flushes a partial batch, and a failed one is     *)
(* tried again.                                                             *)
EventuallyWritten ==
  FairDatabase =>
    \A r \in Buffer!Reading :
      r \in ToSet(Buffer!Unwritten) ~> r \notin ToSet(Buffer!Unwritten)

(* A shutdown that has begun ends, also when the database never answers      *)
(* with anything but an error.                                               *)
ShutdownEnds == lifespan \notin {"down", "serving"} ~> lifespan = "down"
=============================================================================
