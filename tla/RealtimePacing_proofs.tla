------------------------ MODULE RealtimePacing_proofs ------------------------
(***************************************************************************)
(* What a kill of the process can cost, for every batch size, interval and   *)
(* length of a write, after any number of failed writes.                     *)
(***************************************************************************)
EXTENDS RealtimePacing, SharedFacts

(* What every failed write adds: one more interval and one more write.       *)
Backlog(n) == n * (IntervalTicks + WriteTicks)

(* A flusher that waits has seen at most an interval pass since the last     *)
(* flush ended.  Unless a write failed, what is pending came during that     *)
(* flush and since, and the size trigger knows of it: beyond a full batch     *)
(* nothing came but during the flush.                                        *)
Waiting ==
  flushing = "idle" =>
    /\ batch = <<>> /\ Elapsed <= IntervalTicks
    /\ failures = 0 =>
         /\ Len(pending) <= WriteTicks + Elapsed
         /\ Len(pending) <= BatchSize \/ Len(pending) <= WriteTicks
    /\ failures # 0 => Len(pending) + IntervalTicks <= Taken + Backlog(failures) + Elapsed

(* During a write, what is pending came since it began.                      *)
Flushing ==
  flushing # "idle" =>
    /\ Elapsed <= WriteTicks /\ Len(pending) <= Elapsed
    /\ Len(batch) <= Taken + Backlog(failures)

Announced == failures = 0 /\ Len(pending) >= BatchSize => batchReady

PacingInv == TypeOK /\ Waiting /\ Flushing /\ Announced

---------------------------------------------------------------------------
(* Arithmetic.                                                              *)

LEMMA Parameters ==
  /\ BatchSize \in Nat /\ BatchSize > 0 /\ IntervalTicks \in Nat /\ IntervalTicks > 0
  /\ WriteTicks \in Nat /\ MaxReadings \in Nat /\ MaxFailures \in Nat
BY TicksAssumption

(* The smaller and the larger of two numbers.                               *)
LEMMA MinMaxIs ==
  ASSUME NEW a \in Nat, NEW b \in Nat
  PROVE  /\ Min({a, b}) = IF a <= b THEN a ELSE b
         /\ Max({a, b}) = IF a <= b THEN b ELSE a
<1>1. \E x \in {a, b} : \A y \in {a, b} : x <= y
  OBVIOUS
<1>2. Min({a, b}) \in {a, b} /\ \A y \in {a, b} : Min({a, b}) <= y
  BY <1>1 DEF Min
<1>3. \E x \in {a, b} : \A y \in {a, b} : x >= y
  OBVIOUS
<1>4. Max({a, b}) \in {a, b} /\ \A y \in {a, b} : Max({a, b}) >= y
  BY <1>3 DEF Max
<1> QED BY <1>2, <1>4

(* A first batch holds what one write lets through, or as many readings as    *)
(* both triggers do.                                                        *)
LEMMA TakenIs ==
  /\ Taken \in Nat /\ WriteTicks <= Taken /\ Taken <= WriteTicks + IntervalTicks
  /\ BatchSize <= Taken \/ Taken = WriteTicks + IntervalTicks
<1> DEFINE b == WriteTicks + IntervalTicks
           earlier == Min({BatchSize, b})
<1>1. b \in Nat
  BY Parameters
<1> HIDE DEF b
<1>2. earlier = (IF BatchSize <= b THEN BatchSize ELSE b) /\ earlier \in Nat
  BY <1>1, Parameters, MinMaxIs
<1> HIDE DEF earlier
<1>3. Max({WriteTicks, earlier}) = IF WriteTicks <= earlier THEN earlier ELSE WriteTicks
  BY <1>2, Parameters, MinMaxIs
<1>4. Taken = IF WriteTicks <= earlier THEN earlier ELSE WriteTicks
  BY <1>3 DEF Taken, earlier, b
<1> QED BY <1>1, <1>2, <1>4, Parameters DEF b

LEMMA BacklogIs ==
  ASSUME NEW n \in Nat
  PROVE  /\ Backlog(n) \in Nat /\ Backlog(0) = 0
         /\ Backlog(n + 1) = Backlog(n) + IntervalTicks + WriteTicks
         /\ n # 0 => Backlog(n) >= IntervalTicks + WriteTicks
<1> DEFINE c == IntervalTicks + WriteTicks
<1>1. c \in Nat
  BY Parameters
<1> HIDE DEF c
<1>2. n * c \in Nat /\ 0 * c = 0 /\ (n + 1) * c = n * c + c /\ (n # 0 => n * c >= c)
  BY <1>1
<1> QED BY <1>2, Parameters DEF Backlog, c

---------------------------------------------------------------------------
(* The steps.                                                               *)

(* What the proofs need of the types.                                       *)
LEMMA Typed ==
  ASSUME TypeOK
  PROVE  /\ pending \in Seq(Buffer!Reading) /\ batch \in Seq(Buffer!Reading)
         /\ table \in Seq(Buffer!Reading)
         /\ Len(pending) \in Nat /\ Len(batch) \in Nat
         /\ now \in Nat /\ since \in Nat /\ failures \in Nat
         /\ Elapsed \in Nat /\ Elapsed = now - since
<1>1. /\ pending \in Seq(Buffer!Reading) /\ batch \in Seq(Buffer!Reading)
      /\ table \in Seq(Buffer!Reading)
      /\ now \in 0 .. MaxReadings /\ since \in 0 .. now /\ failures \in 0 .. MaxFailures
  BY DEF TypeOK, Buffer!TypeOK
<1>2. Len(pending) \in Nat /\ Len(batch) \in Nat
  BY <1>1, LenProperties
<1>3. now \in Nat /\ since \in Nat /\ failures \in Nat /\ now - since \in Nat
  BY <1>1, Parameters
<1> QED BY <1>1, <1>2, <1>3 DEF Elapsed

LEMMA PacingInit == Init => PacingInv
<1> SUFFICES ASSUME Init PROVE PacingInv
  OBVIOUS
<1>1. /\ pending = <<>> /\ batch = <<>> /\ table = <<>> /\ flushing = "idle"
      /\ batchReady = FALSE /\ accepted = {} /\ lost = {} /\ inDoubt = {} /\ retrying = FALSE
      /\ now = 0 /\ since = 0 /\ failures = 0
  BY DEF Init, Buffer!Init
<1>2. 0 \in 0 .. MaxReadings /\ 0 \in 0 .. now /\ 0 \in 0 .. MaxFailures
  BY <1>1, Parameters
<1>3. TypeOK
  <2>1. <<>> \in Seq(Buffer!Reading)
    BY EmptySeq
  <2> QED BY <1>1, <1>2, <2>1 DEF TypeOK, Buffer!TypeOK
<1>4. Len(pending) = 0 /\ Elapsed = 0
  BY <1>1 DEF Elapsed
<1>5. Waiting /\ Flushing /\ Announced
  BY <1>1, <1>4, Parameters DEF Waiting, Flushing, Announced
<1> QED BY <1>3, <1>5 DEF PacingInv

LEMMA TickStep == PacingInv /\ Tick => PacingInv'
<1> SUFFICES ASSUME PacingInv, Tick PROVE PacingInv'
  OBVIOUS
<1>1. /\ ~Triggered /\ ~WriteDue /\ now < MaxReadings /\ now' = now + 1
      /\ pending' = Append(pending, now')
      /\ batchReady' = (batchReady \/ Len(pending') >= BatchSize)
      /\ accepted' = accepted \cup {now'}
      /\ UNCHANGED <<batch, flushing, table, lost, inDoubt, retrying, since, failures>>
  BY DEF Tick, Buffer!Add
<1>2. TypeOK /\ now \in 0 .. MaxReadings /\ since \in 0 .. now
  BY DEF PacingInv, TypeOK
<1>3. now' \in 0 .. MaxReadings /\ now' \in Buffer!Reading /\ since' \in 0 .. now'
  BY <1>1, <1>2, Parameters DEF Buffer!Reading
<1>4. pending' \in Seq(Buffer!Reading) /\ Len(pending') = Len(pending) + 1
  BY <1>1, <1>2, <1>3, Typed, AppendProperties
<1>5. TypeOK'
  <2>1. batchReady' \in BOOLEAN /\ accepted' \subseteq Buffer!Reading
    BY <1>1, <1>2, <1>3 DEF TypeOK, Buffer!TypeOK
  <2> QED BY <1>1, <1>2, <1>3, <1>4, <2>1 DEF TypeOK, Buffer!TypeOK, Buffer!Reading
<1>6. Elapsed' = Elapsed + 1
  BY <1>1, <1>2, Typed DEF Elapsed
<1> HIDE DEF Elapsed
<1>7. /\ Len(pending) \in Nat /\ Len(batch) \in Nat /\ Elapsed \in Nat /\ failures \in Nat
      /\ Taken \in Nat /\ Backlog(failures) \in Nat
  BY <1>2, Typed, TakenIs, BacklogIs
<1>8. /\ flushing = "idle" => ~batchReady /\ Elapsed < IntervalTicks
      /\ flushing # "idle" => Elapsed < WriteTicks
  BY <1>1, <1>7, Parameters DEF Triggered, WriteDue
<1>9. Announced'
  BY <1>1 DEF Announced
<1>10. CASE flushing = "idle"
  <2>1. /\ batch = <<>>
        /\ failures = 0 => Len(pending) <= WriteTicks + Elapsed /\ Len(pending) < BatchSize
        /\ failures # 0 => Len(pending) + IntervalTicks <= Taken + Backlog(failures) + Elapsed
    BY <1>7, <1>8, <1>10, Parameters DEF PacingInv, Waiting, Announced
  <2>2. /\ batch' = <<>> /\ Elapsed' <= IntervalTicks
        /\ failures = 0 =>
             /\ Len(pending') <= WriteTicks + Elapsed'
             /\ Len(pending') <= BatchSize \/ Len(pending') <= WriteTicks
        /\ failures # 0 => Len(pending') + IntervalTicks <= Taken + Backlog(failures) + Elapsed'
    BY <1>1, <1>4, <1>6, <1>7, <1>8, <1>10, <2>1, Parameters
  <2>3. Waiting' /\ Flushing'
    BY <1>1, <1>10, <2>2 DEF Waiting, Flushing
  <2> QED BY <1>5, <1>9, <2>3 DEF PacingInv
<1>11. CASE flushing # "idle"
  <2>1. Len(pending) <= Elapsed /\ Len(batch) <= Taken + Backlog(failures)
    BY <1>11 DEF PacingInv, Flushing
  <2>2. Elapsed' <= WriteTicks /\ Len(pending') <= Elapsed'
    BY <1>4, <1>6, <1>7, <1>8, <1>11, <2>1, Parameters
  <2>3. Waiting' /\ Flushing'
    BY <1>1, <1>11, <2>1, <2>2 DEF Waiting, Flushing
  <2> QED BY <1>5, <1>9, <2>3 DEF PacingInv
<1> QED BY <1>10, <1>11

LEMMA StartFlushStep == PacingInv /\ StartFlush => PacingInv'
<1> SUFFICES ASSUME PacingInv, StartFlush PROVE PacingInv'
  OBVIOUS
<1>1. /\ flushing = "idle" /\ batch' = pending /\ pending' = <<>> /\ batchReady' = FALSE
      /\ flushing' = IF pending = <<>> THEN "idle" ELSE "writing"
      /\ retrying' = FALSE /\ since' = now
      /\ UNCHANGED <<table, accepted, lost, inDoubt, now, failures>>
  BY DEF StartFlush, Buffer!FlushTake
<1>2. TypeOK /\ now \in 0 .. MaxReadings
  BY DEF PacingInv, TypeOK
<1>3. TypeOK'
  <2>1. since' \in 0 .. now' /\ <<>> \in Seq(Buffer!Reading)
    BY <1>1, <1>2, EmptySeq
  <2> QED BY <1>1, <1>2, <2>1 DEF TypeOK, Buffer!TypeOK, Buffer!Reading
<1>4. Elapsed' = 0 /\ Len(pending') = 0
  BY <1>1, <1>2, Typed DEF Elapsed
<1>5. Elapsed' >= 0 /\ Announced'
  BY <1>4, Parameters DEF Announced
<1>6. /\ Elapsed <= IntervalTicks
      /\ failures = 0 =>
           /\ Len(pending) <= WriteTicks + Elapsed
           /\ Len(pending) <= BatchSize \/ Len(pending) <= WriteTicks
      /\ failures # 0 => Len(pending) + IntervalTicks <= Taken + Backlog(failures) + Elapsed
  BY <1>1 DEF PacingInv, Waiting
<1> HIDE DEF Elapsed
<1>7. /\ Len(pending) \in Nat /\ Elapsed \in Nat /\ failures \in Nat
      /\ Taken \in Nat /\ Backlog(failures) \in Nat /\ Backlog(0) = 0
      /\ failures # 0 => Backlog(failures) >= IntervalTicks + WriteTicks
  BY <1>2, Typed, TakenIs, BacklogIs
<1>8. Len(pending) <= Taken + Backlog(failures)
  BY <1>6, <1>7, TakenIs, Parameters
<1>9. CASE pending = <<>>
  <2>1. batch' = <<>> /\ flushing' = "idle"
    BY <1>1, <1>9
  <2>2. /\ failures = 0 =>
             /\ Len(pending') <= WriteTicks + Elapsed'
             /\ Len(pending') <= BatchSize \/ Len(pending') <= WriteTicks
        /\ failures # 0 => Len(pending') + IntervalTicks <= Taken + Backlog(failures) + Elapsed'
    BY <1>4, <1>7, Parameters
  <2>3. Waiting' /\ Flushing'
    BY <1>1, <1>4, <2>1, <2>2, Parameters DEF Waiting, Flushing
  <2> QED BY <1>3, <1>5, <2>3 DEF PacingInv
<1>10. CASE pending # <<>>
  <2>1. flushing' = "writing" /\ Len(batch') <= Taken + Backlog(failures)
    BY <1>1, <1>8, <1>10
  <2>2. Waiting' /\ Flushing'
    BY <1>1, <1>4, <2>1, Parameters DEF Waiting, Flushing
  <2> QED BY <1>3, <1>5, <2>2 DEF PacingInv
<1> QED BY <1>9, <1>10

LEMMA WriteStep == PacingInv /\ Write => PacingInv'
<1> SUFFICES ASSUME PacingInv, Write PROVE PacingInv'
  OBVIOUS
<1>1. /\ flushing # "idle" /\ flushing' \in {"applied", "closing"}
      /\ table' \in {table, table \o batch}
      /\ UNCHANGED <<pending, batchReady, batch, accepted, lost, inDoubt, retrying,
                     now, since, failures>>
  BY DEF Write, Buffer!Apply, Buffer!Acknowledge
<1>2. table' \in Seq(Buffer!Reading)
  BY <1>1, Typed, ConcatProperties DEF PacingInv
<1>3. TypeOK'
  BY <1>1, <1>2 DEF PacingInv, TypeOK, Buffer!TypeOK, Buffer!Reading
<1>4. Waiting' /\ Flushing' /\ Announced'
  BY <1>1 DEF PacingInv, Waiting, Flushing, Announced, Elapsed
<1> QED BY <1>3, <1>4 DEF PacingInv

LEMMA ReturnStep == PacingInv /\ Return => PacingInv'
<1> SUFFICES ASSUME PacingInv, Return PROVE PacingInv'
  OBVIOUS
<1>1. /\ flushing # "idle" /\ flushing' = "idle" /\ batch' = <<>> /\ since' = now
      /\ UNCHANGED <<pending, batchReady, table, accepted, lost, inDoubt, retrying,
                     now, failures>>
  BY DEF Return, Buffer!Return
<1>2. TypeOK /\ now \in 0 .. MaxReadings
  BY DEF PacingInv, TypeOK
<1>3. TypeOK'
  <2>1. since' \in 0 .. now' /\ <<>> \in Seq(Buffer!Reading)
    BY <1>1, <1>2, EmptySeq
  <2> QED BY <1>1, <1>2, <2>1 DEF TypeOK, Buffer!TypeOK, Buffer!Reading
<1>4. Elapsed' = 0
  BY <1>1, <1>2, Typed DEF Elapsed
<1>5. Elapsed <= WriteTicks /\ Len(pending) <= Elapsed
  BY <1>1 DEF PacingInv, Flushing
<1> HIDE DEF Elapsed
<1>6. /\ Len(pending) \in Nat /\ Elapsed \in Nat /\ failures \in Nat
      /\ Taken \in Nat /\ Backlog(failures) \in Nat
      /\ failures # 0 => Backlog(failures) >= IntervalTicks + WriteTicks
  BY <1>2, Typed, TakenIs, BacklogIs
<1>7. /\ failures = 0 =>
           /\ Len(pending) <= WriteTicks + Elapsed'
           /\ Len(pending) <= BatchSize \/ Len(pending) <= WriteTicks
      /\ failures # 0 => Len(pending) + IntervalTicks <= Taken + Backlog(failures) + Elapsed'
  BY <1>4, <1>5, <1>6, Parameters
<1>8. Waiting' /\ Flushing'
  BY <1>1, <1>4, <1>7, Parameters DEF Waiting, Flushing
<1>9. Announced'
  BY <1>1 DEF PacingInv, Announced
<1> QED BY <1>3, <1>8, <1>9 DEF PacingInv

LEMMA WriteFailsStep == PacingInv /\ WriteFails => PacingInv'
<1> SUFFICES ASSUME PacingInv, WriteFails PROVE PacingInv'
  OBVIOUS
<1>1. /\ flushing # "idle" /\ flushing' = "idle" /\ batch' = <<>> /\ since' = now
      /\ pending' = batch \o pending /\ batchReady' = FALSE /\ retrying' = TRUE
      /\ inDoubt' \in {inDoubt, inDoubt \cup Buffer!ToSet(batch)}
      /\ failures < MaxFailures /\ failures' = failures + 1
      /\ UNCHANGED <<table, accepted, lost, now>>
  BY DEF WriteFails, Buffer!WriteFails, Buffer!Restore
<1>2. TypeOK /\ now \in 0 .. MaxReadings /\ failures \in 0 .. MaxFailures
  BY DEF PacingInv, TypeOK
<1>3. pending' \in Seq(Buffer!Reading) /\ Len(pending') = Len(batch) + Len(pending)
  BY <1>1, <1>2, Typed, ConcatProperties
<1>4. TypeOK'
  <2>1. since' \in 0 .. now' /\ <<>> \in Seq(Buffer!Reading)
    BY <1>1, <1>2, EmptySeq
  <2>2. failures' \in 0 .. MaxFailures
    BY <1>1, <1>2, Parameters
  <2>3. Buffer!ToSet(batch) \subseteq Buffer!Reading
    BY <1>2, Typed, InToSet DEF ToSet, Buffer!ToSet
  <2>4. inDoubt' \subseteq Buffer!Reading
    BY <1>1, <1>2, <2>3 DEF TypeOK, Buffer!TypeOK
  <2> QED BY <1>1, <1>2, <1>3, <2>1, <2>2, <2>4 DEF TypeOK, Buffer!TypeOK, Buffer!Reading
<1>5. Elapsed' = 0
  BY <1>1, <1>2, Typed DEF Elapsed
<1>6. /\ Elapsed <= WriteTicks /\ Len(pending) <= Elapsed
      /\ Len(batch) <= Taken + Backlog(failures)
  BY <1>1 DEF PacingInv, Flushing
<1> HIDE DEF Elapsed
<1>7. /\ Len(pending) \in Nat /\ Len(batch) \in Nat /\ Elapsed \in Nat /\ failures \in Nat
      /\ Taken \in Nat /\ Backlog(failures) \in Nat
      /\ Backlog(failures + 1) = Backlog(failures) + IntervalTicks + WriteTicks
  BY <1>2, Typed, TakenIs, BacklogIs
<1>8. /\ failures' # 0 /\ Backlog(failures') = Backlog(failures) + IntervalTicks + WriteTicks
  BY <1>1, <1>7
<1>9. Len(pending') + IntervalTicks <= Taken + Backlog(failures') + Elapsed'
  BY <1>3, <1>5, <1>6, <1>7, <1>8, Parameters
<1>10. Waiting' /\ Flushing'
  BY <1>1, <1>5, <1>8, <1>9, Parameters DEF Waiting, Flushing
<1>11. Announced'
  BY <1>8 DEF Announced
<1> QED BY <1>4, <1>10, <1>11 DEF PacingInv

LEMMA PacingStep == PacingInv /\ [Next]_vars => PacingInv'
<1> SUFFICES ASSUME PacingInv, [Next]_vars PROVE PacingInv'
  OBVIOUS
<1>1. CASE UNCHANGED vars
  BY <1>1 DEF vars, PacingInv, TypeOK, Buffer!TypeOK, Buffer!Reading, Waiting, Flushing,
      Announced, Elapsed
<1> QED BY <1>1, TickStep, StartFlushStep, WriteStep, ReturnStep, WriteFailsStep DEF Next

LEMMA PacingInvariant == Spec => []PacingInv
BY PacingInit, PacingStep, PTL DEF Spec

---------------------------------------------------------------------------
(* The theorems.                                                            *)

(* Clock and buffer keep their types, for every batch size and interval.     *)
THEOREM PacingTypeOK == Spec => []TypeOK
<1>1. PacingInv => TypeOK
  BY DEF PacingInv
<1> QED BY <1>1, PacingInvariant, PTL

LEMMA InvExposure == PacingInv => Exposure
<1> SUFFICES ASSUME PacingInv PROVE Exposure
  OBVIOUS
<1>1. TypeOK
  BY DEF PacingInv
<1>2. /\ Len(pending) \in Nat /\ Len(batch) \in Nat /\ Elapsed \in Nat /\ failures \in Nat
      /\ Taken \in Nat /\ Backlog(failures) \in Nat /\ Backlog(0) = 0
  BY <1>1, Typed, TakenIs, BacklogIs
<1>3. AtRisk <= Len(batch) + Len(pending) /\ AtRisk \in Nat
  <2> DEFINE own == ToSet(Buffer!Unwritten)
             risked == own \ ToSet(table)
  <2>1. /\ Buffer!Unwritten \in Seq(Buffer!Reading)
        /\ Len(Buffer!Unwritten) = Len(batch) + Len(pending)
    BY <1>1, Typed, ConcatProperties DEF Buffer!Unwritten
  <2>2. IsFiniteSet(own) /\ Cardinality(own) \in Nat /\ Cardinality(own) <= Len(batch) + Len(pending)
    BY <2>1, AtMostLength
  <2> HIDE DEF own
  <2>3. Cardinality(risked) <= Cardinality(own) /\ Cardinality(risked) \in Nat
    BY <2>2, FS_Subset, FS_CardinalityType
  <2>4. AtRisk = Cardinality(risked)
    BY DEF AtRisk, own
  <2> HIDE DEF risked
  <2> QED BY <1>2, <2>2, <2>3, <2>4
<1>4. Len(batch) + Len(pending) <= Taken + WriteTicks + Backlog(failures)
  <2>1. CASE flushing = "idle"
    <3>1. /\ Len(batch) = 0 /\ Elapsed <= IntervalTicks
          /\ failures = 0 =>
               /\ Len(pending) <= WriteTicks + Elapsed
               /\ Len(pending) <= BatchSize \/ Len(pending) <= WriteTicks
          /\ failures # 0 => Len(pending) + IntervalTicks <= Taken + Backlog(failures) + Elapsed
      BY <2>1 DEF PacingInv, Waiting
    <3> HIDE DEF Elapsed
    <3> QED BY <1>2, <3>1, TakenIs, Parameters
  <2>2. CASE flushing # "idle"
    <3>1. /\ Elapsed <= WriteTicks /\ Len(pending) <= Elapsed
          /\ Len(batch) <= Taken + Backlog(failures)
      BY <2>2 DEF PacingInv, Flushing
    <3> HIDE DEF Elapsed
    <3> QED BY <1>2, <3>1, Parameters
  <2> QED BY <2>1, <2>2
<1>5. AtRisk <= Taken + WriteTicks + Backlog(failures)
  BY <1>2, <1>3, <1>4, Parameters
<1> QED BY <1>5 DEF Exposure, Backlog

(* What a kill loses is bounded by the earlier trigger, one write, and for   *)
(* every write that failed one more interval and one more write              *)
(* (buffer.py:71-81, 91-99), where docs/ARCHITECTURE.md names a batch.       *)
THEOREM PacingExposure == Spec => []Exposure
BY InvExposure, PacingInvariant, PTL
=============================================================================
