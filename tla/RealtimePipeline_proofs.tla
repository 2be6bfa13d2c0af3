----------------------- MODULE RealtimePipeline_proofs -----------------------
(***************************************************************************)
(* The buffer implements ReadingLog, so it loses nothing and keeps the order, *)
(* and a reading is written twice only when in doubt.  The pipeline drives    *)
(* the buffer as RealtimeBuffer allows, so it inherits all of that; and its   *)
(* shutdown leaves nothing behind but after a failed final write.            *)
(***************************************************************************)
EXTENDS RealtimePipeline, SharedFacts

-----------------------------------------------------------------------------
(* The log: it loses nothing and keeps the order by its steps alone.  Its     *)
(* queue is what the buffer has not written, its log the table.              *)

(* The copies of ToSet that come with the instances.                         *)
LEMMA SameToSet ==
  /\ \A s : Buffer!ToSet(s) = ToSet(s)
  /\ \A s : Buffer!Log!ToSet(s) = ToSet(s)
BY DEF ToSet, Buffer!ToSet, Buffer!Log!ToSet

(* Order under the three ways a sequence changes.                            *)

LEMMA IncreasingAppend ==
  ASSUME NEW s \in Seq(Nat), NEW e \in Nat, Buffer!Log!Increasing(s),
         \A x \in ToSet(s) : x < e
  PROVE  Buffer!Log!Increasing(Append(s, e))
<1> DEFINE t == Append(s, e)
<1>1. /\ t \in Seq(Nat) /\ Len(s) \in Nat /\ Len(t) = Len(s) + 1
      /\ \A i \in 1 .. Len(s) : t[i] = s[i]
      /\ t[Len(s) + 1] = e
  BY AppendProperties, LenProperties
<1>2. DOMAIN t = 1 .. Len(s) + 1 /\ DOMAIN s = 1 .. Len(s)
  BY <1>1, LenProperties
<1> HIDE DEF t
<1>3. ASSUME NEW i \in 1 .. Len(s) + 1, NEW j \in 1 .. Len(s) + 1, i < j
      PROVE  t[i] < t[j]
  <2>1. i \in 1 .. Len(s)
    BY <1>1, <1>3
  <2>2. CASE j \in 1 .. Len(s)
    BY <1>1, <1>2, <1>3, <2>1, <2>2 DEF Buffer!Log!Increasing
  <2>3. CASE j = Len(s) + 1
    <3>1. s[i] \in ToSet(s)
      BY <2>1, InToSet
    <3> QED BY <1>1, <2>1, <2>3, <3>1
  <2> QED BY <1>1, <2>2, <2>3
<1> QED BY <1>2, <1>3 DEF Buffer!Log!Increasing, t

LEMMA IncreasingSplit ==
  ASSUME NEW s \in Seq(Nat), NEW n \in 1 .. Len(s), Buffer!Log!Increasing(s)
  PROVE  /\ Buffer!Log!Increasing(SubSeq(s, 1, n))
         /\ Buffer!Log!Increasing(SubSeq(s, n + 1, Len(s)))
         /\ \A x \in ToSet(SubSeq(s, 1, n)) :
              \A y \in ToSet(SubSeq(s, n + 1, Len(s))) : x < y
<1> DEFINE a == SubSeq(s, 1, n)
           b == SubSeq(s, n + 1, Len(s))
<1>1. /\ a \in Seq(Nat) /\ Len(a) = n /\ \A i \in 1 .. n : a[i] = s[i]
      /\ b \in Seq(Nat) /\ Len(b) = Len(s) - n
      /\ \A i \in 1 .. Len(s) - n : b[i] = s[n + i]
  BY Split
<1>2. Len(s) \in Nat /\ DOMAIN s = 1 .. Len(s)
  BY LenProperties
<1> HIDE DEF a, b
<1>3. DOMAIN a = 1 .. n /\ DOMAIN b = 1 .. Len(s) - n
  BY <1>1, LenProperties
<1>4. \A i, j \in 1 .. Len(s) : i < j => s[i] < s[j]
  BY <1>2 DEF Buffer!Log!Increasing
<1>5. Buffer!Log!Increasing(a)
  <2>1. ASSUME NEW i \in 1 .. n, NEW j \in 1 .. n, i < j PROVE a[i] < a[j]
    <3>1. i \in 1 .. Len(s) /\ j \in 1 .. Len(s)
      BY <1>2
    <3> QED BY <1>4, <1>1, <2>1, <3>1
  <2> QED BY <1>3, <2>1 DEF Buffer!Log!Increasing
<1>6. Buffer!Log!Increasing(b)
  <2>1. ASSUME NEW i \in 1 .. Len(s) - n, NEW j \in 1 .. Len(s) - n, i < j
        PROVE  b[i] < b[j]
    <3>1. n + i \in 1 .. Len(s) /\ n + j \in 1 .. Len(s) /\ n + i < n + j
      BY <1>2, <2>1
    <3> QED BY <1>4, <1>1, <3>1
  <2> QED BY <1>3, <2>1 DEF Buffer!Log!Increasing
<1>7. ASSUME NEW x \in ToSet(a), NEW y \in ToSet(b) PROVE x < y
  <2>1. PICK i \in 1 .. n : a[i] = x
    BY <1>1, InToSet
  <2>2. PICK j \in 1 .. Len(s) - n : b[j] = y
    BY <1>1, InToSet
  <2>3. i \in 1 .. Len(s) /\ n + j \in 1 .. Len(s) /\ i < n + j
    BY <1>2
  <2> QED BY <1>4, <1>1, <2>1, <2>2, <2>3
<1> QED BY <1>5, <1>6, <1>7 DEF a, b

(* Appending a run of readings to the log keeps the first rows in order if    *)
(* those that are new to the log are later than all it holds.                *)
LEMMA FirstRowsConcat ==
  ASSUME NEW s \in Seq(Nat), NEW t \in Seq(Nat),
         Buffer!Log!FirstRowsInOrder(s), Buffer!Log!Increasing(t),
         \A x \in ToSet(t) \ ToSet(s) : \A y \in ToSet(s) : y < x
  PROVE  Buffer!Log!FirstRowsInOrder(s \o t)
<1> DEFINE u == s \o t
<1>1. /\ u \in Seq(Nat) /\ Len(s) \in Nat /\ Len(t) \in Nat
      /\ Len(u) = Len(s) + Len(t)
      /\ \A i \in 1 .. Len(s) : u[i] = s[i]
      /\ \A i \in 1 .. Len(u) : ~(i <= Len(s)) => u[i] = t[i - Len(s)]
  BY ConcatProperties, LenProperties
<1> HIDE DEF u
<1>2. /\ DOMAIN u = 1 .. Len(u) /\ DOMAIN s = 1 .. Len(s) /\ DOMAIN t = 1 .. Len(t)
      /\ \A i \in 1 .. Len(s) : s[i] \in Nat
      /\ \A i \in 1 .. Len(t) : t[i] \in Nat
  BY <1>1, LenProperties, ElementOfSeq
<1>3. /\ \A k \in 1 .. Len(s) : s[k] \in ToSet(s)
      /\ \A k \in 1 .. Len(t) : t[k] \in ToSet(t)
      /\ \A x \in ToSet(s) : \E k \in 1 .. Len(s) : s[k] = x
  BY InToSet
<1>4. \A k, l \in 1 .. Len(s) :
         k < l /\ s[l] < s[k] => \E m \in 1 .. k : s[m] = s[l]
  BY <1>2 DEF Buffer!Log!FirstRowsInOrder
<1>5. \A k, l \in 1 .. Len(t) : k < l => t[k] < t[l]
  BY <1>2 DEF Buffer!Log!Increasing
<1>6. ASSUME NEW i \in 1 .. Len(u), NEW j \in 1 .. Len(u), i < j, u[j] < u[i]
      PROVE  \E m \in 1 .. i : u[m] = u[j]
  <2>1. CASE j <= Len(s)
    <3>1. i \in 1 .. Len(s) /\ j \in 1 .. Len(s) /\ u[i] = s[i] /\ u[j] = s[j]
      BY <1>1, <1>6, <2>1
    <3>2. PICK m \in 1 .. i : s[m] = s[j]
      BY <1>4, <1>6, <3>1
    <3>3. u[m] = s[m]
      BY <1>1, <3>1, <3>2
    <3> QED BY <3>1, <3>2, <3>3
  <2>2. CASE ~(i <= Len(s))
    <3>1. /\ i - Len(s) \in 1 .. Len(t) /\ j - Len(s) \in 1 .. Len(t)
          /\ i - Len(s) < j - Len(s)
      BY <1>1, <1>6, <2>2
    <3>2. t[i - Len(s)] < t[j - Len(s)]
      BY <1>5, <3>1
    <3>3. u[i] = t[i - Len(s)] /\ u[j] = t[j - Len(s)]
      BY <1>1, <1>6, <2>2
    <3> QED BY <1>2, <1>6, <3>1, <3>2, <3>3
  <2>3. CASE i <= Len(s) /\ ~(j <= Len(s))
    <3>1. /\ i \in 1 .. Len(s) /\ u[i] = s[i]
          /\ j - Len(s) \in 1 .. Len(t) /\ u[j] = t[j - Len(s)]
      BY <1>1, <1>6, <2>3
    <3>2. u[j] \in ToSet(t) /\ u[i] \in ToSet(s) /\ u[j] \in Nat /\ u[i] \in Nat
      BY <1>2, <1>3, <3>1
    <3>3. u[j] \in ToSet(s)
      BY <1>6, <3>2
    <3>4. PICK k \in 1 .. Len(s) : s[k] = u[j]
      BY <1>3, <3>3
    <3>5. CASE k <= i
      <4>1. u[k] = s[k] /\ k \in 1 .. i
        BY <1>1, <3>4, <3>5
      <4> QED BY <3>4, <4>1
    <3>6. CASE ~(k <= i)
      <4>1. i < k /\ s[k] < s[i]
        BY <1>6, <3>1, <3>4, <3>6
      <4>2. PICK m \in 1 .. i : s[m] = s[k]
        BY <1>4, <3>1, <4>1
      <4>3. u[m] = s[m]
        BY <1>1, <3>1, <4>2
      <4> QED BY <3>4, <4>2, <4>3
    <3> QED BY <3>5, <3>6
  <2> QED BY <1>1, <2>1, <2>2, <2>3
<1> QED BY <1>2, <1>6 DEF Buffer!Log!FirstRowsInOrder, u

-----------------------------------------------------------------------------
(* What is queued and not in the log is later than everything in the log.    *)
Ahead == \A x \in ToSet(Buffer!Unwritten) \ ToSet(table) : \A y \in ToSet(table) : y < x

(* NothingLost and InOrder are not inductive alone: a write keeps the first   *)
(* rows in order only because what is new to the log is Ahead of it.         *)
LogInv == Buffer!Log!TypeOK /\ Buffer!Log!NothingLost /\ Buffer!Log!InOrder /\ Ahead

LEMMA InitLogInv == Buffer!Log!Init => LogInv
BY EmptyToSet, SameToSet
   DEF Buffer!Log!Init, LogInv, Buffer!Log!TypeOK, Buffer!Log!NothingLost, Buffer!Log!InOrder,
       Ahead, Buffer!Log!Increasing, Buffer!Log!FirstRowsInOrder

LEMMA AcceptLogInv ==
  ASSUME LogInv, NEW r \in Buffer!Log!Reading, Buffer!Log!Accept(r)
  PROVE  LogInv'
<1>1. /\ Buffer!Unwritten \in Seq(Nat) /\ Buffer!Unwritten \in Seq(Buffer!Log!Reading)
      /\ r \in Nat
      /\ accepted \in SUBSET Buffer!Log!Reading /\ table \in Seq(Buffer!Log!Reading)
  BY SeqMonotonic, BoundsAssumption, Buffer!Log!Reading \subseteq Nat
     DEF LogInv, Buffer!Log!TypeOK, Buffer!Log!Reading
<1>2. ToSet(Buffer!Unwritten') = ToSet(Buffer!Unwritten) \cup {r}
  BY <1>1, ToSetAppend DEF Buffer!Log!Accept
<1>3. \A x \in ToSet(Buffer!Unwritten) \cup ToSet(table) : x < r
  BY SameToSet DEF Buffer!Log!Accept, LogInv, Buffer!Log!NothingLost
<1>4. Buffer!Log!TypeOK'
  BY <1>1, AppendProperties DEF Buffer!Log!Accept, LogInv, Buffer!Log!TypeOK
<1>5. Buffer!Log!NothingLost'
  BY <1>2, SameToSet DEF Buffer!Log!Accept, LogInv, Buffer!Log!NothingLost
<1>6. Buffer!Log!InOrder'
  BY <1>1, <1>3, IncreasingAppend DEF Buffer!Log!Accept, LogInv, Buffer!Log!InOrder
<1>7. Ahead'
  BY <1>2, <1>3 DEF Buffer!Log!Accept, LogInv, Ahead
<1> QED BY <1>4, <1>5, <1>6, <1>7 DEF LogInv

LEMMA WriteLogInv ==
  ASSUME LogInv, Buffer!Log!Write
  PROVE  LogInv'
<1>1. /\ Buffer!Unwritten \in Seq(Nat) /\ Buffer!Unwritten \in Seq(Buffer!Log!Reading)
      /\ table \in Seq(Nat) /\ table \in Seq(Buffer!Log!Reading)
      /\ Buffer!Log!Increasing(Buffer!Unwritten) /\ Buffer!Log!FirstRowsInOrder(table)
  BY SeqMonotonic, BoundsAssumption, Buffer!Log!Reading \subseteq Nat
     DEF LogInv, Buffer!Log!TypeOK, Buffer!Log!Reading, Buffer!Log!InOrder
<1>2. PICK n \in 1 .. Len(Buffer!Unwritten) : table' = table \o SubSeq(Buffer!Unwritten, 1, n)
  BY DEF Buffer!Log!Write
<1> DEFINE a == SubSeq(Buffer!Unwritten, 1, n)
           b == SubSeq(Buffer!Unwritten, n + 1, Len(Buffer!Unwritten))
<1>3. a \in Seq(Buffer!Log!Reading) /\ ToSet(Buffer!Unwritten) = ToSet(a) \cup ToSet(b)
  BY <1>1, Split
<1>4. a \in Seq(Nat)
  BY <1>1, Split
<1>5. Buffer!Log!Increasing(a) /\ \A x \in ToSet(a) : \A y \in ToSet(b) : x < y
  BY <1>1, IncreasingSplit
<1> HIDE DEF a, b
<1>6. table' = table \o a
  BY <1>2 DEF a
<1>7. ToSet(table') = ToSet(table) \cup ToSet(a)
  BY <1>1, <1>3, <1>6, ToSetConcat
<1>8. Buffer!Log!TypeOK'
  BY <1>1, <1>3, <1>6, ConcatProperties DEF Buffer!Log!Write, LogInv, Buffer!Log!TypeOK
<1>9. Buffer!Log!NothingLost'
  BY <1>3, <1>7, SameToSet DEF Buffer!Log!Write, LogInv, Buffer!Log!NothingLost
<1>10. Buffer!Log!InOrder'
  <2>1. \A x \in ToSet(a) \ ToSet(table) : \A y \in ToSet(table) : y < x
    BY <1>3 DEF LogInv, Ahead
  <2>2. Buffer!Log!FirstRowsInOrder(table \o a)
    BY <1>1, <1>4, <1>5, <2>1, FirstRowsConcat
  <2> QED BY <1>6, <2>2 DEF Buffer!Log!Write, LogInv, Buffer!Log!InOrder
<1>11. Ahead'
  BY <1>3, <1>5, <1>7 DEF Buffer!Log!Write, LogInv, Ahead
<1> QED BY <1>8, <1>9, <1>10, <1>11 DEF LogInv

LEMMA ConfirmLogInv ==
  ASSUME LogInv, Buffer!Log!Confirm
  PROVE  LogInv'
<1>1. /\ Buffer!Unwritten \in Seq(Nat) /\ Buffer!Unwritten \in Seq(Buffer!Log!Reading)
      /\ Buffer!Log!Increasing(Buffer!Unwritten)
  BY SeqMonotonic, BoundsAssumption, Buffer!Log!Reading \subseteq Nat
     DEF LogInv, Buffer!Log!TypeOK, Buffer!Log!Reading, Buffer!Log!InOrder
<1>2. PICK n \in 1 .. Len(Buffer!Unwritten) :
        /\ ToSet(SubSeq(Buffer!Unwritten, 1, n)) \subseteq ToSet(table)
        /\ Buffer!Unwritten' = SubSeq(Buffer!Unwritten, n + 1, Len(Buffer!Unwritten))
  BY SameToSet DEF Buffer!Log!Confirm
<1>3. ToSet(Buffer!Unwritten) = ToSet(SubSeq(Buffer!Unwritten, 1, n)) \cup ToSet(Buffer!Unwritten')
  BY <1>1, <1>2, Split
<1>4. Buffer!Unwritten' \in Seq(Buffer!Log!Reading)
  BY <1>1, <1>2, Split
<1>5. Buffer!Log!Increasing(Buffer!Unwritten')
  BY <1>1, <1>2, IncreasingSplit
<1>6. Buffer!Log!TypeOK'
  BY <1>4 DEF Buffer!Log!Confirm, LogInv, Buffer!Log!TypeOK
<1>7. Buffer!Log!NothingLost'
  BY <1>2, <1>3, SameToSet DEF Buffer!Log!Confirm, LogInv, Buffer!Log!NothingLost
<1>8. Buffer!Log!InOrder'
  BY <1>5 DEF Buffer!Log!Confirm, LogInv, Buffer!Log!InOrder
<1>9. Ahead'
  BY <1>3 DEF Buffer!Log!Confirm, LogInv, Ahead
<1> QED BY <1>6, <1>7, <1>8, <1>9 DEF LogInv

LEMMA LoseLogInv ==
  ASSUME LogInv, Buffer!Log!Lose
  PROVE  LogInv'
<1>1. ToSet(Buffer!Unwritten') = {}
  BY EmptyToSet DEF Buffer!Log!Lose
<1>2. ToSet(Buffer!Unwritten) \subseteq Buffer!Log!Reading
  BY InToSet DEF LogInv, Buffer!Log!TypeOK
<1>3. Buffer!Log!TypeOK'
  BY <1>2, SameToSet DEF Buffer!Log!Lose, LogInv, Buffer!Log!TypeOK
<1>4. Buffer!Log!NothingLost'
  BY <1>1, SameToSet DEF Buffer!Log!Lose, LogInv, Buffer!Log!NothingLost
<1>5. Buffer!Log!InOrder'
  BY DEF Buffer!Log!Lose, LogInv, Buffer!Log!InOrder, Buffer!Log!Increasing
<1>6. Ahead'
  BY <1>1 DEF Buffer!Log!Lose, Ahead
<1> QED BY <1>3, <1>4, <1>5, <1>6 DEF LogInv

LEMMA NextLogInv ==
  ASSUME LogInv, [Buffer!Log!Next]_(Buffer!Log!vars)
  PROVE  LogInv'
<1>1. CASE \E r \in Buffer!Log!Reading : Buffer!Log!Accept(r)
  BY <1>1, AcceptLogInv
<1>2. CASE Buffer!Log!Write
  BY <1>2, WriteLogInv
<1>3. CASE Buffer!Log!Confirm
  BY <1>3, ConfirmLogInv
<1>4. CASE Buffer!Log!Lose
  BY <1>4, LoseLogInv
<1>5. CASE UNCHANGED Buffer!Log!vars
  BY <1>5 DEF Buffer!Log!vars, LogInv, Buffer!Log!TypeOK, Buffer!Log!NothingLost,
              Buffer!Log!InOrder, Ahead
<1> QED BY <1>1, <1>2, <1>3, <1>4, <1>5 DEF Buffer!Log!Next

(* The log keeps its promise for any number of readings.                     *)
THEOREM LogCorrect ==
  Buffer!Log!Spec => [](Buffer!Log!TypeOK /\ Buffer!Log!NothingLost /\ Buffer!Log!InOrder)
<1>1. LogInv => Buffer!Log!TypeOK /\ Buffer!Log!NothingLost /\ Buffer!Log!InOrder
  BY DEF LogInv
<1>2. LogInv /\ [Buffer!Log!Next]_(Buffer!Log!vars) => LogInv'
  BY NextLogInv
<1> QED BY <1>1, <1>2, InitLogInv, PTL DEF Buffer!Log!Spec

-----------------------------------------------------------------------------
(* What the phases of flush() say of its batch.                              *)
Phases ==
  /\ flushing = "idle" <=> batch = <<>>
  /\ flushing \in {"applied", "closing"} => ToSet(batch) \subseteq ToSet(table)

BufferInv == Buffer!TypeOK /\ Phases

LEMMA RestoreTyping ==
  ASSUME BufferInv, Buffer!Restore
  PROVE  /\ pending' \in Seq(Buffer!Reading) /\ batch' \in Seq(Buffer!Reading)
         /\ inDoubt' \subseteq Buffer!Reading
         /\ flushing' = "idle" /\ batch' = <<>>
<1>1. ToSet(batch) \subseteq Buffer!Reading
  BY InToSet DEF BufferInv, Buffer!TypeOK
<1> QED BY <1>1, ConcatProperties, SameToSet DEF Buffer!Restore, BufferInv, Buffer!TypeOK

LEMMA Typing == BufferInv /\ [Buffer!Next]_(Buffer!vars) => BufferInv'
<1> SUFFICES ASSUME BufferInv, [Buffer!Next]_(Buffer!vars) PROVE BufferInv'
  OBVIOUS
<1> USE DEF BufferInv, Buffer!TypeOK, Phases
<1>1. CASE Buffer!AddNext
  BY <1>1, AppendProperties DEF Buffer!AddNext, Buffer!Add
<1>2. CASE Buffer!FlushTake
  BY <1>2 DEF Buffer!FlushTake
<1>3. CASE Buffer!Apply
  <2>1. table' \in Seq(Buffer!Reading) /\ ToSet(table') = ToSet(table) \cup ToSet(batch)
    BY <1>3, ConcatProperties, ToSetConcat DEF Buffer!Apply
  <2> QED BY <1>3, <2>1 DEF Buffer!Apply
<1>4. CASE Buffer!Acknowledge
  BY <1>4 DEF Buffer!Acknowledge
<1>5. CASE Buffer!Return
  BY <1>5 DEF Buffer!Return
<1>6. CASE Buffer!WriteFails
  BY <1>6, RestoreTyping DEF Buffer!WriteFails
<1>7. CASE Buffer!Cancelled
  BY <1>7, RestoreTyping DEF Buffer!Cancelled
<1>8. CASE Buffer!Discard
  <2>1. ToSet(Buffer!Unwritten) \subseteq Buffer!Reading
    <3>1. Buffer!Unwritten \in Seq(Buffer!Reading)
      BY ConcatProperties DEF Buffer!Unwritten
    <3> QED BY <3>1, InToSet
  <2>2. <<>> \in Seq(Buffer!Reading)
    BY EmptySeq
  <2> QED BY <1>8, <2>1, <2>2, SameToSet DEF Buffer!Discard
<1>9. CASE UNCHANGED Buffer!vars
  BY <1>9 DEF Buffer!vars
<1> QED BY <1>1, <1>2, <1>3, <1>4, <1>5, <1>6, <1>7, <1>8, <1>9 DEF Buffer!Next

LEMMA InitTyping == Buffer!Init => BufferInv
BY EmptySeq DEF Buffer!Init, BufferInv, Buffer!TypeOK, Phases

(* The buffer's variables keep their types, for every batch size.            *)
THEOREM BufferTypeOK == Buffer!Spec => []Buffer!TypeOK
<1>1. BufferInv => Buffer!TypeOK
  BY DEF BufferInv
<1> QED BY <1>1, InitTyping, Typing, PTL DEF Buffer!Spec

-----------------------------------------------------------------------------
(* Refinement: what each step does to the queue and the log.                 *)

LEMMA TakenAndPending ==
  ASSUME BufferInv
  PROVE  /\ Buffer!Unwritten \in Seq(Buffer!Reading)
         /\ Len(batch) \in Nat /\ Len(pending) \in Nat
         /\ Len(Buffer!Unwritten) = Len(batch) + Len(pending)
         /\ SubSeq(Buffer!Unwritten, 1, Len(batch)) = batch
         /\ SubSeq(Buffer!Unwritten, Len(batch) + 1, Len(Buffer!Unwritten)) = pending
         /\ batch # <<>> => Len(batch) \in 1 .. Len(Buffer!Unwritten)
<1>1. /\ Buffer!Unwritten \in Seq(Buffer!Reading)
      /\ Len(Buffer!Unwritten) = Len(batch) + Len(pending)
      /\ Len(batch) \in Nat /\ Len(pending) \in Nat
  BY ConcatProperties, LenProperties DEF BufferInv, Buffer!TypeOK, Buffer!Unwritten
<1> DEFINE a == SubSeq(Buffer!Unwritten, 1, Len(batch))
           b == SubSeq(Buffer!Unwritten, Len(batch) + 1, Len(Buffer!Unwritten))
<1>2. /\ \A i \in 1 .. Len(Buffer!Unwritten) : Buffer!Unwritten[i] \in Buffer!Reading
      /\ \A i \in 1 .. Len(batch) : Buffer!Unwritten[i] = batch[i]
      /\ \A i \in 1 .. Len(pending) : Buffer!Unwritten[Len(batch) + i] = pending[i]
  BY <1>1, ElementOfSeq, ConcatProperties DEF BufferInv, Buffer!TypeOK, Buffer!Unwritten
<1>3. /\ a \in Seq(Buffer!Reading) /\ Len(a) = Len(batch)
      /\ \A i \in 1 .. Len(batch) : a[i] = batch[i]
  BY <1>1, <1>2, SubSeqProperties, SMT
<1>4. /\ b \in Seq(Buffer!Reading) /\ Len(b) = Len(pending)
      /\ \A i \in 1 .. Len(pending) : b[i] = pending[i]
  BY <1>1, <1>2, SubSeqProperties, SMT
<1> HIDE DEF a, b
<1>5. a = batch
  BY <1>1, <1>3, SeqEqual DEF BufferInv, Buffer!TypeOK
<1>6. b = pending
  BY <1>1, <1>4, SeqEqual DEF BufferInv, Buffer!TypeOK
<1>7. batch # <<>> => Len(batch) >= 1
  BY <1>1, EmptySeq DEF BufferInv, Buffer!TypeOK
<1> QED BY <1>1, <1>5, <1>6, <1>7 DEF a, b

LEMMA RestoreKeepsQueue ==
  ASSUME BufferInv, Buffer!Restore
  PROVE  Buffer!Unwritten' = Buffer!Unwritten
<1>1. Buffer!Unwritten \in Seq(Buffer!Reading) /\ Buffer!Unwritten' = <<>> \o Buffer!Unwritten
  BY TakenAndPending DEF Buffer!Restore, Buffer!Unwritten
<1> QED BY <1>1, ConcatEmptySeq

LEMMA StepImplementsLog ==
  BufferInv /\ [Buffer!Next]_(Buffer!vars) => [Buffer!Log!Next]_(Buffer!Log!vars)
<1> SUFFICES ASSUME BufferInv, [Buffer!Next]_(Buffer!vars) PROVE [Buffer!Log!Next]_(Buffer!Log!vars)
  OBVIOUS
<1>0. batch \in Seq(Buffer!Reading) /\ pending \in Seq(Buffer!Reading)
  BY DEF BufferInv, Buffer!TypeOK
<1>1. ASSUME NEW r \in Buffer!Reading, \A a \in accepted : a < r, Buffer!Add(r)
      PROVE  Buffer!Log!Accept(r)
  <2>1. Buffer!Unwritten' = batch \o Append(pending, r)
    BY <1>1 DEF Buffer!Add, Buffer!Unwritten
  <2>2. batch \o Append(pending, r) = Append(batch \o pending, r)
    <3>1. /\ <<r>> \in Seq(Buffer!Reading)
          /\ Append(pending, r) = pending \o <<r>>
          /\ Append(batch \o pending, r) = (batch \o pending) \o <<r>>
      BY <1>0, AppendIsConcat, ConcatProperties
    <3> QED BY <1>0, <3>1, ConcatAssociative
  <2> QED BY <1>1, <2>1, <2>2 DEF Buffer!Add, Buffer!Log!Accept, Buffer!Unwritten
<1>2. CASE Buffer!FlushTake
  <2>1. batch = <<>>
    BY <1>2 DEF Buffer!FlushTake, BufferInv, Phases
  <2>2. Buffer!Unwritten' = pending /\ Buffer!Unwritten = pending
    BY <1>0, <1>2, <2>1, ConcatEmptySeq DEF Buffer!FlushTake, Buffer!Unwritten
  <2> QED BY <1>2, <2>2 DEF Buffer!FlushTake, Buffer!Log!vars
<1>3. CASE Buffer!Apply
  <2>1. batch # <<>>
    BY <1>3 DEF Buffer!Apply, BufferInv, Phases
  <2>2. Buffer!Unwritten' = Buffer!Unwritten
    BY <1>3 DEF Buffer!Apply, Buffer!Unwritten
  <2>3. /\ Len(batch) \in 1 .. Len(Buffer!Unwritten)
        /\ table' = table \o SubSeq(Buffer!Unwritten, 1, Len(batch))
    BY <1>3, <2>1, TakenAndPending DEF Buffer!Apply
  <2> QED BY <1>3, <2>2, <2>3 DEF Buffer!Apply, Buffer!Log!Next, Buffer!Log!Write
<1>4. CASE Buffer!Acknowledge
  BY <1>4 DEF Buffer!Acknowledge, Buffer!Log!vars, Buffer!Unwritten
<1>5. CASE Buffer!Return
  <2>1. batch # <<>> /\ ToSet(batch) \subseteq ToSet(table)
    BY <1>5 DEF Buffer!Return, BufferInv, Phases
  <2>2. Buffer!Unwritten' = pending
    BY <1>0, <1>5, ConcatEmptySeq DEF Buffer!Return, Buffer!Unwritten
  <2>3. /\ Len(batch) \in 1 .. Len(Buffer!Unwritten)
        /\ ToSet(SubSeq(Buffer!Unwritten, 1, Len(batch))) \subseteq ToSet(table)
        /\ Buffer!Unwritten' = SubSeq(Buffer!Unwritten, Len(batch) + 1, Len(Buffer!Unwritten))
    BY <2>1, <2>2, TakenAndPending
  <2> QED BY <1>5, <2>3, SameToSet DEF Buffer!Return, Buffer!Log!Next, Buffer!Log!Confirm
<1>6. CASE Buffer!WriteFails
  BY <1>6, RestoreKeepsQueue DEF Buffer!WriteFails, Buffer!Log!vars
<1>7. CASE Buffer!Cancelled
  BY <1>7, RestoreKeepsQueue DEF Buffer!Cancelled, Buffer!Log!vars
<1>8. CASE Buffer!Discard
  <2>1. Buffer!Unwritten' = <<>>
    BY <1>8, ConcatEmptySeq DEF Buffer!Discard, Buffer!Unwritten
  <2> QED BY <1>8, <2>1, SameToSet DEF Buffer!Discard, Buffer!Log!Next, Buffer!Log!Lose
<1>9. CASE UNCHANGED Buffer!vars
  BY <1>9 DEF Buffer!vars, Buffer!Log!vars, Buffer!Unwritten
<1> QED BY <1>1, <1>2, <1>3, <1>4, <1>5, <1>6, <1>7, <1>8, <1>9
        DEF Buffer!Next, Buffer!AddNext, Buffer!Log!Next, Buffer!Reading, Buffer!Log!Reading

LEMMA InitImplementsLog == Buffer!Init => Buffer!Log!Init
BY ConcatEmptySeq DEF Buffer!Init, Buffer!Log!Init, Buffer!Unwritten

(* flush() and add() together are an at-least-once ordered log.              *)
THEOREM BufferImplementsLog == Buffer!Spec => Buffer!ImplementsLog
BY InitTyping, Typing, InitImplementsLog, StepImplementsLog, PTL
   DEF Buffer!Spec, Buffer!ImplementsLog, Buffer!Log!Spec

-----------------------------------------------------------------------------
(* The invariant of the log, through the refinement.                         *)

LEMMA BufferLogInv ==
  /\ Buffer!Init => LogInv
  /\ BufferInv /\ LogInv /\ [Buffer!Next]_(Buffer!vars) => LogInv'
BY InitImplementsLog, InitLogInv, StepImplementsLog, NextLogInv

LEMMA LogInvImplies == LogInv => Buffer!NothingLost /\ Buffer!InOrder
BY DEF LogInv, Buffer!NothingLost, Buffer!InOrder

(* flush() loses no reading and the order survives every failure and every   *)
(* cancellation, for every batch size and number of readings.                *)
THEOREM BufferKeepsReadings == Buffer!Spec => [](Buffer!NothingLost /\ Buffer!InOrder)
BY InitTyping, Typing, BufferLogInv, LogInvImplies, PTL DEF Buffer!Spec

-----------------------------------------------------------------------------
(* A second row needs a doubt.  Inductive with: what is still to be written  *)
(* and yet in the table is in doubt.                                         *)
Doubts ==
  /\ Buffer!SecondRowOnlyInDoubt
  /\ ToSet(pending) \cap ToSet(table) \subseteq inDoubt
  /\ flushing = "writing" => ToSet(batch) \cap ToSet(table) \subseteq inDoubt

LEMMA BatchBeforePending ==
  ASSUME BufferInv, LogInv
  PROVE  /\ \A i, j \in 1 .. Len(batch) : batch[i] = batch[j] => i = j
         /\ ToSet(batch) \cap ToSet(pending) = {}
<1>1. batch \in Seq(Nat) /\ pending \in Seq(Nat) /\ Buffer!Unwritten \in Seq(Nat)
  BY BoundsAssumption, SeqMonotonic, TakenAndPending, Buffer!Reading \subseteq Nat
     DEF BufferInv, Buffer!TypeOK, Buffer!Reading
<1>2. CASE batch = <<>>
  BY <1>2, EmptyToSet
<1>3. CASE batch # <<>>
  <2>1. Buffer!Log!Increasing(Buffer!Unwritten)
    BY DEF LogInv, Buffer!Log!InOrder
  <2>2. Len(batch) \in 1 .. Len(Buffer!Unwritten)
    BY <1>3, TakenAndPending
  <2>3. /\ Buffer!Log!Increasing(batch)
        /\ \A x \in ToSet(batch) : \A y \in ToSet(pending) : x < y
    BY <1>1, <2>1, <2>2, TakenAndPending, BoundsAssumption,
       IncreasingSplit
  <2>4. ToSet(batch) \cap ToSet(pending) = {}
    <3>1. ToSet(batch) \subseteq Nat
      BY <1>1, InToSet
    <3> QED BY <2>3, <3>1
  <2>5. ASSUME NEW i \in 1 .. Len(batch), NEW j \in 1 .. Len(batch),
               batch[i] = batch[j]
        PROVE  i = j
    <3>1. \A k, l \in 1 .. Len(batch) : k < l => batch[k] < batch[l]
      BY <1>1, <2>3, LenProperties DEF Buffer!Log!Increasing
    <3>2. \A k \in 1 .. Len(batch) : batch[k] \in Nat
      BY <1>1, ElementOfSeq
    <3>3. Len(batch) \in Nat
      BY <1>1, LenProperties
    <3> QED BY <2>5, <3>1, <3>2, <3>3
  <2> QED BY <2>4, <2>5
<1> QED BY <1>2, <1>3

LEMMA ApplyDoubts ==
  ASSUME BufferInv, LogInv, Doubts, Buffer!Apply
  PROVE  Doubts'
<1>1. /\ table \in Seq(Buffer!Reading) /\ batch \in Seq(Buffer!Reading)
      /\ table' = table \o batch /\ flushing = "writing"
      /\ pending' = pending /\ inDoubt' = inDoubt /\ flushing' = "applied"
  BY DEF BufferInv, Buffer!TypeOK, Buffer!Apply
<1>2. ToSet(table') = ToSet(table) \cup ToSet(batch)
  BY <1>1, ToSetConcat
<1>3. /\ Len(table) \in Nat /\ Len(batch) \in Nat
      /\ table' \in Seq(Buffer!Reading)
      /\ Len(table') = Len(table) + Len(batch)
      /\ \A i \in 1 .. Len(table) : table'[i] = table[i]
      /\ \A i \in 1 .. Len(table') :
           ~(i <= Len(table)) => table'[i] = batch[i - Len(table)]
  BY <1>1, ConcatProperties, LenProperties
<1>4. /\ DOMAIN table = 1 .. Len(table) /\ DOMAIN table' = 1 .. Len(table')
  BY <1>1, <1>3, LenProperties
<1>5. /\ \A i \in 1 .. Len(table) : table[i] \in ToSet(table)
      /\ \A i \in 1 .. Len(batch) : batch[i] \in ToSet(batch)
  BY <1>1, InToSet
<1>6. ASSUME NEW i \in 1 .. Len(table'), NEW j \in 1 .. Len(table'),
             i < j, table'[i] = table'[j]
      PROVE  table'[i] \in inDoubt
  <2>1. CASE j <= Len(table)
    <3>1. /\ i \in 1 .. Len(table) /\ j \in 1 .. Len(table) /\ i # j
          /\ table[i] = table[j] /\ table'[i] = table[i]
      BY <1>3, <1>6, <2>1
    <3> QED BY <1>4, <3>1 DEF Doubts, Buffer!SecondRowOnlyInDoubt
  <2>2. CASE i <= Len(table) /\ ~(j <= Len(table))
    <3>1. /\ i \in 1 .. Len(table) /\ table'[i] = table[i]
          /\ j - Len(table) \in 1 .. Len(batch)
          /\ table'[j] = batch[j - Len(table)]
      BY <1>3, <1>6, <2>2
    <3>2. table'[i] \in ToSet(table) /\ table'[i] \in ToSet(batch)
      BY <1>5, <1>6, <3>1
    <3> QED BY <1>1, <3>2 DEF Doubts
  <2>3. CASE ~(i <= Len(table))
    <3>1. /\ i - Len(table) \in 1 .. Len(batch)
          /\ j - Len(table) \in 1 .. Len(batch)
          /\ batch[i - Len(table)] = batch[j - Len(table)]
          /\ i - Len(table) # j - Len(table)
      BY <1>3, <1>6, <2>3
    <3> QED BY <3>1, BatchBeforePending
  <2> QED BY <1>3, <2>1, <2>2, <2>3
<1>7. Buffer!SecondRowOnlyInDoubt'
  <2>1. ASSUME NEW i \in DOMAIN table', NEW j \in DOMAIN table',
               i # j, table'[i] = table'[j]
        PROVE  table'[i] \in inDoubt'
    <3>1. i \in 1 .. Len(table') /\ j \in 1 .. Len(table') /\ (i < j \/ j < i)
      BY <1>3, <1>4, <2>1
    <3> QED BY <1>1, <1>6, <2>1, <3>1
  <2> QED BY <2>1 DEF Buffer!SecondRowOnlyInDoubt
<1>8. ToSet(pending') \cap ToSet(table') \subseteq inDoubt'
  BY <1>1, <1>2, BatchBeforePending DEF Doubts
<1> QED BY <1>1, <1>7, <1>8 DEF Doubts

LEMMA RestoreDoubts ==
  ASSUME BufferInv, Doubts, Buffer!Restore, table' = table, flushing # "idle"
  PROVE  Doubts'
<1>1. ToSet(pending') = ToSet(batch) \cup ToSet(pending)
  BY ToSetConcat DEF Buffer!Restore, BufferInv, Buffer!TypeOK
<1>2. inDoubt \subseteq inDoubt' /\ flushing' = "idle"
  BY DEF Buffer!Restore
<1>3. ToSet(batch) \cap ToSet(table) \subseteq inDoubt'
  BY SameToSet DEF Buffer!Restore, Doubts
<1>4. Buffer!SecondRowOnlyInDoubt'
  BY <1>2 DEF Doubts, Buffer!SecondRowOnlyInDoubt
<1> QED BY <1>1, <1>2, <1>3, <1>4 DEF Doubts

LEMMA StepDoubts ==
  BufferInv /\ LogInv /\ Doubts /\ [Buffer!Next]_(Buffer!vars) => Doubts'
<1> SUFFICES ASSUME BufferInv, LogInv, Doubts, [Buffer!Next]_(Buffer!vars) PROVE Doubts'
  OBVIOUS
<1>1. CASE Buffer!AddNext
  <2>1. PICK r \in Buffer!Reading : (\A a \in accepted : a < r) /\ Buffer!Add(r)
    BY <1>1 DEF Buffer!AddNext
  <2>2. ToSet(pending') = ToSet(pending) \cup {r}
    BY <2>1, ToSetAppend DEF Buffer!Add, BufferInv, Buffer!TypeOK
  <2>3. ToSet(table) \subseteq accepted
    BY SameToSet DEF LogInv, Buffer!Log!NothingLost
  <2>4. r \notin ToSet(table)
    <3>1. r \in Nat
      BY BoundsAssumption DEF Buffer!Reading
    <3> QED BY <2>1, <2>3, <3>1
  <2> QED BY <2>1, <2>2, <2>4 DEF Buffer!Add, Doubts, Buffer!SecondRowOnlyInDoubt
<1>2. CASE Buffer!FlushTake
  BY <1>2, EmptyToSet DEF Buffer!FlushTake, Doubts, Buffer!SecondRowOnlyInDoubt
<1>3. CASE Buffer!Apply
  BY <1>3, ApplyDoubts
<1>4. CASE Buffer!Acknowledge
  BY <1>4 DEF Buffer!Acknowledge, Doubts, Buffer!SecondRowOnlyInDoubt
<1>5. CASE Buffer!Return
  BY <1>5 DEF Buffer!Return, Doubts, Buffer!SecondRowOnlyInDoubt
<1>6. CASE Buffer!WriteFails
  BY <1>6, RestoreDoubts DEF Buffer!WriteFails
<1>7. CASE Buffer!Cancelled
  BY <1>7, RestoreDoubts DEF Buffer!Cancelled
<1>8. CASE Buffer!Discard
  BY <1>8, EmptyToSet DEF Buffer!Discard, Doubts, Buffer!SecondRowOnlyInDoubt
<1>9. CASE UNCHANGED Buffer!vars
  BY <1>9 DEF Buffer!vars, Doubts, Buffer!SecondRowOnlyInDoubt
<1> QED BY <1>1, <1>2, <1>3, <1>4, <1>5, <1>6, <1>7, <1>8, <1>9 DEF Buffer!Next

LEMMA InitDoubts == Buffer!Init => Doubts
BY EmptyToSet DEF Buffer!Init, Doubts, Buffer!SecondRowOnlyInDoubt

(* Without a doubtful write there is no second row, ever.                    *)
THEOREM SecondRowNeedsDoubt == Buffer!Spec => []Buffer!SecondRowOnlyInDoubt
<1>1. Doubts => Buffer!SecondRowOnlyInDoubt
  BY DEF Doubts
<1> QED BY <1>1, InitTyping, Typing, BufferLogInv, InitDoubts,
           StepDoubts, PTL DEF Buffer!Spec

(* The trigger is never set over fewer readings than it announces: what is put  *)
(* back comes on top of what has set it meanwhile.                            *)
LEMMA ReadyStep ==
  BufferInv /\ Buffer!ReadyMeansFull /\ [Buffer!Next]_(Buffer!vars) => Buffer!ReadyMeansFull'
<1> SUFFICES ASSUME BufferInv, Buffer!ReadyMeansFull, [Buffer!Next]_(Buffer!vars)
             PROVE  Buffer!ReadyMeansFull'
  OBVIOUS
<1> USE DEF Buffer!ReadyMeansFull
<1>1. CASE Buffer!AddNext
  <2>1. PICK r \in Buffer!Reading : Buffer!Add(r)
    BY <1>1 DEF Buffer!AddNext
  <2>2. Len(Append(pending, r)) = Len(pending) + 1 /\ Len(pending) \in Nat
    BY AppendProperties, LenProperties DEF BufferInv, Buffer!TypeOK
  <2>3. batchReady' <=> batchReady \/ Len(pending) + 1 >= BatchSize
    BY <2>1, <2>2 DEF Buffer!Add
  <2> QED BY <2>1, <2>2, <2>3, BatchSizeAssumption DEF Buffer!Add
<1>2. CASE Buffer!FlushTake \/ Buffer!WriteFails \/ Buffer!Discard
  BY <1>2 DEF Buffer!FlushTake, Buffer!WriteFails, Buffer!Discard
<1>3. CASE Buffer!Apply \/ Buffer!Acknowledge \/ Buffer!Return
  BY <1>3 DEF Buffer!Apply, Buffer!Acknowledge, Buffer!Return
<1>4. CASE Buffer!Cancelled
  <2>1. Len(batch \o pending) = Len(batch) + Len(pending)
          /\ Len(batch) \in Nat /\ Len(pending) \in Nat
    BY ConcatProperties, LenProperties DEF BufferInv, Buffer!TypeOK
  <2> QED BY <1>4, <2>1, BatchSizeAssumption DEF Buffer!Cancelled, Buffer!Restore
<1>5. CASE UNCHANGED Buffer!vars
  BY <1>5 DEF Buffer!vars
<1> QED BY <1>1, <1>2, <1>3, <1>4, <1>5 DEF Buffer!Next

(* The size trigger never outlives the batch it announced.                    *)
THEOREM ReadyTruthful == Buffer!Spec => []Buffer!ReadyMeansFull
<1>1. Buffer!Init => Buffer!ReadyMeansFull
  BY DEF Buffer!Init, Buffer!ReadyMeansFull
<1> QED BY <1>1, InitTyping, Typing, ReadyStep, PTL DEF Buffer!Spec

-----------------------------------------------------------------------------
(* The pipeline.                                                             *)

(* Which task runs flush(), and what a stopped task no longer does.          *)
Roles ==
  /\ flusher = "flushing" => flushing # "idle"
  /\ flushing # "idle" => flusher = "flushing" \/ lifespan = "final"
  /\ lifespan = "down" => generator = "off" /\ flusher = "off"
  /\ lifespan \in {"generatorStopped", "flusherStopped", "final", "exiting"} =>
       generator = "stopped"
  /\ lifespan \in {"flusherStopped", "final", "exiting"} => flusher = "stopped"
  /\ lifespan = "final" => pending = <<>> /\ ~retrying

(* Readings reach add() in the order they are produced.                      *)
Production ==
  /\ \A a \in accepted : a <= produced
  /\ generator = "sending" => produced > 0 /\ \A a \in accepted : a < produced

(* The size trigger is set whenever a full batch has built up since the last  *)
(* flush began.                                                             *)
Trigger ==
  /\ lifespan = "down" => pending = <<>>
  /\ flusher = "flushing" /\ Len(pending) >= BatchSize => batchReady

PipelineInv ==
  /\ TypeOK /\ Buffer!TypeOK /\ BufferInv
  /\ Roles /\ Production /\ Trigger /\ NoMissedTrigger /\ CleanExit

(* Every step of the pipeline is a step of the buffer or leaves it alone.    *)
LEMMA StepUsesBuffer ==
  ASSUME PipelineInv, [Next]_vars
  PROVE  [Buffer!Next]_(Buffer!vars)
<1> USE DEF Buffer!Next
<1>1. CASE Start \/ Tick \/ TickFails \/ StopGenerator
  BY <1>1 DEF Start, Tick, TickFails, StopGenerator, bufferVars, Buffer!vars
<1>2. CASE Deliver
  <2>1. produced \in 1 .. MaxReadings /\ \A a \in accepted : a < produced
    BY <1>2, BatchSizeAssumption, BoundsAssumption DEF Deliver, PipelineInv, TypeOK, Production
  <2> QED BY <1>2, <2>1 DEF Deliver, Buffer!AddNext, Buffer!Reading
<1>3. CASE FlushOnSize \/ FlushOnInterval
  BY <1>3 DEF FlushOnSize, FlushOnInterval, StartFlush
<1>4. CASE Apply \/ Acknowledge \/ Return \/ WriteFails
  BY <1>4 DEF Apply, Acknowledge, Return, WriteFails
<1>5. CASE StopFlusher
  BY <1>5 DEF StopFlusher, bufferVars, Buffer!vars
<1>6. CASE FinalFlush
  BY <1>6 DEF FinalFlush, bufferVars, Buffer!vars
<1>7. CASE Exit \/ Crash
  BY <1>7 DEF Exit, Crash, Gone
<1>8. CASE UNCHANGED vars
  BY <1>8 DEF vars, Buffer!vars
<1> QED BY <1>1, <1>2, <1>3, <1>4, <1>5, <1>6, <1>7, <1>8 DEF Next

LEMMA PipelineTyping ==
  ASSUME PipelineInv, [Next]_vars
  PROVE  TypeOK' /\ Buffer!TypeOK' /\ BufferInv'
<1>1. BufferInv' /\ Buffer!TypeOK'
  BY StepUsesBuffer, Typing DEF PipelineInv, BufferInv
<1>2. TypeOK'
  BY <1>1, BatchSizeAssumption, BoundsAssumption
     DEF PipelineInv, TypeOK, Next, vars, Start, Tick, Deliver, TickFails,
         FlushOnSize, FlushOnInterval, StartFlush, Apply, Acknowledge, Return,
         WriteFails, FlushEnds, StopGenerator, StopFlusher, FinalFlush, Exit,
         Crash, Gone, tasks
<1> QED BY <1>1, <1>2

LEMMA RolesStep ==
  ASSUME PipelineInv, [Next]_vars
  PROVE  Roles'
<1> USE DEF PipelineInv, Roles, TypeOK
<1>1. CASE Start \/ Tick \/ TickFails \/ StopGenerator
  BY <1>1 DEF Start, Tick, TickFails, StopGenerator, bufferVars
<1>2. CASE Deliver
  BY <1>2 DEF Deliver, Buffer!Add
<1>3. CASE FlushOnSize \/ FlushOnInterval
  BY <1>3 DEF FlushOnSize, FlushOnInterval, StartFlush, Buffer!FlushTake
<1>4. CASE Apply
  BY <1>4 DEF Apply, Buffer!Apply, tasks
<1>5. CASE Acknowledge
  BY <1>5 DEF Acknowledge, Buffer!Acknowledge, tasks
<1>6. CASE Return
  BY <1>6 DEF Return, FlushEnds, Buffer!Return
<1>7. CASE WriteFails
  BY <1>7 DEF WriteFails, FlushEnds, Buffer!WriteFails, Buffer!Restore
<1>8. CASE StopFlusher
  BY <1>8 DEF StopFlusher, Buffer!Cancelled, Buffer!Restore, bufferVars
<1>9. CASE FinalFlush
  BY <1>9 DEF FinalFlush, Buffer!FlushTake, bufferVars
<1>10. CASE Exit \/ Crash
  BY <1>10 DEF Exit, Crash, Gone, Buffer!Discard
<1>11. CASE UNCHANGED vars
  BY <1>11 DEF vars
<1> QED BY <1>1, <1>2, <1>3, <1>4, <1>5, <1>6, <1>7, <1>8, <1>9, <1>10, <1>11
        DEF Next

LEMMA ProductionStep ==
  ASSUME PipelineInv, [Next]_vars
  PROVE  Production'
<1>1. produced \in Nat /\ \A a \in accepted : a \in Nat
  BY BatchSizeAssumption, BoundsAssumption DEF PipelineInv, TypeOK, Buffer!TypeOK, Buffer!Reading
<1> USE DEF PipelineInv, Production
<1>2. CASE Tick
  BY <1>1, <1>2 DEF Tick, bufferVars
<1>3. CASE Deliver
  BY <1>1, <1>3 DEF Deliver, Buffer!Add
<1>4. ASSUME accepted' = accepted, produced' = produced,
             generator' = generator \/ generator' # "sending"
      PROVE  Production'
  BY <1>4
<1>5. CASE Start \/ TickFails \/ StopGenerator
  BY <1>4, <1>5 DEF Start, TickFails, StopGenerator, bufferVars
<1>6. CASE FlushOnSize \/ FlushOnInterval \/ StopFlusher \/ FinalFlush
  BY <1>4, <1>6 DEF FlushOnSize, FlushOnInterval, StartFlush, Buffer!FlushTake,
     StopFlusher, FinalFlush, Buffer!Cancelled, bufferVars
<1>7. CASE Apply \/ Acknowledge \/ Return \/ WriteFails
  BY <1>4, <1>7 DEF Apply, Acknowledge, Return, WriteFails, FlushEnds, tasks,
     Buffer!Apply, Buffer!Acknowledge, Buffer!Return, Buffer!WriteFails
<1>8. CASE Exit \/ Crash
  BY <1>4, <1>8 DEF Exit, Crash, Gone, Buffer!Discard
<1>9. CASE UNCHANGED vars
  BY <1>4, <1>9 DEF vars
<1> QED BY <1>2, <1>3, <1>5, <1>6, <1>7, <1>8, <1>9 DEF Next

(* A full batch is announced, being retried, or has yet to build up.         *)
LEMMA TriggerStep ==
  ASSUME PipelineInv, [Next]_vars
  PROVE  Trigger' /\ NoMissedTrigger'
<1>1. BatchSize \in Nat \ {0} /\ Len(<<>>) = 0 /\ pending \in Seq(Buffer!Reading)
  BY BatchSizeAssumption, BoundsAssumption DEF PipelineInv, Buffer!TypeOK
<1>2. ASSUME pending' = <<>> PROVE Trigger' /\ NoMissedTrigger'
  BY <1>1, <1>2 DEF Trigger, NoMissedTrigger
<1> USE DEF PipelineInv, Trigger, NoMissedTrigger, Roles
<1>3. CASE Start
  BY <1>2, <1>3 DEF Start, bufferVars
<1>4. CASE Tick \/ TickFails \/ StopGenerator
  BY <1>4 DEF Tick, TickFails, StopGenerator, bufferVars
<1>5. CASE Deliver
  <2>1. Len(pending') >= BatchSize => batchReady'
    BY <1>5 DEF Deliver, Buffer!Add
  <2> QED BY <1>5, <2>1 DEF Deliver, Buffer!Add
<1>6. CASE FlushOnSize \/ FlushOnInterval
  BY <1>2, <1>6 DEF FlushOnSize, FlushOnInterval, StartFlush, Buffer!FlushTake
<1>7. CASE Apply \/ Acknowledge
  BY <1>7 DEF Apply, Acknowledge, Buffer!Apply, Buffer!Acknowledge, tasks
<1>8. CASE Return
  BY <1>8 DEF Return, FlushEnds, Buffer!Return
<1>9. CASE WriteFails
  BY <1>9 DEF WriteFails, FlushEnds, Buffer!WriteFails
<1>10. CASE StopFlusher
  BY <1>10 DEF StopFlusher
<1>11. CASE FinalFlush
  BY <1>11 DEF FinalFlush
<1>12. CASE Exit \/ Crash
  BY <1>2, <1>12 DEF Exit, Crash, Gone, Buffer!Discard
<1>13. CASE UNCHANGED vars
  BY <1>13 DEF vars
<1> QED BY <1>3, <1>4, <1>5, <1>6, <1>7, <1>8, <1>9, <1>10, <1>11, <1>12, <1>13
        DEF Next

(* The final flush starts with the whole buffer and nobody adds to it: when   *)
(* it returns without an error there is nothing left.                        *)
LEMMA CleanExitStep ==
  ASSUME PipelineInv, [Next]_vars
  PROVE  CleanExit'
<1>1. /\ flushing = "idle" <=> batch = <<>>
      /\ pending \in Seq(Buffer!Reading) /\ batch \in Seq(Buffer!Reading)
  BY DEF PipelineInv, BufferInv, Phases, Buffer!TypeOK
<1>2. <<>> \o <<>> = <<>>
  OBVIOUS
<1> USE DEF PipelineInv, Roles, CleanExit, Buffer!Unwritten
<1>3. ASSUME lifespan' # "exiting" PROVE CleanExit'
  BY <1>3
<1>4. CASE Start \/ StopGenerator \/ StopFlusher \/ Exit \/ Crash
  BY <1>3, <1>4 DEF Start, StopGenerator, StopFlusher, Exit, Crash, Gone
<1>5. CASE Tick \/ TickFails \/ Deliver
  BY <1>5 DEF Tick, TickFails, Deliver
<1>6. CASE FlushOnSize \/ FlushOnInterval
  BY <1>6 DEF FlushOnSize, FlushOnInterval, StartFlush
<1>7. CASE Apply \/ Acknowledge
  BY <1>7 DEF Apply, Acknowledge, Buffer!Apply, Buffer!Acknowledge, tasks
<1>8. CASE Return
  BY <1>2, <1>8 DEF Return, FlushEnds, Buffer!Return
<1>9. CASE WriteFails
  BY <1>9 DEF WriteFails, FlushEnds, Buffer!WriteFails
<1>10. CASE FinalFlush
  BY <1>1, <1>2, <1>10 DEF FinalFlush, bufferVars
<1>11. CASE UNCHANGED vars
  BY <1>11 DEF vars
<1> QED BY <1>4, <1>5, <1>6, <1>7, <1>8, <1>9, <1>10, <1>11 DEF Next

LEMMA PipelineStep == PipelineInv /\ [Next]_vars => PipelineInv'
BY PipelineTyping, RolesStep, ProductionStep, TriggerStep, CleanExitStep
   DEF PipelineInv

LEMMA PipelineInit == Init => PipelineInv
<1> SUFFICES ASSUME Init PROVE PipelineInv
  OBVIOUS
<1>1. BufferInv /\ Buffer!TypeOK
  BY InitTyping DEF Init, BufferInv
<1>2. Len(<<>>) = 0 /\ BatchSize \in Nat \ {0} /\ 0 \in 0 .. MaxReadings
  BY BatchSizeAssumption, BoundsAssumption
<1> QED BY <1>1, <1>2
        DEF Init, PipelineInv, TypeOK, Roles, Production, Trigger,
            NoMissedTrigger, CleanExit, Buffer!Init

-----------------------------------------------------------------------------

(* The tasks of one process, and of its successors, use the buffer only as    *)
(* RealtimeBuffer allows.                                                    *)
THEOREM PipelineImplementsBuffer == Spec => ImplementsBuffer
<1>1. Init => Buffer!Init
  BY DEF Init
<1>2. PipelineInv /\ [Next]_vars => [Buffer!Next]_(Buffer!vars)
  BY StepUsesBuffer
<1> QED BY <1>1, <1>2, PipelineInit, PipelineStep, PTL
        DEF Spec, ImplementsBuffer, Buffer!Spec

(* The pipeline's variables keep their types.                                *)
THEOREM PipelineTypeOK == Spec => []TypeOK
<1>1. PipelineInv => TypeOK
  BY DEF PipelineInv
<1> QED BY <1>1, PipelineInit, PipelineStep, PTL DEF Spec

(* Full batches are not slept over.                                          *)
THEOREM PipelineNoMissedTrigger == Spec => []NoMissedTrigger
<1>1. PipelineInv => NoMissedTrigger
  BY DEF PipelineInv
<1> QED BY <1>1, PipelineInit, PipelineStep, PTL DEF Spec

(* A graceful shutdown whose final write succeeded leaves nothing unwritten.  *)
THEOREM PipelineCleanExit == Spec => []CleanExit
<1>1. PipelineInv => CleanExit
  BY DEF PipelineInv
<1> QED BY <1>1, PipelineInit, PipelineStep, PTL DEF Spec

LEMMA RunsBuffer == Spec => Buffer!Spec
BY PipelineImplementsBuffer DEF ImplementsBuffer

(* In the whole pipeline no accepted reading is lost but with the memory of a *)
(* process.                                                                  *)
THEOREM PipelineNothingLost == Spec => []NothingLost
<1>1. Buffer!NothingLost => NothingLost
  BY DEF NothingLost
<1> QED BY <1>1, RunsBuffer, BufferKeepsReadings, PTL

(* The order of production survives every failure and restart.               *)
THEOREM PipelineInOrder == Spec => []InOrder
<1>1. Buffer!InOrder => InOrder
  BY DEF InOrder
<1> QED BY <1>1, RunsBuffer, BufferKeepsReadings, PTL

(* A reading has two rows only if a write of it was in doubt.                 *)
THEOREM PipelineRowsInDoubt == Spec => []SecondRowOnlyInDoubt
<1>1. Buffer!SecondRowOnlyInDoubt => SecondRowOnlyInDoubt
  BY DEF SecondRowOnlyInDoubt
<1> QED BY <1>1, RunsBuffer, SecondRowNeedsDoubt, PTL

(* A process and its successors write to the table as the abstract log does.    *)
THEOREM PipelineImplementsLog == Spec => ImplementsLog
BY RunsBuffer, BufferImplementsLog DEF ImplementsLog
=============================================================================
