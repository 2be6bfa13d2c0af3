----------------------------- MODULE ReadingLog -----------------------------
(***************************************************************************)
(* What the realtime persistence path promises: an ordered log that keeps   *)
(* every accepted reading at least once, until the process that holds it    *)
(* in memory goes away.                                                     *)
(*                                                                          *)
(* Readings are numbered in the order they are produced.  A reading is      *)
(* accepted into the queue, a prefix of the queue is written to the log in  *)
(* one atomic step, and a prefix leaves the queue only once it is in the    *)
(* log.  Between the write and the removal the writer may learn that the    *)
(* write "failed", in which case the same prefix is written once more: the  *)
(* log is at-least-once, not exactly-once.                                  *)
(***************************************************************************)
EXTENDS Naturals, Sequences, SequencesExt

CONSTANT MaxReadings    \* readings are numbered 1 .. MaxReadings

VARIABLES
  accepted,   \* readings accepted so far
  queue,      \* accepted readings whose write is not confirmed, oldest first
  log,        \* the durable rows, in insertion order
  lost        \* readings dropped with the memory of a process

vars == <<accepted, queue, log, lost>>

Reading == 1 .. MaxReadings

(* Strictly increasing: in the order the readings were produced.            *)
Increasing(s) == \A i, j \in DOMAIN s : i < j => s[i] < s[j]

(* The first row of a reading precedes every row of a later reading.        *)
FirstRowsInOrder(s) ==
  \A i, j \in DOMAIN s : i < j /\ s[j] < s[i] => \E k \in 1 .. i : s[k] = s[j]

Init ==
  /\ accepted = {}
  /\ queue = <<>>
  /\ log = <<>>
  /\ lost = {}

Accept(r) ==
  /\ \A a \in accepted : a < r
  /\ accepted' = accepted \cup {r}
  /\ queue' = Append(queue, r)
  /\ UNCHANGED <<log, lost>>

Write ==
  /\ \E n \in 1 .. Len(queue) : log' = log \o SubSeq(queue, 1, n)
  /\ UNCHANGED <<accepted, queue, lost>>

Confirm ==
  /\ \E n \in 1 .. Len(queue) :
        /\ ToSet(SubSeq(queue, 1, n)) \subseteq ToSet(log)
        /\ queue' = SubSeq(queue, n + 1, Len(queue))
  /\ UNCHANGED <<accepted, log, lost>>

Lose ==
  /\ queue' = <<>>
  /\ lost' = lost \cup (ToSet(queue) \ ToSet(log))
  /\ UNCHANGED <<accepted, log>>

Next == (\E r \in Reading : Accept(r)) \/ Write \/ Confirm \/ Lose

Spec == Init /\ [][Next]_vars

-----------------------------------------------------------------------------

TypeOK ==
  /\ accepted \subseteq Reading
  /\ queue \in Seq(Reading)
  /\ log \in Seq(Reading)
  /\ lost \subseteq Reading

(* Nothing is lost and nothing is invented: every accepted reading is in    *)
(* the log, still queued, or was in the memory of a process that went away. *)
NothingLost == accepted = ToSet(log) \cup ToSet(queue) \cup lost

(* Order survives: the queue is in production order, and so is the log if   *)
(* one looks at the first row of every reading.                             *)
InOrder == Increasing(queue) /\ FirstRowsInOrder(log)
=============================================================================
