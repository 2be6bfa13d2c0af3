-------------------------- MODULE BufferParameters --------------------------
(* The parameters of the realtime buffer and of whoever uses it.             *)
EXTENDS Naturals

CONSTANTS
  BatchSize,      \* settings.batch_size
  MaxReadings,    \* bound: readings are numbered 1 .. MaxReadings
  MaxRows         \* bound: no write is doubted once the table has MaxRows rows

ASSUME BatchSizeAssumption == BatchSize \in Nat \ {0}
ASSUME BoundsAssumption == MaxReadings \in Nat /\ MaxRows \in Nat
=============================================================================
