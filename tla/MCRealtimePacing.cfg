\* A write that takes longer than a batch takes to fill, as one that waits for a
\* connection of the pool may: the size trigger is set when it returns.
CONSTANTS
  BatchSize = 3
  IntervalTicks = 4
  WriteTicks = 5
  MaxReadings = 30
  MaxRows = 4
  MaxFailures = 2
SPECIFICATION Spec
INVARIANTS
  TypeOK
  Exposure
CHECK_DEADLOCK FALSE
