\* Four readings against a trigger of two: batches above, at and below the trigger,
\* and readings added while a batch is out; up to three rows before a write is no
\* longer doubted.  Fair tasks; the database may fail every write, but for
\* EventuallyWritten.
CONSTANTS
  BatchSize = 2
  MaxReadings = 4
  MaxRows = 3
SPECIFICATION FairSpec
INVARIANTS TypeOK NothingLost InOrder SecondRowOnlyInDoubt NoMissedTrigger CleanExit
PROPERTIES ImplementsBuffer ImplementsLog EventuallyWritten ShutdownEnds
