\* One batch, cancelled or doubted once, is enough for a second row.
CONSTANTS
  BatchSize = 2
  MaxReadings = 4
  MaxRows = 3
SPECIFICATION Spec
INVARIANT WrittenOnce
