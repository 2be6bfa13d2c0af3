\* Three readings against a trigger of two: a failed batch and one newer reading.
CONSTANTS
  BatchSize = 2
  MaxReadings = 4
  MaxRows = 3
SPECIFICATION Spec
INVARIANT RetryPaced
