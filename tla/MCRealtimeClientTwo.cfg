\* One sign-in: connect, disconnect, connect again.
CONSTANTS
  Threads = {t1, t2}
  None = None
  MaxTokens = 1
  MaxReadings = 1
  MaxQueue = 1
SPECIFICATION Spec
INVARIANT AtMostOneReceiver
CHECK_DEADLOCK FALSE
