\* One sign-in and a request that is answered 401.
CONSTANTS
  Threads = {t1, t2}
  None = None
  MaxTokens = 1
  MaxReadings = 1
  MaxQueue = 1
SPECIFICATION Spec
INVARIANT NoReceiverSignedOut
CHECK_DEADLOCK FALSE
