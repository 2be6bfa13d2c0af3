\* Two threads: one that stop() gave up on and its successor, or one of a dropped
\* session and one of the next, over two sign-ins.  One reading is enough: what is
\* received has no part in these properties.
CONSTANTS
  Threads = {t1, t2}
  None = None
  MaxTokens = 2
  MaxReadings = 1
  MaxQueue = 1
SPECIFICATION FairSpec
INVARIANTS OneReceiver StatusTruthful NoStaleReceiver
PROPERTIES ReceiversEnd
CHECK_DEADLOCK FALSE
