\* Three connections: one fails while another is still to be served and a third
\* registers.  Two numbers tell the present reading from the one before it.
CONSTANTS
  Clients = {c1, c2, c3}
  MaxNumber = 2
SPECIFICATION FairSpec
INVARIANTS
  TypeOK
  NoSilentSubscriber
  NoGap
  EveryTickBuffered
PROPERTIES
  BroadcastEnds
  StaleEntriesGo
CHECK_DEADLOCK FALSE
