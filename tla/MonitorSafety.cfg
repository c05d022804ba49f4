\* A Monitor that reconnects; or two publishers and queues that are full.
SPECIFICATION FairSpec
CONSTANTS
  p1 = p1  p2 = p2  m1 = m1  m2 = m2  k1 = k1  k2 = k2
  Publishers = {p1, p2}
  Closers = {"loop", "runtime"}
  Subs = {1, 2}
  JournalSize = 2
  QueueSize = 1
  MaxEvents = 2
  Monitors = {m1}
  Tickets = {k1, k2}
  MaxActive = 2
  BridgeSize = 1
  Loads <- MCLoads
  None = None
CHECK_DEADLOCK FALSE
INVARIANTS
  NothingLost
  NothingTwice
  EndedHoldsNothing
  TokenUsedOnce
PROPERTIES
  EndedTicketEndsConnection
