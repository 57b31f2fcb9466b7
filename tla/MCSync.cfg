SPECIFICATION SyncSpec
CONSTANTS
  SegCap = 2
  Junk = junk
  Producers = {p1, p2}
  Consumers = {c1, c2}
  Elements = {x1, x2, x3}
  QueueSize = 2
  MaxInterrupts = 1
  NowNsecs = {0, 500000000}
  Waits = {0, 500}
  None = None
  RingSize = 1
  Threads = {t1, t2, t3, t4}
  Goals = {2, 4}
  CurMod = 5
  MaxCalls = 3
  MaxSpurious = 1
  NumThreads = 3
  PoolSize = 2
  MaxPos = 16
  NoThread = nobody
INVARIANTS  SemaphoresMatchBuffer 
  Together CurCountsBlocked EveryGoalthReleases StreamPartitioned
PROPERTIES ImplementsQueue RingImplementsQueue  CallsReturn
