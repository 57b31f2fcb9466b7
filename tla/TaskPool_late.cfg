SPECIFICATION FairSpec
CONSTANTS
  NumThreads = 2
  Clients = {main, user}
  Owner = main
  Jobs = {j1, j2}
  Spawners = {j1}
  QueueSize = 2
  MaxInterrupts = 0
  MaxSpurious = 0
  Probe = 2
  Finish = Finish
  None = None
INVARIANT PoolDelProcessesAll
