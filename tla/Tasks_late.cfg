SPECIFICATION FairSpec
CONSTANTS
  NumThreads = 2
  Clients = {main, user}
  Owner = main
  Jobs = {j1, j2}
  Spawners = {j1}
  QueueSize = 3
  MaxRuns = 1
  MaxInterrupts = 0
  MaxSpurious = 0
  AllowCancel = FALSE
  AllowEmptyRunBlock = FALSE
  Finish = Finish
  None = None
  NoProc = NoProc
INVARIANT DelProcessesAll
