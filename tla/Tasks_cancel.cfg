SPECIFICATION FairSpec
CONSTANTS
  NumThreads = 2
  Clients = {main, user}
  Owner = main
  Jobs = {j1, j2}
  Spawners = {}
  QueueSize = 3
  MaxRuns = 1
  MaxInterrupts = 0
  MaxSpurious = 0
  AllowCancel = TRUE
  AllowEmptyRunBlock = FALSE
  Finish = Finish
  None = None
  NoProc = NoProc
INVARIANT NoStray
