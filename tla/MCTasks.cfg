SPECIFICATION MCSpec
CONSTANTS
  NumThreads = 2
  Clients = {main, user}
  Owner = main
  Jobs = {j1, j2, j3}
  FewJobs = {j1, j2}
  Spawners = {j1}
  QueueSize = 2
  MaxRuns = 1
  MaxInterrupts = 1
  MaxSpurious = 1
  MaxFaults = 1
  AllowCancel = TRUE
  AllowEmptyRunBlock = FALSE
  Finish = Finish
  None = None
  NoProc = NoProc
INVARIANTS TypeOK SemaphoresMatchList TasksFound PendingCountsWork EachJobOnce BarrierSound
  DelComplete CountersMatch PoolBarrierSound PoolDelComplete
PROPERTIES ImplementsService PoolImplementsService EveryCallReturns EveryJobFinishes
