SPECIFICATION Spec
CONSTANTS
  c1 = c1
  c2 = c2
  t1 = t1
  t2 = t2
  t3 = t3
  t4 = t4
  None = None
  Clients = {c1, c2}
  NumThreads = 2
  Tasks <- AllTasks
  PriorityOf <- AllPriority
  Spawns <- AllSpawns
  Batches <- OneBatch
  AllocFails = {t2, t3}
  MayWait = {c1}
  MayShutdown = {c2}
INVARIANTS EachTaskInOnePlace CountersAreSound ShutdownDrains
PROPERTY WaitIdleCovers
