SPECIFICATION FairSpec
CONSTANTS
  c1 = c1
  c2 = c2
  t1 = t1
  t2 = t2
  t3 = t3
  t4 = t4
  None = None
  Clients = {c1, c2}
  NumThreads = 2
  Tasks <- PairTasks
  PriorityOf <- PairPriority
  Spawns <- PairSpawns
  Batches = {}
  AllocFails = {t1, t2}
  MayWait = {c1}
  MayShutdown = {c2}
PROPERTIES TasksRun CallsReturn
