SPECIFICATION Spec
CONSTANTS
  c1 = c1
  c2 = c2
  t1 = t1
  t2 = t2
  t3 = t3
  t4 = t4
  None = None
  Clients = {c1, c2}
  NumThreads = 1
  Tasks <- PairTasks
  PriorityOf <- PairPriority
  Spawns <- PairSpawns
  Batches = {}
  AllocFails = {}
  MayWait = {c2}
  MayShutdown = {}
PROPERTY WaitIdleSeesIdle
