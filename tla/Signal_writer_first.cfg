SPECIFICATION FairSpec
CONSTANTS
  t1 = t1
  t2 = t2
  Threads = {t1, t2}
  Priorities = {0}
  MaxCalls = 3
  MaxSlots = 2
  Propagates = {FALSE}
  WritersFirst = TRUE
CHECK_DEADLOCK FALSE
PROPERTY CallsReturn
