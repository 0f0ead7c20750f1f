SPECIFICATION FairSpec
CONSTANTS
  t1 = t1
  t2 = t2
  Threads = {t1, t2}
  Priorities = {0, 1}
  MaxCalls = 3
  MaxSlots = 2
  Propagates = {TRUE, FALSE}
  WritersFirst = FALSE
CHECK_DEADLOCK FALSE
INVARIANTS DepthIsSound SlotsAreKept ParkedAreActivated
PROPERTIES EmissionsAreSafe CallsReturn
