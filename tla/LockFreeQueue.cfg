CONSTANTS
  Producers = {p1, p2}
  Consumers = {c1, c2}
  Observers = {o1}
  Values = {v1}
  NoValue = NoValue
  MaxSize = 2
  MaxTickets = 3
  Stalled = {p1, c1}
SPECIFICATION FairSpec
INVARIANT SlotExclusive
PROPERTIES ImplementsFifo FailureHasACause ObserversAreLowerBounds CallsReturn
