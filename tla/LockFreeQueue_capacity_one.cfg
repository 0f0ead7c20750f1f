CONSTANTS
  Producers = {p1, p2}
  Consumers = {c1}
  Observers = {}
  Values = {v1}
  NoValue = NoValue
  MaxSize = 1
  MaxTickets = 3
  Stalled = {}
SPECIFICATION Spec
SYMMETRY Symmetry
INVARIANTS WithinCapacity
