CONSTANTS
  Producer = producer
  Consumer = consumer
  Observers = {o1}
  Values = {v1}
  NoValue = NoValue
  Capacity = 2
  Modulus = 8

SPECIFICATION Spec
SYMMETRY Symmetry
PROPERTIES FullIsASnapshot
