SPECIFICATION HashSpec
CONSTANTS
  HashKeys = {1, 2, 3, 4, 5, 6}
  MapValues = {1}
  Hashes = {3}
  H2Unit = 16
  kWidth = 2
  LoadNum = 7
  LoadDen = 8
  MaxCapacity = 8
  ShrinksBelow = TRUE
CHECK_DEADLOCK FALSE
INVARIANT LookupsEnd
