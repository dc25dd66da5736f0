\* Two readers of an observable counter that is reset.
SPECIFICATION Spec
CONSTANTS
  Readers = {a, b}
  Attributes = {x}
  Callbacks = {callback}
  Overflow = overflow
  Values = {1, 2}
  CardinalityLimit = 3
  MaxTime = 1
  MaxRecords = 3
  MaxCollections = 3
SYMMETRY Symmetry
CHECK_DEADLOCK FALSE
PROPERTIES
  CumulativeIsLastObserved
