\* Two readers, two attribute sets, an instrument of every kind.
SPECIFICATION Spec
CONSTANTS
  Readers = {a, b}
  Attributes = {x, y}
  Callbacks = {callback}
  Overflow = overflow
  Values <- UpDown
  CardinalityLimit = 2
  MaxTime = 1
  MaxRecords = 3
  MaxCollections = 3
SYMMETRY Symmetry
CHECK_DEADLOCK FALSE
INVARIANTS
  StartsBeforeMeasurements
PROPERTIES
  ReportsAddUp
  CumulativeStartIsStable
  LoneDeltaIntervalsAreDisjoint
