\* Two histograms of up to three values, three buckets a side.
SPECIFICATION FollowedSpec
CONSTANTS
  Accumulations = {a, b}
  Positives <- SomePositives
  Negatives <- SomeNegatives
  MaxSize = 3
  MaxScale = 2
  MaxCount = 3
SYMMETRY Symmetry
CHECK_DEADLOCK FALSE
INVARIANTS
  BucketsCountValues
PROPERTIES
  PrecisionIsKept
