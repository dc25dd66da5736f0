\* The difference of two equal histograms.
SPECIFICATION FollowedSpec
CONSTANTS
  Accumulations = {a, b}
  Positives <- SomePositives
  Negatives <- SomeNegatives
  MaxSize = 3
  MaxScale = 2
  MaxCount = 3
SYMMETRY Symmetry
CHECK_DEADLOCK FALSE
INVARIANTS
  EmptyDifferencesHoldNoCounts
