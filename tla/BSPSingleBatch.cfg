\* A failed batch lets two scheduled batches run at once.
SPECIFICATION Spec
CONSTANTS
  s1 = s1
  s2 = s2
  s3 = s3
  s4 = s4
  Spans <- ThreeSpans
  Sampled <- ThreeSpans
  MaxQueueSize = 3
  MaxExportBatchSize = 1
  AsyncResource = FALSE
  ResourceMayFail = FALSE
  MaxFlushes = 0
SYMMETRY SampledSymmetry
CHECK_DEADLOCK FALSE
INVARIANT
  SingleBatchAtATime
