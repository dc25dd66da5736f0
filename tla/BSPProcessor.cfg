\* Four spans through a queue of two: a batch of two, or a partial one the timer
\* sends, goes out while spans wait behind it and others are dropped.  The batch
\* size option exceeds the queue size; an asynchronous resource that may fail; no
\* symmetry, which is unsound for liveness.
SPECIFICATION OrderedFairSpec
CONSTANTS
  s1 = s1
  s2 = s2
  s3 = s3
  s4 = s4
  Spans <- FourSpans
  Sampled <- FourSpans
  MaxQueueSize = 2
  MaxExportBatchSize = 3
  AsyncResource = TRUE
  ResourceMayFail = TRUE
  MaxFlushes = 1
CHECK_DEADLOCK FALSE
INVARIANTS
  TypeOK
  NoStrandedSpans
  ExactlyOnceInOrder
  CountersBalance
  SingleBatchUntilFailure
  ResolvedFlushSentItsBatches
PROPERTIES
  OnlyHeldBatchesAfterShutdown
  ImplementsBatchQueue
  QueueDrains
  CallsSettle
