\* Five records through a buffer of three, batches of two: full batches, partial
\* ones the timer sends, and a flush of two batches while the buffer fills again;
\* an asynchronous resource that may fail, an exporter.forceFlush() that may be
\* rejected; no symmetry, which is unsound for liveness.
SPECIFICATION OrderedFairSpec
CONSTANTS
  r1 = r1
  r2 = r2
  r3 = r3
  r4 = r4
  r5 = r5
  Records <- FiveRecords
  MaxQueueSize = 3
  MaxExportBatchSize = 2
  AsyncResource = TRUE
  ResourceMayFail = TRUE
  ExporterFlushMayReject = TRUE
  MaxFlushes = 1
CHECK_DEADLOCK FALSE
INVARIANTS
  TypeOK
  NoStrandedRecords
  ExactlyOnceInOrder
  OneExportAtATime
  ResolvedFlushExported
  ShutdownThatRanSendsAll
PROPERTIES
  ImplementsBatchQueue
  BufferDrains
  CallsSettle
