\* exporter.forceFlush() may be rejected.
SPECIFICATION Spec
CONSTANTS
  r1 = r1
  r2 = r2
  r3 = r3
  r4 = r4
  r5 = r5
  Records <- TwoRecords
  MaxQueueSize = 2
  MaxExportBatchSize = 1
  AsyncResource = FALSE
  ResourceMayFail = FALSE
  ExporterFlushMayReject = TRUE
  MaxFlushes = 1
SYMMETRY RecordSymmetry
CHECK_DEADLOCK FALSE
INVARIANTS
  FlushingMeansFlush
