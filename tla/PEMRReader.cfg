\* Two calls that overlap with each other and with runs of the interval, up to
\* two batches a run; two runs, so that the interval is due after shutdown().
SPECIFICATION FairSpec
CONSTANTS
  MaxBatches = 2
  AsyncResource = TRUE
  MaxRuns = 2
  MaxCalls = 2
CHECK_DEADLOCK FALSE
INVARIANTS
  RunsOneAtATime
  FlushIsFresh
PROPERTIES
  NoExportAfterExporterShutdown
  RunsEnd
  CallsSettle
