\* No timer limits a request before its socket is connected.
SPECIFICATION OrderedFairSpec
CONSTANTS
  e1 = e1
  e2 = e2
  e3 = e3
  Exports <- TwoExports
  ConcurrencyLimit = 1
  Timeout = 1
  MaxAttempts = 1
  RetryDelays <- Delays
  CallbackMayThrow = FALSE
  MaxFlushes = 0
  MaxParts = 1
  MaxElapsed = 4
CHECK_DEADLOCK FALSE
INVARIANT
  ExportsEndInTime
