\* Two places, a forceFlush or a shutdown; time, retries and liveness.
SPECIFICATION OrderedFairSpec
CONSTANTS
  e1 = e1
  e2 = e2
  e3 = e3
  Exports <- ThreeExports
  ConcurrencyLimit = 2
  Timeout = 1
  MaxAttempts = 2
  RetryDelays <- Delays
  CallbackMayThrow = TRUE
  MaxFlushes = 1
  MaxParts = 1
  MaxElapsed = 4
CHECK_DEADLOCK FALSE
INVARIANTS
  TypeOK
  InFlightWithinLimit
  OvershootsByOneDelay
  FlushWaitsForExports
  TransportOutlivesExports
PROPERTIES
  RetriesBeginInTime
  PlacesAreFreed
