CONSTANTS
  MaxEvents = 2
  BatchSize = 5
  MaxConns = 2
  MaxForced = 1
  MaxBreaks = 0
  MaxCrashes = 0
  MaxFaults = 0
  MaxTroubles = 4
SPECIFICATION LinkSpec
INVARIANT QueuedUntilDelivered
CHECK_DEADLOCK FALSE
