CONSTANTS
  MaxEvents = 3
  BatchSize = 1
  MaxConns = 3
  MaxForced = 0
  MaxBreaks = 0
  MaxCrashes = 0
  MaxFaults = 0
  MaxTroubles = 4
SPECIFICATION Spec
INVARIANT QueuedUntilWritten
CHECK_DEADLOCK FALSE
