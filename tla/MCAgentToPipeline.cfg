CONSTANTS
  MaxEvents = 3
  BatchSize = 2
  MaxConns = 2
  MaxForced = 1
  MaxBreaks = 1
  MaxCrashes = 1
  MaxFaults = 1
  MaxTroubles = 1
SPECIFICATION LinkSpec
INVARIANTS NothingClearedUnsent NothingLostWhileConnected StoredAsSent
PROPERTIES EventuallyStored
CHECK_DEADLOCK FALSE
