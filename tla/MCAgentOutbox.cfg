CONSTANTS
  MaxEvents = 3
  BatchSize = 2
  MaxConns = 2
  MaxForced = 1
  MaxBreaks = 1
  MaxCrashes = 1
  MaxFaults = 1
  MaxTroubles = 4
SPECIFICATION Spec
INVARIANTS NoDuplicateWithoutFailure
PROPERTIES OnlyClearLoses
CHECK_DEADLOCK FALSE
