CONSTANTS
  MaxEvents = 2
  DiskMax = 1
  MaxSocks = 6
  MaxTroubles = 1
SPECIFICATION FairSpec
INVARIANTS OneConnection NothingVanishes NoDuplicate
PROPERTIES StopReturns
CHECK_DEADLOCK FALSE
