CONSTANTS
  MaxSessions = 6
  MaxKills = 2
  MaxStartFaults = 2
  MaxDogFaults = 1
SPECIFICATION FairSpec
INVARIANTS OneSession NoThreadOverwritten StoppedForGood
PROPERTIES TracingRestored
CHECK_DEADLOCK FALSE
