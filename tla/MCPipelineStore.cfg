CONSTANTS
  e1 = e1
  e2 = e2
  e3 = e3
  Events <- MCEvents
  Alerts <- MCAlerts
  Batches <- MCBatches
  Admins = {"a1"}
  Torn = Torn
  MaxCrashes = 1
  MaxFaults = 1
SPECIFICATION FairSpec
INVARIANTS NothingLost NoDuplicateInOneSession WalDrained StoreInv
PROPERTIES ParquetOnlyGrows EventuallyStored
CHECK_DEADLOCK FALSE
