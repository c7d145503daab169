CONSTANTS
  t1 = t1
  t2 = t2
  Threads = {t1, t2}
  Hosts = {"linux", "windows"}
  Kinds = {"high", "auth"}
  MaxEvents = 3
  MaxBatch = 2
  BufferMax = 2
  Limit = 2
  LegacyMax = 0
  MaxBoots = 1
  Window = 1
  Threshold = 2
  Reach = 1
  MaxFaults = 0
SPECIFICATION Spec
INVARIANTS NothingSkipped StoredIdsUnique OnlyOwnHostEvicts
PROPERTIES EveryHostServed
SYMMETRY Symmetry
