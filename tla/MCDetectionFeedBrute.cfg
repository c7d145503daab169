CONSTANTS
  t1 = t1
  t2 = t2
  Threads = {t1}
  Hosts = {"linux"}
  Kinds = {"auth"}
  MaxEvents = 2
  MaxBatch = 2
  BufferMax = 3
  Limit = 5
  LegacyMax = 0
  MaxBoots = 0
  Window = 5
  Threshold = 5
  Reach = 1
  MaxFaults = 0
SPECIFICATION Spec
INVARIANT BruteForceIsABurst
