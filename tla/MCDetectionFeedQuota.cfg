CONSTANTS
  t1 = t1
  t2 = t2
  Threads = {t1}
  Hosts = {"linux"}
  Kinds = {"high"}
  MaxEvents = 3
  MaxBatch = 3
  BufferMax = 3
  Limit = 2
  LegacyMax = 0
  MaxBoots = 0
  Window = 1
  Threshold = 9
  Reach = 1
  MaxFaults = 0
SPECIFICATION Spec
INVARIANT HighSignalDelivered
