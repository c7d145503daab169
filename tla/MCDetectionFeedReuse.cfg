CONSTANTS
  t1 = t1
  t2 = t2
  Threads = {t1}
  Hosts = {"linux"}
  Kinds = {"low"}
  MaxEvents = 6
  MaxBatch = 3
  BufferMax = 6
  Limit = 9
  LegacyMax = 0
  MaxBoots = 1
  Window = 1
  Threshold = 9
  Reach = 1
  MaxFaults = 0
SPECIFICATION Spec
INVARIANT AllBehindCursorHandled
