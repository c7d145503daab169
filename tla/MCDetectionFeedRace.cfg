CONSTANTS
  t1 = t1
  t2 = t2
  Threads = {t1, t2}
  Hosts = {"linux"}
  Kinds = {"low"}
  MaxEvents = 2
  MaxBatch = 1
  BufferMax = 3
  Limit = 5
  LegacyMax = 0
  MaxBoots = 0
  Window = 1
  Threshold = 9
  Reach = 1
  MaxFaults = 0
SPECIFICATION Spec
INVARIANT AllBehindCursorHandled
