CONSTANTS
  t1 = t1
  t2 = t2
  Threads = {t1}
  Hosts = {"linux"}
  Kinds = {"low", "tmp"}
  MaxEvents = 3
  MaxBatch = 2
  BufferMax = 3
  Limit = 5
  LegacyMax = 7
  MaxBoots = 2
  Window = 1
  Threshold = 9
  Reach = 1
  MaxFaults = 1
SPECIFICATION LiveSpec
PROPERTIES DeliveredOnce EventuallyAnalysed NeverFrozen
