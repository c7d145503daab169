CONSTANTS
  Processes = {p1}
  Contents = {c1, c2}
  Tolerance = 1
  Expiry = 2
  Cooldown = 4
  Started = FALSE
  Silenced = {"ebpf"}
  MaxFacts = 1
  MaxTime = 8
SPECIFICATION DetectorFairSpec
PROPERTY PendingExpires
CHECK_DEADLOCK FALSE
