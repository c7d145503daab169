CONSTANTS
  Processes = {p1, p2}
  Contents = {c1, c2}
  Tolerance = 1
  Expiry = 2
  Cooldown = 4
  Started = TRUE
  Silenced = {"etw"}
  MaxFacts = 2
  MaxTime = 7
SPECIFICATION DetectorFairSpec
INVARIANTS ReportsPaired
PROPERTIES SilenceNoticed PendingExpires
CHECK_DEADLOCK FALSE
