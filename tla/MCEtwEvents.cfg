SPECIFICATION Spec
CONSTANTS
  Pids = {p1, p2}
  Keys = {k1, k2}
  Names = {doc, locked}
  None = None
  Running = {p1}
  UserData = {doc, locked}
  Ransom = {locked}
  Canary = {doc}
  MaxKeys = 1
  MaxPids = 1
  MaxRecords = 3
  MaxTroubles = 1
INVARIANTS ParentTrue RenameTrue NameTrue TrustTrue
SYMMETRY Symmetry
CHECK_DEADLOCK FALSE
