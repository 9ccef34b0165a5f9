CONSTANTS
  c1 = c1
  k1 = k1
  p1 = p1
  p2 = p2
  Claims = {c1}
  Keys = {k1}
  Procs = {p1, p2}
  MaxChanges = 1
  MaxFaults = 2
  NoTarget = NoTarget
  Nobody = Nobody
SPECIFICATION FairSpec
PROPERTY ImplementsMirror
INVARIANT Inv
PROPERTY WritesForExistingClaims
PROPERTY FilesGoForward
PROPERTY Converges
PROPERTY Collected
CHECK_DEADLOCK FALSE
