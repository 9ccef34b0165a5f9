CONSTANTS
  c1 = c1
  c2 = c2
  k1 = k1
  k2 = k2
  r1 = r1
  r2 = r2
  Claims = {c1}
  Keys = {k1, k2}
  Procs = {r1}
  MaxChanges = 1
  MaxFaults = 0
  NoTarget = NoTarget
SPECIFICATION FairSpec
PROPERTY Mirrors
CHECK_DEADLOCK FALSE
