CONSTANTS
  c1 = c1
  c2 = c2
  k1 = k1
  k2 = k2
  r1 = r1
  r2 = r2
  Claims = {c1, c2}
  Keys = {k1, k2}
  Procs = {r1}
  MaxChanges = 1
  MaxFaults = 1
  NoTarget = NoTarget
SPECIFICATION Spec
SYMMETRY Symmetry
INVARIANT TypeOK
INVARIANT OwnedByOne
INVARIANT Inv
PROPERTY WritesForExistingClaims
PROPERTY ForeignKeysKept
CHECK_DEADLOCK FALSE
