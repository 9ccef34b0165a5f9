CONSTANTS
  p1 = p1
  p2 = p2
  p3 = p3
  Pods = {p1, p2, p3}
  Enabled = {p1, p2, p3}
  ExpireAfter = 1
  MaxFaults = 1
  NoLease = NoLease
SPECIFICATION Spec
SYMMETRY Symmetry
INVARIANT Inv
INVARIANT SplitBrainHasCause
PROPERTY HolderNeverOverwritten
PROPERTY RenewsOwnLease
PROPERTY ImplementsLock
