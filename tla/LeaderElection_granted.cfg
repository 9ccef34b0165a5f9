CONSTANTS
  p1 = p1
  p2 = p2
  p3 = p3
  Pods = {p1, p2}
  Enabled = {p1, p2}
  ExpireAfter = 1
  MaxFaults = 1
  NoLease = NoLease
SPECIFICATION Spec
PROPERTY GrantedHoldsLease
