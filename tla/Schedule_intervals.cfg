CONSTANTS
  c1 = c1
  c2 = c2
  name = name
  Claims = {c1, c2}
  NameOf <- SameName
  Errors = {"timeout", "conflict"}
  Durations = {500, 1999, 60001}
  MaxMillis = 60000
  DefaultSeconds = 2
  ErrorSeconds = 1
  MaxChanges = 2
  MaxFaults = 2
  Unset = Unset
  Garbled = Garbled
  Absent = Absent
SPECIFICATION FairSpec
INVARIANT Inv
INVARIANT OneRunPerSecond
INVARIANT MetricsAddUp
PROPERTY Served
