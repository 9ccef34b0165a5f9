CONSTANTS
  Keys = {"a", "b"}
  Values = {"1"}
  Object = Object
  Objects <- SmallObjects
SPECIFICATION MergeSpec
INVARIANT MergesAll
INVARIANT MergeInv
CHECK_DEADLOCK FALSE
