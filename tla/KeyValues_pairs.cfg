CONSTANTS
  a = a
  b = b
  n0 = n0
  n1 = n1
  n2 = n2
  n00 = n00
  x = x
  y = y
  one = one
  list = list
  Names = {a, b, n0, n1, n2, n00}
  Values = {x, y, list, one, Null}
  Strings = {x, y, list}
  Null = Null
  Text <- Texts
  Object = Object
  Array = Array
  NoTree = NoTree
  Index <- Digits
  Pairs <- SmallPairs
  Trees <- NestedTrees
  MaxPairs = 3
SPECIFICATION Spec
INVARIANT Inv
INVARIANT PanicNeedsConflict
INVARIANT OrderIrrelevant
INVARIANT ShorterKeyWins
INVARIANT ParsesBack
CHECK_DEADLOCK FALSE
