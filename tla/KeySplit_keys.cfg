CONSTANTS
  a = a
  b = b
  sep = sep
  Letters = {a, b}
  Sep = sep
  NoEscape = NoEscape
  MaxLen = 6
  MaxName = 3
SPECIFICATION Spec
SYMMETRY LetterSymmetry
INVARIANT Inv
INVARIANT PartsMakeKey
INVARIANT NamesReadBack
CHECK_DEADLOCK FALSE
