SPECIFICATION Spec
CONSTANTS
  Chars = {a, b}
  NUL = NUL
  Old = Old
  Strings <- ShortStrings
  Sizes = {0, 1, 2, 3, 4, 5, 6}
INVARIANTS Correct InBounds
CHECK_DEADLOCK FALSE
