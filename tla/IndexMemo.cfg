SPECIFICATION IndexSpec
CONSTANTS
  small = small
  large = large
  other = other
  Doc = {d1, d2}
  Model = {small, large}
  Dims <- MCDims
  FirstModel = small
  MaxEdit = 2
  MaxGeneration = 4
  MaxUpset = 2
INVARIANT NeverStale
SYMMETRY Symmetry
CHECK_DEADLOCK FALSE
