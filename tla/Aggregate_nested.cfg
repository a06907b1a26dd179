SPECIFICATION Spec
CONSTANTS
  ScalarTypes = {"c", "i", "f", "d"}
  ArrayLens = {1, 2, 3}
  MaxFields = 2
  MaxClosed = 2
  MaxSize = 24
INVARIANT ClassifiedAsABI
CHECK_DEADLOCK FALSE
