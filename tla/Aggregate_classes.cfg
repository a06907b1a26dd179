SPECIFICATION Spec
CONSTANTS
  ScalarTypes = {"c", "f", "d"}
  ArrayLens = {1, 3}
  MaxFields = 2
  MaxClosed = 3
  MaxSize = 24
INVARIANTS TypeOK ClassifiedAsABIOnEightbytes
CHECK_DEADLOCK FALSE
