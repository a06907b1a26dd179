SPECIFICATION Spec
CONSTANTS
  NumRegs = 2
  VMSize = 56
  Aggrs = {"A8", "A16"}
  Size <- MCSize
  MaxArgs = 3
  MaxResets = 1
  MaxDepth = 2
CONSTRAINT FewAfterReset
INVARIANTS TypeOK FetchedUnlessOverwritten ResultArrives
CHECK_DEADLOCK FALSE
