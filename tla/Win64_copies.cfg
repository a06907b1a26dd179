SPECIFICATION Spec
CONSTANTS
  NumRegs = 2
  VMSize = 64
  Aggrs = {"A16"}
  Size <- MCSize
  MaxArgs = 4
  MaxResets = 1
  MaxDepth = 2
INVARIANT CopiesSafe
CHECK_DEADLOCK FALSE
