SPECIFICATION Spec
CONSTANTS
  h1 = h1
  h2 = h2
  Handles = {h1}
  Signatures <- Prefixed
  ArgLists <- Plain
  MaxCalls = 2
  MaxDepth = 2
INVARIANT RefusedOnlyIfWrong
CHECK_DEADLOCK FALSE
