SPECIFICATION Spec
CONSTANTS
  h1 = h1
  h2 = h2
  Handles = {h1}
  Signatures <- Handled
  ArgLists <- Plain
  MaxCalls = 2
  MaxDepth = 2
INVARIANT MissingNotRead
CHECK_DEADLOCK FALSE
