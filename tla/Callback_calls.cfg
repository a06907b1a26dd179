SPECIFICATION Spec
CONSTANTS
  h1 = h1
  h2 = h2
  Handles = {h1, h2}
  Signatures <- Handled
  ArgLists <- Plain
  MaxCalls = 3
  MaxDepth = 3
SYMMETRY Symmetry
INVARIANTS TypeOK DeliveredUnlessDisturbed RefusedOnlyIfWrongUnlessMarked NoUseAfterFree
CHECK_DEADLOCK FALSE
