SPECIFICATION RoundtripSpec
CONSTANTS
  NumIntRegs = 3
  NumFloatRegs = 0
  VMSize = 40
  Aggrs = {"SI"}
  Size <- MCSize
  Classes <- MCClasses
  MaxArgs = 2
  MaxResets = 1
  MaxDepth = 2
INVARIANTS FetchedAsBound ResultArrivesAfterFetches
CHECK_DEADLOCK FALSE
