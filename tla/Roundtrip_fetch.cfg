SPECIFICATION RoundtripSpec
CONSTANTS
  NumIntRegs = 3
  NumFloatRegs = 2
  VMSize = 136
  Aggrs = {"II", "IS", "MEM"}
  Size <- MCSize
  Classes <- MCClasses
  MaxArgs = 4
  MaxResets = 0
  MaxDepth = 1
INVARIANTS RoundtripTypeOK FetchedAsBound ResultArrivesAfterFetches
PROPERTY ImplementsArgList
CHECK_DEADLOCK FALSE
