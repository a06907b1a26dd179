SPECIFICATION Spec
CONSTANTS
  IntRegs <- MCIntRegs
  FloatRegs <- MCFloatRegs
  VecTotal = 96
  Types = {"char", "longlong", "float", "double"}
  Modes <- MCModes
  MaxArgs = 6
  MaxVariadic = 4
INVARIANTS TypeOK FetchedUnlessKnown OnlyLostMisread DoublewordsAligned BalancedUnlessKnown CallRepeatable FaultOnlyUnreserved
CHECK_DEADLOCK FALSE
