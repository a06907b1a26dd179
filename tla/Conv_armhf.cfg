SPECIFICATION Spec
CONSTANTS
  IntRegs <- MCArmhf
  FloatRegs <- MCArmhf
  VecTotal = 96
  Types = {"char", "longlong", "float", "double"}
  Modes <- MCArmhfModes
  MaxArgs = 5
  MaxVariadic = 4
INVARIANT FetchedAsBound
CHECK_DEADLOCK FALSE
