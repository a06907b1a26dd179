SPECIFICATION Spec
CONSTANTS
  NumIntRegs = 3
  NumFloatRegs = 1
  VMSize = 72
  Aggrs = {"II", "IS", "MEM"}
  Size <- MCSize
  Classes <- MCClasses
  MaxArgs = 4
  MaxResets = 1
  MaxDepth = 1
CONSTRAINT FewAfterReset
INVARIANTS NoRegisterSkipped FramesIntact TypeOK ArgsIntact LeftToRight WholeAggregates VectorSafe AlignedUnlessLost HiddenPointer
CHECK_DEADLOCK FALSE
