SPECIFICATION Spec
CONSTANTS
  Inst <- StraightInst
  InstLen <- StraightInstLen
  Op <- StraightOp
  Dest <- StraightDest
  Rows <- StraightRows
  Entry = 1
  MaxDepth = 2
  Signals = {}
  UserLines = {2}
  MaxProcs = 2
  GodbgTest = FALSE
INVARIANT
  NeverPanics
CHECK_DEADLOCK FALSE
