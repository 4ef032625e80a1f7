SPECIFICATION FairSpec
CONSTANTS
  Inst <- StraightInst
  InstLen <- StraightInstLen
  Op <- StraightOp
  Dest <- StraightDest
  Rows <- StraightRows
  Entry = 1
  MaxDepth = 2
  Signals = {"other"}
  UserLines = {1, 2, 4}
  MaxProcs = 2
  GodbgTest = FALSE
PROPERTY
  CommandReturns
CHECK_DEADLOCK FALSE
