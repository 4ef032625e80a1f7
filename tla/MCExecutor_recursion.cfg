SPECIFICATION Spec
CONSTANTS
  Inst <- RecursiveInst
  InstLen <- RecursiveInstLen
  Op <- RecursiveOp
  Dest <- RecursiveDest
  Rows <- RecursiveRows
  Entry = 1
  MaxDepth = 3
  Signals = {}
  UserLines = {3}
  MaxProcs = 1
  GodbgTest = FALSE
INVARIANT
  NextNotDeeper
CHECK_DEADLOCK FALSE
