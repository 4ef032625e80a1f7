SPECIFICATION FairSpec
CONSTANTS
  Inst <- OneByteInst
  InstLen <- OneByteInstLen
  Op <- OneByteOp
  Dest <- OneByteDest
  Rows <- OneByteRows
  Entry = 1
  MaxDepth = 2
  Signals = {}
  UserLines = {1}
  MaxProcs = 1
  GodbgTest = FALSE
PROPERTY
  CommandReturns
CHECK_DEADLOCK FALSE
