SPECIFICATION Spec
CONSTANTS
  Inst <- CallsInst
  InstLen <- CallsInstLen
  Op <- CallsOp
  Dest <- CallsDest
  Rows <- CallsRows
  Entry = 1
  MaxDepth = 2
  Signals = {"urg", "other"}
  UserLines = {1, 2, 4, 9}
  MaxProcs = 2
  GodbgTest = TRUE
INVARIANTS
  TypeOK
  PatchedIffListed
  ControlExplained
  TrapIsBreakPoint
  NextNotDeeper
  StepExecutes
  ContinueLeavesBreakPoint
  ContinueStopsAtBreakPoints
PROPERTIES
  Transparent
  NextExecutes
CHECK_DEADLOCK FALSE
