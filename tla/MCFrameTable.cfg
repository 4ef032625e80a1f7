SPECIFICATION FrameSpec
CONSTANTS
  Width = 16
  Reg = {6, 7, 16, 17}
  Sections <- MCSections
  Addrs = {15, 16, 18, 19, 22, 23, 24, 25, 26, 27, 29, 31, 32, 40, 43, 44, 47, 48, 50}
  Functions <- MCFunctions
  regs <- MCRegs
INVARIANTS
  FrameTypeOK
  CfaOfRow
  FrameIsOwn
CHECK_DEADLOCK FALSE
