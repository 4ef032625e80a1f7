SPECIFICATION InspectSpec
CONSTANTS
  Inst <- Addrs
  InstLen <- CodeInstLen
  Op <- CodeOp
  Dest <- CodeDest
  Rows <- CodeRows
  Frame <- CodeFrame
  Fdes <- CodeFdes
  DebugInfos <- Sections
  StackWords <- Words
  Strings = {201}
  LenOf <- HelloOnly
  Names = {"s", "v", "h"}
  MaxAlloc = 99
  SignBit = 128
  Entry = 1
  MaxDepth = 3
  Signals = {}
  UserLines = {}
  MaxProcs = 1
  GodbgTest = FALSE
INVARIANT
  ShowsCallStack
CHECK_DEADLOCK FALSE
