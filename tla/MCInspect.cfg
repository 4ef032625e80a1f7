SPECIFICATION InspectSpec
CONSTANTS
  Inst <- Addrs
  InstLen <- CodeInstLen
  Op <- CodeOp
  Dest <- CodeDest
  Rows <- CodeRows
  Frame <- CodeFrame
  Fdes <- CodeFdes
  DebugInfos <- Sections
  StackWords <- Words
  Strings = {201, 202}
  LenOf <- Lengths
  Names = {"s", "v", "h"}
  MaxAlloc = 99
  SignBit = 128
  Entry = 1
  MaxDepth = 3
  Signals = {"other"}
  UserLines = {2, 4}
  MaxProcs = 1
  GodbgTest = FALSE
INVARIANTS
  InspectTypeOK
  ListIsTable
  VariablesAreOwn
  DisassemblyIsProgram
  ArrowAtControl
  BtShowsCallers
  PrintsOwnString
PROPERTY
  TransparentUntilPanic
VIEW WithoutHistory
CHECK_DEADLOCK FALSE
