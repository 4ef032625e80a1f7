SPECIFICATION SessionSpec
CONSTANTS
  s1 = s1
  s2 = s2
  s3 = s3
  Sessions <- ThreeSessions
  Base <- TwoNames
  None = None
  GodbgTest = FALSE
INVARIANTS
  SessionTypeOK
  RunsOwnBuild
  ReturnRemovesBuild
CHECK_DEADLOCK FALSE
