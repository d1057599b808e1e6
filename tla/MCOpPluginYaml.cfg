CONSTANTS
  f1 = f1
  f2 = f2
  f3 = f3
  k1 = k1
  k2 = k2
  n1 = n1
  n2 = n2
  n3 = n3
  NotStr = NotStr
  Null = Null
  Funcs <- MCFuncs
  OpKey <- MCOpKey
  CppName <- MCCppName
  Files <- RecordFiles

SPECIFICATION Spec

\* one file is resolved, then the run ends (or stops on an error).
CHECK_DEADLOCK FALSE

INVARIANTS
  SymintDeclarationsHonoured
