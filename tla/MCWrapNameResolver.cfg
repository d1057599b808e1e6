CONSTANTS
  f1 = f1
  f2 = f2
  f3 = f3
  k1 = k1
  k2 = k2
  n1 = n1
  n2 = n2
  n3 = n3
  NotStr = NotStr
  Null = Null
  Funcs <- MCFuncs
  OpKey <- MCOpKey
  CppName <- MCCppName
  Documents <- MCDocuments

SPECIFICATION Spec

\* the generator is a batch run: it stops after the last document or on
\* the failed assertion.
CHECK_DEADLOCK FALSE

INVARIANTS
  TypeOK
  ConflictWarnedIffRenamed

PROPERTIES
  ImplementsWrapNameCache
