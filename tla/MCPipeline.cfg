CONSTANTS
  f1 = f1
  f2 = f2
  f3 = f3
  k1 = k1
  k2 = k2
  n1 = n1
  n2 = n2
  n3 = n3
  o1 = o1
  o2 = o2
  NotStr = NotStr
  Null = Null
  Funcs <- MCFuncs
  OpKey <- MCOpKey
  CppName <- MCCppName
  Documents <- MCDocuments
  OpApiDocs <- MCOpApiDocs
  Ops <- MCOps
  OpKeyOf <- MCOpKeyOf
  Targets <- MCTargets
  ClassMethod = FALSE
  NativeInfos <- MCNativeInfos

SPECIFICATION FairSpec

\* a batch run: it stops after the last generator call, on a raise, or on
\* an aborted resolution.
CHECK_DEADLOCK FALSE

INVARIANTS
  TypeOK
  RegisteredWrapperDefined
  OpApiBranchFromSchema

PROPERTY
  WrapperEventuallyDefined
