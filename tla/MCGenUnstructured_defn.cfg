CONSTANTS
  o1 = o1
  o2 = o2
  k1 = k1
  k2 = k2
  w1 = w1
  w2 = w2
  Ops <- MCOps
  OpKeyOf <- MCOpKeyOf
  WrapNames <- MCWrapNames
  Targets <- MCDefinitionOnly
  ClassMethod = FALSE

SPECIFICATION Spec
CHECK_DEADLOCK FALSE
INVARIANT NoInternalError
