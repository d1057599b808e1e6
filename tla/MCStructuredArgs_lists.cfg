CONSTANTS
  NoPrecompute = NoPrecompute
  Null <- NoPrecompute
  Groups <- MCGroups

SPECIFICATION Spec
CHECK_DEADLOCK FALSE
INVARIANT TensorListsRejected
