CONSTANTS
  a = a
  b = b
  Names <- MCNames
  Docs <- MCDocs
  StripAfterUpdate = FALSE

SPECIFICATION Spec
CHECK_DEADLOCK FALSE
INVARIANTS TypeOK
