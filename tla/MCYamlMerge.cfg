CONSTANTS
  Chars <- MCChars
  Docs <- MCDocs

SPECIFICATION Spec

\* merge_custom_yaml runs once: the model stops after the write or the raise.
CHECK_DEADLOCK FALSE

INVARIANTS
  AdditionalItemsMerged
  BasePreserved
