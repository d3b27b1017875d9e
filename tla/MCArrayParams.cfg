SPECIFICATION Spec
CONSTANTS
  Word = 16
  NameOrder <- Names
  Documents <- ArrayDocuments
  Calls <- ArrayCalls
INVARIANT ArraysArrive
CHECK_DEADLOCK FALSE
