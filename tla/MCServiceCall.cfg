SPECIFICATION Spec
CONSTANTS
  Word = 16
  NameOrder <- Names
  Documents <- AllDocuments
  Calls <- AllCalls
INVARIANTS
  ArrivesIfPlain
  AnsweredByItsOperation
CHECK_DEADLOCK FALSE
