SPECIFICATION Spec
CONSTANTS
  Methods <- TwoMethods
  RequestTypes <- TypeOfEach
  BaseConfigs <- SomeBases
  CommandLines <- UpToTwo
  Written <- WrittenDocuments
INVARIANTS
  ReadAsWritten
  StartsUnlessPathShared
  PathParametersHavePlaces
  TagsTakeEffect
CHECK_DEADLOCK FALSE
