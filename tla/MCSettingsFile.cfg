SPECIFICATION Spec
CONSTANTS
  None = None
  Empty = Empty
  Names <- OneName
  Texts <- FewTexts
  Scopes <- TwoScopes
  Patterns <- AllPatterns
  Configs <- AllConfigs
  UserFiles <- AllFiles
  MaxLength = 2
  MaxSteps = 6
INVARIANTS
  PlainRoundTrip
  StableAfterRoundTrip
CHECK_DEADLOCK FALSE
