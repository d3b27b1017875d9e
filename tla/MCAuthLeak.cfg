SPECIFICATION Spec
CONSTANTS
  AlternativesOfCalls <- AllAlternatives
  GivenConfigs <- AllConfigs
  Names = {"Authorization", "X-Key", ""}
INVARIANTS
  PassesOnlyIfSatisfiable
CHECK_DEADLOCK FALSE
