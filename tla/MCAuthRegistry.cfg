SPECIFICATION Spec
CONSTANTS
  AlternativesOfCalls <- AllAlternatives
  GivenConfigs <- AllConfigs
  Names = {"Authorization", "X-Key", ""}
INVARIANTS
  ThrowsOnlyIfUnsatisfiable
  AcceptedCredentialsPresent
  UserKeysStand
CHECK_DEADLOCK FALSE
