SPECIFICATION FetchSpec
CONSTANTS
  None = None
  Empty = Empty
  Minted = Minted
  Names <- OneName
  Texts <- ManyTexts
  SettingsLists <- TwoEntries
  AdHocConfigs <- Clients
  DocumentUrl <- Here
  ServerLists <- SomeServers
  ServerIndexes <- Indexes
INVARIANTS
  PrecedenceHolds
  OAuth2FieldWise
  FetchKeepsCredentials
  TokenSentAsConfigured
  OneAuthorization
  MadeForItsServer
CHECK_DEADLOCK FALSE
