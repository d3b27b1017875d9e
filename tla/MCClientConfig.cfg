SPECIFICATION FetchSpec
CONSTANTS
  None = None
  Empty = Empty
  Minted = Minted
  Names <- OneName
  Texts <- ManyTexts
  SettingsLists <- TwoEntries
  AdHocConfigs <- Clients
  DocumentUrl <- Here
  ServerLists <- SomeServers
  ServerIndexes <- Indexes
INVARIANT ClientConfigEnriches
CHECK_DEADLOCK FALSE
