SPECIFICATION FairSpec
CONSTANTS
  t1 = t1
  t2 = t2
  tokenUrl = tokenUrl
  refreshUrl = refreshUrl
  NoConfig = NoConfig
  NoUrl = NoUrl
  NoRequest = NoRequest
  NoToken = NoToken
  NoPost = NoPost
  NoRefresh = NoRefresh
  NoThread = NoThread
  Threads <- TwoThreads
  Requests <- SomeRequests
  Lifetimes <- OneAndTwo
  Jiggle = 1
  MaxDelay = 1
  MaxTime = 2
  MaxCalls = 3
INVARIANTS
  NoRedundantExchange
  ServedTokenAlive
  RotatedTokenNotReplayed
  LockInv
  AtMostOneExchange
  TokenHasRequestedScopes
PROPERTIES
  ImplementsProvider
  EveryCallReturns
CHECK_DEADLOCK FALSE
