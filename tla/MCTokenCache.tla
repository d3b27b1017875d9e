----------------------------- MODULE MCTokenCache -----------------------------
(***************************************************************************)
(* Instances of TokenCache for TLC: one API whose operations differ in     *)
(* their scopes, called by two threads with one client's settings.         *)
(***************************************************************************)
EXTENDS TokenCache

CONSTANTS t1, t2, tokenUrl, refreshUrl

Settings(secret) ==
  [clientId |-> "client", audience |-> "api", tokenUrlOverride |-> NoUrl,
   refreshUrlOverride |-> NoUrl, scopesOverride |-> << >>,
   secret |-> secret, authMethod |-> "basic"]

SchemeWithRefresh == [tokenUrl |-> tokenUrl, refreshUrl |-> refreshUrl]

Call(secret, scheme, scopes) ==
  [oauth |-> Settings(secret), scheme |-> scheme, scopes |-> scopes]

Unconfigured == [oauth |-> NoConfig, scheme |-> SchemeWithRefresh, scopes |-> << >>]

SomeRequests ==
  {Call("keychain", SchemeWithRefresh, <<<<"read">>>>),
   Call("cleartext", SchemeWithRefresh, <<<<"read">>, <<"write">>>>), Unconfigured}

TwoThreads == {t1, t2}
OneAndTwo  == {1, 2}
=============================================================================
