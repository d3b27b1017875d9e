---------------------------- MODULE OAuthRequest ----------------------------
(***************************************************************************)
(* What one OAuth2 security requirement asks for once the user's settings  *)
(* and the OpenAPI document are put together: the pure prologue of         *)
(* OAuth2ClientCredentialsHandler::satisfy and the parts of requestToken   *)
(* that only depend on the request.                                        *)
(*                                                                         *)
(* A request is a record                                                   *)
(*   oauth         NoConfig, or the user's settings: clientId, audience,   *)
(*                 tokenUrlOverride, refreshUrlOverride, scopesOverride,   *)
(*                 secret ("none", "cleartext" or "keychain"), authMethod  *)
(*   scheme        tokenUrl and refreshUrl of the OpenAPI security scheme  *)
(*   scopes        the scopes of the operation's security requirement      *)
(* A URL is a model value, NoUrl for the empty string.  A scope is the     *)
(* non-empty sequence of the parts between its colons, so that joining     *)
(* scopes with ":" is concatenation: "a:b" is <<"a","b">>, and the joins   *)
(* of ["a:b"] and of ["a","b"] are equal, as they are in the program.      *)
(***************************************************************************)
EXTENDS Sequences, SequencesExt

CONSTANTS NoConfig, NoUrl

ResolvedScopes(r) ==
  IF r.oauth.scopesOverride = << >> THEN r.scopes ELSE r.oauth.scopesOverride

ResolvedTokenUrl(r) ==
  IF r.oauth.tokenUrlOverride = NoUrl THEN r.scheme.tokenUrl
  ELSE r.oauth.tokenUrlOverride

ResolvedRefreshUrl(r) ==
  LET chosen == IF r.oauth.refreshUrlOverride = NoUrl THEN r.scheme.refreshUrl
                ELSE r.oauth.refreshUrlOverride
  IN  IF chosen = NoUrl THEN ResolvedTokenUrl(r) ELSE chosen

\* stx::join(scopes, ":")
ScopeKey(scopes) == FlattenSeq(scopes)

\* Mutant: tokens are shared across scopes.
TokenKeyWithoutScopes(r) ==
  [tokenUrl |-> ResolvedTokenUrl(r), clientId |-> r.oauth.clientId,
   audience |-> r.oauth.audience, scopeKey |-> << >>]

TokenKey(r) ==
  [tokenUrl |-> ResolvedTokenUrl(r), clientId |-> r.oauth.clientId,
   audience |-> r.oauth.audience, scopeKey |-> ScopeKey(ResolvedScopes(r))]

\* The requests that are turned down before the cache is looked at.
Unusable(r) ==
  \/ r.oauth = NoConfig
  \/ ResolvedTokenUrl(r) = NoUrl

\* What the token endpoint is asked to grant for a request.
Grant(r) == [clientId |-> r.oauth.clientId, audience |-> r.oauth.audience,
             scopes |-> ResolvedScopes(r)]

\* How a token request authenticates its client, given whether a secret is at hand.
ClientAuthentication(r, hasSecret) ==
  IF hasSecret THEN r.oauth.authMethod ELSE "anonymous"

\* Whether a secret is at hand after secret::load: a cleartext secret always
\* is, and a keychain that does not answer in time yields the empty string.
SecretOutcomes(r) ==
  CASE r.oauth.secret = "none"      -> {FALSE}
    [] r.oauth.secret = "cleartext" -> {TRUE}
    [] OTHER                        -> {TRUE, FALSE}
=============================================================================
