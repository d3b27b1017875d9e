---------------------------- MODULE MCSettingsFile ----------------------------
(***************************************************************************)
(* Instances of SettingsFile for TLC: entries with each kind of secret,    *)
(* with OAuth2 settings, with repeated headers, and files with readable,   *)
(* unreadable and untargeted entries and with empty texts.                 *)
(***************************************************************************)
EXTENDS SettingsFile

OneName   == {"n"}
TwoScopes == {"a", "b"}
AllPatterns == TwoScopes \union {"*", "x", "bad"}
FewTexts  == {"c", "k", "x", "y", "id", "signature", "scopes", "bad", "u", "p"}

Secret(user, password, keychain) == [user |-> user, password |-> password, keychain |-> keychain]

OAuth2With(scopes, endpointAuth) ==
  [texts |-> [NewOAuth2.texts EXCEPT !["clientId"] = "id", !["scopes"] = scopes,
                                     !["tokenEndpointAuth"] = endpointAuth],
   useForSpecFetch |-> FALSE]

AllConfigs ==
  {NewConfig,
   [NewConfig EXCEPT !.cookies = [n \in Names |-> "c"], !.apiKey = "k",
                     !.headers = [n \in Names |-> <<"x">>]],
   [NewConfig EXCEPT !.headers = [n \in Names |-> <<"x", "y">>]],
   [NewConfig EXCEPT !.query = [n \in Names |-> <<"x", "x">>]],
   [NewConfig EXCEPT !.oauth2 = OAuth2With(None, "signature")],
   [NewConfig EXCEPT !.oauth2 = OAuth2With("scopes", None)],
   [NewConfig EXCEPT !.oauth2 = OAuth2With(None, "bad")]}
    \union {[NewConfig EXCEPT !.auth = Secret(u, p, k)] :
              u \in {None, "u"}, p \in {None, "p"}, k \in {None, "k"}}
    \union {[NewConfig EXCEPT !.proxy = Secret(u, p, k)] :
              u \in {None, "u"}, p \in {None, "p"}, k \in {None, "k"}}

NewNode(target) == [ConfigToNode(NewConfig) EXCEPT !.target = target]
ScopeA == [key |-> "scope", pattern |-> "a"]
Url(p) == [key |-> "url", pattern |-> p]

WithScope ==
  [NewNode(None) EXCEPT !.oauth2 =
     [texts |-> [k \in OAuth2Keys |-> IF k = "scope" THEN "scopes" ELSE None],
      useForSpecFetch |-> None]]

\* Keys that are there with an empty text: a password, and the users of a proxy and of
\* basic authentication.
WithEmptyPassword == [NewNode(None) EXCEPT !.auth = Secret("u", Empty, "k")]
WithEmptyUsers ==
  [NewNode(ScopeA) EXCEPT !.auth = Secret(Empty, "p", None), !.proxy = Secret(Empty, "p", None)]

AllFiles ==
  {<< >>, <<NewNode(Url("x")), NewNode(ScopeA)>>, <<NewNode(Url("bad")), NewNode(ScopeA)>>,
   <<WithScope>>, <<WithEmptyPassword>>, <<WithEmptyUsers>>}
=============================================================================
