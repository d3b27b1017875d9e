----------------------------- MODULE MCSpecFetch -----------------------------
(***************************************************************************)
(* Instances of SpecFetch for TLC: two entries of the settings and the     *)
(* configuration of the client, each with one section, with some           *)
(* combinations of OAuth2 settings, or with all of them.                   *)
(***************************************************************************)
EXTENDS SpecFetch

OneName == {"Authorization"}

Sections == {"cookies", "headers", "query", "auth", "proxy", "apiKey"}

ManyTexts ==
  {<<s, who>> : s \in Sections \union OAuth2Strings \union {"Bearer"}, who \in 1 .. 4}
    \union {<<"argument", 4>>}

\* The sections and OAuth2 fields a configuration gives; "bearer" is a header, too.
Contents ==
  {{}} \union {{s} : s \in Sections \union {"bearer", "clientSecretKeychain", "scopes", "tokenUrl"}}
    \union {{"clientId", "clientSecret"}, {"tokenUrl", "noSpecFetch"}, {"tokenUrl", "auth"},
            {"clientId", "tokenUrl", "audience", "headers"},
            Sections \union OAuth2Strings}

\* The configuration with some contents, its values told apart by who gives them.
ConfigWith(contents, who) ==
  LET V(s)  == IF s \in contents THEN <<s, who>> ELSE None
      Vs(s) == IF s \in contents THEN <<<<s, who>>>> ELSE << >>
      Secret(s) == IF s \in contents THEN [user |-> V(s), password |-> V(s), keychain |-> None]
                   ELSE None
  IN  [target  |-> [key |-> "scope", pattern |-> "*"],
       cookies |-> [n \in Names |-> V("cookies")],
       headers |-> [n \in Names |-> IF "bearer" \in contents THEN <<Bearer(who)>> ELSE Vs("headers")],
       query   |-> [n \in Names |-> Vs("query")],
       auth    |-> Secret("auth"), proxy |-> Secret("proxy"), apiKey |-> V("apiKey"),
       oauth2  |-> IF contents \intersect (OAuth2Strings \union {"noSpecFetch"}) = {} THEN None
                   ELSE [texts |-> [f \in OAuth2Strings |-> V(f)],
                         useForSpecFetch |-> "noSpecFetch" \notin contents]]

TwoEntries == {<<ConfigWith(c, 1), ConfigWith(d, 2)>> : c, d \in Contents}

\* A client is made with a configuration, or with an API key and a bearer token as well.
Clients == {ConfigWith(c, 3) : c \in Contents}
             \union {WithArguments(ConfigWith(c, 3), <<"argument", 4>>, 4) : c \in {{}, {"headers"}}}

Named(scheme, host, port) == [scheme |-> scheme, host |-> host, port |-> port]

Here == Named("https", "docs", 8443)

SomeServers ==
  {<< >>, <<Named("", "", 0)>>, <<Named("http", "", 0), Named("http", "api", 0)>>}

Indexes == {0, 1}
=============================================================================
