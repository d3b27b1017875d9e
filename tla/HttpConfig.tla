------------------------------ MODULE HttpConfig ------------------------------
(***************************************************************************)
(* httpcl::Config: what one entry of the HTTP settings, or the caller of a *)
(* client, says about requests; how two of them are merged, and how one is *)
(* written to YAML and read back.                                          *)
(*                                                                         *)
(* A configuration is a record                                             *)
(*   target            the URLs it is for, [key, pattern]: key "scope" for  *)
(*                     a wildcard pattern, "url" for a regular expression  *)
(*   cookies           per name a value or None (std::map)                 *)
(*   headers, query    per name the values in insertion order (multimap)   *)
(*   auth, proxy       None or credentials [user, password, keychain]      *)
(*   apiKey            a value or None                                     *)
(*   oauth2            None or [texts, useForSpecFetch]                    *)
(* None stands for an absent section and, in credentials and in OAuth2     *)
(* settings, for the empty string; patterns and the values of              *)
(* tokenEndpointAuth that cannot be read are "bad".                        *)
(***************************************************************************)
EXTENDS Sequences

CONSTANTS
  Names,  \* the names of cookies, headers and query parameters
  Texts,  \* the texts configurations are made of
  None,
  Empty   \* in the credentials of a node: the key is there, with an empty text

OAuth2Strings == {"clientId", "clientSecret", "clientSecretKeychain", "tokenUrl",
                  "refreshUrl", "audience", "scopes", "tokenEndpointAuth"}

NewOAuth2 == [texts |-> [f \in OAuth2Strings |-> None], useForSpecFetch |-> TRUE]

NewConfig ==
  [target |-> [key |-> "url", pattern |-> None], cookies |-> [n \in Names |-> None],
   headers |-> [n \in Names |-> << >>], query |-> [n \in Names |-> << >>],
   auth |-> None, proxy |-> None, apiKey |-> None, oauth2 |-> None]

OrNone(S) == S \union {None}

Credentials    == [user : OrNone(Texts), password : OrNone(Texts), keychain : OrNone(Texts)]
OAuth2Sections == [texts : [OAuth2Strings -> OrNone(Texts)], useForSpecFetch : BOOLEAN]

\* Whoever compares configurations has to know their targets, too.
IsConfig(c) ==
  c \in [target : {c.target}, cookies : [Names -> OrNone(Texts)],
         headers : [Names -> Seq(Texts)], query : [Names -> Seq(Texts)],
         auth : OrNone(Credentials), proxy : OrNone(Credentials),
         apiKey : OrNone(Texts), oauth2 : OrNone(OAuth2Sections)]

IsConfigList(list) ==
  list \in Seq({list[i] : i \in DOMAIN list}) /\ \A i \in DOMAIN list : IsConfig(list[i])

-----------------------------------------------------------------------------
(* operator |= .                                                           *)

Overwrite(old, new) == IF new = None THEN old ELSE new

Appended(old, new) == [n \in Names |-> old[n] \o new[n]]

\* Mutant: the section is replaced as a whole.
MergeOAuth2Whole(old, new) == Overwrite(old, new)

\* Every text the other section gives, useForSpecFetch always.
MergeOAuth2(old, new) ==
  LET texts == (IF old = None THEN NewOAuth2 ELSE old).texts
  IN  IF new = None THEN old
      ELSE [texts |-> [f \in OAuth2Strings |-> Overwrite(texts[f], new.texts[f])],
            useForSpecFetch |-> new.useForSpecFetch]

\* Mutants: a cookie is overwritten; a section that is there is kept.
MergeCookiesOver(conf, other) ==
  [target  |-> conf.target,
   cookies |-> [n \in Names |-> Overwrite(conf.cookies[n], other.cookies[n])],
   headers |-> Appended(conf.headers, other.headers),
   query   |-> Appended(conf.query, other.query),
   auth    |-> Overwrite(conf.auth, other.auth),
   proxy   |-> Overwrite(conf.proxy, other.proxy),
   apiKey  |-> Overwrite(conf.apiKey, other.apiKey),
   oauth2  |-> MergeOAuth2(conf.oauth2, other.oauth2)]

MergeFirstWins(conf, other) ==
  [target  |-> conf.target,
   cookies |-> [n \in Names |-> Overwrite(other.cookies[n], conf.cookies[n])],
   headers |-> Appended(conf.headers, other.headers),
   query   |-> Appended(conf.query, other.query),
   auth    |-> Overwrite(other.auth, conf.auth),
   proxy   |-> Overwrite(other.proxy, conf.proxy),
   apiKey  |-> Overwrite(other.apiKey, conf.apiKey),
   oauth2  |-> MergeOAuth2(conf.oauth2, other.oauth2)]

\* A cookie that is there stays, a header or query parameter is added to the
\* ones of its name, any other section is overwritten.
Merge(conf, other) ==
  [target  |-> conf.target,
   cookies |-> [n \in Names |-> Overwrite(other.cookies[n], conf.cookies[n])],
   headers |-> Appended(conf.headers, other.headers),
   query   |-> Appended(conf.query, other.query),
   auth    |-> Overwrite(conf.auth, other.auth),
   proxy   |-> Overwrite(conf.proxy, other.proxy),
   apiKey  |-> Overwrite(conf.apiKey, other.apiKey),
   oauth2  |-> MergeOAuth2(conf.oauth2, other.oauth2)]

-----------------------------------------------------------------------------
(* configToNode and configFromNode.  A node is a record like the           *)
(* configuration, None for a key that is not there; its headers and query  *)
(* have one value per name, and the texts of its oauth2 section are by     *)
(* OAuth2Keys: scopes are written under "scopes" and read from "scope".    *)
(* Whether a key of credentials is there counts, even if its text is       *)
(* empty; an empty text in the oauth2 section is as good as no key.        *)

CredentialNodes ==
  LET Present == Texts \union {Empty}
  IN  [user : OrNone(Present), password : OrNone(Present), keychain : OrNone(Present)]

OAuth2Keys  == OAuth2Strings \union {"scope"}
OAuth2Nodes == [texts : [OAuth2Keys -> OrNone(Texts)], useForSpecFetch : OrNone(BOOLEAN)]

IsNode(n) ==
  n \in [target : {n.target}, cookies : [Names -> OrNone(Texts)],
         headers : [Names -> OrNone(Texts)], query : [Names -> OrNone(Texts)],
         auth : OrNone(CredentialNodes), proxy : OrNone(CredentialNodes),
         apiKey : OrNone(Texts), oauth2 : OrNone(OAuth2Nodes)]

ASSUME NoneAssumption ==
  /\ None \notin Texts /\ None \notin BOOLEAN /\ None \notin Credentials \union CredentialNodes
  /\ Empty \notin OrNone(Texts)
  /\ None \notin OAuth2Sections /\ None \notin OAuth2Nodes

\* The password, or else the keychain, neither if it is empty.
SecretToNode(user, c) ==
  [user |-> user, password |-> c.password,
   keychain |-> IF c.password = None THEN c.keychain ELSE None]

\* Basic authentication is written with its user, an empty one, too; a proxy without a
\* user without the key.
CredentialsToNode(c) ==
  IF c = None THEN None ELSE SecretToNode(IF c.user = None THEN Empty ELSE c.user, c)

NoCredentials == [user |-> None, password |-> None, keychain |-> None]

ProxyToNode(c) ==
  IF c = None THEN None
  ELSE IF c.user = None THEN NoCredentials ELSE SecretToNode(c.user, c)

OAuth2TextsToNode(texts) == [k \in OAuth2Keys |-> IF k = "scope" THEN None ELSE texts[k]]

\* Mutant: useForSpecFetch is written the wrong way round.
OAuth2ToNodeInverted(o) ==
  IF o = None THEN None
  ELSE [texts |-> OAuth2TextsToNode(o.texts),
        useForSpecFetch |-> IF o.useForSpecFetch THEN FALSE ELSE None]

OAuth2ToNode(o) ==
  IF o = None THEN None
  ELSE [texts |-> OAuth2TextsToNode(o.texts),
        useForSpecFetch |-> IF o.useForSpecFetch THEN None ELSE FALSE]

FirstValue(values) == IF values = << >> THEN None ELSE Head(values)

ConfigToNode(conf) ==
  [target  |-> conf.target,
   cookies |-> conf.cookies,
   headers |-> [n \in Names |-> FirstValue(conf.headers[n])],
   query   |-> [n \in Names |-> FirstValue(conf.query[n])],
   auth    |-> CredentialsToNode(conf.auth),
   proxy   |-> ProxyToNode(conf.proxy),
   apiKey  |-> conf.apiKey,
   oauth2  |-> OAuth2ToNode(conf.oauth2)]

\* In credentials that one of the texts is not empty, in a node that its key is there.
HasPassword(c) == c.password # None \/ c.keychain # None

\* configFromNode throws on a malformed regular expression, on credentials without
\* the key of a user, or without that of a password and that of a keychain, and on an
\* unknown method or a nonce length out of range.
Throws(node) ==
  \/ node.target = [key |-> "url", pattern |-> "bad"]
  \/ node.auth # None /\ (node.auth.user = None \/ ~ HasPassword(node.auth))
  \/ node.proxy # None /\ node.proxy.user # None /\ ~ HasPassword(node.proxy)
  \/ node.oauth2 # None /\ node.oauth2.texts["tokenEndpointAuth"] = "bad"

OAuth2FromNode(o) ==
  IF o = None THEN None
  ELSE [texts |-> [f \in OAuth2Strings |-> o.texts[IF f = "scopes" THEN "scope" ELSE f]],
        useForSpecFetch |-> Overwrite(TRUE, o.useForSpecFetch)]

Content(text) == IF text = Empty THEN None ELSE text

\* Mutant: a keychain is not read.
CredentialsFromNodeNoKeychain(c) ==
  IF c = None THEN None
  ELSE [user |-> Content(c.user), password |-> Content(c.password), keychain |-> None]

\* A keychain is read only without the key of a password.
CredentialsFromNode(c) ==
  IF c = None THEN None
  ELSE [user |-> Content(c.user), password |-> Content(c.password),
        keychain |-> IF c.password = None THEN Content(c.keychain) ELSE None]

ProxyFromNode(c) ==
  IF c # None /\ c.user = None THEN NoCredentials ELSE CredentialsFromNode(c)

Values(v) == IF v = None THEN << >> ELSE <<v>>

ConfigFromNode(node) ==
  [target  |-> IF node.target = None THEN [key |-> "scope", pattern |-> "*"] ELSE node.target,
   cookies |-> node.cookies,
   headers |-> [n \in Names |-> Values(node.headers[n])],
   query   |-> [n \in Names |-> Values(node.query[n])],
   auth    |-> CredentialsFromNode(node.auth),
   proxy   |-> ProxyFromNode(node.proxy),
   apiKey  |-> node.apiKey,
   oauth2  |-> OAuth2FromNode(node.oauth2)]
=============================================================================
