-------------------------- MODULE SettingsFileProofs --------------------------
(***************************************************************************)
(* Theorems about SettingsFile, for any files users write, anything        *)
(* programs assign, and any bounds.                                        *)
(***************************************************************************)
EXTENDS SettingsFile, SequenceTheorems, WellFoundedInduction, TLAPS

-----------------------------------------------------------------------------
(* What one entry loses on its way through a file.                         *)

\* An entry settings may hold: one whose pattern was read.
Readable == Targets \ {[key |-> "url", pattern |-> "bad"]}

IsEntry(conf) == IsConfig(conf) /\ conf.target \in Readable

IsEntryNode(node) == IsNode(node) /\ node.target \in OrNone(Targets)

\* Credentials by their fields.
LEMMA CredentialFields ==
  ASSUME NEW c \in Credentials, NEW d \in Credentials
  PROVE  c = d <=> c.user = d.user /\ c.password = d.password /\ c.keychain = d.keychain
BY DEF Credentials

\* Credentials keep one secret, the password if there are two.
LEMMA SecretRoundTrip ==
  ASSUME NEW c \in Credentials, NEW user \in Texts \union {Empty}
  PROVE  LET n == SecretToNode(user, c)
             d == CredentialsFromNode(n)
         IN  /\ n \in CredentialNodes /\ n # None /\ n.user = user
             /\ HasPassword(n) <=> HasPassword(c)
             /\ d \in Credentials /\ d # None
             /\ d.user = Content(user) /\ d.password = c.password
             /\ d.keychain = IF c.password = None THEN c.keychain ELSE None
<1> DEFINE n == SecretToNode(user, c)
           d == CredentialsFromNode(n)
<1>1. /\ c.user \in OrNone(Texts) /\ c.password \in OrNone(Texts) /\ c.keychain \in OrNone(Texts)
  BY DEF Credentials
<1>2. \A t \in OrNone(Texts) : Content(t) = t
  BY NoneAssumption DEF Content, OrNone
<1>3. Content(user) \in OrNone(Texts)
  BY DEF Content, OrNone
<1>4. /\ n \in CredentialNodes /\ n # None /\ n.user = user /\ n.password = c.password
      /\ n.keychain = IF c.password = None THEN c.keychain ELSE None
  <2>1. n \in CredentialNodes
    BY <1>1 DEF SecretToNode, CredentialNodes, OrNone
  <2> QED BY <2>1, NoneAssumption DEF SecretToNode
<1> HIDE DEF n
<1>5. d = [user |-> Content(n.user), password |-> Content(n.password),
           keychain |-> IF n.password = None THEN Content(n.keychain) ELSE None]
  BY <1>4 DEF CredentialsFromNode
<1>6. n.password \in OrNone(Texts) /\ n.keychain \in OrNone(Texts)
  BY <1>1, <1>4 DEF OrNone
<1>7. /\ d.user = Content(user) /\ d.password = c.password
      /\ d.keychain = IF c.password = None THEN c.keychain ELSE None
  BY <1>2, <1>4, <1>5, <1>6
<1>8. d \in Credentials
  BY <1>1, <1>2, <1>3, <1>4, <1>5, <1>6 DEF Credentials, OrNone
<1>9. d # None
  BY <1>8, NoneAssumption
<1>10. HasPassword(n) <=> HasPassword(c)
  BY <1>4 DEF HasPassword
<1> QED BY <1>4, <1>7, <1>8, <1>9, <1>10 DEF n

\* A configuration by its fields.
LEMMA ConfigFields ==
  ASSUME NEW c, NEW d, IsConfig(c), IsConfig(d)
  PROVE  c = d <=> /\ c.target = d.target /\ c.cookies = d.cookies
                   /\ c.headers = d.headers /\ c.query = d.query
                   /\ c.auth = d.auth /\ c.proxy = d.proxy
                   /\ c.apiKey = d.apiKey /\ c.oauth2 = d.oauth2
BY DEF IsConfig

\* Of the values of a name, the first is written.
LEMMA ValuesRoundTrip ==
  ASSUME NEW h \in Seq(Texts)
  PROVE  /\ FirstValue(h) \in OrNone(Texts)
         /\ Values(FirstValue(h)) \in Seq(Texts)
         /\ Len(Values(FirstValue(h))) <= 1
         /\ Values(FirstValue(h)) = h <=> Len(h) <= 1
<1>1. CASE h = << >>
  BY <1>1 DEF FirstValue, Values, OrNone
<1>2. CASE h # << >>
  <2>1. Len(h) \in Nat /\ Len(h) >= 1 /\ h[1] \in Texts /\ FirstValue(h) = h[1]
    BY <1>2 DEF FirstValue
  <2>2. Values(FirstValue(h)) = <<h[1]>>
    BY <2>1, NoneAssumption DEF Values
  <2>3. <<h[1]>> \in Seq(Texts) /\ Len(<<h[1]>>) = 1 /\ <<h[1]>>[1] = h[1]
    BY <2>1
  <2>4. ASSUME Len(h) <= 1 PROVE <<h[1]>> = h
    <3>1. Len(<<h[1]>>) = Len(h) /\ \A i \in 1 .. Len(<<h[1]>>) : <<h[1]>>[i] = h[i]
      BY <2>1, <2>3, <2>4
    <3> QED BY <2>3, <3>1, SeqEqual
  <2>5. ASSUME <<h[1]>> = h PROVE Len(h) <= 1
    <3>1. Len(h) = Len(<<h[1]>>)
      BY <2>5
    <3> QED BY <2>1, <2>3, <3>1
  <2> QED BY <2>1, <2>2, <2>3, <2>4, <2>5 DEF OrNone
<1> QED BY <1>1, <1>2

\* Basic authentication is read back if it has one secret, and else loses something.
LEMMA AuthRoundTrip ==
  ASSUME NEW c \in OrNone(Credentials)
  PROVE  LET n == CredentialsToNode(c)
             d == CredentialsFromNode(n)
         IN  /\ n \in OrNone(CredentialNodes) /\ d \in OrNone(Credentials)
             /\ n = None <=> c = None
             /\ d = None <=> c = None
             /\ c # None => n.user # None /\ (HasPassword(n) <=> HasPassword(c))
             /\ c # None => (d = c <=> c.password = None \/ c.keychain = None)
             /\ c # None /\ HasPassword(c) => HasOneSecret(d)
<1>1. CASE c = None
  BY <1>1, NoneAssumption DEF CredentialsToNode, CredentialsFromNode, OrNone
<1>2. CASE c # None
  <2>1. c \in Credentials /\ c.user \in OrNone(Texts) /\ c.keychain \in OrNone(Texts)
    BY <1>2 DEF OrNone, Credentials
  <2> DEFINE user == IF c.user = None THEN Empty ELSE c.user
             n == CredentialsToNode(c)
             d == CredentialsFromNode(n)
  <2>2. user \in Texts \union {Empty} /\ user # None /\ Content(user) = c.user
    BY <2>1, NoneAssumption DEF OrNone, Content
  <2>3. n = SecretToNode(user, c)
    BY <1>2 DEF CredentialsToNode
  <2> HIDE DEF n, user
  <2>4. /\ n \in CredentialNodes /\ n # None /\ n.user = user
        /\ HasPassword(n) <=> HasPassword(c)
        /\ d \in Credentials /\ d # None
        /\ d.user = c.user /\ d.password = c.password
        /\ d.keychain = IF c.password = None THEN c.keychain ELSE None
    BY <2>1, <2>2, <2>3, SecretRoundTrip
  <2>5. d = c <=> c.password = None \/ c.keychain = None
    BY <2>1, <2>4, CredentialFields
  <2>6. HasPassword(c) => HasOneSecret(d)
    BY <2>4 DEF HasPassword, HasOneSecret
  <2> QED BY <1>2, <2>2, <2>4, <2>5, <2>6 DEF OrNone, n
<1> QED BY <1>1, <1>2

\* The same of a proxy, which loses its secret if it has no user.
LEMMA ProxyRoundTrip ==
  ASSUME NEW c \in OrNone(Credentials)
  PROVE  LET n == ProxyToNode(c)
             d == ProxyFromNode(n)
         IN  /\ n \in OrNone(CredentialNodes) /\ d \in OrNone(Credentials)
             /\ n = None <=> c = None
             /\ d = None <=> c = None
             /\ c # None => /\ n.user = c.user /\ d.user = c.user
                            /\ c.user # None => (HasPassword(n) <=> HasPassword(c))
             /\ c # None /\ c.user = None => /\ d = c <=> ~HasPassword(c)
                                             /\ ~HasPassword(d)
             /\ c # None /\ c.user # None =>
                  /\ d = c <=> c.password = None \/ c.keychain = None
                  /\ HasPassword(c) => HasOneSecret(d)
<1>1. CASE c = None
  BY <1>1, NoneAssumption DEF ProxyToNode, ProxyFromNode, CredentialsFromNode, OrNone
<1>2. CASE c # None /\ c.user = None
  <2>1. c \in Credentials
    BY <1>2 DEF OrNone
  <2>2. NoCredentials \in Credentials /\ NoCredentials \in CredentialNodes
    BY DEF NoCredentials, Credentials, CredentialNodes, OrNone
  <2>3. /\ NoCredentials # None /\ NoCredentials.user = None
        /\ NoCredentials.password = None /\ NoCredentials.keychain = None
    BY <2>2, NoneAssumption DEF NoCredentials
  <2>4. ProxyToNode(c) = NoCredentials /\ ProxyFromNode(NoCredentials) = NoCredentials
    BY <1>2, <2>3 DEF ProxyToNode, ProxyFromNode
  <2>5. NoCredentials = c <=> ~HasPassword(c)
    BY <1>2, <2>1, <2>2, <2>3, CredentialFields DEF HasPassword
  <2> QED BY <1>2, <2>2, <2>3, <2>4, <2>5 DEF HasPassword, OrNone
<1>3. CASE c # None /\ c.user # None
  <2> DEFINE n == ProxyToNode(c)
             d == ProxyFromNode(n)
  <2>1. c \in Credentials /\ c.user \in Texts /\ Content(c.user) = c.user
    BY <1>3, NoneAssumption DEF OrNone, Credentials, Content
  <2>2. n = SecretToNode(c.user, c)
    BY <1>3 DEF ProxyToNode
  <2> HIDE DEF n
  <2>3. /\ n \in CredentialNodes /\ n # None /\ n.user = c.user
        /\ HasPassword(n) <=> HasPassword(c)
    BY <2>1, <2>2, SecretRoundTrip
  <2>4. d = CredentialsFromNode(n)
    BY <1>3, <2>3 DEF ProxyFromNode
  <2>5. /\ d \in Credentials /\ d # None
        /\ d.user = c.user /\ d.password = c.password
        /\ d.keychain = IF c.password = None THEN c.keychain ELSE None
    BY <2>1, <2>2, <2>4, SecretRoundTrip
  <2>6. d = c <=> c.password = None \/ c.keychain = None
    BY <2>1, <2>5, CredentialFields
  <2>7. HasPassword(c) => HasOneSecret(d)
    BY <2>5 DEF HasPassword, HasOneSecret
  <2> HIDE DEF d
  <2> QED BY <1>3, <2>3, <2>5, <2>6, <2>7 DEF OrNone, n, d
<1> QED BY <1>1, <1>2, <1>3

\* An OAuth2 section loses its scopes.
LEMMA OAuth2RoundTrip ==
  ASSUME NEW o \in OrNone(OAuth2Sections)
  PROVE  LET n == OAuth2ToNode(o)
             p == OAuth2FromNode(n)
         IN  /\ n \in OrNone(OAuth2Nodes) /\ p \in OrNone(OAuth2Sections)
             /\ n = None <=> o = None
             /\ p = None <=> o = None
             /\ o # None => /\ n.texts["tokenEndpointAuth"] = o.texts["tokenEndpointAuth"]
                            /\ p.texts["tokenEndpointAuth"] = o.texts["tokenEndpointAuth"]
                            /\ p.texts["scopes"] = None
                            /\ p = o <=> o.texts["scopes"] = None
<1>1. CASE o = None
  BY <1>1, NoneAssumption DEF OAuth2ToNode, OAuth2FromNode, OrNone
<1>2. CASE o # None
  <2> DEFINE n == OAuth2ToNode(o)
             p == OAuth2FromNode(n)
  <2>1. o \in OAuth2Sections
    BY <1>2 DEF OrNone
  <2>2. /\ n = [texts |-> n.texts, useForSpecFetch |-> n.useForSpecFetch]
        /\ n.texts = OAuth2TextsToNode(o.texts)
        /\ n.useForSpecFetch = IF o.useForSpecFetch THEN None ELSE FALSE
    BY <1>2 DEF OAuth2ToNode
  <2>3. /\ n.texts \in [OAuth2Keys -> OrNone(Texts)]
        /\ n.texts["scope"] = None
        /\ \A f \in OAuth2Strings : n.texts[f] = o.texts[f]
    BY <2>1, <2>2 DEF OAuth2TextsToNode, OAuth2Keys, OAuth2Strings, OAuth2Sections, OrNone
  <2>4. n \in OAuth2Nodes /\ n # None
    <3>1. n.useForSpecFetch \in OrNone(BOOLEAN)
      BY <2>2 DEF OrNone
    <3> HIDE DEF n
    <3>2. n \in OAuth2Nodes
      BY <3>1, <2>2, <2>3 DEF OAuth2Nodes
    <3> QED BY <3>2, NoneAssumption
  <2>5. /\ p = [texts |-> p.texts, useForSpecFetch |-> p.useForSpecFetch]
        /\ p.texts = [f \in OAuth2Strings |-> n.texts[IF f = "scopes" THEN "scope" ELSE f]]
        /\ p.useForSpecFetch = Overwrite(TRUE, n.useForSpecFetch)
    BY <2>4 DEF OAuth2FromNode
  <2>6. /\ p.texts \in [OAuth2Strings -> OrNone(Texts)]
        /\ p.texts["scopes"] = None
        /\ \A f \in OAuth2Strings \ {"scopes"} : p.texts[f] = o.texts[f]
    BY <2>1, <2>3, <2>5 DEF OAuth2Keys, OAuth2Strings, OrNone
  <2>7. p.useForSpecFetch = o.useForSpecFetch
    <3>1. o.useForSpecFetch \in BOOLEAN
      BY <2>1 DEF OAuth2Sections
    <3>2. CASE o.useForSpecFetch = TRUE
      BY <3>2, <2>2, <2>5 DEF Overwrite
    <3>3. CASE o.useForSpecFetch = FALSE
      BY <3>3, <2>2, <2>5, NoneAssumption DEF Overwrite
    <3> QED BY <3>1, <3>2, <3>3
  <2>8. p \in OAuth2Sections /\ p # None
    BY <2>1, <2>5, <2>6, <2>7, NoneAssumption DEF OAuth2Sections
  <2>9. p = o <=> p.texts = o.texts
    BY <2>1, <2>7, <2>8 DEF OAuth2Sections
  <2>10. p.texts = o.texts <=> o.texts["scopes"] = None
    BY <2>1, <2>6 DEF OAuth2Sections, OAuth2Strings
  <2> QED
    BY <1>2, <2>3, <2>4, <2>6, <2>8, <2>9, <2>10 DEF OrNone, OAuth2Strings
<1> QED BY <1>1, <1>2

\* An entry is written as a node of the file.
LEMMA EntryToNode ==
  ASSUME NEW c, IsEntry(c)
  PROVE  /\ IsEntryNode(ConfigToNode(c))
         /\ ConfigToNode(c).target = c.target
<1> DEFINE n == ConfigToNode(c)
<1>1. /\ c.cookies \in [Names -> OrNone(Texts)] /\ c.apiKey \in OrNone(Texts)
      /\ \A x \in Names : c.headers[x] \in Seq(Texts) /\ c.query[x] \in Seq(Texts)
      /\ c.auth \in OrNone(Credentials) /\ c.proxy \in OrNone(Credentials)
      /\ c.oauth2 \in OrNone(OAuth2Sections) /\ c.target \in Targets
  BY DEF IsEntry, IsConfig, Readable
<1>2. /\ \A x \in Names : /\ FirstValue(c.headers[x]) \in OrNone(Texts)
                          /\ FirstValue(c.query[x]) \in OrNone(Texts)
  BY <1>1, ValuesRoundTrip
<1>3. CredentialsToNode(c.auth) \in OrNone(CredentialNodes)
  BY <1>1, AuthRoundTrip
<1>4. ProxyToNode(c.proxy) \in OrNone(CredentialNodes)
  BY <1>1, ProxyRoundTrip
<1>5. OAuth2ToNode(c.oauth2) \in OrNone(OAuth2Nodes)
  BY <1>1, OAuth2RoundTrip
<1>6. n.target = c.target
  BY DEF ConfigToNode
<1>7. n \in [target : {c.target}, cookies : [Names -> OrNone(Texts)],
             headers : [Names -> OrNone(Texts)], query : [Names -> OrNone(Texts)],
             auth : OrNone(CredentialNodes), proxy : OrNone(CredentialNodes),
             apiKey : OrNone(Texts), oauth2 : OrNone(OAuth2Nodes)]
  BY <1>1, <1>2, <1>3, <1>4, <1>5 DEF ConfigToNode
<1> QED
  BY <1>1, <1>6, <1>7 DEF IsEntryNode, IsNode, OrNone

\* What is read without an error is an entry.
LEMMA NodeToEntry ==
  ASSUME NEW n, IsEntryNode(n), ~ Throws(n)
  PROVE  IsEntry(ConfigFromNode(n))
<1> DEFINE d == ConfigFromNode(n)
<1>1. /\ n.cookies \in [Names -> OrNone(Texts)] /\ n.apiKey \in OrNone(Texts)
      /\ \A x \in Names : n.headers[x] \in OrNone(Texts) /\ n.query[x] \in OrNone(Texts)
      /\ n.auth \in OrNone(CredentialNodes) /\ n.proxy \in OrNone(CredentialNodes)
      /\ n.oauth2 \in OrNone(OAuth2Nodes) /\ n.target \in OrNone(Targets)
  BY DEF IsEntryNode, IsNode
<1>2. ASSUME NEW v \in OrNone(Texts)
      PROVE  Values(v) \in Seq(Texts)
  BY <1>2 DEF Values, OrNone
<1>3. ASSUME NEW m \in OrNone(CredentialNodes)
      PROVE  CredentialsFromNode(m) \in OrNone(Credentials)
  <2>1. CASE m = None
    BY <2>1 DEF CredentialsFromNode, OrNone
  <2>2. CASE m # None
    <3>1. \A t \in OrNone(Texts \union {Empty}) : Content(t) \in OrNone(Texts)
      BY DEF Content, OrNone
    <3>2. /\ Content(m.user) \in OrNone(Texts) /\ Content(m.password) \in OrNone(Texts)
          /\ Content(m.keychain) \in OrNone(Texts)
      BY <1>3, <2>2, <3>1 DEF CredentialNodes, OrNone
    <3> QED BY <2>2, <3>2 DEF CredentialsFromNode, Credentials, OrNone
  <2> QED BY <2>1, <2>2
<1>4. ProxyFromNode(n.proxy) \in OrNone(Credentials)
  BY <1>1, <1>3 DEF ProxyFromNode, NoCredentials, Credentials, OrNone
<1>5. OAuth2FromNode(n.oauth2) \in OrNone(OAuth2Sections)
  <2>1. CASE n.oauth2 = None
    BY <2>1 DEF OAuth2FromNode, OrNone
  <2>2. CASE n.oauth2 # None
    <3>1. n.oauth2 \in OAuth2Nodes
      BY <1>1, <2>2 DEF OrNone
    <3>2. \A f \in OAuth2Strings :
            n.oauth2.texts[IF f = "scopes" THEN "scope" ELSE f] \in OrNone(Texts)
      BY <3>1 DEF OAuth2Nodes, OAuth2Keys
    <3>3. Overwrite(TRUE, n.oauth2.useForSpecFetch) \in BOOLEAN
      BY <3>1 DEF OAuth2Nodes, Overwrite, OrNone
    <3> QED BY <2>2, <3>2, <3>3 DEF OAuth2FromNode, OAuth2Sections, OrNone
  <2> QED BY <2>1, <2>2
<1>6. d.target \in Readable
  BY <1>1, FilesAssumption DEF ConfigFromNode, Readable, Targets, Throws, OrNone
<1>7. d \in [target : {d.target}, cookies : [Names -> OrNone(Texts)],
             headers : [Names -> Seq(Texts)], query : [Names -> Seq(Texts)],
             auth : OrNone(Credentials), proxy : OrNone(Credentials),
             apiKey : OrNone(Texts), oauth2 : OrNone(OAuth2Sections)]
  BY <1>1, <1>2, <1>3, <1>4, <1>5 DEF ConfigFromNode
<1> QED BY <1>6, <1>7 DEF IsEntry, IsConfig

\* The way through the file and back: only a plain entry survives it, and what
\* comes back is plain.
LEMMA EntryRoundTrip ==
  ASSUME NEW c, IsEntry(c)
  PROVE  LET n == ConfigToNode(c)
             d == ConfigFromNode(n)
         IN  /\ Plain(c) <=> ~ Throws(n) /\ d = c
             /\ ~ Throws(n) => Plain(d)
<1> DEFINE n == ConfigToNode(c)
           d == ConfigFromNode(n)
<1>1. /\ c.cookies \in [Names -> OrNone(Texts)]
      /\ c.headers \in [Names -> Seq(Texts)] /\ c.query \in [Names -> Seq(Texts)]
      /\ c.auth \in OrNone(Credentials) /\ c.proxy \in OrNone(Credentials)
      /\ c.oauth2 \in OrNone(OAuth2Sections) /\ c.target \in Readable
  BY DEF IsEntry, IsConfig
<1>2. /\ n.target = c.target /\ n.auth = CredentialsToNode(c.auth)
      /\ n.proxy = ProxyToNode(c.proxy) /\ n.oauth2 = OAuth2ToNode(c.oauth2)
  BY DEF ConfigToNode
<1>3. c.target # None
  BY <1>1, FilesAssumption DEF Readable
<1>4. /\ d.target = c.target /\ d.cookies = c.cookies /\ d.apiKey = c.apiKey
      /\ d.headers = [x \in Names |-> Values(FirstValue(c.headers[x]))]
      /\ d.query = [x \in Names |-> Values(FirstValue(c.query[x]))]
      /\ d.auth = CredentialsFromNode(n.auth) /\ d.proxy = ProxyFromNode(n.proxy)
      /\ d.oauth2 = OAuth2FromNode(n.oauth2)
  BY <1>3 DEF ConfigToNode, ConfigFromNode
<1>5. IsEntryNode(n)
  BY EntryToNode
<1> HIDE DEF n, d
<1> DEFINE FewValues == \A x \in Names : Len(c.headers[x]) <= 1 /\ Len(c.query[x]) <= 1
<1>6. ASSUME NEW x \in Names
      PROVE  /\ Len(d.headers[x]) <= 1 /\ Len(d.query[x]) <= 1
             /\ d.headers[x] = c.headers[x] <=> Len(c.headers[x]) <= 1
             /\ d.query[x] = c.query[x] <=> Len(c.query[x]) <= 1
  <2>1. /\ c.headers[x] \in Seq(Texts) /\ d.headers[x] = Values(FirstValue(c.headers[x]))
        /\ c.query[x] \in Seq(Texts) /\ d.query[x] = Values(FirstValue(c.query[x]))
    BY <1>1, <1>4
  <2> QED BY <2>1, ValuesRoundTrip
<1>7. d.headers = c.headers /\ d.query = c.query <=> FewValues
  BY <1>1, <1>4, <1>6
<1>8. /\ n.auth = None <=> c.auth = None
      /\ d.auth = None <=> c.auth = None
      /\ c.auth = None => d.auth = c.auth
      /\ c.auth # None => /\ n.auth.user # None
                          /\ HasPassword(n.auth) <=> HasPassword(c.auth)
                          /\ d.auth = c.auth <=> c.auth.password = None \/ c.auth.keychain = None
                          /\ HasPassword(c.auth) => HasOneSecret(d.auth)
  <2>1. c.auth \in OrNone(Credentials)
    BY <1>1
  <2>2. d.auth = CredentialsFromNode(CredentialsToNode(c.auth))
    BY <1>2, <1>4
  <2> QED BY <2>1, <2>2, <1>2, AuthRoundTrip
<1>9. /\ n.proxy = None <=> c.proxy = None
      /\ d.proxy = None <=> c.proxy = None
      /\ c.proxy = None => d.proxy = c.proxy
      /\ c.proxy # None => /\ n.proxy.user = c.proxy.user /\ d.proxy.user = c.proxy.user
                           /\ c.proxy.user # None => (HasPassword(n.proxy) <=> HasPassword(c.proxy))
      /\ c.proxy # None /\ c.proxy.user = None =>
           /\ d.proxy = c.proxy <=> ~HasPassword(c.proxy)
           /\ ~HasPassword(d.proxy)
      /\ c.proxy # None /\ c.proxy.user # None =>
           /\ d.proxy = c.proxy <=> c.proxy.password = None \/ c.proxy.keychain = None
           /\ HasPassword(c.proxy) => HasOneSecret(d.proxy)
  <2>1. c.proxy \in OrNone(Credentials)
    BY <1>1
  <2>2. d.proxy = ProxyFromNode(ProxyToNode(c.proxy))
    BY <1>2, <1>4
  <2>3. n.proxy = ProxyToNode(c.proxy)
    BY <1>2
  <2>4. CASE c.proxy = None
    BY <2>1, <2>2, <2>3, <2>4, ProxyRoundTrip
  <2>5. CASE c.proxy # None /\ c.proxy.user = None
    BY <2>1, <2>2, <2>3, <2>5, ProxyRoundTrip
  <2>6. CASE c.proxy # None /\ c.proxy.user # None
    <3>1. n.proxy # None /\ d.proxy # None /\ n.proxy.user = c.proxy.user /\ d.proxy.user = c.proxy.user
      BY <2>1, <2>2, <2>3, <2>6, ProxyRoundTrip
    <3>2. /\ HasPassword(n.proxy) <=> HasPassword(c.proxy)
          /\ HasPassword(c.proxy) => HasOneSecret(d.proxy)
      BY <2>1, <2>2, <2>3, <2>6, ProxyRoundTrip DEF HasPassword, HasOneSecret
    <3>3. d.proxy = c.proxy <=> c.proxy.password = None \/ c.proxy.keychain = None
      BY <2>1, <2>2, <2>3, <2>6, ProxyRoundTrip
    <3> QED BY <2>6, <3>1, <3>2, <3>3
  <2> QED BY <2>4, <2>5, <2>6
<1>10. /\ n.oauth2 = None <=> c.oauth2 = None
       /\ d.oauth2 = None <=> c.oauth2 = None
       /\ c.oauth2 = None => d.oauth2 = c.oauth2
       /\ c.oauth2 # None =>
            /\ n.oauth2.texts["tokenEndpointAuth"] = c.oauth2.texts["tokenEndpointAuth"]
            /\ d.oauth2.texts["tokenEndpointAuth"] = c.oauth2.texts["tokenEndpointAuth"]
            /\ d.oauth2.texts["scopes"] = None
            /\ d.oauth2 = c.oauth2 <=> c.oauth2.texts["scopes"] = None
  BY <1>1, <1>2, <1>4, OAuth2RoundTrip
<1>11. Throws(n) <=>
         \/ c.auth # None /\ ~ HasPassword(c.auth)
         \/ c.proxy # None /\ c.proxy.user # None /\ ~ HasPassword(c.proxy)
         \/ c.oauth2 # None /\ c.oauth2.texts["tokenEndpointAuth"] = "bad"
  BY <1>1, <1>2, <1>8, <1>9, <1>10 DEF Throws, Readable
<1>12. ~ Throws(n) => Plain(d)
  <2>1. ASSUME ~ Throws(n)
        PROVE  /\ d.oauth2 # None => /\ d.oauth2.texts["scopes"] = None
                                     /\ d.oauth2.texts["tokenEndpointAuth"] # "bad"
               /\ d.auth # None => HasOneSecret(d.auth)
               /\ d.proxy # None => IF d.proxy.user = None THEN ~ HasPassword(d.proxy)
                                    ELSE HasOneSecret(d.proxy)
    BY <2>1, <1>8, <1>9, <1>10, <1>11
  <2> QED BY <2>1, <1>6 DEF Plain
<1>13. Plain(c) => ~ Throws(n) /\ FewValues /\ d.auth = c.auth /\ d.proxy = c.proxy /\ d.oauth2 = c.oauth2
  BY <1>8, <1>9, <1>10, <1>11 DEF Plain, HasOneSecret
<1>14. ~ Throws(n) /\ d = c => Plain(c)
  BY <1>12
<1>15. Plain(c) => d = c
  <2> SUFFICES ASSUME Plain(c) PROVE d = c
    OBVIOUS
  <2>1. IsConfig(d) /\ IsConfig(c)
    BY <1>5, <1>13, NodeToEntry DEF IsEntry, d
  <2> QED BY <2>1, <1>4, <1>7, <1>13, ConfigFields
<1> QED BY <1>12, <1>13, <1>14, <1>15 DEF n, d

-----------------------------------------------------------------------------
(* Lists of entries.                                                       *)

IsEntryList(list) ==
  list \in Seq({list[i] : i \in DOMAIN list}) /\ \A i \in DOMAIN list : IsEntry(list[i])

IsNodeList(list) ==
  list \in Seq({list[i] : i \in DOMAIN list}) /\ \A i \in DOMAIN list : IsEntryNode(list[i])

\* A list is a function on 1 .. Len.
LEMMA ListByLength ==
  ASSUME NEW list
  PROVE  list \in Seq({list[i] : i \in DOMAIN list}) <=>
           \E n \in Nat : list = [i \in 1 .. n |-> list[i]]
<1>1. ASSUME list \in Seq({list[i] : i \in DOMAIN list})
      PROVE  \E n \in Nat : list = [i \in 1 .. n |-> list[i]]
  BY <1>1, LenProperties
<1>2. ASSUME NEW n \in Nat, list = [i \in 1 .. n |-> list[i]]
      PROVE  list \in Seq({list[i] : i \in DOMAIN list})
  <2>1. DOMAIN list = 1 .. n
    BY <1>2
  <2>2. list \in [1 .. n -> {list[i] : i \in DOMAIN list}]
    BY <1>2, <2>1
  <2> QED BY <2>2, SeqDef
<1> QED BY <1>1, <1>2

\* A set of positions that is not empty has a least one, the one Min returns.
LEMMA LeastPosition ==
  ASSUME NEW S \in SUBSET Nat, S # {}
  PROVE  Min(S) \in S /\ \A j \in S : Min(S) <= j
<1> DEFINE Less == {ss \in Nat \X Nat : ss[1] < ss[2]}
<1>1. IsWellFoundedOn(Less, Nat)
  BY NatLessThanWellFounded, Zenon DEF OpToRel
<1> HIDE DEF Less
<1>2. PICK m \in S : \A j \in S : ~ (<<j, m>> \in Less)
  BY <1>1, WFMin, Zenon
<1>3. ASSUME NEW j \in S
      PROVE  m <= j
  <2>1. j \in Nat /\ m \in Nat /\ <<j, m>> \notin Less
    BY <1>2
  <2>2. j < m => <<j, m>> \in Less
    BY <2>1, Zenon DEF Less
  <2> QED BY <2>1, <2>2
<1> QED BY <1>3 DEF Min

\* Loading reads the nodes before the first that throws, one entry for each.
LEMMA LoadedEntries ==
  ASSUME NEW nodes, IsNodeList(nodes)
  PROVE  LET list == Loaded(nodes)
         IN  /\ IsEntryList(list)
             /\ Len(list) \in Nat /\ Len(list) <= Len(nodes) /\ DOMAIN list = 1 .. Len(list)
             /\ \A i \in 1 .. Len(list) : /\ ~ Throws(nodes[i])
                                          /\ list[i] = ConfigFromNode(nodes[i])
             /\ Len(list) < Len(nodes) => Throws(nodes[Len(list) + 1])
<1> DEFINE list   == Loaded(nodes)
           bad    == {i \in DOMAIN nodes : Throws(nodes[i])}
           length == IF bad = {} THEN Len(nodes) ELSE Min(bad) - 1
<1>1. Len(nodes) \in Nat /\ DOMAIN nodes = 1 .. Len(nodes)
  BY LenProperties DEF IsNodeList
<1>2. bad \in SUBSET Nat /\ \A i \in bad : i \in 1 .. Len(nodes)
  BY <1>1
<1>3. /\ length \in 0 .. Len(nodes)
      /\ \A i \in 1 .. length : i \notin bad
      /\ length < Len(nodes) => length + 1 \in bad
  <2>1. CASE bad = {}
    BY <2>1, <1>1
  <2>2. CASE bad # {}
    <3>1. Min(bad) \in bad /\ \A j \in bad : Min(bad) <= j
      BY <1>2, <2>2, LeastPosition
    <3>2. Min(bad) \in 1 .. Len(nodes) /\ length = Min(bad) - 1
      BY <1>2, <2>2, <3>1
    <3> HIDE DEF bad, length
    <3> QED BY <1>1, <3>1, <3>2
  <2> QED BY <2>1, <2>2
<1>4. list = [i \in 1 .. length |-> ConfigFromNode(nodes[i])]
  BY DEF Loaded
<1>5. ASSUME NEW i \in 1 .. length
      PROVE  i \in DOMAIN nodes /\ ~ Throws(nodes[i])
  BY <1>1, <1>3, <1>5
<1> HIDE DEF list, length
<1>6. ASSUME NEW i \in 1 .. length
      PROVE  list[i] = ConfigFromNode(nodes[i]) /\ IsEntry(list[i])
  <2>1. list[i] = ConfigFromNode(nodes[i])
    BY <1>4
  <2>2. IsEntryNode(nodes[i]) /\ ~ Throws(nodes[i])
    BY <1>5 DEF IsNodeList
  <2> QED BY <2>1, <2>2, NodeToEntry
<1>7. length \in Nat /\ DOMAIN list = 1 .. length /\ list = [i \in 1 .. length |-> list[i]]
  BY <1>3, <1>4
<1>8. list \in Seq({list[i] : i \in DOMAIN list})
  BY <1>7, ListByLength
<1>9. Len(list) = length
  BY <1>7, <1>8, LenProperties
<1>10. IsEntryList(list)
  BY <1>6, <1>7, <1>8 DEF IsEntryList
<1>11. length < Len(nodes) => Throws(nodes[length + 1])
  BY <1>3
<1> QED
  BY <1>1, <1>3, <1>5, <1>6, <1>7, <1>9, <1>10, <1>11 DEF list

\* What is stored and loaded again is plain, and it is what was stored exactly if
\* that is plain already.
LEMMA StoredEntries ==
  ASSUME NEW list, IsEntryList(list)
  PROVE  LET back == Loaded(NodesOf(list))
         IN  /\ IsNodeList(NodesOf(list))
             /\ back = list <=> \A i \in DOMAIN list : Plain(list[i])
             /\ \A i \in DOMAIN back : Plain(back[i])
<1> DEFINE nodes == NodesOf(list)
           back  == Loaded(nodes)
<1>1. Len(list) \in Nat /\ DOMAIN list = 1 .. Len(list) /\ list = [i \in 1 .. Len(list) |-> list[i]]
  BY LenProperties DEF IsEntryList
<1>2. nodes = [i \in 1 .. Len(list) |-> ConfigToNode(list[i])]
  BY <1>1 DEF NodesOf
<1>3. DOMAIN nodes = 1 .. Len(list) /\ nodes = [i \in 1 .. Len(list) |-> nodes[i]]
  BY <1>2
<1>4. nodes \in Seq({nodes[i] : i \in DOMAIN nodes})
  BY <1>1, <1>3, ListByLength
<1>5. Len(nodes) = Len(list)
  BY <1>1, <1>3, <1>4, LenProperties
<1>6. ASSUME NEW i \in 1 .. Len(list)
      PROVE  IsEntry(list[i]) /\ nodes[i] = ConfigToNode(list[i])
  BY <1>1, <1>2 DEF IsEntryList
<1> HIDE DEF nodes
<1>7. IsNodeList(nodes)
  BY <1>3, <1>4, <1>6, EntryToNode DEF IsNodeList
<1>8. /\ Len(back) \in Nat /\ Len(back) <= Len(list) /\ DOMAIN back = 1 .. Len(back)
      /\ \A i \in 1 .. Len(back) : /\ ~ Throws(nodes[i])
                                   /\ back[i] = ConfigFromNode(nodes[i])
      /\ Len(back) < Len(list) => Throws(nodes[Len(back) + 1])
      /\ back \in Seq({back[i] : i \in DOMAIN back})
  BY <1>5, <1>7, LoadedEntries DEF IsEntryList
<1> HIDE DEF back
<1>9. ASSUME NEW i \in 1 .. Len(list)
      PROVE  /\ Plain(list[i]) <=> ~ Throws(nodes[i]) /\ ConfigFromNode(nodes[i]) = list[i]
             /\ ~ Throws(nodes[i]) => Plain(ConfigFromNode(nodes[i]))
  BY <1>6, EntryRoundTrip
<1>10. \A i \in DOMAIN back : Plain(back[i])
  BY <1>1, <1>8, <1>9
<1>11. back = list => \A i \in DOMAIN list : Plain(list[i])
  BY <1>10
<1>12. ASSUME \A i \in DOMAIN list : Plain(list[i])
       PROVE  back = list
  <2>1. Len(back) = Len(list)
    <3>1. Len(list) \in Nat /\ Len(back) \in Nat /\ Len(back) <= Len(list)
      BY <1>1, <1>8
    <3>2. ASSUME Len(back) < Len(list)
          PROVE  FALSE
      <4>1. Len(back) + 1 \in 1 .. Len(list)
        BY <3>1, <3>2
      <4>2. Throws(nodes[Len(back) + 1])
        BY <3>2, <1>8
      <4> QED BY <4>1, <4>2, <1>1, <1>9, <1>12
    <3> QED BY <3>1, <3>2
  <2>2. \A i \in 1 .. Len(list) : back[i] = list[i]
    BY <2>1, <1>1, <1>8, <1>9, <1>12
  <2>3. back = [i \in 1 .. Len(back) |-> back[i]]
    BY <1>8, LenProperties
  <2> QED BY <2>1, <2>2, <2>3, <1>1
<1> QED BY <1>7, <1>10, <1>11, <1>12 DEF back, nodes

-----------------------------------------------------------------------------
(* The inductive invariant.                                                *)

\* A program and its file hold lists of entries.
TypeOK ==
  /\ IsEntryList(settings) /\ IsNodeList(file)
  /\ storing # None => storing = NodesOf(settings)
  /\ stored # None => IsEntryList(stored)
  /\ source \in {"user", "stored", "memory"} /\ storedFrom \in {"user", "stored", "memory"}
  /\ steps \in 0 .. MaxSteps

\* A file nobody has edited holds what was stored; settings that come from such a
\* file are plain, and remain so when they are stored.
FileIsStored == stored # None => file = NodesOf(stored)

ReadBackPlain == source = "stored" => \A i \in DOMAIN settings : Plain(settings[i])

StoredPlain ==
  stored # None /\ storedFrom = "stored" => \A i \in DOMAIN stored : Plain(stored[i])

IInv == TypeOK /\ FileIsStored /\ ReadBackPlain /\ StoredPlain

\* A file of a user is a list of nodes.
LEMMA UserFileIsNodeList ==
  ASSUME NEW nodes \in UserFiles
  PROVE  IsNodeList(nodes)
BY FilesAssumption DEF IsNodeList, IsEntryNode

\* An entry is added for a scope, or assigned except for its target.
LEMMA EntryChanges ==
  /\ \A scope \in Scopes : IsEntry(NewEntry(scope))
  /\ \A conf \in Configs, target \in Readable : IsEntry([conf EXCEPT !.target = target])
<1>1. ASSUME NEW scope \in Scopes
      PROVE  IsEntry(NewEntry(scope))
  <2>1. NewEntry(scope) \in
          [target : {[key |-> "scope", pattern |-> scope]}, cookies : [Names -> OrNone(Texts)],
           headers : [Names -> Seq(Texts)], query : [Names -> Seq(Texts)],
           auth : OrNone(Credentials), proxy : OrNone(Credentials),
           apiKey : OrNone(Texts), oauth2 : OrNone(OAuth2Sections)]
    <3>1. << >> \in Seq(Texts)
      BY EmptySeq
    <3>2. NewEntry(scope) =
            [target |-> [key |-> "scope", pattern |-> scope], cookies |-> [n \in Names |-> None],
             headers |-> [n \in Names |-> << >>], query |-> [n \in Names |-> << >>],
             auth |-> None, proxy |-> None, apiKey |-> None, oauth2 |-> None]
      BY DEF NewEntry, NewConfig
    <3> QED BY <3>1, <3>2 DEF OrNone
  <2>2. NewEntry(scope).target = [key |-> "scope", pattern |-> scope]
    BY DEF NewEntry, NewConfig
  <2>3. NewEntry(scope).target \in Readable
    BY <2>2, FilesAssumption DEF Readable, Targets
  <2> QED BY <2>1, <2>2, <2>3 DEF IsEntry, IsConfig
<1>2. ASSUME NEW conf \in Configs, NEW target \in Readable
      PROVE  IsEntry([conf EXCEPT !.target = target])
  <2>1. IsConfig(conf)
    BY FilesAssumption
  <2> QED BY <2>1 DEF IsEntry, IsConfig
<1> QED BY <1>1, <1>2

\* Reading the file.
LEMMA ReadFile ==
  ASSUME IInv, Read
  PROVE  /\ IsEntryList(settings') /\ source' \in {"user", "stored"}
         /\ ReadBackPlain'
<1>1. IsEntryList(settings')
  BY LoadedEntries DEF IInv, TypeOK, Read
<1>2. ASSUME source' = "stored"
      PROVE  \A i \in DOMAIN settings' : Plain(settings'[i])
  <2>1. stored # None
    BY <1>2 DEF Read
  <2>2. IsEntryList(stored) /\ settings' = Loaded(NodesOf(stored))
    BY <2>1 DEF IInv, TypeOK, FileIsStored, Read
  <2> QED BY <2>2, StoredEntries
<1> QED BY <1>1, <1>2 DEF Read, ReadBackPlain

LEMMA Initially == Init => IInv
<1> SUFFICES ASSUME Init PROVE IInv
  OBVIOUS
<1>1. IsNodeList(file)
  BY UserFileIsNodeList DEF Init
<1>2. IsEntryList(settings)
  BY <1>1, LoadedEntries DEF Init
<1> QED
  BY <1>1, <1>2, FilesAssumption
  DEF Init, IInv, TypeOK, FileIsStored, ReadBackPlain, StoredPlain

LEMMA Inductive == IInv /\ [Next]_vars => IInv'
<1> SUFFICES ASSUME IInv, [Next]_vars PROVE IInv'
  OBVIOUS
<1>0. steps < MaxSteps /\ steps' = steps + 1 => steps' \in 0 .. MaxSteps
  BY FilesAssumption DEF IInv, TypeOK
<1>1. CASE Load
  BY <1>0, <1>1, ReadFile
  DEF Load, Idle, Count, IInv, TypeOK, FileIsStored, StoredPlain
<1>2. CASE OpenForStore
  <2>1. IsNodeList(<< >>)
    BY ListByLength DEF IsNodeList
  <2> QED
    BY <1>0, <1>2, <2>1
    DEF OpenForStore, Idle, Count, IInv, TypeOK, FileIsStored, ReadBackPlain, StoredPlain
<1>3. CASE WriteStore
  <2>1. IsNodeList(storing) /\ storing = NodesOf(settings)
    BY <1>3, StoredEntries DEF WriteStore, IInv, TypeOK
  <2>2. TypeOK'
    BY <1>3, <2>1 DEF WriteStore, IInv, TypeOK
  <2>3. FileIsStored' /\ ReadBackPlain' /\ StoredPlain'
    BY <1>3, <2>1 DEF WriteStore, IInv, FileIsStored, ReadBackPlain, StoredPlain
  <2> QED BY <2>2, <2>3 DEF IInv
<1>4. CASE Restart
  BY <1>0, <1>4, ReadFile
  DEF Restart, Count, IInv, TypeOK, FileIsStored, StoredPlain
<1>5. ASSUME NEW scope \in Scopes, GetOrCreateConfigScope(scope)
      PROVE  IInv'
  <2> DEFINE entry == NewEntry(scope)
             all   == {settings[i] : i \in DOMAIN settings} \union {entry}
  <2>1. IsEntry(entry)
    BY EntryChanges
  <2> HIDE DEF entry
  <2>2. settings \in Seq(all) /\ settings' = Append(settings, entry)
    BY <1>5, SeqMonotonic DEF GetOrCreateConfigScope, IInv, TypeOK, IsEntryList, entry
  <2>3. settings' \in Seq(all) /\ DOMAIN settings' = 1 .. Len(settings) + 1
    BY <2>2, LenProperties
  <2>4. ASSUME NEW i \in DOMAIN settings'
        PROVE  IsEntry(settings'[i])
    BY <2>1, <2>2, <2>3 DEF IInv, TypeOK, IsEntryList
  <2>5. settings' \in Seq({settings'[i] : i \in DOMAIN settings'})
    BY <2>3, ListByLength, LenProperties
  <2>6. IsEntryList(settings')
    BY <2>4, <2>5 DEF IsEntryList
  <2> QED
    BY <1>0, <1>5, <2>6
    DEF GetOrCreateConfigScope, Idle, Count, IInv, TypeOK, FileIsStored, ReadBackPlain, StoredPlain
<1>6. ASSUME NEW scope \in Scopes, NEW conf \in Configs, Assign(scope, conf)
      PROVE  IInv'
  <2>1. PICK i \in DOMAIN settings :
          settings' = [settings EXCEPT ![i] = [conf EXCEPT !.target = settings[i].target]]
    BY <1>6 DEF Assign
  <2>2. IsEntry([conf EXCEPT !.target = settings[i].target])
    BY EntryChanges DEF IInv, TypeOK, IsEntryList, IsEntry
  <2>3. Len(settings) \in Nat /\ DOMAIN settings = 1 .. Len(settings)
    BY LenProperties DEF IInv, TypeOK, IsEntryList
  <2>4. settings' = [j \in 1 .. Len(settings) |-> settings'[j]]
    BY <2>1, <2>3
  <2>5. settings' \in Seq({settings'[j] : j \in DOMAIN settings'})
    BY <2>3, <2>4, ListByLength
  <2>6. ASSUME NEW j \in DOMAIN settings'
        PROVE  IsEntry(settings'[j])
    BY <2>1, <2>2, <2>4 DEF IInv, TypeOK, IsEntryList
  <2>7. IsEntryList(settings')
    BY <2>5, <2>6 DEF IsEntryList
  <2> QED
    BY <1>0, <1>6, <2>7
    DEF Assign, Idle, Count, IInv, TypeOK, FileIsStored, ReadBackPlain, StoredPlain
<1>7. ASSUME NEW new \in UserFiles, Edit(new)
      PROVE  IInv'
  BY <1>0, <1>7, UserFileIsNodeList
  DEF Edit, Idle, Count, IInv, TypeOK, FileIsStored, ReadBackPlain, StoredPlain
<1>8. CASE UNCHANGED vars
  BY <1>8 DEF vars, IInv, TypeOK, FileIsStored, ReadBackPlain, StoredPlain
<1> QED BY <1>1, <1>2, <1>3, <1>4, <1>5, <1>6, <1>7, <1>8 DEF Next

LEMMA Invariance == Spec => []IInv
BY Initially, Inductive, PTL DEF Spec

-----------------------------------------------------------------------------
(* The theorems.                                                           *)

\* Whatever users write and programs assign, settings hold readable entries and the
\* file holds nodes: load() and store() never meet anything else.
THEOREM TypeCorrect == Spec => []TypeOK
<1>1. IInv => TypeOK
  BY DEF IInv
<1> QED BY <1>1, Invariance, PTL

\* Settings::store and Settings::load: what was stored reads back unchanged exactly
\* if every entry is plain.
THEOREM PlainEntriesSurvive == Spec => []PlainRoundTrip
<1>1. IInv => PlainRoundTrip
  BY StoredEntries DEF IInv, TypeOK, FileIsStored, PlainRoundTrip
<1> QED BY <1>1, Invariance, PTL

\* Nothing is lost on a second way through the file.
THEOREM StableAfterOne == Spec => []StableAfterRoundTrip
<1>1. IInv => StableAfterRoundTrip
  BY StoredEntries DEF IInv, TypeOK, FileIsStored, StoredPlain, StableAfterRoundTrip
<1> QED BY <1>1, Invariance, PTL
=============================================================================
