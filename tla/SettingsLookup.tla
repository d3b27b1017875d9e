---------------------------- MODULE SettingsLookup ----------------------------
(***************************************************************************)
(* The configuration a request is sent with: Settings::operator[]          *)
(* aggregates the entries of the settings whose pattern matches the URL,   *)
(* and the result meets the configuration the client was made with.        *)
(* OpenAPIClient::call merges the latter into the former,                  *)
(* fetchOpenAPIConfig the former into the latter.                          *)
(***************************************************************************)
EXTENDS HttpConfig, Naturals, FiniteSetsExt

CONSTANTS
  SettingsLists,  \* the lists of entries settings may hold
  AdHocConfigs    \* the configurations clients may be made with

ASSUME ConfigsAssumption ==
  /\ \A list \in SettingsLists : IsConfigList(list)
  /\ \A conf \in AdHocConfigs : IsConfig(conf)

VARIABLES
  settings,   \* the entries, in file order
  matching,   \* the indexes of those whose pattern matches the URL
  httpConfig, \* the configuration of the client (httpConfig_)
  use,        \* what the URL is looked up for: "call" or "fetch"
  next,       \* the entry the loop is at
  result,     \* what it has aggregated
  sent        \* the configuration of the request, or None

vars == <<settings, matching, httpConfig, use, next, result, sent>>

-----------------------------------------------------------------------------

Init ==
  /\ settings \in SettingsLists
  /\ matching \in SUBSET DOMAIN settings
  /\ httpConfig \in AdHocConfigs
  /\ use \in {"call", "fetch"}
  /\ next = 1
  /\ result = NewConfig
  /\ sent = None

AggregateMatching ==
  /\ next \in matching
  /\ next' = next + 1
  /\ result' = Merge(result, settings[next])
  /\ UNCHANGED <<settings, matching, httpConfig, use, sent>>

SkipOther ==
  /\ next \in DOMAIN settings \ matching
  /\ next' = next + 1
  /\ UNCHANGED <<settings, matching, httpConfig, use, result, sent>>

ConfigureCall ==
  /\ use = "call" /\ sent = None
  /\ next > Len(settings)
  /\ sent' = Merge(result, httpConfig)
  /\ UNCHANGED <<settings, matching, httpConfig, use, next, result>>

ConfigureFetch ==
  /\ use = "fetch" /\ sent = None
  /\ next > Len(settings)
  /\ sent' = Merge(httpConfig, result)
  /\ UNCHANGED <<settings, matching, httpConfig, use, next, result>>

Next == AggregateMatching \/ SkipOther \/ ConfigureCall \/ ConfigureFetch

Spec == Init /\ [][Next]_vars

-----------------------------------------------------------------------------
(* Properties.                                                             *)

\* The places of the configurations a request is made of, in the order they are merged.
Places == matching \union {IF use = "call" THEN Len(settings) + 1 ELSE 0}

Source == [i \in Places |-> IF i \in DOMAIN settings THEN settings[i] ELSE httpConfig]

\* Of values that are given, or None, at some places: the first, and the last.
Given(values)   == {i \in DOMAIN values : values[i] # None}
FirstOf(values) == IF Given(values) = {} THEN None ELSE values[Min(Given(values))]
LastOf(values)  == IF Given(values) = {} THEN None ELSE values[Max(Given(values))]

\* The sequence whole consists of parts, in the order of their places: part i begins
\* after its first at[i] elements.
Concatenates(whole, parts) ==
  \E at \in [DOMAIN parts -> 0 .. Len(whole)] :
    /\ \A i \in DOMAIN parts : \A k \in DOMAIN parts[i] :
         at[i] + k <= Len(whole) /\ whole[at[i] + k] = parts[i][k]
    /\ \A i, j \in DOMAIN parts : i < j => at[i] + Len(parts[i]) <= at[j]
    /\ \A k \in DOMAIN whole : \E i \in DOMAIN parts : at[i] < k /\ k <= at[i] + Len(parts[i])

\* Whatever the number of entries that match, the settings say of a URL the cookies of
\* the first that sets them and the credentials, proxy and API key of the last that has
\* them; a request is sent with the headers and query parameters of all the entries and
\* of the client's configuration.  (Settings::operator[], Config::operator|=)
PrecedenceHolds ==
  /\ next > Len(settings) =>
       /\ \A n \in Names :
            result.cookies[n] = FirstOf([i \in matching |-> settings[i].cookies[n]])
       /\ result.auth = LastOf([i \in matching |-> settings[i].auth])
       /\ result.proxy = LastOf([i \in matching |-> settings[i].proxy])
       /\ result.apiKey = LastOf([i \in matching |-> settings[i].apiKey])
  /\ sent # None =>
       \A n \in Names :
         /\ Concatenates(sent.headers[n], [i \in Places |-> Source[i].headers[n]])
         /\ Concatenates(sent.query[n], [i \in Places |-> Source[i].query[n]])

\* Who says whether OAuth2 is used for the OpenAPI document, too.
SpecFetchUses == [i \in Places |-> IF Source[i].oauth2 = None THEN None
                                   ELSE Source[i].oauth2.useForSpecFetch]

\* Each OAuth2 setting is that of the last configuration that gives it, on its own:
\* a client id of one entry is combined with the secret of another.  (Config::operator|=)
OAuth2FieldWise ==
  LET sections == [i \in Places |-> Source[i].oauth2]
      TextsOf(f) == [i \in Places |-> IF sections[i] = None THEN None ELSE sections[i].texts[f]]
  IN  sent # None =>
        /\ sent.oauth2 = None <=> Given(sections) = {}
        /\ sent.oauth2 # None =>
             /\ \A f \in OAuth2Strings : sent.oauth2.texts[f] = LastOf(TextsOf(f))
             /\ sent.oauth2.useForSpecFetch = LastOf(SpecFetchUses)

\* The configuration of the client enriches what the settings say of the request for
\* the OpenAPI document and does not overwrite it: it authenticates as the settings say.
\* (fetchOpenAPIConfig)
FetchKeepsCredentials ==
  use = "fetch" /\ sent # None =>
    \A s \in {"auth", "proxy", "apiKey"} : result[s] # None => sent[s] = result[s]

\* The configuration of the client enriches the settings and does not overwrite them:
\* the cookies, credentials, proxy and API key the settings give are those of the request.
\* README.md says so of every request.  (OpenAPIClient::call, fetchOpenAPIConfig)
ClientConfigEnriches ==
  sent # None =>
    /\ \A n \in Names : result.cookies[n] # None => sent.cookies[n] = result.cookies[n]
    /\ \A s \in {"auth", "proxy", "apiKey"} : result[s] # None => sent[s] = result[s]
=============================================================================
