----------------------------- MODULE AuthRegistry -----------------------------
(***************************************************************************)
(* AuthRegistry::satisfySecurity: the OR of ANDs of security requirements  *)
(* of an operation is tried against the HTTP configuration of the call,    *)
(* which the security handlers amend on the way.                           *)
(*                                                                         *)
(* A requirement is [type, key]: key is the name of an API key ("" for the *)
(* other types).  A configuration has the flags auth, apiKey and oauth2    *)
(* (whether that section is there) and the sets headers, query and cookies *)
(* of entries [name, kind, origin]: kind tells "Basic ..." from            *)
(* "Bearer ..." and other values, origin is who put the entry there.  The  *)
(* OAuth2 handler is the one TokenCache specifies; here it obtains a token *)
(* exactly if the token endpoint is up.                                    *)
(***************************************************************************)
EXTENDS Naturals, Sequences

CONSTANTS
  AlternativesOfCalls,  \* the security alternatives operations may have
  GivenConfigs,         \* the configurations calls may start from
  Names                 \* of headers, query entries, cookies and API keys

Containers == {"headers", "query", "cookies"}

Requirement ==
  [type : {"HttpBasic", "HttpBearer", "OAuth2ClientCredentials",
           "ApiKeyQuery", "ApiKeyHeader", "ApiKeyCookie"},
   key : Names]

Kinds == {"Basic", "Bearer", "other"}

Entry(origins) == [name : Names, kind : Kinds, origin : origins]

Config(origins) ==
  [auth : BOOLEAN, apiKey : BOOLEAN, oauth2 : BOOLEAN,
   headers : SUBSET Entry(origins), query : SUBSET Entry(origins),
   cookies : SUBSET Entry(origins)]

ASSUME CallsAssumption ==
  /\ AlternativesOfCalls \subseteq Seq(Seq(Requirement))
  /\ GivenConfigs \subseteq Config({"user"})
  /\ "Authorization" \in Names

VARIABLES
  alternatives,  \* the SecurityAlternatives of the operation
  given,         \* the configuration the call was made with
  endpointUp,    \* whether token requests succeed
  config,        \* resultHttpConfigWithAuthorization
  alt, req,      \* the alternative and the requirement being tried
  outcome        \* "checking", "satisfied" or "throws"

vars == <<alternatives, given, endpointUp, config, alt, req, outcome>>

-----------------------------------------------------------------------------
(* The handlers.  Each returns whether the requirement is met and the      *)
(* amended configuration.                                                  *)

ContainerOf(type) ==
  CASE type = "ApiKeyQuery"  -> "query"
    [] type = "ApiKeyHeader" -> "headers"
    [] type = "ApiKeyCookie" -> "cookies"

Has(cfg, container, name) == \E e \in cfg[container] : e.name = name

HasAuthorization(cfg, kind) ==
  \E e \in cfg.headers : e.name = "Authorization" /\ e.kind = kind

With(cfg, container, name, kind, origin) ==
  [cfg EXCEPT ![container] = @ \union {[name |-> name, kind |-> kind, origin |-> origin]}]

Met(cfg)      == [ok |-> TRUE, config |-> cfg]
Mismatch(cfg) == [ok |-> FALSE, config |-> cfg]
MetIf(condition, cfg) == [ok |-> condition, config |-> cfg]

HttpBasic(cfg)  == MetIf(cfg.auth \/ HasAuthorization(cfg, "Basic"), cfg)
HttpBearer(cfg) == MetIf(HasAuthorization(cfg, "Bearer"), cfg)

\* Mutant: a key that is already there is not looked for.
ApiKeyAlwaysAdded(r, cfg) ==
  IF cfg.apiKey THEN Met(With(cfg, ContainerOf(r.type), r.key, "other", "apiKey"))
  ELSE MetIf(Has(cfg, ContainerOf(r.type), r.key), cfg)

\* A key that is already there is used; the apiKey shortcut fills in for one that is not.
ApiKey(r, cfg) ==
  LET container == ContainerOf(r.type)
  IN  IF Has(cfg, container, r.key) THEN Met(cfg)
      ELSE IF cfg.apiKey THEN Met(With(cfg, container, r.key, "other", "apiKey"))
      ELSE Mismatch(cfg)

OAuth2ClientCredentials(cfg, up) ==
  IF cfg.oauth2 /\ up THEN Met(With(cfg, "headers", "Authorization", "Bearer", "minted"))
  ELSE Mismatch(cfg)

Satisfy(r, cfg, up) ==
  CASE r.type = "HttpBasic"  -> HttpBasic(cfg)
    [] r.type = "HttpBearer" -> HttpBearer(cfg)
    [] r.type = "OAuth2ClientCredentials" -> OAuth2ClientCredentials(cfg, up)
    [] OTHER -> ApiKey(r, cfg)

-----------------------------------------------------------------------------
(* satisfySecurity.                                                        *)

Init ==
  /\ alternatives \in AlternativesOfCalls
  /\ given \in GivenConfigs
  /\ endpointUp \in BOOLEAN
  /\ config = given
  /\ alt = 1
  /\ req = 1
  /\ outcome = "checking"

Current == alternatives[alt]

\* Mutant: the next alternative is not tried from its start.
TryRequirementNoReset ==
  /\ outcome = "checking"
  /\ alt <= Len(alternatives)
  /\ req <= Len(Current)
  /\ LET result == Satisfy(Current[req], config, endpointUp)
     IN  /\ config' = result.config
         /\ IF result.ok THEN req' = req + 1 /\ UNCHANGED alt
            ELSE alt' = alt + 1 /\ UNCHANGED req
  /\ UNCHANGED <<alternatives, given, endpointUp, outcome>>

\* One requirement is handled; the first mismatch ends its alternative, and
\* whatever the handlers have added to the configuration stays in it.
TryRequirement ==
  /\ outcome = "checking"
  /\ alt <= Len(alternatives)
  /\ req <= Len(Current)
  /\ LET result == Satisfy(Current[req], config, endpointUp)
     IN  /\ config' = result.config
         /\ IF result.ok THEN req' = req + 1 /\ UNCHANGED alt
            ELSE alt' = alt + 1 /\ req' = 1
  /\ UNCHANGED <<alternatives, given, endpointUp, outcome>>

\* Mutant: the last requirement is not awaited.
AcceptAlternativeEarly ==
  /\ outcome = "checking"
  /\ alt <= Len(alternatives)
  /\ req >= Len(Current)
  /\ outcome' = "satisfied"
  /\ UNCHANGED <<alternatives, given, endpointUp, config, alt, req>>

AcceptAlternative ==
  /\ outcome = "checking"
  /\ alt <= Len(alternatives)
  /\ req > Len(Current)
  /\ outcome' = "satisfied"
  /\ UNCHANGED <<alternatives, given, endpointUp, config, alt, req>>

NothingRequired ==
  /\ outcome = "checking"
  /\ alternatives = << >>
  /\ outcome' = "satisfied"
  /\ UNCHANGED <<alternatives, given, endpointUp, config, alt, req>>

Throw ==
  /\ outcome = "checking"
  /\ alternatives # << >>
  /\ alt > Len(alternatives)
  /\ outcome' = "throws"
  /\ UNCHANGED <<alternatives, given, endpointUp, config, alt, req>>

Next == TryRequirement \/ AcceptAlternative \/ NothingRequired \/ Throw

Spec == Init /\ [][Next]_vars

-----------------------------------------------------------------------------
(* Properties.                                                             *)

\* Whether a requirement is met by a configuration as it stands.
MetBy(r, cfg) ==
  CASE r.type = "HttpBasic"  -> cfg.auth \/ HasAuthorization(cfg, "Basic")
    [] r.type = "HttpBearer" -> HasAuthorization(cfg, "Bearer")
    [] r.type = "OAuth2ClientCredentials" -> cfg.oauth2 /\ endpointUp
    [] OTHER -> cfg.apiKey \/ Has(cfg, ContainerOf(r.type), r.key)

\* Whether an alternative is met by what the user configured: a bearer token is
\* the user's own, or the one that the same alternative asks OAuth2 for.
Satisfiable(requirements) ==
  LET Oauth == [type |-> "OAuth2ClientCredentials", key |-> ""]
  IN  \A i \in DOMAIN requirements :
        \/ MetBy(requirements[i], given)
        \/ /\ requirements[i].type = "HttpBearer"
           /\ \E j \in 1 .. i - 1 : requirements[j] = Oauth
           /\ MetBy(Oauth, given)

\* Only an operation one of whose alternatives the user's configuration meets
\* passes the check: "Throws if none can be satisfied."
PassesOnlyIfSatisfiable ==
  outcome = "satisfied" /\ alternatives # << >> =>
    \E i \in DOMAIN alternatives : Satisfiable(alternatives[i])

\* The check throws only if no alternative can be met: what a failed
\* alternative leaves behind never makes a later one fail.
ThrowsOnlyIfUnsatisfiable ==
  outcome = "throws" => \A i \in DOMAIN alternatives : ~ Satisfiable(alternatives[i])

\* The request that is sent carries a credential for every requirement of the
\* accepted alternative.
AcceptedCredentialsPresent ==
  outcome = "satisfied" /\ alternatives # << >> =>
    \A i \in DOMAIN alternatives[alt] :
      LET r == alternatives[alt][i]
      IN  CASE r.type = "HttpBasic" -> config.auth \/ HasAuthorization(config, "Basic")
            [] r.type \in {"HttpBearer", "OAuth2ClientCredentials"} ->
                 HasAuthorization(config, "Bearer")
            [] OTHER -> Has(config, ContainerOf(r.type), r.key)

\* An API key the user gave is neither dropped nor joined by the shortcut key:
\* no name is sent twice.
UserKeysStand ==
  \A c \in Containers :
    /\ given[c] \subseteq config[c]
    /\ \A e, f \in config[c] :
         e.origin = "user" /\ f.origin = "apiKey" => e.name # f.name
=============================================================================
