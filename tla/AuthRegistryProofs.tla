-------------------------- MODULE AuthRegistryProofs --------------------------
(***************************************************************************)
(* Theorems about AuthRegistry, for any operations and configurations.     *)
(***************************************************************************)
EXTENDS AuthRegistry, TLAPS

-----------------------------------------------------------------------------
(* The invariants.                                                         *)

Origins == {"user", "apiKey", "minted"}

TypeOK ==
  /\ alternatives \in Seq(Seq(Requirement))
  /\ given \in Config({"user"})
  /\ endpointUp \in BOOLEAN
  /\ config \in Config(Origins)
  /\ alt \in Nat /\ alt >= 1 /\ req \in Nat /\ req >= 1
  /\ outcome \in {"checking", "satisfied", "throws"}

\* A configuration has all that another one has, and as much.
Extends(more, cfg) ==
  /\ more.auth = cfg.auth /\ more.apiKey = cfg.apiKey /\ more.oauth2 = cfg.oauth2
  /\ cfg.headers \subseteq more.headers
  /\ cfg.query \subseteq more.query
  /\ cfg.cookies \subseteq more.cookies

\* A configuration carries a credential for a requirement.
Carries(cfg, r) ==
  CASE r.type = "HttpBasic" -> cfg.auth \/ HasAuthorization(cfg, "Basic")
    [] r.type \in {"HttpBearer", "OAuth2ClientCredentials"} -> HasAuthorization(cfg, "Bearer")
    [] OTHER -> Has(cfg, ContainerOf(r.type), r.key)

\* The requirements of the current alternative that were handled are carried.
HandledCarried ==
  alt <= Len(alternatives) =>
    \A i \in DOMAIN Current : i < req => Carries(config, Current[i])

\* An alternative that was given up cannot be met.
FailedUnsatisfiable ==
  \A i \in DOMAIN alternatives : i < alt => ~Satisfiable(alternatives[i])

\* The check ends where it may.
EndsInPlace ==
  /\ outcome = "satisfied" /\ alternatives # << >> => alt <= Len(alternatives) /\ req > Len(Current)
  /\ outcome = "throws" => alt > Len(alternatives)

\* No key the user has given has the name of one that was added.
NamesApart(cfg) ==
  \A c \in Containers :
    \A e, f \in cfg[c] : e.origin = "user" /\ f.origin = "apiKey" => e.name # f.name

RegistryInv ==
  /\ TypeOK
  /\ Extends(config, given)
  /\ NamesApart(config)
  /\ HandledCarried
  /\ FailedUnsatisfiable
  /\ EndsInPlace

-----------------------------------------------------------------------------
(* The handlers.                                                           *)

\* An entry that is added joins those of its container.
LEMMA WithEntry ==
  ASSUME NEW cfg \in Config(Origins), NEW c \in Containers, NEW name \in Names,
         NEW kind \in Kinds, NEW origin \in Origins
  PROVE  /\ With(cfg, c, name, kind, origin) \in Config(Origins)
         /\ Extends(With(cfg, c, name, kind, origin), cfg)
         /\ \E e : /\ e.name = name /\ e.kind = kind /\ e.origin = origin
                   /\ With(cfg, c, name, kind, origin)[c] = cfg[c] \union {e}
         /\ \A d \in Containers \ {c} : With(cfg, c, name, kind, origin)[d] = cfg[d]
<1> DEFINE entry == [name |-> name, kind |-> kind, origin |-> origin]
<1>1. entry \in Entry(Origins)
  BY DEF Entry
<1>0. entry.name = name /\ entry.kind = kind /\ entry.origin = origin
  OBVIOUS
<1> HIDE DEF entry
<1>2. CASE c = "headers"
  BY <1>0, <1>1, <1>2 DEF With, Config, Extends, Containers, entry
<1>3. CASE c = "query"
  BY <1>0, <1>1, <1>3 DEF With, Config, Extends, Containers, entry
<1>4. CASE c = "cookies"
  BY <1>0, <1>1, <1>4 DEF With, Config, Extends, Containers, entry
<1> QED
  BY <1>2, <1>3, <1>4 DEF Containers

\* What is carried stays carried.
LEMMA CarriesMore ==
  ASSUME NEW cfg, NEW more, Extends(more, cfg), NEW r \in Requirement, Carries(cfg, r)
  PROVE  Carries(more, r)
<1>1. \A kind : HasAuthorization(cfg, kind) => HasAuthorization(more, kind)
  BY DEF Extends, HasAuthorization
<1>2. r.type \in {"ApiKeyQuery", "ApiKeyHeader", "ApiKeyCookie"}
        /\ Has(cfg, ContainerOf(r.type), r.key) => Has(more, ContainerOf(r.type), r.key)
  BY DEF Extends, Has, ContainerOf
<1> QED
  BY <1>1, <1>2 DEF Carries, Extends, Requirement
\* Adding a key that is not there, or a token, keeps names apart.
LEMMA WithKeepsApart ==
  ASSUME NEW cfg \in Config(Origins), NamesApart(cfg), NEW c \in Containers,
         NEW name \in Names, NEW kind \in Kinds,
         NEW origin \in Origins, origin # "user",
         origin = "apiKey" => ~Has(cfg, c, name)
  PROVE  NamesApart(With(cfg, c, name, kind, origin))
<1> DEFINE new == With(cfg, c, name, kind, origin)
<1>1. \A d \in Containers \ {c} : new[d] = cfg[d]
  BY WithEntry
<1>2. PICK entry : /\ entry.name = name /\ entry.origin = origin
                   /\ new[c] = cfg[c] \union {entry}
  BY WithEntry
<1> HIDE DEF new
<1>3. ASSUME NEW d \in Containers, NEW e \in new[d], NEW f \in new[d],
             e.origin = "user", f.origin = "apiKey"
      PROVE  e.name # f.name
  <2>1. e \in cfg[d]
    BY <1>1, <1>2, <1>3
  <2>2. CASE f \in cfg[d]
    BY <1>3, <2>1, <2>2 DEF NamesApart
  <2>3. CASE f \notin cfg[d]
    BY <1>1, <1>2, <1>3, <2>1, <2>3 DEF Has
  <2> QED
    BY <2>2, <2>3
<1> QED
  BY <1>3 DEF NamesApart, new

\* What a handler does: it meets a requirement exactly if the configuration as it stands
\* does, then the configuration it leaves carries a credential; it takes nothing away.
LEMMA HandlerResult ==
  ASSUME NEW cfg \in Config(Origins), NamesApart(cfg), NEW r \in Requirement,
         NEW result, result = Satisfy(r, cfg, endpointUp), endpointUp \in BOOLEAN
  PROVE  /\ result.config \in Config(Origins)
         /\ Extends(result.config, cfg)
         /\ NamesApart(result.config)
         /\ result.ok => Carries(result.config, r)
         /\ ~result.ok => ~MetBy(r, cfg)
<1>0. /\ Extends(cfg, cfg)
      /\ "headers" \in Containers
      /\ "Bearer" \in Kinds /\ "other" \in Kinds
      /\ "apiKey" \in Origins /\ "minted" \in Origins
      /\ "Authorization" \in Names
  BY CallsAssumption DEF Extends, Containers, Kinds, Origins
<1>1. CASE r.type = "HttpBasic"
  BY <1>0, <1>1 DEF Satisfy, HttpBasic, MetIf, Carries, MetBy
<1>2. CASE r.type = "HttpBearer"
  BY <1>0, <1>2 DEF Satisfy, HttpBearer, MetIf, Carries, MetBy
<1>3. CASE r.type = "OAuth2ClientCredentials"
  <2> DEFINE new == With(cfg, "headers", "Authorization", "Bearer", "minted")
  <2>1. new \in Config(Origins) /\ Extends(new, cfg) /\ NamesApart(new)
    BY <1>0, WithEntry, WithKeepsApart
  <2>2. HasAuthorization(new, "Bearer")
    <3>1. PICK e : /\ e.name = "Authorization" /\ e.kind = "Bearer"
                   /\ new["headers"] = cfg["headers"] \union {e}
      BY <1>0, WithEntry
    <3> QED
      BY <3>1 DEF HasAuthorization
  <2> HIDE DEF new
  <2>3. result = IF cfg.oauth2 /\ endpointUp THEN Met(new) ELSE Mismatch(cfg)
    BY <1>3 DEF Satisfy, OAuth2ClientCredentials, new
  <2> QED
    BY <1>0, <1>3, <2>1, <2>2, <2>3 DEF Met, Mismatch, Carries, MetBy
<1>4. CASE r.type \in {"ApiKeyQuery", "ApiKeyHeader", "ApiKeyCookie"}
  <2> DEFINE c == ContainerOf(r.type)
             new == With(cfg, c, r.key, "other", "apiKey")
  <2>1. c \in Containers /\ r.key \in Names
    BY <1>4 DEF ContainerOf, Containers, Requirement
  <2>2. Satisfy(r, cfg, endpointUp)
          = IF Has(cfg, c, r.key) THEN Met(cfg)
            ELSE IF cfg.apiKey THEN Met(new) ELSE Mismatch(cfg)
    BY <1>4 DEF Satisfy, ApiKey
  <2>3. /\ Carries(new, r) <=> Has(new, c, r.key)
        /\ Carries(cfg, r) <=> Has(cfg, c, r.key)
        /\ MetBy(r, cfg) <=> cfg.apiKey \/ Has(cfg, c, r.key)
    BY <1>4 DEF Carries, MetBy
  <2> HIDE DEF c
  <2>4. CASE Has(cfg, c, r.key)
    BY <1>0, <2>2, <2>3, <2>4 DEF Met
  <2>5. CASE ~Has(cfg, c, r.key) /\ cfg.apiKey
    <3>1. new \in Config(Origins) /\ Extends(new, cfg) /\ NamesApart(new)
      BY <1>0, <2>1, <2>5, WithEntry, WithKeepsApart
    <3>2. PICK e : /\ e.name = r.key /\ e.kind = "other" /\ e.origin = "apiKey"
                   /\ new[c] = cfg[c] \union {e}
      BY <1>0, <2>1, WithEntry
    <3>3. Has(new, c, r.key)
      BY <3>2 DEF Has
    <3> HIDE DEF new
    <3> QED
      BY <2>2, <2>3, <2>5, <3>1, <3>3 DEF Met
  <2>6. CASE ~Has(cfg, c, r.key) /\ ~cfg.apiKey
    BY <1>0, <2>2, <2>3, <2>6 DEF Mismatch
  <2> QED
    BY <2>4, <2>5, <2>6
<1> QED
  BY <1>1, <1>2, <1>3, <1>4 DEF Requirement

\* What the user's configuration meets, one that extends it meets.
LEMMA MetByMore ==
  ASSUME NEW cfg, NEW more, Extends(more, cfg), NEW r \in Requirement, MetBy(r, cfg)
  PROVE  MetBy(r, more)
<1>1. \A kind : HasAuthorization(cfg, kind) => HasAuthorization(more, kind)
  BY DEF Extends, HasAuthorization
<1>2. r.type \in {"ApiKeyQuery", "ApiKeyHeader", "ApiKeyCookie"}
        /\ Has(cfg, ContainerOf(r.type), r.key) => Has(more, ContainerOf(r.type), r.key)
  BY DEF Extends, Has, ContainerOf
<1> QED
  BY <1>1, <1>2 DEF MetBy, Extends, Requirement
-----------------------------------------------------------------------------
(* The steps.                                                              *)

\* What TryRequirement does, in terms of the handler's result.
LEMMA Tried ==
  ASSUME RegistryInv, TryRequirement
  PROVE  /\ Current[req] \in Requirement /\ req \in DOMAIN Current
         /\ alt \in DOMAIN alternatives /\ alternatives[alt] \in Seq(Requirement)
         /\ config' \in Config(Origins) /\ NamesApart(config')
         /\ Extends(config', config) /\ Extends(config', given)
         /\ UNCHANGED <<alternatives, given, endpointUp, outcome>>
         /\ \/ req' = req + 1 /\ alt' = alt /\ Carries(config', Current[req])
            \/ req' = 1 /\ alt' = alt + 1 /\ ~MetBy(Current[req], config)
<1> USE DEF RegistryInv
<1>1. alt \in DOMAIN alternatives /\ Current \in Seq(Requirement)
  BY DEF TypeOK, TryRequirement, Current
<1>2. req \in DOMAIN Current /\ Current[req] \in Requirement
  BY <1>1 DEF TypeOK, TryRequirement
<1> DEFINE result == Satisfy(Current[req], config, endpointUp)
<1>3. /\ result.config \in Config(Origins) /\ Extends(result.config, config)
      /\ NamesApart(result.config)
      /\ result.ok => Carries(result.config, Current[req])
      /\ ~result.ok => ~MetBy(Current[req], config)
  BY <1>2, HandlerResult DEF TypeOK
<1>4. /\ config' = result.config
      /\ UNCHANGED <<alternatives, given, endpointUp, outcome>>
      /\ IF result.ok THEN req' = req + 1 /\ alt' = alt ELSE alt' = alt + 1 /\ req' = 1
  BY DEF TryRequirement
<1>5. Extends(result.config, given)
  BY <1>3 DEF Extends
<1> HIDE DEF result
<1> QED
  BY <1>1, <1>2, <1>3, <1>4, <1>5 DEF Current

\* A requirement the user's configuration does not meet makes its alternative unsatisfiable:
\* had OAuth2 been met before, its token would be there.
LEMMA MismatchFinal ==
  ASSUME RegistryInv, alt \in DOMAIN alternatives, Current \in Seq(Requirement),
         req \in DOMAIN Current, ~MetBy(Current[req], config)
  PROVE  ~Satisfiable(Current)
<1> DEFINE Oauth == [type |-> "OAuth2ClientCredentials", key |-> ""]
<1>1. ~MetBy(Current[req], given)
  BY MetByMore DEF RegistryInv
<1>2. Oauth.type = "OAuth2ClientCredentials"
  OBVIOUS
<1>3. ASSUME Current[req].type = "HttpBearer", NEW j \in 1 .. req - 1, Current[j] = Oauth
      PROVE  FALSE
  <2>1. j \in DOMAIN Current /\ j < req
    BY DEF TypeOK, RegistryInv
  <2>2. alt <= Len(alternatives)
    BY DEF RegistryInv, TypeOK
  <2>3. Carries(config, Current[j])
    BY <2>1, <2>2 DEF RegistryInv, HandledCarried
  <2>4. Current[j].type = "OAuth2ClientCredentials"
    <3> HIDE DEF Oauth
    <3> QED
      BY <1>3, <1>2
  <2>5. HasAuthorization(config, "Bearer")
    BY <2>3, <2>4 DEF Carries
  <2> QED
    BY <1>3, <2>5 DEF MetBy
<1> QED
  BY <1>1, <1>3 DEF Satisfiable

\* Every step keeps the invariant.
LEMMA InvStep == RegistryInv /\ [Next]_vars => RegistryInv'
<1> SUFFICES ASSUME RegistryInv, [Next]_vars PROVE RegistryInv'
  OBVIOUS
<1>0. TypeOK
  BY DEF RegistryInv
<1>1. CASE TryRequirement
  <2>1. TypeOK'
    BY <1>0, <1>1, Tried DEF TypeOK
  <2>2. Extends(config, given)' /\ NamesApart(config)'
    BY <1>1, Tried DEF NamesApart, Extends
  <2>3. HandledCarried'
    <3>1. CASE alt' = alt
      <4>1. ASSUME NEW i \in DOMAIN Current, i < req + 1 PROVE Carries(config', Current[i])
        <5>1. CASE i = req
          BY <1>1, <3>1, <5>1, Tried DEF TypeOK, RegistryInv
        <5>2. CASE i < req
          <6>1. Carries(config, Current[i]) /\ Current[i] \in Requirement
            BY <1>0, <1>1, <4>1, <5>2, Tried DEF RegistryInv, HandledCarried, Current, TryRequirement
          <6> QED
            BY <1>1, <6>1, CarriesMore, Tried
        <5> QED
          BY <1>0, <1>1, <4>1, <5>1, <5>2, Tried DEF TypeOK, Current
      <4>2. req' = req + 1 /\ Current' = Current
        BY <1>0, <1>1, <3>1, Tried DEF Current, TypeOK
      <4> QED
        BY <4>1, <4>2 DEF HandledCarried
    <3>2. CASE alt' = alt + 1
      <4>1. req' = 1 /\ alternatives' = alternatives
        BY <1>0, <1>1, <3>2, Tried DEF TypeOK
      <4>2. ASSUME alt' <= Len(alternatives), NEW i \in DOMAIN Current' PROVE ~(i < 1)
        BY <1>0, <3>2, <4>1, <4>2 DEF TypeOK, Current
      <4> QED
        BY <4>1, <4>2 DEF HandledCarried
    <3> QED
      BY <1>1, <3>1, <3>2, Tried
  <2>4. FailedUnsatisfiable'
    <3>1. alternatives' = alternatives /\ given' = given /\ endpointUp' = endpointUp
      BY <1>1, Tried
    <3>2. \A requirements : Satisfiable(requirements)' <=> Satisfiable(requirements)
      BY <3>1 DEF Satisfiable, MetBy
    <3>3. alt' = alt + 1 => ~Satisfiable(Current)
      BY <1>0, <1>1, Tried, MismatchFinal DEF Current, TypeOK
    <3>4. ASSUME NEW i \in DOMAIN alternatives, i < alt' PROVE ~Satisfiable(alternatives[i])
      BY <1>0, <1>1, <3>3, <3>4, Tried DEF RegistryInv, FailedUnsatisfiable, Current, TypeOK
    <3> QED
      BY <3>1, <3>2, <3>4 DEF FailedUnsatisfiable
  <2>5. EndsInPlace'
    BY <1>1, Tried DEF EndsInPlace, TryRequirement
  <2> QED
    BY <2>1, <2>2, <2>3, <2>4, <2>5 DEF RegistryInv
<1>2. CASE /\ UNCHANGED <<alternatives, given, endpointUp, config, alt, req>>
           /\ outcome' \in {"checking", "satisfied", "throws"} /\ EndsInPlace'
  <2>1. \A requirements : Satisfiable(requirements)' <=> Satisfiable(requirements)
    BY <1>2 DEF Satisfiable, MetBy
  <2>2. FailedUnsatisfiable'
    BY <1>2, <2>1 DEF RegistryInv, FailedUnsatisfiable
  <2>3. HandledCarried'
    BY <1>2 DEF RegistryInv, HandledCarried, Current
  <2>4. TypeOK' /\ Extends(config, given)' /\ NamesApart(config)'
    BY <1>2 DEF RegistryInv, TypeOK, Extends, NamesApart
  <2> QED
    BY <1>2, <2>2, <2>3, <2>4 DEF RegistryInv
<1>3. CASE AcceptAlternative \/ NothingRequired \/ Throw
  BY <1>2, <1>3 DEF AcceptAlternative, NothingRequired, Throw, EndsInPlace, Current
<1>4. CASE UNCHANGED vars
  BY <1>2, <1>4 DEF vars, RegistryInv, TypeOK, EndsInPlace, Current
<1> QED
  BY <1>1, <1>3, <1>4 DEF Next

\* The invariant holds throughout.
LEMMA InvHolds == Spec => []RegistryInv
<1>1. Init => RegistryInv
  <2> SUFFICES ASSUME Init PROVE RegistryInv
    OBVIOUS
  <2>1. \A c \in Containers : \A e \in given[c] : e.origin = "user"
    BY CallsAssumption DEF Init, Config, Entry, Containers
  <2>2. TypeOK
    BY CallsAssumption DEF Init, TypeOK, Config, Entry, Origins
  <2>3. Extends(config, given) /\ NamesApart(config)
    BY <2>1 DEF Init, Extends, NamesApart
  <2>4. HandledCarried
    BY <2>2 DEF Init, HandledCarried, TypeOK, Current
  <2>5. FailedUnsatisfiable /\ EndsInPlace
    BY <2>2 DEF Init, FailedUnsatisfiable, EndsInPlace, TypeOK
  <2> QED
    BY <2>2, <2>3, <2>4, <2>5 DEF RegistryInv
<1> QED
  BY <1>1, InvStep, PTL DEF Spec

-----------------------------------------------------------------------------
(* The theorems.                                                           *)

\* The check throws only if no alternative can be met.  (AuthRegistry::satisfySecurity)
THEOREM ThrowsJustly == Spec => []ThrowsOnlyIfUnsatisfiable
<1>1. RegistryInv => ThrowsOnlyIfUnsatisfiable
  <2> SUFFICES ASSUME RegistryInv, outcome = "throws", NEW i \in DOMAIN alternatives
               PROVE  ~Satisfiable(alternatives[i])
    BY DEF ThrowsOnlyIfUnsatisfiable
  <2>1. i < alt
    BY DEF RegistryInv, EndsInPlace, TypeOK
  <2> QED
    BY <2>1 DEF RegistryInv, FailedUnsatisfiable
<1> QED
  BY <1>1, InvHolds, PTL

\* An accepted call carries a credential for every requirement of the alternative that
\* was accepted.  (AuthRegistry::satisfySecurity)
THEOREM CredentialsPresent == Spec => []AcceptedCredentialsPresent
<1>1. RegistryInv => AcceptedCredentialsPresent
  <2> SUFFICES ASSUME RegistryInv, outcome = "satisfied", alternatives # << >>,
                      NEW i \in DOMAIN Current
               PROVE  Carries(config, Current[i])
    BY DEF AcceptedCredentialsPresent, Carries, Current
  <2>1. alt <= Len(alternatives) /\ req > Len(Current)
    BY DEF RegistryInv, EndsInPlace
  <2>2. Current \in Seq(Requirement)
    BY <2>1 DEF RegistryInv, TypeOK, Current
  <2>3. i < req
    BY <2>1, <2>2 DEF RegistryInv, TypeOK
  <2> QED
    BY <2>1, <2>3 DEF RegistryInv, HandledCarried
<1> QED
  BY <1>1, InvHolds, PTL

\* The user's keys stay, and none is sent beside the shortcut key under one name.
\* (ApiKeyHandler::satisfy)
THEOREM KeysStand == Spec => []UserKeysStand
<1>1. RegistryInv => UserKeysStand
  BY DEF RegistryInv, Extends, NamesApart, UserKeysStand, Containers
<1> QED
  BY <1>1, InvHolds, PTL
=============================================================================
