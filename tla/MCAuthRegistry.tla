---------------------------- MODULE MCAuthRegistry ----------------------------
(***************************************************************************)
(* Instances of AuthRegistry for TLC: every operation with at most two     *)
(* alternatives of at most two requirements, and user configurations with  *)
(* and without each section and header the handlers look for.              *)
(***************************************************************************)
EXTENDS AuthRegistry

RequirementOf(type) ==
  [type |-> type, key |-> IF type \in {"ApiKeyQuery", "ApiKeyHeader", "ApiKeyCookie"}
                          THEN "X-Key" ELSE ""]

Requirements ==
  {RequirementOf(type) : type \in {"HttpBasic", "HttpBearer", "OAuth2ClientCredentials",
                                   "ApiKeyQuery", "ApiKeyHeader", "ApiKeyCookie"}}

UpToTwo(S) == {<< >>} \union {<<x>> : x \in S} \union {<<x, y>> : x, y \in S}

AllAlternatives == UpToTwo(UpToTwo(Requirements))

UserEntry(name, kind) == [name |-> name, kind |-> kind, origin |-> "user"]

AllConfigs ==
  [auth : BOOLEAN, apiKey : BOOLEAN, oauth2 : BOOLEAN,
   headers : {{}, {UserEntry("Authorization", "Basic")}}
               \union SUBSET {UserEntry("Authorization", "Bearer"), UserEntry("X-Key", "other")},
   query : {{}}, cookies : {{}}]
=============================================================================
