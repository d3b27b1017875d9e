----------------------------- MODULE OpenAPIParser -----------------------------
(***************************************************************************)
(* OpenAPI documents as the client and the server read them: the parse     *)
(* functions of openapi-parser.cpp, without the YAML.  A node is a record  *)
(* with Absent for a text it does not have; a list it may lack is a        *)
(* sequence of at most one.                                                *)
(***************************************************************************)
EXTENDS Uri, Naturals, Sequences, SequencesExt

Absent == "absent"

\* Mutant: PUT is not looked for.
SupportedMethodsWithoutPut == <<"get", "post", "delete">>

\* The method names parsePath looks for, in its order.
SupportedMethods == <<"get", "post", "put", "delete">>

UpperCase == [get |-> "GET", post |-> "POST", put |-> "PUT", delete |-> "DELETE"]

IsSequence(s) == s \in Seq(Range(s))

\* The dictionary f with the value v for x.
Put(f, x, v) == [y \in DOMAIN f \union {x} |-> IF y = x THEN v ELSE f[y]]

\* OpenAPIConfig::SECURITY_SCHEME_MAPPINGS
SecuritySchemeTypes ==
  {<<"http", "basic">>, <<"http", "bearer">>, <<"apiKey", "query">>, <<"apiKey", "header">>,
   <<"apiKey", "cookie">>, <<"oauth2", "clientCredentials">>}

NewParameter ==
  [ident |-> "", field |-> "", location |-> "query", format |-> "string", style |-> "simple",
   explode |-> FALSE]

NewPath ==
  [path |-> << >>, httpMethod |-> "POST", parameters |-> << >>, bodyRequestObject |-> FALSE,
   security |-> << >>]

NewConfig ==
  [servers |-> << >>, methodPath |-> << >>, securitySchemes |-> << >>,
   defaultSecurityScheme |-> << >>]

-----------------------------------------------------------------------------
(* Parameters.  Each part of a node changes the parameter the name has so  *)
(* far, which is a new one only the first time the name comes up.          *)

ParseParameterLocation(in, p) == IF in = Absent THEN p ELSE [p EXCEPT !.location = in]

\* A schema may have a format; without one it means strings.
ParseParameterSchema(schema, p) ==
  CASE schema = Absent                -> p
    [] schema = "no format"           -> [p EXCEPT !.format = "string"]
    [] schema \in {"byte", "base64"}  -> [p EXCEPT !.format = "base64"]
    [] OTHER                          -> [p EXCEPT !.format = schema]

SchemaThrows(schema) ==
  schema \notin {Absent, "no format", "string", "byte", "base64", "base64url", "hex", "binary"}

\* Mutant: a query parameter does not explode by default.
ParseParameterStyleWhole(style, p) ==
  [p EXCEPT !.style   = IF style \in {"matrix", "label", "simple", "form"} THEN style
                        ELSE IF p.location = "path" THEN "simple" ELSE "form",
            !.explode = FALSE]

\* Styles the code does not know leave the default of the location.
ParseParameterStyle(style, p) ==
  [p EXCEPT !.style   = IF style \in {"matrix", "label", "simple", "form"} THEN style
                        ELSE IF p.location = "path" THEN "simple" ELSE "form",
            !.explode = p.location = "query"]

StyleThrows(style, p) ==
  IF p.location = "path" THEN style = "form" ELSE style \in {"matrix", "label", "simple"}

ParseParameterExplode(explode, p) ==
  IF explode = Absent THEN p ELSE [p EXCEPT !.explode = explode = "true"]

ExplodeThrows(explode, p) == explode = "true" /\ p.location = "header"

\* A parameter without x-zserio-request-part is ignored.
Located(node, path) ==
  LET old == IF node.name \in DOMAIN path.parameters THEN path.parameters[node.name]
             ELSE NewParameter
  IN  ParseParameterLocation(node.in, [old EXCEPT !.ident = node.name, !.field = node.part])

ParseMethodParameter(path, node) ==
  IF node.part = Absent THEN path
  ELSE LET p == ParseParameterExplode(node.explode,
                  ParseParameterStyle(node.style,
                    ParseParameterSchema(node.schema, Located(node, path))))
       IN  [path EXCEPT !.parameters = Put(@, node.name, p)]

\* The path after each of the parameters.
WithParameters(path, nodes) ==
  LET after[i \in 0 .. Len(nodes)] ==
        IF i = 0 THEN path ELSE ParseMethodParameter(after[i - 1], nodes[i])
  IN  after

ParameterThrows(node, path) ==
  /\ node.part # Absent
  /\ LET p == Located(node, path)
     IN  \/ p.location \notin {"query", "path", "header"}
         \/ SchemaThrows(node.schema) \/ StyleThrows(node.style, p)
         \/ ExplodeThrows(node.explode, p)

-----------------------------------------------------------------------------
(* Security, methods and paths.                                            *)

ParseSecurity(node, config) ==
  [i \in DOMAIN node |-> [j \in DOMAIN node[i] |->
     [scheme |-> config.securitySchemes[node[i][j].scheme], scopes |-> node[i][j].scopes]]]

\* A scheme must be known and an alternative must not be empty.
SecurityThrows(node, config) ==
  \E i \in DOMAIN node :
    \/ node[i] = << >>
    \/ \E j \in DOMAIN node[i] : node[i][j].scheme \notin DOMAIN config.securitySchemes

ParseMethodBody(node, path) ==
  [path EXCEPT !.bodyRequestObject = @ \/ "application/x-zserio-object" \in node.contentTypes]

\* The path an operationId has so far is amended.
Named(method, item, config) ==
  LET id  == item.methods[method].operationId
      old == IF id \in DOMAIN config.methodPath THEN config.methodPath[id] ELSE NewPath
  IN  [old EXCEPT !.path = item.path, !.httpMethod = UpperCase[method]]

\* Of other HTTP methods, and of anything else at a path, nothing is read.
ParseMethod(method, item, config) ==
  IF method \notin DOMAIN item.methods THEN config
  ELSE LET node    == item.methods[method]
           filled  == WithParameters(Named(method, item, config), node.parameters)[Len(node.parameters)]
           guarded == IF node.security = << >> THEN filled
                      ELSE [filled EXCEPT !.security = <<ParseSecurity(node.security[1], config)>>]
       IN  [config EXCEPT !.methodPath = Put(@, node.operationId, ParseMethodBody(node, guarded))]

MethodThrows(method, item, config) ==
  /\ method \in DOMAIN item.methods
  /\ LET node == item.methods[method]
     IN  \/ node.operationId = Absent
         \/ \E i \in DOMAIN node.parameters :
              ParameterThrows(node.parameters[i],
                              WithParameters(Named(method, item, config), node.parameters)[i - 1])
         \/ \E alternatives \in Range(node.security) : SecurityThrows(alternatives, config)

\* parsePath: the configuration after each of the methods it looks for.
WithMethods(item, config) ==
  LET after[i \in 0 .. Len(SupportedMethods)] ==
        IF i = 0 THEN config ELSE ParseMethod(SupportedMethods[i], item, after[i - 1])
  IN  after

PathThrows(item, config) ==
  \E i \in DOMAIN SupportedMethods :
    MethodThrows(SupportedMethods[i], item, WithMethods(item, config)[i - 1])

\* An empty URL is skipped, and one that is a path has no host.
IsPath(url) == url.scheme = "" /\ BeginsWith(url.rest, "/")

ParseServer(url, config) ==
  IF url.scheme = "" /\ url.rest = << >> THEN config
  ELSE [config EXCEPT !.servers =
          Append(@, IF IsPath(url) THEN FromStrPath(url.rest) ELSE FromStrRfc3986(url))]

ServerThrows(url) ==
  IF IsPath(url) THEN FromStrPath(url.rest).error
  ELSE url.rest # << >> /\ FromStrRfc3986(url).error

SchemeInfo(node) ==
  [id |-> node.name, type |-> <<node.type, node.subtype>>, apiKeyName |-> node.keyName,
   oauthTokenUrl |-> node.tokenUrl, oauthRefreshUrl |-> node.refreshUrl]

ParseSecurityScheme(node, config) ==
  [config EXCEPT !.securitySchemes = Put(@, node.name, SchemeInfo(node))]

\* The subtype is "scheme", "in", or the flow that is there.
SchemeThrows(node) ==
  \/ <<node.type, node.subtype>> \notin SecuritySchemeTypes
  \/ node.type = "apiKey" /\ node.keyName = Absent
  \/ node.type = "oauth2" /\ node.tokenUrl = Absent
=============================================================================
