---------------------------- MODULE ServiceDocument ----------------------------
(***************************************************************************)
(* The way of an OpenAPI document: zswag.gen makes it of the base          *)
(* configuration and the command line, or somebody writes it;              *)
(* parseOpenAPIConfig reads it; and the server starts if it has every      *)
(* method of the service (verify_openapi_schema).                          *)
(***************************************************************************)
EXTENDS OpenAPIGenerator, FiniteSets

CONSTANTS
  BaseConfigs,   \* the base configurations of the generator: tags for all methods (default)
                 \* and for some, and sections of the document
  CommandLines,  \* its -c arguments: sequences of [method, tags]
  Written        \* the documents somebody has written

IsEntryList(entries) ==
  IsSequence(entries) /\ \A i \in DOMAIN entries : IsTagList(entries[i].tags)

\* No two items are for one path.
IsDocument(d) ==
  /\ IsSequence(d.paths)
  /\ \A i, j \in DOMAIN d.paths : d.paths[i].path = d.paths[j].path => i = j
  /\ \A i \in DOMAIN d.paths : \A m \in DOMAIN d.paths[i].methods :
       IsSequence(d.paths[i].methods[m].parameters)

ASSUME InputAssumption ==
  /\ \A b \in BaseConfigs : IsTagList(b.default) /\ IsEntryList(b.methods)
  /\ \A entries \in CommandLines : IsEntryList(entries)
  /\ \A d \in Written : IsDocument(d)

VARIABLES
  base,         \* the base configuration, or <<>> for a written document
  commandLine,  \* the -c arguments
  pc,           \* the stage
  next,         \* the element of it that comes next
  default,      \* default_entry
  configs,      \* self.config: the configuration of each method that has tags
  document,     \* the document, as far as it is made
  config        \* what the parser has read

vars == <<base, commandLine, pc, next, default, configs, document, config>>

EmptyDocument == [servers |-> << >>, schemes |-> << >>, security |-> << >>, paths |-> << >>]

Init ==
  /\ next = 1
  /\ default = NewMethodConfig
  /\ configs = [m \in {Wildcard} |-> NewMethodConfig]
  /\ config = NewConfig
  /\ \/ /\ pc = "tags"
        /\ \E b \in BaseConfigs : base = <<b>>
        /\ commandLine \in CommandLines
        /\ document = [EmptyDocument EXCEPT !.servers = base[1].servers,
                                            !.schemes = base[1].schemes,
                                            !.security = base[1].security]
     \/ /\ pc = "servers"
        /\ base = << >> /\ commandLine = << >>
        /\ document \in Written

-----------------------------------------------------------------------------
(* The generator.                                                          *)

\* The tag lists in the order they are read: the wildcard's in the base configuration,
\* those of methods in it, and the arguments.
Entries ==
  <<[method |-> Wildcard, tags |-> base[1].default]>> \o base[1].methods \o commandLine

Fail == pc' = "failed" /\ UNCHANGED <<base, commandLine, next, default, configs, document, config>>

AddMethodConfigFromTags ==
  /\ pc = "tags" /\ next \in DOMAIN Entries
  /\ LET e   == Entries[next]
         new == ConfigFromTags(e.tags, default)
     IN  IF TagsRaise(e.tags, default, e.method) THEN Fail
         ELSE /\ configs' = Put(configs, e.method, new)
              /\ default' = IF e.method = Wildcard THEN new ELSE default
              /\ next' = next + 1
              /\ UNCHANGED <<base, commandLine, pc, document, config>>

\* The methods of the service come next.
Advance(stage) == pc' = stage /\ next' = 1

TagsDone ==
  /\ pc = "tags" /\ next > Len(Entries)
  /\ Advance("methods")
  /\ UNCHANGED <<base, commandLine, default, configs, document, config>>

\* Mutant: a method without tags of its own does not get the wildcard's.
ConfigForMethodNew(m) == IF m \in DOMAIN configs THEN configs[m] ELSE NewMethodConfig

ConfigForMethod(m) == IF m \in DOMAIN configs THEN configs[m] ELSE configs[Wildcard]

ProcessMethod ==
  /\ pc = "methods" /\ next \in DOMAIN Methods
  /\ LET m == Methods[next]
     IN  IF MethodRaises(ConfigForMethod(m), m) THEN Fail
         ELSE /\ document' = [document EXCEPT !.paths = AddItem(@, ItemOf(ConfigForMethod(m), m))]
              /\ next' = next + 1
              /\ UNCHANGED <<base, commandLine, pc, default, configs, config>>

\* openapi-spec-validator wants a parameter for every name in braces.
ValidSpec ==
  \A item \in Range(document.paths) : \A method \in DOMAIN item.methods :
    \A s \in Range(item.path) :
      s.slot = "" \/ \E p \in Range(item.methods[method].parameters) : p.in = "path" /\ p.name = s.slot

Generate ==
  /\ pc = "methods" /\ next > Len(Methods)
  /\ IF ~ValidSpec THEN Fail
     ELSE /\ Advance("servers")
          /\ UNCHANGED <<base, commandLine, default, configs, document, config>>

-----------------------------------------------------------------------------
(* The parser.                                                             *)

Parsed(new) ==
  /\ config' = new
  /\ next' = next + 1
  /\ UNCHANGED <<base, commandLine, pc, default, configs, document>>

ParseServers ==
  /\ pc = "servers" /\ next \in DOMAIN document.servers
  /\ LET url == document.servers[next]
     IN  IF ServerThrows(url) THEN Fail ELSE Parsed(ParseServer(url, config))

ParseSecuritySchemes ==
  /\ pc = "schemes" /\ next \in DOMAIN document.schemes
  /\ LET node == document.schemes[next]
     IN  IF SchemeThrows(node) THEN Fail ELSE Parsed(ParseSecurityScheme(node, config))

\* The security of the document is that of the operations that have none.
ParseDefaultSecurity ==
  /\ pc = "security" /\ next \in DOMAIN document.security
  /\ LET node == document.security[next]
     IN  IF SecurityThrows(node, config) THEN Fail
         ELSE Parsed([config EXCEPT !.defaultSecurityScheme = ParseSecurity(node, config)])

ParsePaths ==
  /\ pc = "paths" /\ next \in DOMAIN document.paths
  /\ LET item == document.paths[next]
     IN  IF PathThrows(item, config) THEN Fail
         ELSE Parsed(WithMethods(item, config)[Len(SupportedMethods)])

SectionOf(stage) ==
  CASE stage = "servers"  -> document.servers
    [] stage = "schemes"  -> document.schemes
    [] stage = "security" -> document.security
    [] stage = "paths"    -> document.paths

\* The sections are read in this order, so that security can refer to schemes.
After == [servers |-> "schemes", schemes |-> "security", security |-> "paths", paths |-> "parsed"]

NextSection ==
  /\ pc \in DOMAIN After /\ next > Len(SectionOf(pc))
  /\ Advance(After[pc])
  /\ UNCHANGED <<base, commandLine, default, configs, document, config>>

\* The server of the service.
VerifyOpenapiSchema ==
  /\ pc = "parsed"
  /\ pc' = IF Range(Methods) \subseteq DOMAIN config.methodPath THEN "ready" ELSE "incomplete"
  /\ UNCHANGED <<base, commandLine, next, default, configs, document, config>>

Next ==
  \/ AddMethodConfigFromTags \/ TagsDone \/ ProcessMethod \/ Generate
  \/ ParseServers \/ ParseSecuritySchemes \/ ParseDefaultSecurity \/ ParsePaths \/ NextSection
  \/ VerifyOpenapiSchema

Spec == Init /\ [][Next]_vars

-----------------------------------------------------------------------------
(* Properties.                                                             *)

Generated == base # << >>
Done      == pc \in {"ready", "incomplete"}

\* The operations of the document the parser looks at.
Operations ==
  UNION {{[path |-> item.path, method |-> m, node |-> item.methods[m]] :
            m \in DOMAIN item.methods \intersect DOMAIN UpperCase} :
         item \in Range(document.paths)}

\* The parameters that are for a part of the request.
Parts(node) == {i \in DOMAIN node.parameters : node.parameters[i].part # Absent}

FormatNamed(schema) ==
  IF schema = "byte" THEN "base64" ELSE IF schema \in {Absent, "no format"} THEN "string" ELSE schema

\* A parameter as its node alone says.
ParameterAsWritten(n) ==
  LET in == IF n.in = Absent THEN "query" ELSE n.in
  IN  [ident |-> n.name, field |-> n.part, location |-> in, format |-> FormatNamed(n.schema),
       style   |-> IF in # "path" THEN "form"
                   ELSE IF n.style \in {"label", "matrix"} THEN n.style ELSE "simple",
       explode |-> IF n.explode = Absent THEN in = "query" ELSE n.explode = "true"]

\* The document is read as each of its operations says, if no other has its operationId and
\* no two of its parameters have one name: no operation is lost, and none gets a format,
\* a parameter or a body of another one.  (parseMethod, parseMethodParameter)
ReadAsWritten ==
  Done =>
    /\ DOMAIN config.methodPath = {o.node.operationId : o \in Operations}
    /\ \A o \in Operations :
         LET ps   == o.node.parameters
             read == config.methodPath[o.node.operationId]
         IN  /\ \A p \in Operations : p.node.operationId = o.node.operationId => p = o
             /\ \A i, j \in Parts(o.node) : ps[i].name = ps[j].name => i = j
             => /\ read.path = o.path /\ read.httpMethod = UpperCase[o.method]
                /\ read.bodyRequestObject = ("application/x-zserio-object" \in o.node.contentTypes)
                /\ DOMAIN read.parameters = {ps[i].name : i \in Parts(o.node)}
                /\ \A i \in Parts(o.node) : read.parameters[ps[i].name] = ParameterAsWritten(ps[i])
                /\ read.security = << >> <=> o.node.security = << >>

\* A generated document makes a server start, unless two methods of the service were given one
\* path, whatever their HTTP methods: of those the last one stays.  (generate)
StartsUnlessPathShared ==
  Done /\ Generated =>
    (pc = "incomplete" <=>
       \E i, j \in DOMAIN Methods :
         i < j /\ PathOf(ConfigForMethod(Methods[i]), Methods[i])
                    = PathOf(ConfigForMethod(Methods[j]), Methods[j]))

\* The names in braces in a generated path are those of the path parameters: the client can
\* fill each, and no member it was to send is dropped.  (process_method_parameters)
PathParametersHavePlaces ==
  Done /\ Generated =>
    \A m \in DOMAIN config.methodPath :
      LET p == config.methodPath[m]
      IN  {s.slot : s \in Range(p.path)} \ {""}
            = {n \in DOMAIN p.parameters : p.parameters[n].location = "path"}

\* The tags that hold for a method, as pairs of an entry and a position in it: those of its
\* last entry after those of the wildcard entries before it, or those of all wildcard
\* entries if it has none of its own.
TagsFor(m) ==
  LET own  == {i \in DOMAIN Entries : Entries[i].method = m}
      wild == {i \in DOMAIN Entries : /\ Entries[i].method = Wildcard
                                      /\ own # {} => i <= Max(own)}
      held == IF own = {} THEN wild ELSE wild \union {Max(own)}
  IN  UNION {{<<i, j>> : j \in DOMAIN Entries[i].tags} : i \in held}

TagAt(at) == Entries[at[1]].tags[at[2]]

TagsOfKind(m, kind) == {at \in TagsFor(m) : TagAt(at).kind = kind}

Precedes(at, other) == at[1] < other[1] \/ (at[1] = other[1] /\ at[2] < other[2])

\* The value of the last of them.
LastValue(m, kind, otherwise) ==
  LET tags == TagsOfKind(m, kind)
  IN  IF tags = {} THEN otherwise
      ELSE TagAt(CHOOSE last \in tags : \A at \in tags : ~ Precedes(last, at)).value

\* What is parsed of a method is what its tags ask for: the last HTTP method and security
\* scheme, and exactly the parameters that are specified, if any are; tags of other methods,
\* and of the method's own entries that were replaced, have no part in it.
\* (add_method_config_from_tags, config_for_method)
TagsTakeEffect ==
  Done /\ Generated =>
    \A m \in DOMAIN config.methodPath :
      LET p     == config.methodPath[m]
          asked == {TagAt(at).spec : at \in TagsOfKind(m, "param")}
          named == LastValue(m, "security", Absent)
      IN  /\ p.httpMethod = UpperCase[LastValue(m, "http", "post")]
          /\ p.security = CASE named = Absent -> << >>
                            [] named = ""     -> << << >> >>
                            [] OTHER -> << << <<[scheme |-> config.securitySchemes[named],
                                                 scopes |-> << >>]>> >> >>
          /\ asked # {} =>
               /\ p.bodyRequestObject <=> \E s \in asked : s.location = "body"
               /\ {<<n, p.parameters[n].field, p.parameters[n].location>> : n \in DOMAIN p.parameters}
                    = {<<s.name, s.part, s.location>> : s \in {r \in asked : r.location # "body"}}
=============================================================================
