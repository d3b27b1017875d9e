--------------------------- MODULE OpenAPIGenerator ---------------------------
(***************************************************************************)
(* How zswag.gen turns the tags a user gives into the operations of an     *)
(* OpenAPI document (gen.py).  A tag is a record of its kind, its value    *)
(* and, if it specifies a parameter, what it says of it.  The path of an   *)
(* operation is a sequence of segments, a name in braces being a record.   *)
(***************************************************************************)
EXTENDS OpenAPIParser

CONSTANTS
  Methods,      \* the names of the methods of the service, in order
  RequestTypes  \* for each of them [takesParameters, members], the members in their order, each
                \* followed by its own and [name, flatName, nested, array, scalar]: "a.b" and
                \* "a__b", whether it is a member of a member, whether it is an array, and
                \* whether what it holds is atomic

Members(method) == RequestTypes[method].members

Wildcard == "*"
Whole    == "*"   \* ZSERIO_REQUEST_PART_WHOLE

Slot(name)    == [slot |-> name, text |-> ""]
Segment(text) == [slot |-> "", text |-> text]

\* The methods have different names, and so have the members of a request type, with dots
\* and without.
ASSUME ServiceAssumption ==
  /\ IsSequence(Methods)
  /\ \A i, j \in DOMAIN Methods : Methods[i] = Methods[j] => i = j
  /\ \A method \in Range(Methods) :
       /\ IsSequence(Members(method))
       /\ \A member \in Range(Members(method)) : member.name # Absent /\ member.flatName # ""
       /\ \A i, j \in DOMAIN Members(method) :
            Members(method)[i].flatName = Members(method)[j].flatName => i = j

NewMethodConfig ==
  [httpMethod |-> "post", paramLoc |-> Absent, flatten |-> FALSE, paramSpecifiers |-> << >>,
   security |-> Absent, path |-> << >>]

-----------------------------------------------------------------------------
(* Tags.                                                                   *)

Body(part) ==
  [part |-> part, name |-> "body", location |-> "body", format |-> "binary", style |-> Absent,
   explode |-> Absent]

\* What a specifier tag says; one for the body keeps only the part.
Specifier(spec) == IF spec.location = "body" THEN Body(spec.part) ELSE spec

Locations == {"query", "path", "header", "body"}   \* HttpParamLocation

IsSpec(s) == s.location \in Locations /\ s.part # Absent /\ s.name # ""

IsTag(t) ==
  /\ t.kind \in {"http", "location", "flat", "blob", "security", "path", "param"}
  /\ t.kind = "http"     => t.value \in DOMAIN UpperCase
  /\ t.kind = "location" => t.value \in Locations
  /\ t.kind = "security" => t.value # Absent
  /\ t.kind = "path"     => IsSequence(t.segments)
  /\ t.kind = "param"    => IsSpec(t.spec)

IsTagList(tags) == IsSequence(tags) /\ \A i \in DOMAIN tags : IsTag(tags[i])

\* Tags for the HTTP method come first.
WithHttpMethod(tags, config) ==
  LET named == {i \in DOMAIN tags : tags[i].kind = "http"}
  IN  IF named = {} THEN config ELSE [config EXCEPT !.httpMethod = tags[Max(named)].value]

ApplyTag(config, tag) ==
  CASE tag.kind = "http"     -> config
    [] tag.kind = "location" -> [config EXCEPT !.paramLoc = tag.value]
    [] tag.kind = "flat"     -> [config EXCEPT !.flatten = TRUE]
    [] tag.kind = "blob"     -> [config EXCEPT !.flatten = FALSE]
    [] tag.kind = "security" -> [config EXCEPT !.security = tag.value]
    [] tag.kind = "path"     -> [config EXCEPT !.path = tag.segments]
    [] tag.kind = "param"    -> [config EXCEPT !.paramSpecifiers = Append(@, Specifier(tag.spec))]

TagRaises(config, tag, method) ==
  CASE tag.kind = "location" -> tag.value = "body" /\ config.httpMethod = "get"
    [] tag.kind = "path"     -> method = Wildcard
    [] tag.kind = "param"    ->
         \/ tag.spec.location = "body" /\ config.httpMethod = "get"
         \/ \E i \in DOMAIN config.paramSpecifiers :
              config.paramSpecifiers[i].name = Specifier(tag.spec).name
    [] OTHER                 -> FALSE

\* The configuration after each of the tags.
WithTags(tags, default) ==
  LET after[i \in 0 .. Len(tags)] ==
        IF i = 0 THEN WithHttpMethod(tags, default) ELSE ApplyTag(after[i - 1], tags[i])
  IN  after

ConfigFromTags(tags, default) == WithTags(tags, default)[Len(tags)]

TagsRaise(tags, default, method) ==
  \E i \in DOMAIN tags : TagRaises(WithTags(tags, default)[i - 1], tags[i], method)

-----------------------------------------------------------------------------
(* Methods.                                                                *)

Flattened(member, config) ==
  [part |-> member.name, name |-> member.flatName,
   location |-> IF config.paramLoc = Absent THEN "query" ELSE config.paramLoc,
   format |-> "string", style |-> Absent, explode |-> Absent]

\* Members that hold nothing atomic are left out; arrays of atomic elements are not.
FlattenMember(specifiers, member, config) ==
  IF member.scalar THEN Append(specifiers, Flattened(member, config)) ELSE specifiers

\* The specifiers after each of the members.
Scalars(config, method) ==
  LET members == Members(method)
      after[i \in 0 .. Len(members)] ==
        IF i = 0 THEN << >> ELSE FlattenMember(after[i - 1], members[i], config)
  IN  after

\* The legacy instructions as specifiers, if there are none.
SpecifiersOf(config, method) ==
  IF config.paramSpecifiers # << >> THEN config.paramSpecifiers
  ELSE IF config.paramLoc = "body" \/ (config.paramLoc = Absent /\ ~config.flatten)
       THEN <<Body(Whole)>>
  ELSE IF config.flatten THEN Scalars(config, method)[Len(Members(method))]
  ELSE <<[Body(Whole) EXCEPT !.name = "requestBody", !.location = config.paramLoc]>>

\* Every schema has a format, and "byte" is written as such.
ParameterNode(s) ==
  [name |-> s.name, in |-> s.location, part |-> s.part, schema |-> s.format,
   style |-> s.style, explode |-> s.explode]

\* Mutant: a path parameter does not get a slot.
ProcessSpecifierWithoutSlot(made, s) ==
  IF s.location = "body" THEN [made EXCEPT !.contentTypes = {"application/x-zserio-object"}]
  ELSE [made EXCEPT !.parameters = Append(@, ParameterNode(s))]

\* The path gets a slot for each path parameter.
ProcessSpecifier(made, s) ==
  IF s.location = "body" THEN [made EXCEPT !.contentTypes = {"application/x-zserio-object"}]
  ELSE [made EXCEPT !.parameters = Append(@, ParameterNode(s)),
                    !.path = IF s.location # "path" \/ Slot(s.name) \in Range(@) THEN @
                             ELSE Append(@, Slot(s.name))]

\* Path, parameters and body after each of the specifiers; the path is by default the name.
WithSpecifiers(config, method) ==
  LET specifiers == SpecifiersOf(config, method)
      after[i \in 0 .. Len(specifiers)] ==
        IF i = 0
        THEN [path |-> IF config.path = << >> THEN <<Segment(method)>> ELSE config.path,
              parameters |-> << >>, contentTypes |-> {}]
        ELSE ProcessSpecifier(after[i - 1], specifiers[i])
  IN  after

Processed(config, method) == WithSpecifiers(config, method)[Len(SpecifiersOf(config, method))]

PathOf(config, method) == Processed(config, method).path

OperationNode(config, method) ==
  [operationId  |-> method,
   parameters   |-> Processed(config, method).parameters,
   contentTypes |-> Processed(config, method).contentTypes,
   security     |-> CASE config.security = Absent -> << >>
                      [] config.security = ""     -> << << >> >>
                      [] OTHER -> << << <<[scheme |-> config.security, scopes |-> << >>]>> >> >>]

\* The members are to become parameters.
Flattens(config) ==
  config.paramSpecifiers = << >> /\ config.flatten /\ config.paramLoc # "body"

\* check_uninstantiable, which looks at the members of the type and not at theirs.
Uninstantiable(method) ==
  \/ RequestTypes[method].takesParameters
  \/ \E member \in Range(Members(method)) : ~member.nested /\ member.array /\ ~member.scalar

\* The request cannot be made of its members, or a specifier names one it does not have.
MethodRaises(config, method) ==
  \/ Flattens(config) /\ Uninstantiable(method)
  \/ \E s \in Range(SpecifiersOf(config, method)) :
       /\ s.location # "body" /\ s.part # Whole
       /\ \A member \in Range(Members(method)) : member.name # s.part

ItemOf(config, method) ==
  [path |-> PathOf(config, method),
   methods |-> [h \in {config.httpMethod} |-> OperationNode(config, method)]]

\* The dictionary of paths: what is at the path already is replaced.
AddItem(paths, item) ==
  IF \A i \in DOMAIN paths : paths[i].path # item.path THEN Append(paths, item)
  ELSE [i \in DOMAIN paths |-> IF paths[i].path = item.path THEN item ELSE paths[i]]
=============================================================================
