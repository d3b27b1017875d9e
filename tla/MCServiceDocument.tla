--------------------------- MODULE MCServiceDocument ---------------------------
(***************************************************************************)
(* Instances of ServiceDocument for TLC: a service of two methods with     *)
(* every command line of up to two arguments over some base                *)
(* configurations, and written documents of up to two operations with up   *)
(* to two parameters.                                                      *)
(***************************************************************************)
EXTENDS ServiceDocument, TLC

TwoMethods == <<"m", "n">>
Member(name, array, scalar) ==
  [name |-> name, flatName |-> name, nested |-> FALSE, array |-> array, scalar |-> scalar]

NestedMember(name, flatName, array, scalar) ==
  [name |-> name, flatName |-> flatName, nested |-> TRUE, array |-> array, scalar |-> scalar]

\* m takes a number, an array of numbers and a structure, which holds a number and an array of
\* structures that are empty; n takes such an array, so that its request cannot be flattened.
TypeOfEach ==
  [m |-> [takesParameters |-> FALSE,
          members |-> <<Member("a", FALSE, TRUE), Member("l", TRUE, TRUE), Member("c", FALSE, FALSE),
                        NestedMember("c.a", "c__a", FALSE, TRUE),
                        NestedMember("c.l", "c__l", TRUE, FALSE)>>],
   n |-> [takesParameters |-> FALSE, members |-> <<Member("a", FALSE, TRUE), Member("l", TRUE, FALSE)>>]]

Tag(kind, value) == [kind |-> kind, value |-> value]

Param(name, part, location) ==
  [kind |-> "param",
   spec |-> [part |-> part, name |-> name, location |-> location,
             format |-> IF location = "body" THEN "binary" ELSE "byte", style |-> Absent,
             explode |-> Absent]]

PathTag(segments) == [kind |-> "path", segments |-> segments]

Get    == Tag("http", "get")
InBody == Tag("location", "body")
InPath == Tag("location", "path")
Flat   == Tag("flat", "")
Shared == PathTag(<<Segment("s")>>)
SlotP  == PathTag(<<Segment("s"), Slot("p")>>)
OfS    == Tag("security", "S")
Query  == Param("p", "a", "query")
Path   == Param("p", "l", "path")
Whole1 == Param("body", Whole, "body")

TagLists ==
  {<<Get>>, <<Tag("http", "put")>>, <<InBody>>, <<InPath, Get>>, <<Flat>>, <<Flat, InPath>>,
   <<Tag("blob", "")>>, <<Shared>>, <<Shared, Get>>, <<SlotP>>, <<SlotP, Path>>, <<OfS>>,
   <<Tag("security", "")>>, <<Query, Get>>, <<Path>>, <<Whole1>>, <<Query, Whole1>>,
   <<Param("p", "c.a", "query")>>, <<Tag("location", "header")>>}

Arguments == {[method |-> m, tags |-> ts] : m \in {Wildcard, "m", "n"}, ts \in TagLists}

UpToTwo == {<< >>} \union {<<a>> : a \in Arguments} \union {<<a, b>> : a, b \in Arguments}

SchemeNode(name, type, subtype, keyName, tokenUrl) ==
  [name |-> name, type |-> type, subtype |-> subtype, keyName |-> keyName, tokenUrl |-> tokenUrl,
   refreshUrl |-> Absent]

Basic == SchemeNode("S", "http", "basic", Absent, Absent)

Url(scheme, rest) == [scheme |-> scheme, host |-> scheme, port |-> 0, rest |-> rest]

Http == Url("http", <<Chr("/"), Chr("x")>>)

Base(wildcard, methods) ==
  [default |-> wildcard, methods |-> methods, servers |-> <<Http>>, schemes |-> <<Basic>>, security |-> << >>]

SomeBases ==
  {Base(<< >>, << >>), Base(<< >>, <<[method |-> "m", tags |-> <<Get>>]>>),
   Base(<<InBody>>, <<[method |-> "m", tags |-> <<Shared>>]>>),
   Base(<<Get, Flat>>, <<[method |-> "n", tags |-> <<Query>>]>>)}

-----------------------------------------------------------------------------

Node(name, in, part, schema, style, explode) ==
  [name |-> name, in |-> in, part |-> part, schema |-> schema, style |-> style, explode |-> explode]

Nodes ==
  {Node("p", in, "a", "hex", style, explode) :
     in \in {Absent, "query", "path", "header", "cookie"},
     style \in {Absent, "label", "matrix", "simple", "form", "deepObject"},
     explode \in {Absent, "true", "false"}}
    \union {Node("p", "query", "a", schema, Absent, Absent) :
              schema \in {Absent, "no format", "byte", "base64url", "binary", "float"}}
    \union {Node("p", "query", Absent, "hex", Absent, Absent), Node("q", "path", Whole, "byte", "simple", Absent)}

FewNodes == {Node("p", "query", "a", "hex", Absent, Absent), Node("p", "path", "b", Absent, "label", "true"),
             Node("p", "path", "a", "byte", Absent, Absent), Node("q", "query", "a", Absent, "form", "false"),
             Node("q", "cookie", "a", Absent, Absent, Absent)}

Zserio == "application/x-zserio-object"

OpNode(id, parameters, contentTypes, security) ==
  [operationId |-> id, parameters |-> parameters, contentTypes |-> contentTypes, security |-> security]

Securities ==
  {<< >>, << << >> >>, << << << >> >> >>,
   << << <<[scheme |-> "S", scopes |-> <<"r">>]>>,
         <<[scheme |-> "K", scopes |-> << >>], [scheme |-> "S", scopes |-> << >>]>> >> >>,
   << << <<[scheme |-> "T", scopes |-> << >>]>> >> >>}

Key == SchemeNode("K", "apiKey", "query", "k", Absent)

Doc(paths) ==
  [servers |-> <<Http>>, schemes |-> <<Basic, Key>>, security |-> << >>, paths |-> paths]

At(path, methods) == [path |-> <<Segment(path)>>, methods |-> methods]

One(node) == Doc(<<At("s", ("post" :> node))>>)

Ordinary == OpNode("m", << >>, {Zserio}, << >>)

WrittenDocuments ==
  UNION {
    {One(OpNode("m", <<n>>, {}, << >>)) : n \in Nodes},
    {One(OpNode("m", <<n, o>>, {Zserio}, << >>)) : n, o \in FewNodes},
    {One(OpNode("m", << >>, types, s)) : types \in {{}, {"text/plain"}, {Zserio}}, s \in Securities},
    {One([Ordinary EXCEPT !.operationId = Absent])},
    \* two operations, of one or of two names, at one path or at two
    {Doc(<<At("s", (f :> OpNode("m", <<n>>, {Zserio}, << >>))
                     @@ (g :> OpNode(id, <<o>>, {}, s)))>>) :
       f \in {"put"}, g \in {"get", "delete", "patch"}, id \in {"m", "n"},
       n, o \in FewNodes, s \in {<< >>, << << >> >>}},
    {Doc(<<At("s", ("get" :> OpNode("m", <<n>>, {Zserio}, t))),
           At("t", ("get" :> OpNode(id, <<o>>, {}, s)))>>) :
       id \in {"m", "n"}, n, o \in FewNodes, s, t \in {<< >>, << << >> >>}},
    {[One(Ordinary) EXCEPT !.servers = <<u, v>>] :
       u, v \in {Http, Url("", << >>), Url("", <<Chr("/")>>), Url("", <<Chr("x")>>),
                 Url("http", <<Chr("/"), Chr(">")>>)}},
    {[One(Ordinary) EXCEPT !.schemes = <<s>>] :
       s \in {SchemeNode("S", t, u, k, url) :
                t \in {"http", "apiKey", "oauth2", "openIdConnect"},
                u \in {"basic", "header", "clientCredentials", "digest"},
                k \in {Absent, "k"}, url \in {Absent, "url"}}},
    {[One(Ordinary) EXCEPT !.security = s] : s \in Securities}}
=============================================================================
