---------------------------- MODULE MCServiceCall ----------------------------
(***************************************************************************)
(* Instances of ServiceCall for TLC: every placement, style and format of  *)
(* a parameter with boundary values of every type, a second operation that *)
(* has the first one's path as a prefix, and the other circumstances one   *)
(* at a time.                                                              *)
(***************************************************************************)
EXTENDS ServiceCall

Names == <<"p", "q">>

Esc(c) == [Chr(c) EXCEPT !.k = 1]
Text(v) == [NoValue EXCEPT !.t = "string", !.s = v]

Characters1 == {Chr(c) : c \in {"x", ",", "&", "=", "+", "/", "?", "#", "%", ">", "u"}}
                 \union {Esc("x"), Esc("/")}

\* An element that brings a parameter of its own.
PairInside == <<Chr("x"), Chr("&"), Chr("q"), Chr("="), Chr("x")>>

Texts == {<< >>, PairInside} \union {<<a>> : a \in Characters1}
           \union {<<a, b>> : a, b \in Characters1}

Number(type, n) == [NoValue EXCEPT !.t = type, !.n = n]

Values(type) ==
  CASE type = "bool" -> {Number("bool", n) : n \in {0, 1}}
    [] type = "int"  -> {Number("int", n) : n \in {-8, -1, 0, 1, 7}}
    [] type = "uint" -> {Number("uint", n) : n \in {0, 7, 8, 15}}
    [] type = "enum" -> {Number("enum", n) : n \in {0, 3}}
    [] OTHER         -> {[NoValue EXCEPT !.t = type, !.s = t] : t \in Texts}

Scalars == UNION {{[array |-> FALSE, type |-> type, values |-> <<v>>] : v \in Values(type)} :
                    type \in {"bool", "int", "uint", "enum", "string"}}

FewTexts == {<< >>, <<Chr("x")>>, <<Chr(",")>>, <<Chr("u")>>, <<Chr("&")>>, <<Chr("x"), Chr("x")>>}

Few(type) == IF type = "string" THEN {Text(t) : t \in FewTexts} ELSE Values(type)

Arrays == UNION {{[array |-> TRUE, type |-> type, values |-> vs] :
                    vs \in {<< >>} \union {<<v>> : v \in Few(type)}
                           \union {<<v, w>> : v, w \in Few(type)}} :
                   type \in {"bool", "int", "uint", "string"}}

Members == Scalars \union Arrays

Blobs == {[array |-> FALSE, type |-> "blob", values |-> <<v>>] : v \in Values("blob")}

FewBlobs == {b \in Blobs : b.values[1].s \in FewTexts \ {<< >>}}

FormatsOf(type) == IF type \in Numbers THEN Formats \ {"binary"} ELSE Formats

\* Placements of a parameter, as the parser lets them be.
Placements ==
  {<<"path", s, e>> : s \in {"simple", "label", "matrix"}, e \in BOOLEAN}
    \union {<<"query", "form", e>> : e \in BOOLEAN} \union {<<"header", "form", FALSE>>}

Param(place, field, format) ==
  [location |-> place[1], style |-> place[2], explode |-> place[3], field |-> field,
   format |-> format]

Lit(c)  == [name |-> "", text |-> <<Chr(c)>>]
Slot(n) == [name |-> n, text |-> << >>]

Simple == <<"path", "simple", FALSE>>

\* GET /m/{p}/{q}
Longer == [httpMethod |-> "GET", path |-> <<Lit("m"), Slot("p"), Slot("q")>>, body |-> FALSE,
           parameters |-> [n \in {"p", "q"} |-> Param(Simple, n, "string")]]

\* /m or /m/{p}, with one parameter.
WithParameter(p) ==
  [httpMethod |-> "GET", body |-> FALSE, parameters |-> ("p" :> p),
   path |-> IF p.location = "path" THEN <<Lit("m"), Slot("p")>> ELSE <<Lit("m")>>]

WithBody(httpMethod) ==
  [httpMethod |-> httpMethod, body |-> TRUE, path |-> <<Lit("m")>>, parameters |-> << >>]

AllDocuments ==
  {("call" :> op) @@ ("longer" :> Longer) :
     op \in {WithParameter(Param(place, field, f)) :
               place \in Placements, f \in Formats, field \in {"f", Whole}}
            \union {WithBody(m) : m \in {"GET", "POST", "PUT", "DELETE"}}}

\* Those of the styles README.md says the server supports.
ArrayDocuments ==
  {("call" :> WithParameter(Param(place, "f", "string"))) :
     place \in {p \in Placements : p[2] \in {"simple", "form"}}}

-----------------------------------------------------------------------------

Plainly == [scheme |-> "http", host |-> "h", port |-> 80, rest |-> <<Chr("/"), Chr("x")>>]

Call(method, request) ==
  [method |-> method, request |-> request, server |-> Plainly, settings |-> << >>,
   members |-> [f \in {"f", "p", "q"} |->
                  IF f \in DOMAIN request THEN [array |-> request[f].array, type |-> request[f].type]
                  ELSE [array |-> FALSE, type |-> "string"]]]

\* Something ordinary to meet other circumstances with.
X    == <<Text(<<Chr("x")>>)>>
One  == [array |-> FALSE, type |-> "string", values |-> X]
List == [array |-> TRUE, type |-> "string", values |-> X]

Ordinary == Call("call", ("f" :> One))

Servers == {[Plainly EXCEPT !.port = 65536 + 80], [Plainly EXCEPT !.host = ""],
            [Plainly EXCEPT !.rest = << >>], [Plainly EXCEPT !.rest = <<Chr("/"), Esc(">")>>],
            [Plainly EXCEPT !.rest = <<Chr("/"), Chr("x"), Chr("/"), Chr("x"), Chr("/")>>],
            [Plainly EXCEPT !.rest = <<Chr(">")>>]}

Pair(n) == [name |-> n, key |-> <<Chr(n)>>, value |-> <<Chr("x")>>]

OrdinaryCalls ==
  UNION {{[Ordinary EXCEPT !.server = s] : s \in Servers},
         {[Ordinary EXCEPT !.settings = <<Pair(n)>>] : n \in {"p", "q"}},
         {[Call("call", ("f" :> List)) EXCEPT !.settings = <<Pair(n)>>] : n \in {"p", "q"}},
         {[Ordinary EXCEPT !.method = "unknown"], [Ordinary EXCEPT !.request = << >>]}}

\* Texts that change the number of segments.
PathTexts == FewTexts \union {<<Chr("/")>>, <<Esc("/")>>, <<Chr("?")>>, <<Chr("#")>>}

LongerCalls ==
  {Call("longer", [n \in {"p", "q"} |-> [One EXCEPT !.values = <<Text(IF n = "p" THEN t ELSE u)>>]]) :
     t, u \in PathTexts}

AllCalls(doc) ==
  LET op == doc["call"]
  IN  IF op.body THEN {Call("call", (Whole :> blob)) : blob \in FewBlobs}
      ELSE LET p == op.parameters["p"]
           IN  IF p.field = Whole THEN {Call("call", (Whole :> blob)) : blob \in Blobs}
               ELSE UNION {{Call("call", ("f" :> member)) :
                              member \in {m \in Members : p.format \in FormatsOf(m.type)}},
                           IF p.format = "string" THEN OrdinaryCalls ELSE {},
                           IF p.format = "string" /\ p.style = "simple" THEN LongerCalls ELSE {}}

ArrayCalls(doc) == {Call("call", ("f" :> member)) : member \in Arrays}
=============================================================================
