----------------------------- MODULE ServiceCall -----------------------------
(***************************************************************************)
(* One call of a service method: OAClient::callMethod and                  *)
(* OpenAPIClient::call put a request together, the HTTP client sends it,   *)
(* the server (OAServer, under connexion and an HTTP server) routes it,    *)
(* decodes it into a request object and answers.  Client and server were   *)
(* given the same OpenAPI document.                                        *)
(*                                                                         *)
(* An operation of a document is a record of its HTTP method, its path (a  *)
(* sequence of segments, each a name in braces or a text), its parameters  *)
(* by name, and whether the request object is its body.                    *)
(***************************************************************************)
EXTENDS ParameterCodec, FiniteSets

CONSTANTS
  Documents,  \* the operations of OpenAPI documents, by operationId
  Calls(_),   \* the calls made with a document: method, request, server and settings
  NameOrder   \* the names of parameters, in the order maps iterate them

Whole == "*"   \* x-zserio-request-part: the whole request object

VARIABLES
  document,  \* the operations of the document
  scenario,  \* what is called, with which request and settings, and on which server;
             \* and the types of the members that parameters are for
  pc,        \* where the call is
  uri,       \* the URI that is called, as text (builtUri)
  query,     \* httpConfig.query, the pairs in the order of the multimap
  headers,   \* httpConfig.headers, those of parameters
  message,   \* the request on its way, or None
  served,    \* the operation and the request object the server has answered, or None
  answer     \* the status of the answer, NoStatus before there is one

given == <<document, scenario>>
vars  == <<given, pc, uri, query, headers, message, served, answer>>

None     == << >>
NoStatus == -1

Init ==
  /\ document \in Documents
  /\ scenario \in Calls(document)
  /\ pc = "new"
  /\ uri = None /\ message = None /\ served = None /\ answer = NoStatus
  /\ query = scenario.settings /\ headers = << >>

\* The operation that is called.
Operation == document[scenario.method]

NamesOf(op) == SelectSeq(NameOrder, LAMBDA n : n \in DOMAIN op.parameters)

\* What the parameter callback returns: the whole request object is one blob.
Value(p) == ParameterValue(p.format, scenario.request[p.field])

-----------------------------------------------------------------------------
(* The client.                                                             *)

Fail == pc' = "thrown" /\ UNCHANGED <<given, uri, query, headers, message, served, answer>>

Server == FromStrRfc3986(scenario.server)

\* The constructor, which logs the URL of the server.
Construct ==
  /\ pc = "new"
  /\ IF ~Server.error /\ HasHost(Server)
     THEN pc' = "made" /\ UNCHANGED <<given, uri, query, headers, message, served, answer>>
     ELSE Fail

\* The path with the values of its parameters for the names in braces.
SegmentStr(op, s) ==
  IF s.name = "" THEN s.text
  ELSE PathStr(s.name, op.parameters[s.name], Value(op.parameters[s.name]))

ResolvePath(op) ==
  <<Chr("/")>> \o Join([i \in DOMAIN op.path |-> SegmentStr(op, op.path[i])], <<Chr("/")>>)

\* Whether the callback throws for one of the names: there is no such parameter or field.
Unresolvable(op, names) ==
  \E n \in names : \/ n \notin DOMAIN op.parameters
                   \/ op.parameters[n].field \notin DOMAIN scenario.request

PathNames(op) == {s.name : s \in Range(op.path)} \ {""}

BuildUri ==
  /\ pc = "made"
  /\ IF \/ scenario.method \notin DOMAIN document
        \/ Unresolvable(Operation, PathNames(Operation))
     THEN Fail
     ELSE /\ uri' = [scenario.server EXCEPT
                       !.port = Server.port,
                       !.rest = BuildPath(AppendPath(Server, ResolvePath(Operation)), << >>)]
          /\ pc' = "built"
          /\ UNCHANGED <<given, query, headers, message, served, answer>>

\* Inserts a pair into a multimap, after those of its key.
Rank(name) == CHOOSE i \in DOMAIN NameOrder : NameOrder[i] = name

Insert(pairs, name, text) ==
  LET pair == [name |-> name, key |-> <<Chr(name)>>, value |-> text]
      Below(p) == Rank(p.name) <= Rank(name)
  IN  SelectSeq(pairs, Below) \o <<pair>> \o SelectSeq(pairs, LAMBDA p : ~Below(p))

InsertAll(pairs, op, location) ==
  FoldLeft(LAMBDA all, n :
             IF op.parameters[n].location # location THEN all
             ELSE FoldLeft(LAMBDA ps, t : Insert(ps, n, t), all,
                           QueryOrHeaderValues(op.parameters[n], Value(op.parameters[n]))),
           pairs, NamesOf(op))

ResolveHeaderAndQueryParameters ==
  /\ pc = "built"
  /\ IF Unresolvable(Operation, {n \in DOMAIN Operation.parameters :
                                   Operation.parameters[n].location \in {"query", "header"}})
     THEN Fail
     ELSE /\ query' = InsertAll(query, Operation, "query")
          /\ headers' = InsertAll(headers, Operation, "header")
          /\ pc' = "resolved"
          /\ UNCHANGED <<given, uri, message, served, answer>>

\* satisfySecurity passes or throws (AuthRegistry).
SatisfySecurity ==
  /\ pc = "resolved"
  /\ pc' \in {"authorised", "refused"}
  /\ UNCHANGED <<given, uri, query, headers, message, served, answer>>

\* The HTTP client parses the URI again, which decodes its path, and writes the path
\* as it is.  It throws if it cannot parse it.
Request(target, body) ==
  [httpMethod |-> Operation.httpMethod, port |-> target.port,
   target |-> BuildPath(target, query), headers |-> headers, body |-> body]

Send ==
  /\ pc = "authorised"
  /\ LET target == FromStrRfc3986(uri)
         body   == IF Operation.httpMethod # "GET" /\ Operation.body
                   THEN scenario.request[Whole].values ELSE << >>
     IN  IF target.error THEN Fail
         ELSE /\ message' = <<Request(target, body)>>
              /\ pc' = "waiting"
              /\ UNCHANGED <<given, uri, query, headers, served, answer>>

\* The request or the answer is lost: httplib has no result, which makes status 0.
Lose ==
  /\ pc = "waiting" /\ answer # 0
  /\ answer' = 0
  /\ message' = None
  /\ UNCHANGED <<given, pc, uri, query, headers, served>>

\* Every status but 200 is an error.
Receive ==
  /\ pc = "waiting" /\ answer # NoStatus
  /\ pc' = IF answer = 200 THEN "returned" ELSE "thrown"
  /\ UNCHANGED <<given, uri, query, headers, message, served, answer>>

-----------------------------------------------------------------------------
(* The server: HTTP and connexion.                                         *)

\* HTTP servers take the path up to "?" and "#" apart and decode it; empty segments
\* are merged.
SegmentsOf(target) ==
  SelectSeq(Split(Unescape(Before(target, {"?", "#"})), "/"), LAMBDA s : s # << >>)

QueryPart(target) ==
  LET rest == From(Before(target, {"#"}), {"?"}) IN IF rest = << >> THEN << >> ELSE Tail(rest)

\* The texts the query gives for a name, with "+" for a space.
QueryTexts(target, name) ==
  LET fields == SelectSeq(Split(QueryPart(target), "&"),
                          LAMBDA f : Before(f, {"="}) = <<Chr(name)>>)
      Unquote(t) == Unescape([i \in DOMAIN t |-> IF IsChar(t[i], "+") THEN Chr(">") ELSE t[i]])
  IN  [i \in DOMAIN fields |->
         LET v == From(fields[i], {"="}) IN IF v = << >> THEN << >> ELSE Unquote(Tail(v))]

\* The segments the paths of the document are mounted below.
Mount == SelectSeq(Split(Server.path, "/"), LAMBDA s : s # << >>)

Matches(op, segments) ==
  /\ Len(segments) = Len(Mount) + Len(op.path)
  /\ \A i \in DOMAIN Mount : segments[i] = Mount[i]
  /\ \A i \in DOMAIN op.path :
       op.path[i].name # "" \/ segments[Len(Mount) + i] = op.path[i].text

Routes(m) ==
  {id \in DOMAIN document :
     /\ document[id].httpMethod = m.httpMethod
     /\ Matches(document[id], SegmentsOf(m.target))}

PathText(op, name, segments) ==
  segments[Len(Mount) + CHOOSE i \in DOMAIN op.path : op.path[i].name = name]

\* What there is of a parameter in a message, one text per occurrence.
TextsOf(op, name, m) ==
  CASE op.parameters[name].location = "path"   -> <<PathText(op, name, SegmentsOf(m.target))>>
    [] op.parameters[name].location = "query"  -> QueryTexts(m.target, name)
    [] op.parameters[name].location = "header" ->
         LET texts == SelectSeq(m.headers, LAMBDA h : h.name = name)
         IN  [i \in DOMAIN texts |->
                [j \in DOMAIN texts[i].value |->
                   IF IsChar(texts[i].value[j], "u") THEN Chr("latin") ELSE texts[i].value[j]]]

\* Iterating over a header gives its characters; those of an opaque run stand for nothing.
Digits == {[NoValue EXCEPT !.t = "number", !.n = n] : n \in 0..9}

Characters(t) ==
  [i \in DOMAIN t |-> IF t[i].of = NoValue \/ (t[i].c = "dec" /\ t[i].of \in Digits)
                      THEN <<t[i]>> ELSE <<Chr("part")>>]

\* connexion makes one text of several, or a list for an array; a header stays text.
ItemsOf(p, array, texts) ==
  CASE p.location = "header" -> IF array THEN Characters(Last(texts)) ELSE <<Last(texts)>>
    [] ~array                -> <<Last(texts)>>
    [] OTHER                 -> Split(IF p.explode THEN Join(texts, <<Chr(",")>>) ELSE Last(texts), ",")

\* The values request_object_blob gives the member a parameter is for.
Decoded(p, texts) ==
  IF p.field = Whole THEN <<ParseBlob(p.format, Last(texts))>>
  ELSE LET member == scenario.members[p.field]
           items  == ItemsOf(p, member.array, texts)
       IN  [i \in DOMAIN items |-> ParseParamValue(p.format, member.type, items[i])]

\* The request object an operation makes of a message.
ObjectOf(op, m) ==
  [f \in {op.parameters[n].field : n \in DOMAIN op.parameters} |->
     LET n == CHOOSE n \in DOMAIN op.parameters : op.parameters[n].field = f
     IN  Decoded(op.parameters[n], TextsOf(op, n, m))]

BodyObject(m) == (Whole :> m.body)

Complete(op, m) == \A n \in DOMAIN op.parameters : TextsOf(op, n, m) # << >>

Reply(status, op, object) ==
  answer' = status /\ served' = <<[status |-> status, of |-> op, object |-> object]>>

\* A required parameter that is missing is refused; a body that is missing, and a text
\* that cannot be converted or written, raise in wsgi_method.
Answer(id, m) ==
  LET op == document[id]
      object == IF op.body THEN BodyObject(m) ELSE ObjectOf(op, m)
  IN  IF ~Complete(op, m) THEN Reply(400, id, << >>)
      ELSE IF \/ op.body /\ m.body = << >>
              \/ \E f \in DOMAIN object : \E i \in DOMAIN object[f] : ~Writable(object[f][i])
           THEN Reply(500, id, << >>)
           ELSE Reply(200, id, object)

Serve ==
  /\ \E m \in Range(message) :
       /\ m.port = scenario.server.port
       /\ IF Routes(m) = {} THEN Reply(404, "", << >>) ELSE \E id \in Routes(m) : Answer(id, m)
  /\ message' = None
  /\ UNCHANGED <<given, pc, uri, query, headers>>

Next ==
  \/ Construct \/ BuildUri \/ ResolveHeaderAndQueryParameters \/ SatisfySecurity
  \/ Send \/ Lose \/ Serve \/ Receive

Spec == Init /\ [][Next]_vars

-----------------------------------------------------------------------------
(* Properties.                                                             *)

\* The request object the caller means.
Intended ==
  LET fields == IF Operation.body THEN {Whole}
                ELSE {Operation.parameters[n].field : n \in DOMAIN Operation.parameters}
  IN  [f \in fields |-> scenario.request[f].values]

Arrived == served = <<[status |-> 200, of |-> scenario.method, object |-> Intended]>>

HasAny(t, chars) == \E i \in DOMAIN t : t[i].c \in chars

\* The texts that come through a location unchanged.  Paths are decoded twice, once by
\* the client, and queries are not escaped where HTML forms read them otherwise.
PlainText(p, t) ==
  CASE p.location = "path"   -> /\ \A i \in DOMAIN t : t[i].k = 0
                                /\ ~HasAny(t, {"/", "?", "#"})
    [] p.location = "query"  -> ~Holds(t, "&") /\ ~Holds(t, "+")
    [] p.location = "header" -> TRUE

\* The values a format keeps.  Words are read as signed, "hex" has no bool.  Bytes that are
\* not ASCII come through a URL as text, through a header as bytes, and no format asks
\* for the right one.
PlainValue(p, v) ==
  CASE v.t = "bool"     -> p.format # "hex"
    [] v.t = "uint"     -> p.format \in {"string", "hex"} \/ v.n < Word \div 2
    [] v.t = "string"   -> \/ p.format # IF p.location = "header" THEN "string" ELSE "binary"
                           \/ ~Holds(v.s, "u")
    [] v.t = "blob"     -> \/ p.format \notin {"string", "binary"} \/ p.location = "header"
                           \/ ~Holds(v.s, "u")
    [] OTHER            -> TRUE

\* A list comes through if there is something of it and no element has a comma, in a
\* header if it is at most one character.
PlainMember(p, member) ==
  LET texts == Value(p).texts
  IN  /\ \A i \in DOMAIN texts : PlainValue(p, member.values[i]) /\ PlainText(p, texts[i])
      /\ p.location = "path" => Join(texts, <<Chr(",")>>) # << >>
      /\ member.array =>
           IF p.location = "header"
           THEN \/ texts = << >>
                \/ /\ Len(texts) = 1 /\ Len(texts[1]) = 1
                   /\ texts[1][1].of = NoValue \/ (p.format = "string" /\ texts[1][1].of \in Digits)
           ELSE texts # << >> /\ \A i \in DOMAIN texts : ~Holds(texts[i], ",")

PlainParameter(op, n) ==
  LET p == op.parameters[n]
  IN  /\ p.field \in DOMAIN scenario.request
      /\ p.style \notin {"label", "matrix"}
      /\ PlainMember(p, scenario.request[p.field])
      \* a query entry of the settings with this name joins the list
      /\ ~ /\ p.location = "query" /\ p.explode /\ scenario.request[p.field].array
           /\ \E i \in DOMAIN scenario.settings : scenario.settings[i].name = n

PlainServer ==
  /\ Server.host # "" /\ scenario.server.port < 2^16
  /\ ~HasAny(scenario.server.rest, {"?", "#", "%", ">", "u"})
  /\ \A i \in DOMAIN scenario.server.rest : scenario.server.rest[i].k = 0

Plain ==
  /\ PlainServer
  /\ scenario.method \in DOMAIN document
  /\ \A n \in DOMAIN Operation.parameters : PlainParameter(Operation, n)
  /\ Operation.body => Operation.httpMethod # "GET"

\* A call whose server, document and values are plain is sent unless it lacks credentials,
\* and once it is served the operation has got what the client was called with, member
\* by member.  (OpenAPIClient::call, request_object_blob)
ArrivesIfPlain ==
  /\ served # None /\ Plain => Arrived
  /\ pc = "thrown" /\ answer = NoStatus => ~Plain

\* A call that returns was answered by the operation it names, whatever its values, unless
\* a path parameter is empty or has a separator, which may be an escaped one.
\* (URIComponents::appendPath, OpenAPIClient::call)
AnsweredByItsOperation ==
  pc = "returned" =>
    \/ served[1].of = scenario.method
    \/ \E n \in PathNames(Operation) :
         LET t == SegmentStr(Operation, [name |-> n, text |-> << >>])
         IN  t = << >> \/ HasAny(t, {"/", "?", "#"})

\* A list of numbers arrives, wherever the parameter is and whatever its style, as README.md
\* says of OAServer: it does not if it is in a header.  (request_object_blob)
ArraysArrive ==
  served # None /\ scenario.method \in DOMAIN document =>
    \A n \in DOMAIN Operation.parameters :
      LET p == Operation.parameters[n]
          member == scenario.request[p.field]
      IN  member.array /\ member.type \in Numbers /\ member.values # << >>
            /\ p.style \in {"simple", "form"} /\ p.format = "string"
          => Arrived
=============================================================================
