------------------------------ MODULE SpecFetch ------------------------------
(***************************************************************************)
(* Making a client from the URL of an OpenAPI document: with the           *)
(* configuration SettingsLookup puts together for the URL,                 *)
(* fetchOpenAPIConfig asks for an OAuth2 token if it has to, requests the  *)
(* document, and completes the servers it names; OpenAPIClient is made for *)
(* one of them.                                                            *)
(***************************************************************************)
EXTENDS SettingsLookup, SequencesExt

CONSTANTS
  Minted,       \* the token that is minted for the request
  DocumentUrl,  \* scheme, host and port of the URL of the document
  ServerLists,  \* the servers documents name, with "" and 0 for what they leave out
  ServerIndexes \* the indexes clients are made with


VARIABLES
  phase,    \* how far the fetch is
  minted,   \* the token the endpoint has granted, or None
  token,    \* the token that is put into the request, or None
  request,  \* the headers, cookies and query the document is requested with, or None
  document, \* the servers the document names, or None
  servers,  \* the servers of the OpenAPIConfig
  index     \* the server index the client was made with, or None

fetch     == <<phase, minted, token, request, document, servers, index>>
fetchVars == <<vars, fetch>>

FetchInit ==
  /\ Init
  /\ phase = "configuring" /\ minted = None /\ token = None /\ request = None
  /\ document = None /\ servers = << >> /\ index = None

\* A value of a header is tagged with its scheme.
Bearer(t)   == <<"Bearer", t>>
Basic(auth) == <<"Basic", auth>>

\* Texts that may be headers have a tag, too; a token that is minted is nobody's before.
ASSUME FetchAssumption ==
  /\ "Authorization" \in Names
  /\ Minted # None
  /\ \A t \in Texts : t = <<t[1], t[2]>> /\ t # Bearer(Minted)
  /\ DocumentUrl.scheme # "" /\ DocumentUrl.host # ""
  /\ \A list \in ServerLists : list \in Seq(Range(list))
  /\ ServerIndexes \subseteq Nat

AddHeader(conf, value) == [conf EXCEPT !.headers["Authorization"] = Append(@, value)]

\* The arguments of PyOpenApiClient join the configuration it is given.
WithArguments(conf, apiKey, bearer) ==
  LET keyed == [conf EXCEPT !.apiKey = Overwrite(@, apiKey)]
  IN  IF bearer = None THEN keyed ELSE AddHeader(keyed, Bearer(bearer))

-----------------------------------------------------------------------------
(* acquireOAuth2TokenForSpecFetch.                                         *)

\* Mutant: useForSpecFetch is not looked at.
TokenWantedAnyway == sent.oauth2 # None /\ sent.oauth2.texts["tokenUrl"] # None

\* A token is asked for if the settings say so; its URL has to be in them, too.
TokenWanted ==
  /\ sent.oauth2 # None
  /\ sent.oauth2.useForSpecFetch
  /\ sent.oauth2.texts["tokenUrl"] # None

\* The handler adds the token to the headers of a copy of the configuration, and the
\* first Authorization header of the copy is read, which may not be that one.
Extracted(values) == IF Head(values)[1] = "Bearer" THEN Head(values)[2] ELSE None

Configured == use = "fetch" /\ sent # None /\ phase = "configuring"

SkipToken ==
  /\ Configured /\ ~TokenWanted
  /\ phase' = "authorised"
  /\ UNCHANGED <<vars, minted, token, request, document, servers, index>>

\* Mutant: the handler is given the configuration itself.
MintSucceedsInPlace ==
  /\ Configured /\ TokenWanted
  /\ minted' = Minted
  /\ sent' = AddHeader(sent, Bearer(Minted))
  /\ token' = Extracted(sent.headers["Authorization"] \o <<Bearer(Minted)>>)
  /\ phase' = "authorised"
  /\ UNCHANGED <<settings, matching, httpConfig, use, next, result,
                 request, document, servers, index>>

MintSucceeds ==
  /\ Configured /\ TokenWanted
  /\ minted' = Minted
  /\ token' = Extracted(AddHeader(sent, Bearer(Minted)).headers["Authorization"])
  /\ phase' = "authorised"
  /\ UNCHANGED <<vars, request, document, servers, index>>

\* The document is requested without a token then.
MintFails ==
  /\ Configured /\ TokenWanted
  /\ phase' = "authorised"
  /\ UNCHANGED <<vars, minted, token, request, document, servers, index>>

-----------------------------------------------------------------------------
(* The request, and the client that is made of the answer.                 *)

\* Config::apply: basic authentication is one more Authorization header.
Applied(conf) ==
  [headers |-> (IF conf.auth = None THEN conf ELSE AddHeader(conf, Basic(conf.auth))).headers,
   cookies |-> conf.cookies, proxy |-> conf.proxy, query |-> conf.query]

RequestDocument ==
  /\ phase = "authorised"
  /\ request' = Applied(IF token = None THEN sent ELSE AddHeader(sent, Bearer(token)))
  /\ phase' = "waiting"
  /\ UNCHANGED <<vars, minted, token, document, servers, index>>

\* Mutant: only the host is filled in.
CompletedHost(server) ==
  IF server.host = "" THEN [server EXCEPT !.host = DocumentUrl.host, !.port = DocumentUrl.port]
  ELSE server

\* A server that is named without scheme, or host, is where the document is.
Completed(server) ==
  [scheme |-> IF server.scheme = "" THEN DocumentUrl.scheme ELSE server.scheme,
   host   |-> IF server.host = "" THEN DocumentUrl.host ELSE server.host,
   port   |-> IF server.host = "" THEN DocumentUrl.port ELSE server.port]

NewServer == [scheme |-> "", host |-> "", port |-> 0]

DocumentArrives ==
  /\ phase = "waiting"
  /\ document' \in ServerLists
  /\ LET named == IF document' = << >> THEN <<NewServer>> ELSE document'
     IN  servers' = [i \in DOMAIN named |-> Completed(named[i])]
  /\ phase' = "fetched"
  /\ UNCHANGED <<vars, minted, token, request, index>>

\* Any other status than 2xx, and a text that cannot be parsed.
DocumentFails ==
  /\ phase = "waiting"
  /\ phase' = "thrown"
  /\ UNCHANGED <<vars, minted, token, request, document, servers, index>>

\* The index has to be in range, and the server is logged, which takes a scheme and a host.
MakeClient ==
  /\ phase = "fetched"
  /\ index' \in ServerIndexes
  /\ phase' = IF /\ index' < Len(servers)
                 /\ servers[index' + 1].scheme # "" /\ servers[index' + 1].host # ""
              THEN "made" ELSE "thrown"
  /\ UNCHANGED <<vars, minted, token, request, document, servers>>

FetchNext ==
  \/ Next /\ UNCHANGED fetch
  \/ SkipToken \/ MintSucceeds \/ MintFails
  \/ RequestDocument \/ DocumentArrives \/ DocumentFails \/ MakeClient

FetchSpec == FetchInit /\ [][FetchNext]_fetchVars

-----------------------------------------------------------------------------
(* Properties.                                                             *)

\* The Authorization headers the settings and the client's configuration bring along,
\* and all means of authorisation in them.
OwnHeaders ==
  UNION {{<<i, "header", k>> : k \in DOMAIN Source[i].headers["Authorization"]} : i \in Places}

Means ==
  OwnHeaders \union {<<i, "auth", 1>> : i \in {j \in Places : Source[j].auth # None}}
             \union {<<i, "oauth2", 1>> : i \in {j \in Places : Source[j].oauth2 # None}}

\* Unless an Authorization header is configured, a minted token goes with the request for
\* the document; and it goes with it only if the last of the configurations with OAuth2
\* settings does not keep them from the document.  (acquireOAuth2TokenForSpecFetch)
TokenSentAsConfigured ==
  request # None =>
    /\ minted # None /\ OwnHeaders = {} =>
         Bearer(Minted) \in Range(request.headers["Authorization"])
    /\ Bearer(Minted) \in Range(request.headers["Authorization"]) =>
         LastOf(SpecFetchUses) = TRUE

\* The document is requested with one Authorization header at most, if there is one
\* means of authorisation at most: a header, basic authentication or OAuth2.
\* (fetchOpenAPIConfig, Config::apply)
OneAuthorization ==
  request # None /\ (\A m, n \in Means : m = n) => Len(request.headers["Authorization"]) <= 1

\* A client can be made for every server of a document that was read, even if the document
\* names none; and if it names none, or one without a host, calls go to the host and port
\* of its URL.  (fetchOpenAPIConfig, OpenAPIClient::OpenAPIClient)
MadeForItsServer ==
  /\ phase = "thrown" /\ document # None => index > 0 /\ index >= Len(document)
  /\ phase = "made" /\ (document = << >> \/ document[index + 1].host = "") =>
       /\ servers[index + 1].host = DocumentUrl.host
       /\ servers[index + 1].port = DocumentUrl.port
=============================================================================
