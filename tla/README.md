# Verification of zswag

zswag lets a zserio service be called over HTTP and described by an OpenAPI document: a C++ client
(`libs/httpcl`, `libs/zswagcl`), its Python binding (`libs/pyzswagcl`), and a Python server and
OpenAPI generator (`libs/zswag`). This directory holds TLA+ models of its parts, the TLC
configurations that check them, and proofs about the OAuth2 handler, the authentication registry,
the settings (their reload, their file, and what a request is sent with), the fetch of the document,
the documents themselves (their generator and their parser) and the keychain.

Paths below are relative to the repository root. `http-settings.cpp` and the like stand for the
files of that name under `libs/httpcl/src` or `libs/zswagcl/src`.

## 1. Inventory

| Component | Source | State | Operations | Interacts with |
|---|---|---|---|---|
| OAuth2 client-credentials handler | `openapi-oauth.cpp` | `cache_` (token, expiry, refresh token per key), guarded by `m_` | `satisfy`, `requestToken`, `acquireOAuth2TokenForSpecFetch` | called by the registry in the thread of each call; posts to the token endpoint and reads the keychain with `m_` held exclusively |
| Authentication registry, basic, bearer and API key handlers | `openapi-security.cpp` | the configuration of the call, amended in place | `satisfySecurity` and `satisfy` of each handler | called by `OpenAPIClient::call` |
| HTTP configurations | `http-settings.cpp` | `Config` | `operator\|=`, `configToNode`, `configFromNode`, `apply` | made by settings, by users and by pickling |
| HTTP settings | `http-settings.cpp` | `settings`, `document`, `lastRead`, `mutex`, static `lastUpdated`; the file | `load`, `store`, `operator[]`, `updateTimestamp`, `getOrCreateConfigScope` | looked up by `call` and `fetchOpenAPIConfig`, from many threads |
| Secrets | `http-settings.cpp` | the system keychain | `secret::load`, `store`, `remove` | a background job per call, given up after a minute |
| OpenAPI client | `openapi-client.cpp` | the parsed document, the user's configuration | `call` | settings, registry, HTTP client |
| zserio client | `oaclient.cpp` | none | `callMethod` | OpenAPI client, parameter encoding |
| Document fetch and parser | `openapi-parser.cpp` | none | `fetchOpenAPIConfig`, `parseOpenAPIConfig` | settings, OAuth2 handler, HTTP client |
| Parameter encoding | `openapi-parameter-helper.cpp`, `base64.cpp` | none | styles and formats of path, query and header parameters | its inverse is in the server |
| HTTP client, URI, logger, OAuth1 signature | `http-client.cpp`, `uri.cpp`, `log.cpp`, `oauth1-signature.cpp` | the logger's sink | requests; parsing and building; initialisation; signing | used by all of the above |
| Python server | `libs/zswag/app.py`, `reflect.py` | none | decodes requests into zserio objects | counterpart of the parameter encoding |
| OpenAPI generator | `libs/zswag/gen.py`, `doc.py` | none | writes the OpenAPI document of a service | counterpart of the parser |
| Python binding | `libs/pyzswagcl` | none | wraps the client; pickles configurations | zserio client |

What is hard in this code, and what makes each component correct:

- **Token cache.** Threads share tokens; one that misses under the shared lock acts later, under the
  exclusive one, on what may be stale by then. Refresh, mint, failures and lost answers are mixed
  with expiry. Correct: one exchange at a time, none while a token is valid, no token served that
  the endpoint holds for dead, no retired refresh token presented, no token granted for something
  else, every call returns.
- **Registry.** Handlers amend the configuration while alternatives are still being tried. Correct:
  a call passes exactly if one alternative can be met by what the user configured, and then carries
  a credential for each requirement.
- **Settings reload.** The lock is given up between noticing that the file is stale and reloading
  it. Correct: an announced edit is seen, no reload is seen half-way, settings do not go back in
  time, every look-up returns.
- **Configuration merging.** Several entries may match a URL; the number and order of merges decides
  what is sent. Correct: a precedence that does not depend on how many entries match.
- **Settings file.** Written and read by different functions, possibly interrupted. Correct: what is
  stored is what is loaded.
- **Keychain.** Calls time out while their jobs go on; names outlive the process that drew them.
  Correct: a stored password stays, calls report what happened, calls return.
- **Document fetch.** Settings, the client's own configuration and a token minted for the fetch are
  merged in an order that differs from that of a call. Correct: the fetch carries what a call would,
  and a client is only made of a document that has the server it is to use.
- **Calls.** What the client encodes by style and format, the server decodes by a scheme of its own.
  Correct: an operation receives the request it was called with, or none.
- **Documents.** A generator in Python, a hand-written file, a parser in C++ and a verifier in Python
  each have their own idea of a valid document. Correct: what is generated is accepted, and means
  the same to client and server.

`PROJECT.json` lists each of these hazards at its line, with the properties that watch it.

## 2. Modules

| Module | Models | Used by |
|---|---|---|
| `OAuthRequest` | what a security requirement asks for: overrides, cache key, grant, client authentication | `TokenCache` |
| `TokenProvider` | abstract: what the OAuth2 handler promises its callers | `TokenCache` (refinement) |
| `TokenCache` | `satisfy` and `requestToken` in many threads, with clock and endpoint | `MCTokenCache`, `TokenCacheProofs` |
| `AuthRegistry` | `satisfySecurity` and the handlers it calls | `MCAuthRegistry`, `AuthRegistryProofs` |
| `SettingsReload` | `operator[]`, `load` and `updateTimestamp` in many threads | `MCSettingsReload`, `SettingsReloadProofs` |
| `HttpConfig` | merging, writing and reading configurations (operators only) | `SettingsLookup`, `SettingsFile` |
| `SettingsLookup` | aggregation over matching entries, and the merges in `call` and `fetchOpenAPIConfig` | `SpecFetch`, `SpecFetchProofs` |
| `SpecFetch` | the rest of `fetchOpenAPIConfig`, `acquireOAuth2TokenForSpecFetch`, `Config::apply`, the constructors of the client | `MCSpecFetch`, `SpecFetchProofs` |
| `SettingsFile` | `load`, `store`, `getOrCreateConfigScope`, edits and restarts | `MCSettingsFile`, `SettingsFileProofs` |
| `Keychain` | `secret::load`, `store` and `remove` with background jobs and restarts | `MCKeychain`, `KeychainProofs` |
| `Uri` | texts with escapes; parsing, extending and building URIs (operators only) | `ParameterCodec`, `OpenAPIParser` |
| `ParameterCodec` | formats and styles of the client, and their inverse in the server (operators only) | `ServiceCall` |
| `ServiceCall` | one call from `callMethod` to the server's operation and back | `MCServiceCall` |
| `OpenAPIParser` | the parse functions of `openapi-parser.cpp` over nodes (operators only) | `OpenAPIGenerator` |
| `OpenAPIGenerator` | tags, parameters and paths of `gen.py` (operators only) | `ServiceDocument` |
| `ServiceDocument` | the way of a document: generated or written, parsed, verified by the server | `MCServiceDocument`, `ServiceDocumentProofs` |
| `...Proofs` | theorems about the module of that name; `SpecFetchProofs` has those about `SettingsLookup`, too | |

A definition marked "Mutant" is a plausible bug in the definition that follows it. `PROJECT.json`
names, for every property of a passing run, a mutant under which the property fails.

### How state and actions correspond to the code

**TokenCache** (`openapi-oauth.cpp`). `cache` is `cache_`; `readers` and `writer` are who holds
`m_` shared and exclusively; `pc` is where a thread is in `satisfy`; `post` is the request made by
`requestToken`. The actions follow the function downwards: `Begin` (lines 19 to 50, with the early
returns), `LockShared`, `LookupHit` and `LookupMiss` (the shared look-up, 52 to 61), `LockUnique`,
`RecheckHit`, `RecheckMiss` (63 to 74), `SendPost`, `PostSucceeds`, `PostFails` (the refresh, 76 to
95, and the mint, 98 to 114). An exception anywhere in `requestToken` is `PostFails`; it leads from
a refresh to a mint and from a mint out of the call. `EndpointIssues` is the endpoint's part, so an
answer can be issued and still lost. `issued` numbers the tokens. `retired` is a ghost: the refresh
tokens whose replacement the client has received. A key is the tuple of its parts, except that
scopes are joined as the code joins them: a scope is the list of the parts between its colons.

**AuthRegistry** (`openapi-security.cpp`). One step per handler call (`TryRequirement`); `config` is
what the code calls `resultHttpConfigWithAuthorization`. Each entry of a header, query or cookie
container remembers who put it there. The OAuth2 handler adds a token exactly if the settings have
an OAuth2 section and the endpoint is up.

**SettingsReload** (`http-settings.cpp` 430 to 543). `sharing` and `loader` are the mutex. `load` is
three steps because the file, which is outside the lock, can change between them: `LockUnique`,
`StampAndClear`, `ReadFile`. `files` is the history of the file, `settings` the entries read,
as the version they come from. Editors write the file, read the clock, and store it: three steps,
as `updateTimestamp` is called with a time already read.

**HttpConfig**. `Merge` is `operator|=`, `ConfigToNode` and `ConfigFromNode` are the YAML
conversions, with everything they lose: repeated headers, the key `scopes` that is read as `scope`,
one of two secrets. `Throws` is when `configFromNode` throws. In memory an empty text is an absent one
(`None`), as the code asks `empty()`; in a node a key may be there with an empty text (`Empty`), as the
reader asks whether the key is there. **SettingsLookup** iterates `Merge`
over the entries that match, one step per entry, and then merges the client's own configuration, in
the order of `call` or in that of `fetchOpenAPIConfig`.

**SpecFetch** goes on from there (`openapi-parser.cpp` 500 to 560, `openapi-oauth.cpp` 284 to 345):
`SkipToken`, `MintSucceeds` and `MintFails` are the token that may be asked for, with the header
that is read back from the copy (`Extracted`); `RequestDocument` applies the configuration, which
adds an `Authorization` header for basic authentication (`Applied`); `DocumentArrives` completes the
servers (`Completed`); `MakeClient` is the constructor of `OpenAPIClient`, which logs the URL of its
server and throws if it has none. `WithArguments` is what the Python constructor does.

**SettingsFile**. `Load`, `GetOrCreateConfigScope`, and `store` in two steps because opening the
stream empties the file (`OpenForStore`, `WriteStore`). `Assign` is a program writing through the
reference it got, `Edit` a user, `Restart` the end of the program, also between the two steps.

**Keychain**. A call starts a job (`Start`), the job ends (`JobSucceeds`, `JobFails`), the wait may
time out before (`TimesOut`), and the call returns after the job has ended even so, as the
destructor of a `std::async` future waits for it (`Return`). `vault` survives `Restart`.
`StoreUnderNewService` draws any name of `Drawable`, also one that is in use: the code takes twelve
digits of an unseeded `rand()` and asks nobody. Two ghosts follow what calls may rely on: `settled`
is what a service has been left with by a call that nobody overlapped, `overlapped` who was.

**Uri** (`uri.cpp`). A text is a sequence of tokens, each a character class with the number of times
it is escaped; `Encode`, `Decode`, `ParsePath`, `ParseQuery`, `AppendPath` and `BuildPath` do with
tokens what the code does with characters. `?`, `#`, `/`, `%`, `&`, `=`, `+`, `,`, `.` and `;` are characters
of their own as far as somebody tells them apart.

**ParameterCodec** (`openapi-parameter-helper.cpp`, `base64.cpp`, `reflect.py`). `Format` is what the
client makes of a value, `PathStr` and `QueryOrHeaderValues` what a style makes of formatted values,
`ParseParamValue` what the server reads. A formatted number or blob is one opaque token that remembers
its value, so that a text that was cut or changed on the way is no longer read as that value; base64
shows its `/` and `+`. Integers are taken in 64 bits, scaled to `Word` values, signed when unpacked.

**ServiceCall** (`oaclient.cpp`, `openapi-client.cpp`, `http-client.cpp`, `app.py`). `Construct`,
`BuildUri`, `ResolveHeaderAndQueryParameters`, `SatisfySecurity`, `Send` and `Receive` are the client's
steps in the order of `call`; each throws where the code does. `SatisfySecurity` passes or throws: which
of the two is `AuthRegistry`'s. `Send` includes the second parsing of the URI in the HTTP client. `Lose`
is a lost request or answer. `Serve` is the server: HTTP and connexion, which are external, route
the message and split its parameters; `Answer` and `ObjectOf` are `wsgi_method` and
`request_object_blob`.

**OpenAPIParser** has one operator per parse function and, where that throws, one `...Throws` beside it.
A parameter or operation that is named again is amended, as in the code. A loop of the code over a list is
a function from the number of elements passed to what there is then: `WithParameters` is the loop of
`parseMethod`, `WithMethods` that of `parsePath`. **OpenAPIGenerator** has the tags (`WithHttpMethod`, which
come first, then `WithTags` with `ApplyTag`), the specifiers (`SpecifiersOf`; `Scalars` for a request
that is flattened, with the members of its structures), the errors (`MethodRaises`, with
`check_uninstantiable` as `Uninstantiable`), the loop that makes parameters, body and path of them (`WithSpecifiers` with `ProcessSpecifier`) and the dictionary of paths
(`ItemOf`, `AddItem`). **ServiceDocument** drives both; `RequestTypes` has the members of
each method's request; `base.default` and `base.methods` are the tag lists of `*` and of other methods
in the base configuration: `AddMethodConfigFromTags` and `ProcessMethod` one tag
list and one method at a time, `Generate` with the check of openapi-spec-validator, the sections of
the document one element at a time (`ParseServers` ... `ParsePaths`), and `VerifyOpenapiSchema` of
the server.

## 3. Runs

Twelve runs; all counts are of distinct states.

| Run | Instance and bounds | Shows |
|---|---|---|
| `token_cache` | 2 threads, 2 keys (scopes `read` with a secret of the keychain, `read` and `write` with one in clear text) and a request without settings, lifetimes 1 and 2, jiggle 1, timeout 1, clock to 2, 3 calls, fair (389,000) | `NoRedundantExchange`, `ServedTokenAlive`, `RotatedTokenNotReplayed`, `LockInv`, `AtMostOneExchange`, `TokenHasRequestedScopes`, `EveryCallReturns`, and that `TokenCache` implements `TokenProvider` |
| `auth_registry` | all operations of up to 2 alternatives of up to 2 of the 6 requirement types; 40 configurations; endpoint up or down (638,000) | `ThrowsOnlyIfUnsatisfiable`, `AcceptedCredentialsPresent`, `UserKeysStand` |
| `settings_reload` | 2 readers with 2 look-ups each, 1 editor with 2 edits, empty, whole and partly unreadable files, fair (568,000) | `AnnouncedEditSeen`, `NoTornSettings`, `LoaderExclusive`, `NeverOlder`, `LookupReturns` |
| `spec_fetch` | 2 settings entries and the client's configuration, any of them matching, each with one of 16 contents; calls and fetches; 3 documents, 2 server indexes (457,000) | `PrecedenceHolds`, `OAuth2FieldWise`, `FetchKeepsCredentials`, `TokenSentAsConfigured`, `OneAuthorization`, `MadeForItsServer` |
| `service_call` | every placement, style and format of a parameter, and of a body, with boundary values of every type, texts of up to 2 tokens, arrays of up to 2 elements; 6 odd server URLs; a second operation `/m/{p}/{q}`; `Word` = 16 (278,000) | `ArrivesIfPlain`, `AnsweredByItsOperation` |
| `openapi_doc` | 2 methods, one with a request that can be flattened and has a structure in it, one whose request cannot; 4 base configurations, command lines of up to 2 arguments; 500 written documents of up to 2 operations with up to 2 parameters (176,000) | `ReadAsWritten`, `StartsUnlessPathShared`, `PathParametersHavePlaces`, `TagsTakeEffect` |
| `settings_file` | 6 files, 2 scopes, 23 configurations, up to 6 loads, stores, changes, edits and restarts (524,000) | `PlainRoundTrip`, `StableAfterRoundTrip` |
| `keychain` | 2 callers, 3 calls, 2 passwords, a chosen name and one that every draw hits, 1 restart, fair (196,000) | `SettledPasswordKept`, `EveryCallReturns` |
| `auth_leak` | as `auth_registry` | `PassesOnlyIfSatisfiable` is violated |
| `client_config` | as `spec_fetch` | `ClientConfigEnriches` is violated |
| `array_params` | as `service_call`, arrays only | `ArraysArrive` is violated |
| `settings_round_trip` | as `settings_file` | `RoundTrip` is violated |

**Why the bounds are enough.** In `token_cache`, lifetime 1 with jiggle 1 is the token that is
cached already expired (the code's `expires_in` of at most 30 seconds), lifetime 2 is served, expires
and is refreshed within the clock's 2 ticks. Three calls mint, refresh, and present the reissued
refresh token; they are shared by the two threads the race needs, in any way, and a third thread that
waits makes no difference to the state. The second key is for what one lock over all keys does, and for
a token and a refresh token of the wrong scopes. `auth_registry`
enumerates its inputs; a third alternative adds nothing the second, tried with what a failed one
left, does not. In `settings_reload` two edits suffice for an edit to fall into each gap of a reload
of the edit before, and two look-ups per reader compare a result with an earlier one. What holds
beyond the bounds of these runs and of `keychain`, `spec_fetch`, `settings_file` and `openapi_doc` is
proved (section 5). In `spec_fetch`, three configurations meet in each section: enough for first, last and
field-wise to differ; a client with a bearer header of its own, with basic authentication and with
none meets settings with and without OAuth2. A text there says which section it is for and who gave
it. In `service_call` two tokens are enough for every character to stand alone and beside every
other, so that separators come first, last and between; a 16-valued word has the greatest signed,
the least signed and the greatest unsigned value of each type. Two elements are what separates a
list from its text. In `openapi_doc` two tag lists after a base configuration with a wildcard let a
wildcard come before, between and after a method's own; two operations are enough to share a path, a
name or neither. In `settings_file`, six steps are two round trips and two changes. In `keychain`
two calls overlap, the third comes after them or between; a draw that hits what was drawn before, one
that was chosen, and one that is new are the same for the one drawn name there, before and after it is
returned. All searches are exhaustive within the bounds, and
no symmetry or state constraint is used.

**Deadlock** is not checked: all bounded behaviours end (the calls, steps and edits are used up),
and a registry check, a service call, a fetch and a document end when they have an outcome. That no
thread is stuck on the way there is what `EveryCallReturns` and `LookupReturns` say.

**Fairness.** `FairSpec` asks weak fairness of the steps of each running thread (it is scheduled),
which for a token request means that the POST returns, as the HTTP client times out. Nothing is
asked of the mutexes: in the bounded runs a waiting thread gets its turn because the calls of the
others end. Nothing is asked of clock, endpoint, editors or callers. In `Keychain` the system
keychain is assumed to answer each job in the end, possibly with an error, because the code
has no bound for it: the timeout gives up the result, not the job. A keychain that never answers
blocks its caller for ever.

### What the properties of a call say

`ArrivesIfPlain` says when the member values the caller means are those the server's operation gets:
if server, document and values are `Plain`. It says nothing of other values. Those fail or arrive
changed in the code, for which `ArrivesIfPlain` is no excuse where the documentation has them supported;
`array_params` checks one such sentence, the others are quoted here:

- In a path: an empty value (README.md:1081 forbids it), one with `/`, `?` or `#`, and one with an
  escape of its own. The client escapes once, and decodes again when the HTTP client parses the URI
  (`http-client.cpp:60`). README.md:1076 says that "Both `string` and `binary` result in a raw
  URL-encoded string buffer", which would keep them.
- In a query: `&` and `+`, which `uri.cpp:344` does not escape. Base64 has `+`; README.md:1077 says
  "Both `byte` and `base64` result in a standard Base64-encoded value", and README.md:1091 that the
  server reads `format: byte`.
- Strings that are not ASCII: as `binary` in a URL, as `string` in a header; blobs the other way round.
  README.md:1110 has strings among the types of `x-zserio-request-part` without a restriction.
- Unsigned values from 2^63 on as `base64` or `base64url`, and `bool` as `hex`. The same lines have
  `uint8` "etc." and all of the formats; only hexadecimal integers are made an exception (README.md:1113).
- Empty arrays outside a path and arrays of texts with commas; README.md:1142 says that "The array will
  be encoded according to the format, style and explode specifiers", and makes an exception of neither.
- The styles `label` and `matrix`, which the server does not read, as README.md says.
- A server URL whose path has an escape, and a port above 65535.
- A whole request in the body of a `GET`.

`AnsweredByItsOperation` says what such values can at worst do: a call is answered by another operation
only if a path value is empty or has a separator. Values that fail to parse are answered with 500 and not
with the 400 of README.md:489 where the error is raised outside `wsgi_method`'s `try` (`app.py:163`).

## 4. What the violated properties show

Each of these runs checks a sentence of the documentation; `PROJECT.json` quotes it.

- `auth_leak`: with `[oauth2 AND basic] OR [bearer]`, the token minted for the first alternative
  stays in the configuration when basic fails, and then meets the second one.
- `client_config`: README.md:613-614 and 731-732 say that a client's own configuration will "only
  enrich, not overwrite the default persistent configuration". In a call its basic authentication,
  proxy and API key overwrite them (`openapi-client.cpp:124`), in the fetch its cookies
  (`openapi-parser.cpp:507`). `PrecedenceHolds` only says what the settings themselves amount to and
  that no header or query parameter is lost; `FetchKeepsCredentials` says what is left of the sentence
  in the fetch.
- `array_params`: an array in a header is read character by character, so that a list of numbers
  with more than one digit in all does not arrive.
- `settings_round_trip`: stored configurations lose OAuth2 scopes, repeated headers and query
  parameters; one with incomplete credentials takes the entries after it along. `PlainRoundTrip`
  says exactly which configurations survive.

Observations made while modelling that no run states:

- The cache key joins scopes with `:`, which RFC 6749 allows in a scope (`openapi-oauth.cpp:49`):
  `["read:write"]` and `["read", "write"]` share a token. Without such scopes
  `TokenHasRequestedScopes` is proved (`ScopesUnambiguous`).
- `secret::remove` converts the error to `bool`, so the result is the wrong way round
  (`http-settings.cpp:419` against `http-settings.hpp:181`; `Returned` models it).
- A plain `get` gets a body (`gen.py:356`), although README.md:386 has query as the default; the client
  never sends a body with `GET`, so the operation cannot be called with success.
- The token minted for the document is not reused for calls, contrary to README.md:873: the handler and
  its cache are made for the fetch (`openapi-oauth.cpp:321`). `useForSpecFetch` without a token URL in the
  settings means no token.
- README.md:871 says of `useForSpecFetch` that the "Token is included as `Authorization: Bearer <token>`
  header when fetching OpenAPI spec". With an `Authorization` header of the user's it is not: that one is
  found first (`openapi-oauth.cpp:329`), the token is minted and thrown away, and a bearer token of the
  user's is sent twice. `TokenSentAsConfigured` promises the token only if no such header is configured,
  and says nothing of the other case.
- README.md:1174-1180 calls the host of a `servers` entry "unused-host-information" and says that "The
  OpenAPI client will then call methods with your specified host and port". The code calls the host and
  port of the entry if it has a host (`openapi-parser.cpp:541`). `MadeForItsServer` speaks of entries
  without one, for which the two agree.
- README.md:408 documents the key `method` of a base configuration; `gen.py:164` reads `methods`.
- An entry whose credentials have `password: ""` is loaded (`http-settings.cpp:55`) and stored without
  the key (`http-settings.cpp:34`), so the next load ends at it. `PlainRoundTrip` is about
  credentials with a secret.
- With two editors, `AnnouncedEditSeen` fails for three edits: `updateTimestamp` is a plain store,
  so the older of two overlapping announcements can come last, and a reload in between has then
  served both (`http-settings.cpp:433`). `settings_reload` and the theorem have one editor.
- Nothing seeds `rand()`, and whether threads share its state is the platform's choice: the same names
  are drawn after every restart, and what is stored under them for the same user is overwritten
  (`http-settings.cpp:359`). `SettledPasswordKept` speaks of a password until its name is named or drawn
  again.
- A keychain that does not answer within a minute yields an empty secret, which the OAuth2 handler
  takes for a public client's and posts the client id alone (`openapi-oauth.cpp:159`;
  `SecretOutcomes` models it).
- `secret::store` never asks its future for the outcome: an error of the keychain is lost and a
  service name is returned under which nothing is stored (`http-settings.cpp:390`; `Returned`
  models it).
- `Settings::store` puts the list into the document it loaded but writes the bare list, so other
  sections of the file are lost (`http-settings.cpp:507`).

## 5. What is proved

All theorems hold for any values of the constants that satisfy the named assumptions.

| Theorem | Statement | Argument |
|---|---|---|
| `TokenCacheProofs` | | any threads, requests, lifetimes, jiggle period, timeout and bounds |
| `TypeCorrect` | `Spec => []TypeOK` (this and the others of the name are not run as properties) | inductive together with `LockInv` |
| `LockDiscipline` | `Spec => []LockInv` | lock state, program counters and requests determine one another |
| `OneExchange` | `Spec => []AtMostOneExchange` | who is in an exchange is the writer |
| `SingleFlight` | `Spec => []NoRedundantExchange` | only the writer changes the cache, and an entry that has expired stays so |
| `ServedAlive` | `Spec => []ServedTokenAlive` | from `DatesInv` |
| `ScopesRespected` | `ScopesUnambiguous /\ Spec => []TokenHasRequestedScopes` | from `GrantsInv` and `EntriesMatchKeys` |
| `NoReplay` | `Spec => []RotatedTokenNotReplayed` | from `RotationInv` |
| `Refinement` | `Spec => ImplementsProvider` | each step is one of `TokenProvider` or a stutter, given the invariants |
| `AuthRegistryProofs` | | any operations and configurations |
| `ThrowsJustly` | `Spec => []ThrowsOnlyIfUnsatisfiable` | from `HandledCarried` and `FailedUnsatisfiable` |
| `CredentialsPresent` | `Spec => []AcceptedCredentialsPresent` | from `HandledCarried` |
| `KeysStand` | `Spec => []UserKeysStand` | handlers add only, and a key only where there is none |
| `SettingsReloadProofs` | | any readers, editors, files and bounds |
| `TypeCorrect` | `Spec => []TypeOK` | inductive together with `LockInv` and `MemoryInv` |
| `LoaderAlone` | `Spec => []LoaderExclusive` | from `LockInv` |
| `NotTorn`, `NotBack` | `Spec => []NoTornSettings`, `Spec => NeverOlder` | from `MemoryInv` |
| `EditSeen` | `OneEditor /\ Spec => []AnnouncedEditSeen` | from `SeenInv` |
| `SettingsFileProofs` | | any scopes, configurations, files of users and bounds |
| `TypeCorrect` | `Spec => []TypeOK` | inductive |
| `PlainEntriesSurvive` | `Spec => []PlainRoundTrip` | from `FileIsStored` and what is read back of each entry |
| `StableAfterOne` | `Spec => []StableAfterRoundTrip` | from `StoredPlain` |
| `SpecFetchProofs` | | any number of entries, any of them matching, any clients and documents |
| `FetchLooksUp` | `FetchSpec => Spec` | each step is one of `SettingsLookup` or leaves its variables alone |
| `LookupTyped` | `Spec => []LookupTypeOK` | from `LookupInv` |
| `Precedence`, `OAuth2ByField` | `FetchSpec => []PrecedenceHolds`, `... []OAuth2FieldWise` | from `LookupInv` |
| `CredentialsKept` | `FetchSpec => []FetchKeepsCredentials` | from `LookupInv` |
| `TokenSent`, `AuthorizedOnce` | `FetchSpec => []TokenSentAsConfigured`, `... []OneAuthorization` | from `LookupInv` and `FetchInv` |
| `ServersServe` | `FetchSpec => []MadeForItsServer` | from `FetchInv` |
| `KeychainProofs` | | any callers, services, passwords and bounds |
| `TypeCorrect` | `Spec => []TypeOK` | inductive together with the rest of `KeychainInv` |
| `PasswordKept` | `Spec => []SettledPasswordKept` | from `KeychainInv` |
| `ServiceDocumentProofs` | | any service, any well-formed tags in any number of lists, any written documents |
| `InvariantHolds` | `Spec => []Invariant` | inductive |
| `ReadAsWrittenHolds` | `Spec => []ReadAsWritten` | from `ParserInvariant` |
| `StartsUnlessPathSharedHolds` | `Spec => []StartsUnlessPathShared` | from `MethodsInvariant` and `ParserInvariant` |
| `PathParametersHavePlacesHolds` | `Spec => []PathParametersHavePlaces` | from the same, and what `Processed` makes of specifiers |
| `TagsTakeEffectHolds` | `Spec => []TagsTakeEffect` | from all of `Invariant` |

**TokenCache.** None of the properties but `LockInv` is inductive by itself. `BaseInvariant`
(`TypeOK /\ LockInv`) carries the others: it ties the exclusive lock to the three places of `satisfy`
that hold it, so that nobody else can change an entry a thread has rechecked. The rest need to know
what the cache and the posted request hold:

- `DatesInv`: the client dates a token when the answer arrives, the endpoint when it issues it;
  the two differ by at most the HTTP timeout. So `ServedTokenAlive` says that the jiggle period
  makes up for the delay if it is at least the timeout, and by how much it falls short otherwise
  (the code's defaults are 30 and 60 seconds).
- `GrantsInv`: a refresh token continues the grant of its access token. With `ScopesUnambiguous`
  (two requests of one key want the same scopes) this gives `EntriesMatchKeys`. The hypothesis is
  needed: see the first observation of section 4.
- `RotationInv`: refresh tokens are fresh when issued, no two entries share one, and the one a
  thread presents is that of its entry, which is not retired.

The refinement maps the cache to what is held and the request of a thread to what is pending. A
call takes effect when it returns; everything before is a stutter. The proof needs `SingleFlight`
(a renewal or failure happens only when nothing valid is held) and `GrantsInv` (what is renewed
continues or matches a grant).

**AuthRegistry.** `RegistryInv` says that the configuration extends the given one (`Extends`), that the
requirements already handled in the current alternative are carried by it (`HandledCarried`), and that
the alternatives given up cannot be met (`FailedUnsatisfiable`). The last needs the one before: a
bearer requirement that fails after an OAuth2 requirement of the same alternative would find its token.

**SettingsReload.** `LockInv` ties the mutex to the places of the readers; `MemoryInv` says that except
between clearing and reading, memory holds what one load makes of one version, and nobody has
returned a newer one. `SeenInv` adds, for one editor, that what was announced is in memory or will be
reloaded, and the same of the edit whose announcement is about to be stored: this is where the order
of stamping and reading in `load` matters. `OneEditor` is needed: see the observation on line 433.

**Keychain.** `WaitingInv`: a job that runs has its call waiting for it, as the destructor of the future
sees to even after a timeout. `AloneInv`: of two calls that write a service at a time each is marked as
overlapped, so the one that is not finds its password in the keychain when its job is done. `SettledInv`
adds that nobody writes what is settled: a job that could would have its call under way. No assumption
is made on the names that are drawn; a draw is a call like any other.

**SettingsFile.** `PlainRoundTrip` is about a file and the list it was written from, long after it was
written; `FileIsStored` says that the two still belong together (an edit makes them part). What is
left is a statement about one entry, `EntryRoundTrip`, from lemmas about each of its sections, and
one about lists, `LoadedEntries`: `load` reads up to the first entry that throws, so a list comes back
whole only if none does. `StableAfterRoundTrip` needs to know that what was read from a stored file
is plain (`ReadBackPlain`) and still is when it is stored again (`StoredPlain`): it is read back with
one secret per user and one value per name, as a node has room for no more.

**SettingsLookup.** `PrecedenceHolds` speaks of the end of the loop of `operator[]` and, like
`OAuth2FieldWise`, of the request. `LookupInv` says the same inside the loop: the result so far aggregates the matching entries that were passed (`Aggregates`: the first cookie, all
headers in order, the last credentials, and each OAuth2 setting by itself). `MergeAggregates` is the
step: a merge with an entry that comes after, or before, all others aggregates one more. It rests on
lemmas about the first and the last of some values and about sequences to which a part is added at
an end. `ConfigureCall` adds the client's configuration after all entries, `ConfigureFetch` before
them.

**SpecFetch.** `FetchInv` remembers where the token and the request come from: the token is what
`Extracted` reads back from the first `Authorization` header of the copy, which is the minted one
exactly if no other is before it. By `LookupInv` one is before it exactly if some configuration has
one, which `TokenSentAsConfigured` excludes; that a token is asked for at all is up to the last
configuration with OAuth2 settings, by the same invariant. `OneAuthorization` counts the headers the same
way, with the one of basic authentication. `ServersRead` says that each server was completed from
the URL of the document.

**ServiceDocument.** The properties relate the tags a user gave, at the beginning, to what the client has
read, at the end; `Invariant` follows them through the stages. `TagsInvariant` is about the tag lists
read so far: the configuration of a method sums up (`SumsUp`) the tags at the positions that hold for it
(`Held`), those of its own last list and of the wildcard's before it. The step, `EntrySumsUp`, is about one
list of any length read after a configuration that sums up what came before; that a method without a
list has what the wildcard has is `HeldByWildcard`. `MethodsInvariant` says that the document has exactly
the operations of those methods that are the last at their path (`IsLast`), since a later one replaces
an earlier one. `ParserInvariant` says that of the operations passed so far (`HasRead`) each that is alone
with its operationId and names no parameter twice is read as it says. It is a statement about all
operations, also those still to come: one that comes later under the same operationId would amend what
was read. `GeneratedOperations` joins the two: a generated document has one operation per
method and no parameter twice, as specifiers of one name are refused, so everything in it is read as
it says. Where a definition goes through a list, a lemma (`WithTagsSteps` and its like) says that the
function it takes exists and what it does at each position, and `Upward` that what holds of the empty
list, and after one more element, holds of the whole one. `Upward` comes from the least position at
which it would not hold (`LeastNumber`), not from an induction theorem.

The assumptions on constants are those the modules name:

- Bounds and periods are natural numbers, and values that stand for absence are none of the values
  they stand in for (`NoneAssumption`: a `std::optional` that is empty equals none that is not).
- Requirements, configurations and nodes are of the types they have in the code (`IsConfig`, `IsNode`).
- `FilesAssumption`: scopes that programs ask for, and `*`, are patterns that a file may hold, and no
  target is the absent one.
- `FetchAssumption`: `Authorization` is a header's name; the URL the document was fetched from has
  a scheme and a host, or there would be no document; a minted token is not one that somebody has
  written into a configuration before. Without the last, `TokenSentAsConfigured` could not tell
  the two apart.
- `ServiceAssumption`: the methods of a service have different names, which zserio demands, and so have
  the parameters that flattening makes of the members of a request. zserio has different names for
  the members of a structure; that none is called like two others with `__` between them (`a__b` beside
  `a.b`) is an assumption (`gen.py:366` does not look, `gen.py:220` would refuse the like of specifiers).
- `InputAssumption`: tag lists consist of tags the generator understands, with a location, and with
  names that are not empty (others raise before anything is made of them, or are malformed; section 6),
  and in a written document no path comes twice, as the keys of a YAML mapping do not. Parameters
  that share a name, operations that share an operationId or have none, and unknown formats, styles and
  schemes are all among the documents the theorems are about.

Only model-checked:

- Liveness, which the prover does not do, and the violated properties, `PassesOnlyIfSatisfiable` among them.
- `ArrivesIfPlain` and `AnsweredByItsOperation` of `ServiceCall`. What arrives depends on texts that are
  escaped, joined and split again with the folds of the community modules, whose value the prover's
  library says nothing about; and `Plain` is meant for the documents of the instance, whose paths and
  names are plain and tell their operations apart, not for every document.

## 6. Abstractions and what is not modelled

- Strings are atoms where nobody looks inside: URLs of the settings, names, secrets, patterns. Whether
  a pattern matches a URL is chosen freely in `SettingsLookup`; the translation of wildcard scopes to
  regular expressions is not modelled.
- The clock of `TokenCache` is discrete; that of `SettingsReload` never shows the same time twice.
  On a platform with a coarse steady clock the strict comparison in line 523 can miss an edit.
- A token request is answered, or fails, as a whole; its JSON is not modelled.
- `getOrCreateConfigScope` and `store` do not take the mutex, and the reference the former returns
  dangles after a reload. `SettingsFile` therefore has one thread; using them while other threads
  look settings up is undefined.
- Other sections of the settings file, and a file that is not YAML, are "no entries".
- `ParameterCodec` leaves out floating point numbers, bytes, externs and compound members (their bytes
  are zserio's), objects (the map variant, which no caller in the repository produces), numbers in
  the format `binary`, NUL bytes, and white space around header values.
- External, and modelled from how the code uses them: cpp-httplib (sends a path as it is given; no
  result is status 0), HTTP servers and werkzeug (decode a path once, merge empty segments, read `+` as
  a space, headers as Latin-1), connexion (routes, joins and splits arrays, answers 400 and 404), and
  openapi-spec-validator (every name in braces has a parameter). TLS and redirects are not modelled.
- `Uri`: IP literals and user information; the host is opaque.
- `OpenAPIParser` starts from nodes; that a text is YAML is not modelled. `OpenAPIGenerator` leaves out
  malformed tags and documentation texts (`doc.py`).
- OAuth1 signature: a pure function of the request (escaping, sorting, HMAC-SHA256) with no state or
  order to explore. `TokenCache` has the choice of the method.
- Logger: once initialised, no behaviour of the program depends on it.
- The Python binding beyond the constructor's arguments is glue; pickling a configuration is the
  round trip `SettingsFile` checks. `toSafeString` is for display.

## 7. What could come next

1. `OAuth1Signature`: the base string against a reference definition from RFC 5849, over short
   parameter lists.
2. `SettingsReload` with `getOrCreateConfigScope` and `store` from other threads, where the outcomes
   of the data race are chosen nondeterministically.
3. `ServiceCall` with several calls of one client in sequence, composed with `SettingsLookup` and
   `AuthRegistry` instead of their outcomes.
4. Proofs about `ServiceCall`, after `Split`, `Join` and `Unescape` are written as functions of the
   position, like the loops of `OpenAPIGenerator`: first who answers a call, then what arrives.
5. `OpenAPIGenerator` for requests with members `a.b` and `a__b`, which `ServiceAssumption` excludes: what
   the client and the server make of two parameters of one name.
