------------------------------ MODULE TokenCache ------------------------------
(***************************************************************************)
(* The OAuth2 client-credentials handler: threads calling satisfy() on one *)
(* OAuth2ClientCredentialsHandler, its token cache, the shared_mutex m_    *)
(* that guards it, and the token endpoint they post to.                    *)
(*                                                                         *)
(* A call looks the token up under the shared lock; on a miss it releases  *)
(* that lock, takes the exclusive one, looks again, and then refreshes or  *)
(* mints, holding the exclusive lock (for all keys) until it returns.      *)
(*                                                                         *)
(* Time is discrete.  The endpoint dates a token when it issues it, the    *)
(* client dates it when the answer is in its hands, and at most MaxDelay   *)
(* passes between a request and its answer (the HTTP timeout).             *)
(***************************************************************************)
EXTENDS Integers, OAuthRequest

CONSTANTS
  Threads,     \* the threads calling satisfy()
  Requests,    \* the requests they call with (see OAuthRequest)
  Lifetimes,   \* the values of expires_in an endpoint answers with
  Jiggle,      \* what the client takes off a token's lifetime (30 seconds)
  MaxDelay,    \* the HTTP timeout: the longest a token request is under way
  MaxTime,     \* bound of the checked clock
  MaxCalls,    \* bound of the calls all threads make
  NoRequest, NoToken, NoPost, NoRefresh, NoThread

ASSUME LifetimesAssumption == Lifetimes \subseteq Nat
ASSUME JiggleAssumption    == Jiggle \in Nat
ASSUME DelayAssumption     == MaxDelay \in Nat
ASSUME BoundsAssumption    == MaxTime \in Nat /\ MaxCalls \in Nat

VARIABLES
  now,       \* steady_clock::now()
  cache,     \* cache_: per key, NoToken or the MintedToken
  readers,   \* the threads holding m_ shared
  writer,    \* the thread holding m_ exclusively, or NoThread
  pc,        \* where each thread is in satisfy(); "idle" outside of it
  request,   \* the request of the call a thread is in
  post,      \* the token request a thread has under way, with the endpoint's answer
  outcome,   \* how the last call of each thread ended
  issued,    \* the tokens issued so far: the endpoint's source of fresh names
  retired,   \* the refresh tokens whose replacement the client has received
  calls      \* the calls begun so far

vars == <<now, cache, readers, writer, pc, request, post, outcome, issued, retired, calls>>

-----------------------------------------------------------------------------
(* Keys, tokens and outcomes.                                              *)

Usable == {r \in Requests : ~ Unusable(r)}
Keys   == {TokenKey(r) : r \in Usable}

NoOutcome == [how |-> "none", request |-> NoRequest, token |-> NoToken, at |-> 0]
Failed(r) == [how |-> "mismatch", request |-> r, token |-> NoToken, at |-> 0]
Obtained(how, r, token, time) == [how |-> how, request |-> r, token |-> token, at |-> time]

\* An entry of the cache is good while the clock has not reached its expiry.
Valid(entry, time) == entry # NoToken /\ time < entry.expiresAt

Key(t)   == TokenKey(request[t])
Entry(t) == cache[Key(t)]

Transition(t, from, to) ==
  /\ pc[t] = from
  /\ pc' = [pc EXCEPT ![t] = to]

Return(t, result) ==
  /\ pc' = [pc EXCEPT ![t] = "idle"]
  /\ outcome' = [outcome EXCEPT ![t] = result]
  /\ request' = [request EXCEPT ![t] = NoRequest]

-----------------------------------------------------------------------------
(* The call: prologue, lookup under the shared lock, exclusive lock.       *)

Begin(t, r) ==
  /\ pc[t] = "idle"
  /\ calls < MaxCalls
  /\ calls' = calls + 1
  /\ IF Unusable(r)
       THEN /\ outcome' = [outcome EXCEPT ![t] = Failed(r)]
            /\ UNCHANGED <<pc, request>>
       ELSE /\ outcome' = [outcome EXCEPT ![t] = NoOutcome]
            /\ request' = [request EXCEPT ![t] = r]
            /\ pc' = [pc EXCEPT ![t] = "lockShared"]
  /\ UNCHANGED <<now, cache, readers, writer, post, issued, retired>>

LockShared(t) ==
  /\ writer = NoThread
  /\ Transition(t, "lockShared", "lookup")
  /\ readers' = readers \union {t}
  /\ UNCHANGED <<now, cache, writer, request, post, outcome, issued, retired, calls>>

\* Mutant: the expiry is not looked at.
LookupHitStale(t) ==
  /\ pc[t] = "lookup"
  /\ Entry(t) # NoToken
  /\ Return(t, Obtained("cached", request[t], Entry(t).access, now))
  /\ readers' = readers \ {t}
  /\ UNCHANGED <<now, cache, writer, post, issued, retired, calls>>

LookupHit(t) ==
  /\ pc[t] = "lookup"
  /\ Valid(Entry(t), now)
  /\ Return(t, Obtained("cached", request[t], Entry(t).access, now))
  /\ readers' = readers \ {t}
  /\ UNCHANGED <<now, cache, writer, post, issued, retired, calls>>

\* Mutant: the shared lock is kept.
LookupMissKeepsLock(t) ==
  /\ Transition(t, "lookup", "lockUnique")
  /\ ~ Valid(Entry(t), now)
  /\ UNCHANGED <<now, cache, readers, writer, request, post, outcome, issued, retired, calls>>

LookupMiss(t) ==
  /\ Transition(t, "lookup", "lockUnique")
  /\ ~ Valid(Entry(t), now)
  /\ readers' = readers \ {t}
  /\ UNCHANGED <<now, cache, writer, request, post, outcome, issued, retired, calls>>

\* Mutant: the lock is taken shared.
LockUniqueShared(t) ==
  /\ readers = {}
  /\ Transition(t, "lockUnique", "recheck")
  /\ writer' = t
  /\ UNCHANGED <<now, cache, readers, request, post, outcome, issued, retired, calls>>

LockUnique(t) ==
  /\ writer = NoThread
  /\ readers = {}
  /\ Transition(t, "lockUnique", "recheck")
  /\ writer' = t
  /\ UNCHANGED <<now, cache, readers, request, post, outcome, issued, retired, calls>>

\* Someone else renewed the token before this thread got the exclusive lock.
RecheckHit(t) ==
  /\ pc[t] = "recheck"
  /\ Valid(Entry(t), now)
  /\ Return(t, Obtained("cached", request[t], Entry(t).access, now))
  /\ writer' = NoThread
  /\ UNCHANGED <<now, cache, readers, post, issued, retired, calls>>

\* Mutant: there is no second look.
RecheckMissBlind(t) ==
  /\ pc[t] = "recheck"
  /\ Transition(t, "recheck",
       IF Entry(t) # NoToken /\ Entry(t).refresh # NoRefresh THEN "refresh" ELSE "mint")
  /\ UNCHANGED <<now, cache, readers, writer, request, post, outcome, issued, retired, calls>>

\* An expired entry with a refresh token is refreshed, anything else minted.
RecheckMiss(t) ==
  /\ pc[t] = "recheck"
  /\ ~ Valid(Entry(t), now)
  /\ Transition(t, "recheck",
       IF Entry(t) # NoToken /\ Entry(t).refresh # NoRefresh THEN "refresh" ELSE "mint")
  /\ UNCHANGED <<now, cache, readers, writer, request, post, outcome, issued, retired, calls>>

-----------------------------------------------------------------------------
(* requestToken and the token endpoint.                                    *)

InExchange(t) == pc[t] \in {"refresh", "mint"}

\* The request posted to the endpoint: its body depends on the grant type, and
\* the client authenticates if its secret is at hand.
TokenRequest(t, hasSecret) ==
  [url     |-> IF pc[t] = "refresh" THEN ResolvedRefreshUrl(request[t])
               ELSE ResolvedTokenUrl(request[t]),
   refresh |-> IF pc[t] = "refresh" THEN Entry(t).refresh ELSE NoRefresh,
   grant   |-> IF pc[t] = "refresh" THEN Entry(t).refresh.grant ELSE Grant(request[t]),
   auth    |-> ClientAuthentication(request[t], hasSecret),
   sentAt  |-> now,
   answer  |-> NoToken]

\* requestToken up to and including the POST.
SendPost(t) ==
  /\ InExchange(t)
  /\ post[t] = NoPost
  /\ \E hasSecret \in SecretOutcomes(request[t]) :
       post' = [post EXCEPT ![t] = TokenRequest(t, hasSecret)]
  /\ UNCHANGED <<now, cache, readers, writer, pc, request, outcome, issued, retired, calls>>

\* The answer to a granted request: a new access token, and possibly a new
\* refresh token, which stands for the grant it was issued with.
Answer(p, id, time, lifetime, reissue) ==
  [access   |-> [id |-> id, grant |-> p.grant, expiry |-> time + lifetime],
   lifetime |-> lifetime,
   refresh  |-> IF reissue THEN [id |-> id, grant |-> p.grant] ELSE NoRefresh]

EndpointIssues(t, lifetime, reissue) ==
  /\ post[t] # NoPost
  /\ post[t].answer = NoToken
  /\ issued' = issued + 1
  /\ post' = [post EXCEPT ![t].answer = Answer(post[t], issued + 1, now, lifetime, reissue)]
  /\ UNCHANGED <<now, cache, readers, writer, pc, request, outcome, retired, calls>>

\* Mutants: the full lifetime is used; a reissued refresh token is dropped.
MintedTokenFullLife(p, time) ==
  [access    |-> p.answer.access,
   expiresAt |-> time + p.answer.lifetime,
   refresh   |-> IF p.answer.refresh # NoRefresh THEN p.answer.refresh ELSE p.refresh]

MintedTokenOldRefresh(p, time) ==
  [access    |-> p.answer.access,
   expiresAt |-> time + p.answer.lifetime - Jiggle,
   refresh   |-> IF p.refresh # NoRefresh THEN p.refresh ELSE p.answer.refresh]

\* The MintedToken made of an answer; a refresh token that was not reissued is kept.
MintedToken(p, time) ==
  [access    |-> p.answer.access,
   expiresAt |-> time + p.answer.lifetime - Jiggle,
   refresh   |-> IF p.answer.refresh # NoRefresh THEN p.answer.refresh ELSE p.refresh]

\* A usable answer: it replaces the entry of the key and is what the call
\* returns, even if its lifetime is already used up by the jiggle period.
PostSucceeds(t) ==
  /\ InExchange(t)
  /\ post[t] # NoPost
  /\ post[t].answer # NoToken
  /\ cache' = [cache EXCEPT ![Key(t)] = MintedToken(post[t], now)]
  /\ retired' = IF post[t].answer.refresh # NoRefresh /\ post[t].refresh # NoRefresh
                THEN retired \union {post[t].refresh.id} ELSE retired
  /\ Return(t, Obtained("fetched", request[t], post[t].answer.access, now))
  /\ post' = [post EXCEPT ![t] = NoPost]
  /\ writer' = NoThread
  /\ UNCHANGED <<now, readers, issued, calls>>

\* Mutant: the exclusive lock outlives a failed call.
PostFailsLocked(t) ==
  /\ InExchange(t)
  /\ post[t] = NoPost => request[t].oauth.secret = "keychain"
  /\ post' = [post EXCEPT ![t] = NoPost]
  /\ \/ /\ Transition(t, "refresh", "mint")
        /\ UNCHANGED <<request, outcome>>
     \/ /\ pc[t] = "mint"
        /\ Return(t, Failed(request[t]))
  /\ UNCHANGED <<now, cache, readers, writer, issued, retired, calls>>

\* requestToken throws: the keychain has no secret, the connection failed or
\* timed out (whether or not the endpoint had issued a token), the status is
\* not 2xx, or the answer holds no access token.  A failed refresh is followed
\* by a mint; a failed mint ends the call and leaves the old entry in place.
PostFails(t) ==
  /\ InExchange(t)
  /\ post[t] = NoPost => request[t].oauth.secret = "keychain"
  /\ post' = [post EXCEPT ![t] = NoPost]
  /\ \/ /\ Transition(t, "refresh", "mint")
        /\ UNCHANGED <<writer, request, outcome>>
     \/ /\ pc[t] = "mint"
        /\ Return(t, Failed(request[t]))
        /\ writer' = NoThread
  /\ UNCHANGED <<now, cache, readers, issued, retired, calls>>

Tick ==
  /\ now < MaxTime
  /\ \A t \in Threads : post[t] # NoPost => now < post[t].sentAt + MaxDelay
  /\ now' = now + 1
  /\ UNCHANGED <<cache, readers, writer, pc, request, post, outcome, issued, retired, calls>>

-----------------------------------------------------------------------------

Init ==
  /\ now = 0
  /\ cache = [k \in Keys |-> NoToken]
  /\ readers = {}
  /\ writer = NoThread
  /\ pc = [t \in Threads |-> "idle"]
  /\ request = [t \in Threads |-> NoRequest]
  /\ post = [t \in Threads |-> NoPost]
  /\ outcome = [t \in Threads |-> NoOutcome]
  /\ issued = 0
  /\ retired = {}
  /\ calls = 0

\* The steps a call takes by itself once begun.
Step(t) ==
  \/ LockShared(t)
  \/ LookupHit(t)
  \/ LookupMiss(t)
  \/ LockUnique(t)
  \/ RecheckHit(t)
  \/ RecheckMiss(t)
  \/ SendPost(t)
  \/ PostSucceeds(t)
  \/ PostFails(t)

Next ==
  \/ \E t \in Threads :
       \/ \E r \in Requests : Begin(t, r)
       \/ Step(t)
       \/ \E lifetime \in Lifetimes, reissue \in BOOLEAN :
            EndpointIssues(t, lifetime, reissue)
  \/ Tick

Spec == Init /\ [][Next]_vars

\* A running thread is scheduled, and a POST returns (the HTTP client times
\* out), so every enabled step of a call is taken.  No fairness is asked of
\* the lock, of the clock, of the endpoint or of the callers.
FairSpec == Spec /\ \A t \in Threads : WF_vars(Step(t))

-----------------------------------------------------------------------------
(* Properties.                                                             *)

Grants == {Grant(r) : r \in Usable}
Tokens == [id : Nat, grant : Grants, expiry : Int]
RefreshTokens == [id : Nat, grant : Grants] \union {NoRefresh}
Entries == [access : Tokens, refresh : RefreshTokens, expiresAt : Int]
Answers == [access : Tokens, lifetime : Nat, refresh : RefreshTokens]
Posts == [url     : {ResolvedTokenUrl(r) : r \in Usable} \union {ResolvedRefreshUrl(r) : r \in Usable},
          refresh : RefreshTokens,
          grant   : Grants,
          auth    : {"anonymous"} \union {r.oauth.authMethod : r \in Usable},
          sentAt  : Nat,
          answer  : Answers \union {NoToken}]
Outcomes == [how : {"none", "mismatch", "cached", "fetched"},
             request : Requests \union {NoRequest}, token : Tokens \union {NoToken}, at : Nat]

\* The absent values are none of the values they stand in for.
ASSUME NullsAssumption ==
  /\ NoThread \notin Threads
  /\ NoRequest \notin Requests
  /\ NoRefresh \notin [id : Nat, grant : Grants]
  /\ NoToken \notin Tokens \union Entries \union Answers
  /\ NoPost \notin Posts

\* Every variable holds a value of its type, and a thread has a request exactly
\* while it is in a call.
TypeOK ==
  /\ now \in Nat
  /\ cache \in [Keys -> Entries \union {NoToken}]
  /\ readers \subseteq Threads
  /\ writer \in Threads \union {NoThread}
  /\ pc \in [Threads -> {"idle", "lockShared", "lookup", "lockUnique", "recheck", "refresh", "mint"}]
  /\ request \in [Threads -> Usable \union {NoRequest}]
  /\ \A t \in Threads : request[t] = NoRequest <=> pc[t] = "idle"
  /\ post \in [Threads -> Posts \union {NoPost}]
  /\ outcome \in [Threads -> Outcomes]
  /\ issued \in Nat
  /\ retired \subseteq Nat
  /\ calls \in Nat

\* Two requests with one key want the same scopes, which fails only for scopes
\* that hold a colon.
ScopesUnambiguous ==
  \A q, r \in Usable : TokenKey(q) = TokenKey(r) => ResolvedScopes(q) = ResolvedScopes(r)

\* How the lock, the program counters and the token requests of the threads
\* agree; a thread that refreshes has an entry with a refresh token.
LockInv ==
  /\ writer # NoThread => readers = {}
  /\ \A t \in Threads :
       /\ t \in readers <=> pc[t] = "lookup"
       /\ writer = t <=> pc[t] \in {"recheck", "refresh", "mint"}
       /\ post[t] # NoPost => InExchange(t)
       /\ pc[t] = "refresh" => Entry(t) # NoToken /\ Entry(t).refresh # NoRefresh

\* One token request at a time, over all threads and keys.
AtMostOneExchange ==
  \A t, u \in Threads : InExchange(t) /\ InExchange(u) => t = u

\* A thread talks to the token endpoint only while its key has no valid token:
\* what the look-up under the shared lock saw was confirmed under the exclusive
\* one, and nobody can have renewed the token since.
NoRedundantExchange ==
  \A t \in Threads : InExchange(t) => ~ Valid(Entry(t), now)

\* How the client's and the endpoint's dates of tokens relate: an entry expires at
\* the client at most MaxDelay - Jiggle after its token expires at the endpoint.
DatesInv ==
  /\ \A k \in Keys : cache[k] # NoToken =>
       cache[k].expiresAt + Jiggle <= cache[k].access.expiry + MaxDelay
  /\ \A t \in Threads : post[t] # NoPost =>
       /\ post[t].sentAt <= now
       /\ now <= post[t].sentAt + MaxDelay
       /\ post[t].answer # NoToken =>
            post[t].sentAt + post[t].answer.lifetime <= post[t].answer.access.expiry

\* A token served from the cache outlives, at the endpoint, the moment it is
\* served, but for the part of the HTTP timeout the jiggle period does not cover.
ServedTokenAlive ==
  \A t \in Threads :
    outcome[t].how = "cached" => outcome[t].at + Jiggle < outcome[t].token.expiry + MaxDelay

\* A refresh token continues the grant of the token it came with, and what the
\* endpoint answers is what it was asked for.
GrantsInv ==
  /\ \A k \in Keys : cache[k] # NoToken /\ cache[k].refresh # NoRefresh =>
       cache[k].refresh.grant = cache[k].access.grant
  /\ \A t \in Threads : post[t] # NoPost =>
       /\ post[t].grant = IF pc[t] = "refresh" THEN Entry(t).access.grant ELSE Grant(request[t])
       /\ post[t].refresh # NoRefresh => post[t].refresh.grant = post[t].grant
       /\ post[t].answer # NoToken =>
            /\ post[t].answer.access.grant = post[t].grant
            /\ post[t].answer.refresh # NoRefresh =>
                 post[t].answer.refresh.grant = post[t].grant

\* An entry holds a token granted for the requests of its key.
EntriesMatchKeys ==
  \A r \in Usable : cache[TokenKey(r)] # NoToken =>
    cache[TokenKey(r)].access.grant = Grant(r)

\* The token a call obtains was granted for the client, the audience and the
\* scopes of that very call.
TokenHasRequestedScopes ==
  \A t \in Threads :
    outcome[t].token # NoToken => outcome[t].token.grant = Grant(outcome[t].request)

\* No two keys share a refresh token, none is retired, and only a thread that
\* refreshes presents one: that of its entry.
RotationInv ==
  /\ \A i \in retired : i <= issued
  /\ \A k \in Keys : cache[k] # NoToken /\ cache[k].refresh # NoRefresh =>
       /\ cache[k].refresh.id <= issued
       /\ cache[k].refresh.id \notin retired
       /\ \A l \in Keys :
            l # k /\ cache[l] # NoToken /\ cache[l].refresh # NoRefresh =>
              cache[l].refresh.id # cache[k].refresh.id
  /\ \A t \in Threads : post[t] # NoPost =>
       /\ post[t].refresh = IF pc[t] = "refresh" THEN Entry(t).refresh ELSE NoRefresh
       /\ post[t].answer # NoToken /\ post[t].answer.refresh # NoRefresh =>
            /\ post[t].answer.refresh.id <= issued
            /\ post[t].answer.refresh.id \notin retired
            /\ \A k \in Keys : cache[k] # NoToken /\ cache[k].refresh # NoRefresh =>
                 cache[k].refresh.id # post[t].answer.refresh.id

\* Once the client has received a new refresh token in exchange for an old one,
\* no thread presents the old one again.
RotatedTokenNotReplayed ==
  \A t \in Threads :
    post[t] # NoPost /\ post[t].refresh # NoRefresh => post[t].refresh.id \notin retired

\* Every call returns: nobody waits for the lock or the endpoint for ever.
EveryCallReturns ==
  \A t \in Threads : pc[t] # "idle" ~> pc[t] = "idle"

\* Each call takes effect in one step of TokenProvider, at the moment it returns.
Provider == INSTANCE TokenProvider
  WITH held <- cache, pending <- request,
       Rejected <- Unusable, KeyOf <- TokenKey, GrantOf <- Grant

\* The handler implements what it promises its callers.
ImplementsProvider == Provider!Spec
=============================================================================
