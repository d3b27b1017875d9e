--------------------------- MODULE TokenCacheProofs ---------------------------
(***************************************************************************)
(* Theorems about TokenCache, for any threads, requests, lifetimes and     *)
(* bounds.                                                                 *)
(***************************************************************************)
EXTENDS TokenCache, TLAPS

-----------------------------------------------------------------------------
(* Type correctness.                                                       *)

\* What a call may return is a well-formed outcome.
LEMMA OutcomeTypes ==
  /\ NoOutcome \in Outcomes
  /\ \A r \in Requests : Failed(r) \in Outcomes
  /\ \A r \in Requests, token \in Tokens, time \in Nat, how \in {"cached", "fetched"} :
       Obtained(how, r, token, time) \in Outcomes
BY DEF NoOutcome, Failed, Obtained, Outcomes

\* The entry made of an answer is a well-formed entry.
LEMMA MintedTokenType ==
  ASSUME NEW p \in Posts, p.answer # NoToken, NEW time \in Nat
  PROVE  MintedToken(p, time) \in Entries
BY JiggleAssumption DEF MintedToken, Posts, Answers, Entries

\* A thread in a call has a usable request, whose key the cache knows.
LEMMA InCall ==
  ASSUME TypeOK, NEW t \in Threads, pc[t] # "idle"
  PROVE  /\ request[t] \in Usable
         /\ request[t] \in Requests
         /\ Key(t) \in Keys
         /\ Entry(t) \in Entries \union {NoToken}
         /\ Grant(request[t]) \in Grants
BY DEF TypeOK, Usable, Keys, Key, Entry, Grants

\* An answer is well-formed.
LEMMA AnswerType ==
  ASSUME NEW p \in Posts, NEW id \in Nat, NEW time \in Nat, NEW lifetime \in Nat,
         NEW reissue \in BOOLEAN
  PROVE  Answer(p, id, time, lifetime, reissue) \in Answers
BY DEF Answer, Answers, Posts, Tokens, RefreshTokens

\* The endpoint adds its answer to a request and touches nothing else of it.
LEMMA AnsweredPost ==
  ASSUME NEW p \in Posts, NEW id \in Nat, NEW time \in Nat, NEW lifetime \in Nat,
         NEW reissue \in BOOLEAN,
         NEW q, q = [p EXCEPT !.answer = Answer(p, id, time, lifetime, reissue)]
  PROVE  /\ q \in Posts
         /\ q.sentAt = p.sentAt
         /\ q.refresh = p.refresh
         /\ q.grant = p.grant
         /\ q.answer = Answer(p, id, time, lifetime, reissue)
BY AnswerType DEF Posts

\* An answered request and the entry made of it are well-formed.
LEMMA AcceptedAnswer ==
  ASSUME TypeOK, NEW t \in Threads, PostSucceeds(t)
  PROVE  /\ request[t] \in Usable
         /\ Key(t) \in Keys
         /\ post[t] \in Posts
         /\ post[t].answer \in Answers
         /\ post[t].answer.access \in Tokens
         /\ MintedToken(post[t], now) \in Entries
         /\ cache' = [cache EXCEPT ![Key(t)] = MintedToken(post[t], now)]
<1>1. pc[t] # "idle" /\ post[t] \in Posts /\ post[t].answer \in Answers
  BY DEF PostSucceeds, InExchange, TypeOK, Posts
<1> QED
  BY <1>1, InCall, MintedTokenType DEF PostSucceeds, TypeOK, Answers

\* What a thread posts is a well-formed token request.
LEMMA TokenRequestType ==
  ASSUME TypeOK, LockInv, NEW t \in Threads, pc[t] # "idle", NEW hasSecret
  PROVE  TokenRequest(t, hasSecret) \in Posts
<1>1. (IF pc[t] = "refresh" THEN Entry(t).refresh ELSE NoRefresh) \in RefreshTokens
  BY InCall DEF LockInv, Entries, RefreshTokens
<1>2. (IF pc[t] = "refresh" THEN Entry(t).refresh.grant ELSE Grant(request[t])) \in Grants
  BY InCall DEF LockInv, Entries, RefreshTokens
<1>3. ClientAuthentication(request[t], hasSecret)
        \in {"anonymous"} \union {r.oauth.authMethod : r \in Usable}
  BY InCall DEF ClientAuthentication
<1>4. (IF pc[t] = "refresh" THEN ResolvedRefreshUrl(request[t]) ELSE ResolvedTokenUrl(request[t]))
        \in {ResolvedTokenUrl(r) : r \in Usable} \union {ResolvedRefreshUrl(r) : r \in Usable}
  BY InCall
<1> QED
  BY <1>1, <1>2, <1>3, <1>4 DEF TokenRequest, Posts, TypeOK

\* Every step keeps the variables in their types.
LEMMA TypeStep ==
  ASSUME TypeOK, LockInv, [Next]_vars
  PROVE  TypeOK'
<1> USE NullsAssumption DEF TypeOK
<1>1. ASSUME NEW t \in Threads, NEW r \in Requests, Begin(t, r) PROVE TypeOK'
  <2>1. CASE Unusable(r)
    BY <1>1, <2>1, OutcomeTypes DEF Begin
  <2>2. CASE ~ Unusable(r)
    BY <1>1, <2>2, OutcomeTypes DEF Begin, Usable
  <2> QED
    BY <2>1, <2>2
<1>2. ASSUME NEW t \in Threads, LockShared(t) PROVE TypeOK'
  BY <1>2 DEF LockShared, Transition
<1>3. ASSUME NEW t \in Threads, LookupHit(t) PROVE TypeOK'
  <2>1. Entry(t).access \in Tokens
    BY <1>3, InCall DEF LookupHit, Valid, Entries
  <2> QED
    BY <1>3, <2>1, InCall, OutcomeTypes DEF LookupHit, Return
<1>4. ASSUME NEW t \in Threads, LookupMiss(t) PROVE TypeOK'
  BY <1>4 DEF LookupMiss, Transition
<1>5. ASSUME NEW t \in Threads, LockUnique(t) PROVE TypeOK'
  BY <1>5 DEF LockUnique, Transition
<1>6. ASSUME NEW t \in Threads, RecheckHit(t) PROVE TypeOK'
  <2>1. Entry(t).access \in Tokens
    BY <1>6, InCall DEF RecheckHit, Valid, Entries
  <2> QED
    BY <1>6, <2>1, InCall, OutcomeTypes DEF RecheckHit, Return
<1>7. ASSUME NEW t \in Threads, RecheckMiss(t) PROVE TypeOK'
  BY <1>7 DEF RecheckMiss, Transition
<1>8. ASSUME NEW t \in Threads, SendPost(t) PROVE TypeOK'
  <2>1. pc[t] # "idle"
    BY <1>8 DEF SendPost, InExchange
  <2>2. ASSUME NEW hasSecret PROVE TokenRequest(t, hasSecret) \in Posts
    BY <2>1, TokenRequestType
  <2> QED
    BY <1>8, <2>2 DEF SendPost
<1>9. ASSUME NEW t \in Threads, PostSucceeds(t) PROVE TypeOK'
  <2>1. pc[t] # "idle" /\ post[t] \in Posts /\ post[t].answer \in Answers
    BY <1>9 DEF PostSucceeds, InExchange, Posts
  <2>2. MintedToken(post[t], now) \in Entries /\ post[t].answer.access \in Tokens
    BY <1>9, <2>1, MintedTokenType DEF PostSucceeds, Answers
  <2>3. retired' \subseteq Nat
    BY <1>9, <2>1 DEF PostSucceeds, Posts, RefreshTokens
  <2>4. outcome' \in [Threads -> Outcomes]
    BY <1>9, <2>1, <2>2, InCall, OutcomeTypes DEF PostSucceeds, Return
  <2> QED
    BY <1>9, <2>1, <2>2, <2>3, <2>4, InCall DEF PostSucceeds, Return
<1>10. ASSUME NEW t \in Threads, PostFails(t) PROVE TypeOK'
  <2>1. pc[t] # "idle"
    BY <1>10 DEF PostFails, InExchange
  <2> QED
    BY <1>10, <2>1, InCall, OutcomeTypes DEF PostFails, Return, Transition
<1>11. ASSUME NEW t \in Threads, NEW lifetime \in Lifetimes, NEW reissue \in BOOLEAN,
              EndpointIssues(t, lifetime, reissue)
       PROVE  TypeOK'
  <2>1. post[t] \in Posts /\ lifetime \in Nat /\ issued + 1 \in Nat
    BY <1>11, LifetimesAssumption DEF EndpointIssues
  <2> QED
    BY <1>11, <2>1, AnsweredPost DEF EndpointIssues
<1>12. ASSUME Tick PROVE TypeOK'
  BY <1>12 DEF Tick
<1>13. ASSUME UNCHANGED vars PROVE TypeOK'
  BY <1>13 DEF vars
<1> QED
  BY <1>1, <1>2, <1>3, <1>4, <1>5, <1>6, <1>7, <1>8, <1>9, <1>10, <1>11, <1>12, <1>13
     DEF Next, Step

-----------------------------------------------------------------------------
(* The lock.                                                               *)

\* Every step keeps the lock discipline.
LEMMA LockStep ==
  ASSUME TypeOK, LockInv, [Next]_vars
  PROVE  LockInv'
<1> USE NullsAssumption DEF TypeOK, LockInv
<1>1. ASSUME NEW t \in Threads, NEW r \in Requests, Begin(t, r) PROVE LockInv'
  BY <1>1 DEF Begin, InExchange, Entry, Key
<1>2. ASSUME NEW t \in Threads, LockShared(t) PROVE LockInv'
  BY <1>2 DEF LockShared, Transition, InExchange, Entry, Key
<1>3. ASSUME NEW t \in Threads, LookupHit(t) PROVE LockInv'
  BY <1>3 DEF LookupHit, Return, InExchange, Entry, Key
<1>4. ASSUME NEW t \in Threads, LookupMiss(t) PROVE LockInv'
  BY <1>4 DEF LookupMiss, Transition, InExchange, Entry, Key
<1>5. ASSUME NEW t \in Threads, LockUnique(t) PROVE LockInv'
  BY <1>5 DEF LockUnique, Transition, InExchange, Entry, Key
<1>6. ASSUME NEW t \in Threads, RecheckHit(t) PROVE LockInv'
  BY <1>6 DEF RecheckHit, Return, InExchange, Entry, Key
<1>7. ASSUME NEW t \in Threads, RecheckMiss(t) PROVE LockInv'
  BY <1>7 DEF RecheckMiss, Transition, InExchange, Entry, Key
<1>8. ASSUME NEW t \in Threads, SendPost(t) PROVE LockInv'
  BY <1>8 DEF SendPost, InExchange, Entry, Key
<1>9. ASSUME NEW t \in Threads, PostSucceeds(t) PROVE LockInv'
  BY <1>9 DEF PostSucceeds, Return, InExchange, Entry, Key
<1>10. ASSUME NEW t \in Threads, PostFails(t) PROVE LockInv'
  BY <1>10 DEF PostFails, Return, Transition, InExchange, Entry, Key
<1>11. ASSUME NEW t \in Threads, NEW lifetime \in Lifetimes, NEW reissue \in BOOLEAN,
              EndpointIssues(t, lifetime, reissue)
       PROVE  LockInv'
  BY <1>11 DEF EndpointIssues, InExchange, Entry, Key
<1>12. ASSUME Tick PROVE LockInv'
  BY <1>12 DEF Tick, InExchange, Entry, Key
<1>13. ASSUME UNCHANGED vars PROVE LockInv'
  BY <1>13 DEF vars, InExchange, Entry, Key
<1> QED
  BY <1>1, <1>2, <1>3, <1>4, <1>5, <1>6, <1>7, <1>8, <1>9, <1>10, <1>11, <1>12, <1>13
     DEF Next, Step

\* The two together are inductive.
LEMMA BaseInvariant == Spec => [](TypeOK /\ LockInv)
<1>1. Init => TypeOK /\ LockInv
  BY OutcomeTypes, NullsAssumption DEF Init, TypeOK, LockInv, InExchange
<1>2. TypeOK /\ LockInv /\ [Next]_vars => (TypeOK /\ LockInv)'
  BY TypeStep, LockStep
<1> QED
  BY <1>1, <1>2, PTL DEF Spec

\* Every variable of the token cache always holds a value of its type.
THEOREM TypeCorrect == Spec => []TypeOK
BY BaseInvariant, PTL

\* Readers exclude the writer, and only the writer is past the second look-up.
THEOREM LockDiscipline == Spec => []LockInv
BY BaseInvariant, PTL

\* However many threads call with however many keys, at most one of them
\* exchanges messages with the token endpoint.
THEOREM OneExchange == Spec => []AtMostOneExchange
<1>1. TypeOK /\ LockInv => AtMostOneExchange
  BY DEF LockInv, AtMostOneExchange, InExchange
<1> QED
  BY <1>1, BaseInvariant, PTL

-----------------------------------------------------------------------------
(* Single flight.                                                          *)

\* Every step keeps exchanges to the keys without a valid token.
LEMMA ExchangeStep ==
  ASSUME TypeOK, LockInv, NoRedundantExchange, [Next]_vars
  PROVE  NoRedundantExchange'
<1> USE NullsAssumption DEF TypeOK, LockInv, NoRedundantExchange
<1>1. ASSUME NEW t \in Threads, NEW r \in Requests, Begin(t, r) PROVE NoRedundantExchange'
  BY <1>1 DEF Begin, InExchange, Entry, Key, Valid
<1>2. ASSUME NEW t \in Threads, LockShared(t) PROVE NoRedundantExchange'
  BY <1>2 DEF LockShared, Transition, InExchange, Entry, Key, Valid
<1>3. ASSUME NEW t \in Threads, LookupHit(t) PROVE NoRedundantExchange'
  BY <1>3 DEF LookupHit, Return, InExchange, Entry, Key, Valid
<1>4. ASSUME NEW t \in Threads, LookupMiss(t) PROVE NoRedundantExchange'
  BY <1>4 DEF LookupMiss, Transition, InExchange, Entry, Key, Valid
<1>5. ASSUME NEW t \in Threads, LockUnique(t) PROVE NoRedundantExchange'
  BY <1>5 DEF LockUnique, Transition, InExchange, Entry, Key, Valid
<1>6. ASSUME NEW t \in Threads, RecheckHit(t) PROVE NoRedundantExchange'
  BY <1>6 DEF RecheckHit, Return, InExchange, Entry, Key, Valid
<1>7. ASSUME NEW t \in Threads, RecheckMiss(t) PROVE NoRedundantExchange'
  BY <1>7 DEF RecheckMiss, Transition, InExchange, Entry, Key, Valid
<1>8. ASSUME NEW t \in Threads, SendPost(t) PROVE NoRedundantExchange'
  BY <1>8 DEF SendPost, InExchange, Entry, Key, Valid
<1>9. ASSUME NEW t \in Threads, PostSucceeds(t) PROVE NoRedundantExchange'
  BY <1>9 DEF PostSucceeds, Return, InExchange, Entry, Key, Valid
<1>10. ASSUME NEW t \in Threads, PostFails(t) PROVE NoRedundantExchange'
  BY <1>10 DEF PostFails, Return, Transition, InExchange, Entry, Key, Valid
<1>11. ASSUME NEW t \in Threads, NEW lifetime \in Lifetimes, NEW reissue \in BOOLEAN,
              EndpointIssues(t, lifetime, reissue)
       PROVE  NoRedundantExchange'
  BY <1>11 DEF EndpointIssues, InExchange, Entry, Key, Valid
<1>12. ASSUME Tick PROVE NoRedundantExchange'
  <2> SUFFICES ASSUME NEW t \in Threads, InExchange(t)' PROVE ~ Valid(Entry(t), now)'
    OBVIOUS
  <2>1. InExchange(t) /\ pc[t] # "idle" /\ Entry(t)' = Entry(t) /\ now' = now + 1
    BY <1>12 DEF Tick, InExchange, Entry, Key
  <2>2. Entry(t) # NoToken => Entry(t).expiresAt \in Int
    BY <2>1, InCall DEF Entries
  <2> QED
    BY <2>1, <2>2 DEF Valid
<1>13. ASSUME UNCHANGED vars PROVE NoRedundantExchange'
  BY <1>13 DEF vars, InExchange, Entry, Key, Valid
<1> QED
  BY <1>1, <1>2, <1>3, <1>4, <1>5, <1>6, <1>7, <1>8, <1>9, <1>10, <1>11, <1>12, <1>13
     DEF Next, Step

\* No thread asks the endpoint for a token of a key that has a valid one.
THEOREM SingleFlight == Spec => []NoRedundantExchange
<1>1. Init => NoRedundantExchange
  BY DEF Init, NoRedundantExchange, InExchange
<1>2. TypeOK /\ LockInv /\ NoRedundantExchange /\ [Next]_vars => NoRedundantExchange'
  BY ExchangeStep
<1> QED
  BY <1>1, <1>2, BaseInvariant, PTL DEF Spec

-----------------------------------------------------------------------------
(* The dates of tokens.                                                    *)

\* Every step keeps the dates related.
LEMMA DatesStep ==
  ASSUME TypeOK, LockInv, DatesInv, [Next]_vars
  PROVE  DatesInv'
<1> USE NullsAssumption, JiggleAssumption, DelayAssumption DEF TypeOK, LockInv, DatesInv
<1>1. ASSUME NEW t \in Threads, NEW r \in Requests, Begin(t, r) PROVE DatesInv'
  BY <1>1 DEF Begin
<1>2. ASSUME NEW t \in Threads, LockShared(t) PROVE DatesInv'
  BY <1>2 DEF LockShared, Transition
<1>3. ASSUME NEW t \in Threads, LookupHit(t) PROVE DatesInv'
  BY <1>3 DEF LookupHit, Return
<1>4. ASSUME NEW t \in Threads, LookupMiss(t) PROVE DatesInv'
  BY <1>4 DEF LookupMiss, Transition
<1>5. ASSUME NEW t \in Threads, LockUnique(t) PROVE DatesInv'
  BY <1>5 DEF LockUnique, Transition
<1>6. ASSUME NEW t \in Threads, RecheckHit(t) PROVE DatesInv'
  BY <1>6 DEF RecheckHit, Return
<1>7. ASSUME NEW t \in Threads, RecheckMiss(t) PROVE DatesInv'
  BY <1>7 DEF RecheckMiss, Transition
<1>8. ASSUME NEW t \in Threads, SendPost(t) PROVE DatesInv'
  <2>1. PICK hasSecret : post' = [post EXCEPT ![t] = TokenRequest(t, hasSecret)]
    BY <1>8 DEF SendPost
  <2>2. post'[t].sentAt = now /\ post'[t].answer = NoToken
    BY <2>1 DEF TokenRequest
  <2> QED
    BY <1>8, <2>1, <2>2 DEF SendPost
<1>9. ASSUME NEW t \in Threads, PostSucceeds(t) PROVE DatesInv'
  <2>1. post[t].sentAt \in Nat /\ post[t].answer.lifetime \in Nat
        /\ post[t].answer.access.expiry \in Int
    BY <1>9, AcceptedAnswer DEF Posts, Answers, Tokens
  <2> DEFINE entry == MintedToken(post[t], now)
  <2>2. entry.expiresAt + Jiggle <= entry.access.expiry + MaxDelay
    BY <1>9, <2>1 DEF PostSucceeds, MintedToken
  <2> QED
    BY <1>9, <2>2 DEF PostSucceeds, Return
<1>10. ASSUME NEW t \in Threads, PostFails(t) PROVE DatesInv'
  BY <1>10 DEF PostFails, Return, Transition
<1>11. ASSUME NEW t \in Threads, NEW lifetime \in Lifetimes, NEW reissue \in BOOLEAN,
              EndpointIssues(t, lifetime, reissue)
       PROVE  DatesInv'
  <2> DEFINE answer == Answer(post[t], issued + 1, now, lifetime, reissue)
  <2>1. post[t] \in Posts /\ post[t].sentAt \in Nat /\ lifetime \in Nat
    BY <1>11, LifetimesAssumption DEF EndpointIssues, Posts
  <2>2. post'[t] = [post[t] EXCEPT !.answer = answer] /\ \A u \in Threads : u # t => post'[u] = post[u]
    BY <1>11 DEF EndpointIssues
  <2>3. /\ post'[t].sentAt = post[t].sentAt
        /\ post'[t].answer.lifetime = lifetime
        /\ post'[t].answer.access.expiry = now + lifetime
    BY <2>1, <2>2, AnsweredPost DEF Answer
  <2> QED
    BY <1>11, <2>1, <2>2, <2>3 DEF EndpointIssues
<1>12. ASSUME Tick PROVE DatesInv'
  <2>1. \A t \in Threads : post[t] # NoPost => post[t].sentAt \in Nat
    BY DEF Posts
  <2> QED
    BY <1>12, <2>1 DEF Tick
<1>13. ASSUME UNCHANGED vars PROVE DatesInv'
  BY <1>13 DEF vars
<1> QED
  BY <1>1, <1>2, <1>3, <1>4, <1>5, <1>6, <1>7, <1>8, <1>9, <1>10, <1>11, <1>12, <1>13
     DEF Next, Step

\* Every step keeps the tokens served from the cache alive when they are served.
LEMMA ServedStep ==
  ASSUME TypeOK, LockInv, DatesInv, ServedTokenAlive, [Next]_vars
  PROVE  ServedTokenAlive'
<1> USE NullsAssumption, JiggleAssumption, DelayAssumption DEF TypeOK, ServedTokenAlive
<1> DEFINE Alive(o) == o.how = "cached" => o.at + Jiggle < o.token.expiry + MaxDelay
<1>1. ASSUME NEW t \in Threads, pc[t] # "idle", Valid(Entry(t), now)
      PROVE  Alive(Obtained("cached", request[t], Entry(t).access, now))
  <2>1. /\ Entry(t).expiresAt \in Int /\ Entry(t).access.expiry \in Int
        /\ Entry(t).expiresAt + Jiggle <= Entry(t).access.expiry + MaxDelay
    BY <1>1, InCall DEF Valid, Entries, Tokens, DatesInv, Entry
  <2> QED
    BY <1>1, <2>1 DEF Valid, Obtained
<1>2. ASSUME NEW t \in Threads, NEW o, Alive(o), outcome' = [outcome EXCEPT ![t] = o]
      PROVE  ServedTokenAlive'
  BY <1>2
<1>3. ASSUME UNCHANGED outcome PROVE ServedTokenAlive'
  BY <1>3
<1>4. ASSUME NEW r PROVE Alive(NoOutcome) /\ Alive(Failed(r))
  BY DEF NoOutcome, Failed
<1>5. ASSUME NEW t \in Threads, NEW r \in Requests, Begin(t, r) PROVE ServedTokenAlive'
  BY <1>2, <1>4, <1>5 DEF Begin
<1>6. ASSUME NEW t \in Threads, LookupHit(t) \/ RecheckHit(t) PROVE ServedTokenAlive'
  BY <1>1, <1>2, <1>6 DEF LookupHit, RecheckHit, Return
<1>7. ASSUME NEW t \in Threads, PostSucceeds(t) PROVE ServedTokenAlive'
  <2>1. Alive(Obtained("fetched", request[t], post[t].answer.access, now))
    BY DEF Obtained
  <2> QED
    BY <1>2, <1>7, <2>1 DEF PostSucceeds, Return
<1>8. ASSUME NEW t \in Threads, PostFails(t) PROVE ServedTokenAlive'
  BY <1>2, <1>3, <1>4, <1>8 DEF PostFails, Return
<1>9. ASSUME NEW t \in Threads,
             LockShared(t) \/ LookupMiss(t) \/ LockUnique(t) \/ RecheckMiss(t) \/ SendPost(t)
      PROVE  ServedTokenAlive'
  BY <1>3, <1>9 DEF LockShared, LookupMiss, LockUnique, RecheckMiss, SendPost
<1>10. ASSUME NEW t \in Threads, NEW lifetime \in Lifetimes, NEW reissue \in BOOLEAN,
              EndpointIssues(t, lifetime, reissue)
       PROVE  ServedTokenAlive'
  BY <1>3, <1>10 DEF EndpointIssues
<1>11. ASSUME Tick \/ UNCHANGED vars PROVE ServedTokenAlive'
  BY <1>3, <1>11 DEF Tick, vars
<1> QED
  BY <1>5, <1>6, <1>7, <1>8, <1>9, <1>10, <1>11 DEF Next, Step

\* The entries of the cache and the tokens served from it are at most the HTTP
\* timeout less the jiggle period beyond their expiry at the endpoint, whatever
\* lifetimes the endpoint hands out and however slowly it answers.
THEOREM ServedAlive == Spec => []ServedTokenAlive
<1>1. Init => DatesInv /\ ServedTokenAlive
  BY DEF Init, DatesInv, ServedTokenAlive, NoOutcome
<1>2. TypeOK /\ LockInv /\ DatesInv /\ ServedTokenAlive /\ [Next]_vars
        => DatesInv' /\ ServedTokenAlive'
  BY DatesStep, ServedStep
<1> QED
  BY <1>1, <1>2, BaseInvariant, PTL DEF Spec

-----------------------------------------------------------------------------
(* What tokens are granted for.                                            *)

\* The grants an accepted answer brings into the cache.
LEMMA AcceptedGrants ==
  ASSUME TypeOK, LockInv, GrantsInv, NEW t \in Threads, PostSucceeds(t),
         NEW entry, entry = MintedToken(post[t], now)
  PROVE  /\ entry.access = post[t].answer.access
         /\ entry.access.grant = post[t].grant
         /\ entry.refresh # NoRefresh => entry.refresh.grant = entry.access.grant
         /\ post[t].grant = IF pc[t] = "refresh" THEN Entry(t).access.grant ELSE Grant(request[t])
BY DEF PostSucceeds, MintedToken, GrantsInv

\* Every step keeps the grants of refresh tokens and answers.
LEMMA GrantsStep ==
  ASSUME TypeOK, LockInv, GrantsInv, [Next]_vars
  PROVE  GrantsInv'
<1> USE NullsAssumption DEF TypeOK, LockInv, GrantsInv
<1>1. ASSUME NEW t \in Threads, NEW r \in Requests, Begin(t, r) PROVE GrantsInv'
  BY <1>1 DEF Begin, InExchange, Entry, Key
<1>2. ASSUME NEW t \in Threads, LockShared(t) PROVE GrantsInv'
  BY <1>2 DEF LockShared, Transition, InExchange, Entry, Key
<1>3. ASSUME NEW t \in Threads, LookupHit(t) PROVE GrantsInv'
  BY <1>3 DEF LookupHit, Return, InExchange, Entry, Key
<1>4. ASSUME NEW t \in Threads, LookupMiss(t) PROVE GrantsInv'
  BY <1>4 DEF LookupMiss, Transition, InExchange, Entry, Key
<1>5. ASSUME NEW t \in Threads, LockUnique(t) PROVE GrantsInv'
  BY <1>5 DEF LockUnique, Transition, InExchange, Entry, Key
<1>6. ASSUME NEW t \in Threads, RecheckHit(t) PROVE GrantsInv'
  BY <1>6 DEF RecheckHit, Return, InExchange, Entry, Key
<1>7. ASSUME NEW t \in Threads, RecheckMiss(t) PROVE GrantsInv'
  BY <1>7 DEF RecheckMiss, Transition, InExchange, Entry, Key
<1>8. ASSUME NEW t \in Threads, SendPost(t) PROVE GrantsInv'
  <2>1. PICK hasSecret : post' = [post EXCEPT ![t] = TokenRequest(t, hasSecret)]
    BY <1>8 DEF SendPost
  <2>2. pc[t] = "refresh" => Entry(t).refresh.grant = Entry(t).access.grant
    BY InCall DEF Entry
  <2>3. /\ post'[t].grant = IF pc[t] = "refresh" THEN Entry(t).access.grant ELSE Grant(request[t])
        /\ post'[t].refresh # NoRefresh => post'[t].refresh.grant = post'[t].grant
        /\ post'[t].answer = NoToken
    BY <2>1, <2>2 DEF TokenRequest
  <2> QED
    BY <1>8, <2>1, <2>3 DEF SendPost, Entry, Key
<1>9. ASSUME NEW t \in Threads, PostSucceeds(t) PROVE GrantsInv'
  <2> DEFINE entry == MintedToken(post[t], now)
  <2>1. /\ cache' = [cache EXCEPT ![Key(t)] = entry]
        /\ entry.refresh # NoRefresh => entry.refresh.grant = entry.access.grant
    BY <1>9, AcceptedAnswer, AcceptedGrants
  <2>2. \A u \in Threads : post'[u] = NoPost
    BY <1>9 DEF PostSucceeds, InExchange
  <2> QED
    BY <2>1, <2>2
<1>10. ASSUME NEW t \in Threads, PostFails(t) PROVE GrantsInv'
  BY <1>10 DEF PostFails, Return, Transition, InExchange, Entry, Key
<1>11. ASSUME NEW t \in Threads, NEW lifetime \in Lifetimes, NEW reissue \in BOOLEAN,
              EndpointIssues(t, lifetime, reissue)
       PROVE  GrantsInv'
  <2> DEFINE answer == Answer(post[t], issued + 1, now, lifetime, reissue)
  <2>1. post[t] \in Posts /\ lifetime \in Nat
    BY <1>11, LifetimesAssumption DEF EndpointIssues
  <2>2. post'[t] = [post[t] EXCEPT !.answer = answer] /\ \A u \in Threads : u # t => post'[u] = post[u]
    BY <1>11 DEF EndpointIssues
  <2>3. /\ post'[t].grant = post[t].grant
        /\ post'[t].refresh = post[t].refresh
        /\ post'[t].answer.access.grant = post[t].grant
        /\ post'[t].answer.refresh # NoRefresh => post'[t].answer.refresh.grant = post[t].grant
    BY <2>1, <2>2, AnsweredPost DEF Answer
  <2> QED
    BY <1>11, <2>1, <2>2, <2>3 DEF EndpointIssues, Entry, Key
<1>12. ASSUME Tick PROVE GrantsInv'
  BY <1>12 DEF Tick, InExchange, Entry, Key
<1>13. ASSUME UNCHANGED vars PROVE GrantsInv'
  BY <1>13 DEF vars, InExchange, Entry, Key
<1> QED
  BY <1>1, <1>2, <1>3, <1>4, <1>5, <1>6, <1>7, <1>8, <1>9, <1>10, <1>11, <1>12, <1>13
     DEF Next, Step

\* Grants are kept.
LEMMA GrantsInvariant == Spec => []GrantsInv
<1>1. Init => GrantsInv
  BY DEF Init, GrantsInv
<1>2. TypeOK /\ LockInv /\ GrantsInv /\ [Next]_vars => GrantsInv'
  BY GrantsStep
<1> QED
  BY <1>1, <1>2, BaseInvariant, PTL DEF Spec

\* With unambiguous scopes the requests of one key want the same grant.
LEMMA SameKeySameGrant ==
  ASSUME ScopesUnambiguous, NEW q \in Usable, NEW r \in Usable, TokenKey(q) = TokenKey(r)
  PROVE  Grant(q) = Grant(r)
BY DEF ScopesUnambiguous, TokenKey, Grant

\* What an accepted answer grants is what the request of the call wants.
LEMMA AcceptedMatches ==
  ASSUME TypeOK, LockInv, GrantsInv, EntriesMatchKeys, NEW t \in Threads, PostSucceeds(t)
  PROVE  post[t].answer.access.grant = Grant(request[t])
<1>1. request[t] \in Usable
  BY AcceptedAnswer
<1>2. pc[t] = "refresh" => Entry(t).access.grant = Grant(request[t])
  BY <1>1 DEF LockInv, EntriesMatchKeys, Entry, Key
<1> QED
  BY <1>2 DEF PostSucceeds, GrantsInv

\* Every step keeps the entries granted for the requests of their keys.
LEMMA EntriesStep ==
  ASSUME ScopesUnambiguous, TypeOK, LockInv, GrantsInv, EntriesMatchKeys, [Next]_vars
  PROVE  EntriesMatchKeys'
<1>1. ASSUME NEW t \in Threads, PostSucceeds(t) PROVE EntriesMatchKeys'
  <2> DEFINE entry == MintedToken(post[t], now)
  <2>1. entry.access.grant = Grant(request[t])
    BY <1>1, AcceptedMatches DEF MintedToken
  <2>2. ASSUME NEW r \in Usable, TokenKey(r) = Key(t) PROVE Grant(r) = Grant(request[t])
    BY <1>1, <2>2, AcceptedAnswer, SameKeySameGrant DEF Key
  <2>3. cache' = [cache EXCEPT ![Key(t)] = entry]
    BY <1>1, AcceptedAnswer
  <2> QED
    BY <2>1, <2>2, <2>3 DEF EntriesMatchKeys, TypeOK, Keys
<1>2. ASSUME UNCHANGED cache PROVE EntriesMatchKeys'
  BY <1>2 DEF EntriesMatchKeys
<1> QED
  BY <1>1, <1>2
     DEF Next, Step, Begin, LockShared, LookupHit, LookupMiss, LockUnique, RecheckHit,
         RecheckMiss, SendPost, EndpointIssues, PostFails, Tick, vars

\* Every step keeps the tokens of outcomes granted for the requests of their calls.
LEMMA RequestedStep ==
  ASSUME TypeOK, LockInv, GrantsInv, EntriesMatchKeys, TokenHasRequestedScopes, [Next]_vars
  PROVE  TokenHasRequestedScopes'
<1> USE DEF TypeOK, TokenHasRequestedScopes
<1> DEFINE Matches(o) == o.token # NoToken => o.token.grant = Grant(o.request)
<1>1. ASSUME NEW t \in Threads, NEW o, Matches(o), outcome' = [outcome EXCEPT ![t] = o]
      PROVE  TokenHasRequestedScopes'
  BY <1>1
<1>2. ASSUME UNCHANGED outcome PROVE TokenHasRequestedScopes'
  BY <1>2
<1>3. ASSUME NEW r PROVE Matches(NoOutcome) /\ Matches(Failed(r))
  BY DEF NoOutcome, Failed
<1>4. ASSUME NEW t \in Threads, NEW r \in Requests, Begin(t, r) PROVE TokenHasRequestedScopes'
  BY <1>1, <1>3, <1>4 DEF Begin
<1>5. ASSUME NEW t \in Threads, LookupHit(t) \/ RecheckHit(t) PROVE TokenHasRequestedScopes'
  <2>1. request[t] \in Usable /\ Entry(t) # NoToken
    BY <1>5, InCall DEF LookupHit, RecheckHit, Valid
  <2>2. Matches(Obtained("cached", request[t], Entry(t).access, now))
    BY <2>1 DEF Obtained, EntriesMatchKeys, Entry, Key
  <2> QED
    BY <1>1, <1>5, <2>2 DEF LookupHit, RecheckHit, Return
<1>6. ASSUME NEW t \in Threads, PostSucceeds(t) PROVE TokenHasRequestedScopes'
  <2>1. Matches(Obtained("fetched", request[t], post[t].answer.access, now))
    BY <1>6, AcceptedMatches DEF Obtained
  <2> QED
    BY <1>1, <1>6, <2>1 DEF PostSucceeds, Return
<1>7. ASSUME NEW t \in Threads, PostFails(t) PROVE TokenHasRequestedScopes'
  BY <1>1, <1>2, <1>3, <1>7 DEF PostFails, Return
<1> QED
  BY <1>2, <1>4, <1>5, <1>6, <1>7
     DEF Next, Step, LockShared, LookupMiss, LockUnique, RecheckMiss, SendPost,
         EndpointIssues, Tick, vars

\* If no scope holds a colon (or, for any other reason, requests with one key
\* want the same scopes), a call only ever obtains a token for its own scopes.
THEOREM ScopesRespected == ScopesUnambiguous /\ Spec => []TokenHasRequestedScopes
<1> DEFINE Inv == ScopesUnambiguous /\ EntriesMatchKeys /\ TokenHasRequestedScopes
<1>1. ScopesUnambiguous /\ Init => Inv
  BY DEF Init, EntriesMatchKeys, TokenHasRequestedScopes, NoOutcome, Keys
<1>2. TypeOK /\ LockInv /\ GrantsInv /\ Inv /\ [Next]_vars => Inv'
  BY EntriesStep, RequestedStep DEF ScopesUnambiguous
<1>3. Inv => TokenHasRequestedScopes
  OBVIOUS
<1> HIDE DEF Inv
<1> QED
  BY <1>1, <1>2, <1>3, BaseInvariant, GrantsInvariant, PTL DEF Spec

-----------------------------------------------------------------------------
(* Refresh tokens.                                                         *)

\* Every step keeps refresh tokens apart.
LEMMA RotationStep ==
  ASSUME TypeOK, LockInv, RotationInv, [Next]_vars
  PROVE  RotationInv'
<1> USE NullsAssumption DEF TypeOK, LockInv, RotationInv
<1>1. ASSUME NEW t \in Threads, NEW r \in Requests, Begin(t, r) PROVE RotationInv'
  BY <1>1 DEF Begin, InExchange, Entry, Key
<1>2. ASSUME NEW t \in Threads, LockShared(t) PROVE RotationInv'
  BY <1>2 DEF LockShared, Transition, InExchange, Entry, Key
<1>3. ASSUME NEW t \in Threads, LookupHit(t) PROVE RotationInv'
  BY <1>3 DEF LookupHit, Return, InExchange, Entry, Key
<1>4. ASSUME NEW t \in Threads, LookupMiss(t) PROVE RotationInv'
  BY <1>4 DEF LookupMiss, Transition, InExchange, Entry, Key
<1>5. ASSUME NEW t \in Threads, LockUnique(t) PROVE RotationInv'
  BY <1>5 DEF LockUnique, Transition, InExchange, Entry, Key
<1>6. ASSUME NEW t \in Threads, RecheckHit(t) PROVE RotationInv'
  BY <1>6 DEF RecheckHit, Return, InExchange, Entry, Key
<1>7. ASSUME NEW t \in Threads, RecheckMiss(t) PROVE RotationInv'
  BY <1>7 DEF RecheckMiss, Transition, InExchange, Entry, Key
<1>8. ASSUME NEW t \in Threads, SendPost(t) PROVE RotationInv'
  <2>1. PICK hasSecret : post' = [post EXCEPT ![t] = TokenRequest(t, hasSecret)]
    BY <1>8 DEF SendPost
  <2>2. /\ post'[t].refresh = IF pc[t] = "refresh" THEN Entry(t).refresh ELSE NoRefresh
        /\ post'[t].answer = NoToken
    BY <2>1 DEF TokenRequest
  <2> QED
    BY <1>8, <2>1, <2>2 DEF SendPost, Entry, Key
<1>9. ASSUME NEW t \in Threads, PostSucceeds(t) PROVE RotationInv'
  <2> DEFINE entry == MintedToken(post[t], now)
             old   == post[t].refresh
             new   == post[t].answer.refresh
  <2>1. /\ Key(t) \in Keys
        /\ cache' = [cache EXCEPT ![Key(t)] = entry]
        /\ entry.refresh = IF new # NoRefresh THEN new ELSE old
        /\ retired' = IF new # NoRefresh /\ old # NoRefresh THEN retired \union {old.id} ELSE retired
        /\ issued' = issued
    BY <1>9, AcceptedAnswer DEF PostSucceeds, MintedToken
  <2>2. \A u \in Threads : post'[u] = NoPost
    BY <1>9 DEF PostSucceeds, InExchange
  <2>3. new # NoRefresh =>
          /\ new.id <= issued
          /\ new.id \notin retired
          /\ \A k \in Keys : cache[k] # NoToken /\ cache[k].refresh # NoRefresh =>
               cache[k].refresh.id # new.id
    BY <1>9 DEF PostSucceeds
  <2>4. old # NoRefresh => Entry(t) # NoToken /\ Entry(t).refresh = old
    BY <1>9 DEF PostSucceeds
  <2>5. \A i \in retired' : i <= issued'
    BY <2>1, <2>4 DEF Entry
  <2>6. ASSUME NEW k \in Keys, cache'[k] # NoToken, cache'[k].refresh # NoRefresh
        PROVE  /\ cache'[k].refresh.id <= issued'
               /\ cache'[k].refresh.id \notin retired'
               /\ \A l \in Keys :
                    l # k /\ cache'[l] # NoToken /\ cache'[l].refresh # NoRefresh =>
                      cache'[l].refresh.id # cache'[k].refresh.id
    <3>1. CASE k = Key(t) /\ new # NoRefresh
      BY <2>1, <2>3, <2>4, <3>1 DEF Entry
    <3>2. CASE k = Key(t) /\ new = NoRefresh
      BY <2>1, <2>4, <2>6, <3>2 DEF Entry
    <3>3. CASE k # Key(t)
      BY <2>1, <2>3, <2>4, <2>6, <3>3 DEF Entry
    <3> QED
      BY <3>1, <3>2, <3>3
  <2> QED
    BY <2>2, <2>5, <2>6
<1>10. ASSUME NEW t \in Threads, PostFails(t) PROVE RotationInv'
  BY <1>10 DEF PostFails, Return, Transition, InExchange, Entry, Key
<1>11. ASSUME NEW t \in Threads, NEW lifetime \in Lifetimes, NEW reissue \in BOOLEAN,
              EndpointIssues(t, lifetime, reissue)
       PROVE  RotationInv'
  <2> DEFINE answer == Answer(post[t], issued + 1, now, lifetime, reissue)
  <2>1. post[t] \in Posts /\ lifetime \in Nat /\ post[t] # NoPost
    BY <1>11, LifetimesAssumption DEF EndpointIssues
  <2>2. post'[t] = [post[t] EXCEPT !.answer = answer] /\ \A u \in Threads : u # t => post'[u] = post[u]
    BY <1>11 DEF EndpointIssues
  <2>3. /\ post'[t].refresh = post[t].refresh
        /\ post'[t].answer.refresh # NoRefresh => post'[t].answer.refresh.id = issued + 1
    BY <2>1, <2>2, AnsweredPost DEF Answer
  <2>4. issued' = issued + 1 /\ UNCHANGED <<cache, pc, request, retired>>
    BY <1>11 DEF EndpointIssues
  <2>5. \A k \in Keys : cache[k] # NoToken /\ cache[k].refresh # NoRefresh =>
          cache[k].refresh.id \in Nat
    BY DEF Entries, RefreshTokens
  <2>6. \A u \in Threads : u # t => post'[u] = NoPost
    BY <1>11, <2>2 DEF EndpointIssues, InExchange
  <2> QED
    BY <2>1, <2>3, <2>4, <2>5, <2>6 DEF Entry, Key
<1>12. ASSUME Tick PROVE RotationInv'
  BY <1>12 DEF Tick, InExchange, Entry, Key
<1>13. ASSUME UNCHANGED vars PROVE RotationInv'
  BY <1>13 DEF vars, InExchange, Entry, Key
<1> QED
  BY <1>1, <1>2, <1>3, <1>4, <1>5, <1>6, <1>7, <1>8, <1>9, <1>10, <1>11, <1>12, <1>13
     DEF Next, Step

\* A refresh token whose replacement has arrived is never presented again.
THEOREM NoReplay == Spec => []RotatedTokenNotReplayed
<1>1. Init => RotationInv
  BY DEF Init, RotationInv
<1>2. TypeOK /\ LockInv /\ RotationInv /\ [Next]_vars => RotationInv'
  BY RotationStep
<1>3. TypeOK /\ LockInv /\ RotationInv => RotatedTokenNotReplayed
  <2> SUFFICES ASSUME TypeOK, LockInv, RotationInv, NEW t \in Threads,
                      post[t] # NoPost, post[t].refresh # NoRefresh
               PROVE  post[t].refresh.id \notin retired
    BY DEF RotatedTokenNotReplayed
  <2>1. pc[t] = "refresh" /\ post[t].refresh = Entry(t).refresh /\ Entry(t) # NoToken
    BY DEF RotationInv, LockInv
  <2> QED
    BY <2>1, InCall DEF RotationInv, Entry
<1> QED
  BY <1>1, <1>2, <1>3, BaseInvariant, PTL DEF Spec

-----------------------------------------------------------------------------
(* Refinement.                                                             *)

\* The initial state is one of TokenProvider.
LEMMA InitRefines == Init => Provider!Init
BY DEF Init, Provider!Init, Keys, Usable, Provider!Keys, NoOutcome, Provider!NoOutcome

\* Every step is a step of TokenProvider, or invisible to its callers.
LEMMA StepRefines ==
  ASSUME TypeOK, LockInv, NoRedundantExchange, GrantsInv, [Next]_vars
  PROVE  [Provider!Next]_(Provider!pvars)
<1> USE NullsAssumption DEF TypeOK
<1>1. ASSUME NEW t \in Threads, NEW r \in Requests, Begin(t, r) PROVE Provider!Begin(t, r)
  BY <1>1 DEF Begin, Provider!Begin, Failed, Provider!Failed, NoOutcome, Provider!NoOutcome
<1>2. ASSUME NEW t \in Threads, LookupHit(t) \/ RecheckHit(t) PROVE Provider!Serve(t)
  BY <1>2 DEF LookupHit, RecheckHit, Return, Valid, Entry, Key, Obtained, Provider!Serve,
              Provider!Valid, Provider!Finish, Provider!Obtained
<1>3. ASSUME NEW t \in Threads, PostSucceeds(t) PROVE Provider!Renew(t)
  <2> DEFINE entry == MintedToken(post[t], now)
  <2>1. /\ request[t] # NoRequest
        /\ Key(t) \in Keys
        /\ cache' = [cache EXCEPT ![Key(t)] = entry]
        /\ entry # NoToken
        /\ cache'[Key(t)] = entry
    <3>1. request[t] \in Requests /\ Key(t) \in Keys /\ entry \in Entries
          /\ cache' = [cache EXCEPT ![Key(t)] = entry]
      BY <1>3, AcceptedAnswer DEF Usable
    <3> QED
      BY <3>1
  <2>2. ~ Valid(Entry(t), now)
    BY <1>3 DEF PostSucceeds, NoRedundantExchange
  <2>3. \/ entry.access.grant = Grant(request[t])
        \/ Entry(t) # NoToken /\ entry.access.grant = Entry(t).access.grant
    BY <1>3, AcceptedGrants DEF LockInv
  <2>4. /\ outcome' = [outcome EXCEPT ![t] = Obtained("fetched", request[t], entry.access, now)]
        /\ request' = [request EXCEPT ![t] = NoRequest]
        /\ now' = now
    BY <1>3 DEF PostSucceeds, Return, MintedToken
  <2> QED
    BY <2>1, <2>2, <2>3, <2>4
       DEF Provider!Renew, Provider!Valid, Provider!Finish, Provider!Obtained, Obtained, Valid,
           Entry, Key
<1>4. ASSUME NEW t \in Threads, PostFails(t)
      PROVE  Provider!Fail(t) \/ UNCHANGED Provider!pvars
  BY <1>4 DEF PostFails, Return, Valid, Entry, Key, Failed, NoRedundantExchange, InExchange,
              Provider!Fail, Provider!Valid, Provider!Finish, Provider!Failed, Provider!pvars
<1>5. ASSUME Tick PROVE Provider!Pass
  BY <1>5 DEF Tick, Provider!Pass
<1>6. ASSUME NEW t \in Threads,
             LockShared(t) \/ LookupMiss(t) \/ LockUnique(t) \/ RecheckMiss(t) \/ SendPost(t)
      PROVE  UNCHANGED Provider!pvars
  BY <1>6 DEF LockShared, LookupMiss, LockUnique, RecheckMiss, SendPost, Provider!pvars
<1>7. ASSUME NEW t \in Threads, NEW lifetime \in Lifetimes, NEW reissue \in BOOLEAN,
             EndpointIssues(t, lifetime, reissue)
      PROVE  UNCHANGED Provider!pvars
  BY <1>7 DEF EndpointIssues, Provider!pvars
<1>8. ASSUME UNCHANGED vars PROVE UNCHANGED Provider!pvars
  BY <1>8 DEF vars, Provider!pvars
<1> QED
  BY <1>1, <1>2, <1>3, <1>4, <1>5, <1>6, <1>7, <1>8 DEF Next, Step, Provider!Next

\* The handler, with its two-phase look-up, its endpoint and its refresh tokens,
\* implements the provider that serves, renews or fails each call in one step,
\* and renews or fails only when it holds no valid token.
THEOREM Refinement == Spec => ImplementsProvider
<1>1. Init => Provider!Init
  BY InitRefines
<1>2. TypeOK /\ LockInv /\ NoRedundantExchange /\ GrantsInv /\ [Next]_vars
        => [Provider!Next]_(Provider!pvars)
  BY StepRefines
<1> QED
  BY <1>1, <1>2, BaseInvariant, SingleFlight, GrantsInvariant, PTL
     DEF Spec, ImplementsProvider, Provider!Spec
=============================================================================
