---------------------------- MODULE TokenProvider ----------------------------
(***************************************************************************)
(* What the OAuth2 handler promises its callers, without locks, endpoints  *)
(* or refresh tokens: every call takes effect in one step.  It is served   *)
(* the token held for its key, or it renews the token of its key, or it    *)
(* fails; and it renews or fails only when no unexpired token is held.     *)
(***************************************************************************)
EXTENDS Integers

CONSTANTS
  Threads, Requests, NoRequest, NoToken,
  Rejected(_),  \* whether a request is turned down without looking for a token
  KeyOf(_),     \* the key under which the tokens for a request are held
  GrantOf(_)    \* what a token must have been granted for to serve a request

VARIABLES now,       \* the steady clock
          held,      \* per key, NoToken or the token and the time it counts as expired
          pending,   \* per thread, NoRequest or the request it is calling with
          outcome    \* per thread, how its last call ended

pvars == <<now, held, pending, outcome>>

Keys == {KeyOf(r) : r \in {q \in Requests : ~ Rejected(q)}}

NoOutcome == [how |-> "none", request |-> NoRequest, token |-> NoToken, at |-> 0]
Failed(r) == [how |-> "mismatch", request |-> r, token |-> NoToken, at |-> 0]
Obtained(how, r, token, time) == [how |-> how, request |-> r, token |-> token, at |-> time]

Valid(entry, time) == entry # NoToken /\ time < entry.expiresAt

Init ==
  /\ now = 0
  /\ held = [k \in Keys |-> NoToken]
  /\ pending = [t \in Threads |-> NoRequest]
  /\ outcome = [t \in Threads |-> NoOutcome]

Begin(t, r) ==
  /\ pending[t] = NoRequest
  /\ IF Rejected(r)
       THEN /\ outcome' = [outcome EXCEPT ![t] = Failed(r)]
            /\ UNCHANGED pending
       ELSE /\ pending' = [pending EXCEPT ![t] = r]
            /\ outcome' = [outcome EXCEPT ![t] = NoOutcome]
  /\ UNCHANGED <<now, held>>

Finish(t, result) ==
  /\ pending' = [pending EXCEPT ![t] = NoRequest]
  /\ outcome' = [outcome EXCEPT ![t] = result]
  /\ UNCHANGED now

Serve(t) ==
  LET entry == held[KeyOf(pending[t])]
  IN  /\ pending[t] # NoRequest
      /\ Valid(entry, now)
      /\ Finish(t, Obtained("cached", pending[t], entry.access, now))
      /\ UNCHANGED held

\* The renewed token is one granted for this very request, or continues (by
\* refresh) the grant of the token held before.
Renew(t) ==
  LET k     == KeyOf(pending[t])
      entry == held'[k]
  IN  /\ pending[t] # NoRequest
      /\ ~ Valid(held[k], now)
      /\ entry # NoToken
      /\ Finish(t, Obtained("fetched", pending[t], entry.access, now))
      /\ \/ entry.access.grant = GrantOf(pending[t])
         \/ held[k] # NoToken /\ entry.access.grant = held[k].access.grant
      /\ held' = [held EXCEPT ![k] = entry]

Fail(t) ==
  /\ pending[t] # NoRequest
  /\ ~ Valid(held[KeyOf(pending[t])], now)
  /\ Finish(t, Failed(pending[t]))
  /\ UNCHANGED held

Pass ==
  /\ now' > now
  /\ UNCHANGED <<held, pending, outcome>>

Next ==
  \/ \E t \in Threads :
       \/ \E r \in Requests : Begin(t, r)
       \/ Serve(t)
       \/ Renew(t)
       \/ Fail(t)
  \/ Pass

Spec == Init /\ [][Next]_pvars
=============================================================================
