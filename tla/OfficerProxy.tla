----------------------------- MODULE OfficerProxy -----------------------------
(***************************************************************************)
(* The officer-action route of the frontend's server                       *)
(* (app/api/officer-action/route.ts): requests of the dashboards share one *)
(* cached token of the backend, log in for another when it is missing or   *)
(* about to expire, and retry once when the backend rejects theirs.        *)
(* Everything between two awaits of a request happens at once.             *)
(***************************************************************************)
EXTENDS Naturals

CONSTANTS
  OfficerRequests,  \* requests that may be open at the same time
  MaxTokens         \* bound: tokens the backend issues

ASSUME OfficerAssumption == MaxTokens \in Nat

VARIABLES
  pc,           \* pc[q]: what request q waits for
  token,        \* token[q]: the token q uses, 0 if none; they are numbered
  cachedToken,  \* 0 if none
  cacheIsFresh, \* tokenExpiresAt is more than a minute away
  issued,       \* tokens the backend has issued
  accepted,     \* the tokens the backend accepts
  rejected,     \* history: tokens issued when q's first call was rejected
  httpStatus    \* httpStatus[q]: the last answer to the dashboard, 0 if none

proxyVars == <<pc, token, cachedToken, cacheIsFresh, issued, accepted, rejected, httpStatus>>

Waits == {"idle", "login", "response", "call", "relogin", "reresponse", "recall"}

ProxyTypeOK ==
  /\ pc \in [OfficerRequests -> Waits]
  /\ token \in [OfficerRequests -> Nat]
  /\ cachedToken \in Nat /\ issued \in Nat
  /\ cacheIsFresh \in BOOLEAN
  /\ accepted \in SUBSET Nat
  /\ rejected \in [OfficerRequests -> Nat]
  /\ httpStatus \in [OfficerRequests -> {0, 200, 400, 401, 500, 502}]

ProxyInit ==
  /\ pc = [q \in OfficerRequests |-> "idle"]
  /\ token = [q \in OfficerRequests |-> 0]
  /\ cachedToken = 0 /\ cacheIsFresh = FALSE
  /\ issued = 0 /\ accepted = {}
  /\ rejected = [q \in OfficerRequests |-> 0]
  /\ httpStatus = [q \in OfficerRequests |-> 0]

-----------------------------------------------------------------------------
\* The answer to the dashboard; the request and its locals are gone.
Answer(q, status) ==
  /\ pc' = [pc EXCEPT ![q] = "idle"]
  /\ token' = [token EXCEPT ![q] = 0]
  /\ rejected' = [rejected EXCEPT ![q] = 0]
  /\ httpStatus' = [httpStatus EXCEPT ![q] = status]

\* getOfficerToken with the cached token being cached: q goes on with it, or
\* logs in and then does the same.
TokenFor(q, cached, login, call) ==
  IF cached # 0 /\ cacheIsFresh
    THEN /\ pc' = [pc EXCEPT ![q] = call]
         /\ token' = [token EXCEPT ![q] = cached]
    ELSE /\ pc' = [pc EXCEPT ![q] = login]
         /\ token' = [token EXCEPT ![q] = 0]

\* A request without a session, or with a body the route does not know.
Refuse(q, status) ==
  /\ pc[q] = "idle"
  /\ Answer(q, status)
  /\ UNCHANGED <<cachedToken, cacheIsFresh, issued, accepted>>

Begin(q) ==
  /\ pc[q] = "idle"
  /\ TokenFor(q, cachedToken, "login", "call")
  /\ httpStatus' = [httpStatus EXCEPT ![q] = 0]
  /\ UNCHANGED <<cachedToken, cacheIsFresh, issued, accepted, rejected>>

\* The backend issues the token; the answer is on its way.
LoginIssued(q) ==
  /\ pc[q] \in {"login", "relogin"}
  /\ issued < MaxTokens
  /\ issued' = issued + 1
  /\ accepted' = accepted \cup {issued + 1}
  /\ token' = [token EXCEPT ![q] = issued + 1]
  /\ pc' = [pc EXCEPT ![q] = IF pc[q] = "login" THEN "response" ELSE "reresponse"]
  /\ UNCHANGED <<cachedToken, cacheIsFresh, rejected, httpStatus>>

\* No password is configured (500); the backend cannot be reached, rejects the
\* credentials or fails (502); its answer with the token is lost (502) or cannot
\* be read (500).
LoginFailed(q, status) ==
  /\ pc[q] \in {"login", "relogin", "response", "reresponse"}
  /\ Answer(q, status)
  /\ UNCHANGED <<cachedToken, cacheIsFresh, issued, accepted>>

\* The login is answered: its token is cached, even if a later one already is.
LoginAnswered(q) ==
  /\ pc[q] \in {"response", "reresponse"}
  /\ cachedToken' = token[q]
  /\ cacheIsFresh' = TRUE
  /\ pc' = [pc EXCEPT ![q] = IF pc[q] = "response" THEN "call" ELSE "recall"]
  /\ UNCHANGED <<token, issued, accepted, rejected, httpStatus>>

\* The backend carries the action out, or fails otherwise than for the token.
CallAnswered(q, status) ==
  /\ pc[q] \in {"call", "recall"}
  /\ status = 200 => token[q] \in accepted
  /\ Answer(q, status)
  /\ UNCHANGED <<cachedToken, cacheIsFresh, issued, accepted>>

\* What is left of the cache when a token is rejected.  (Mutant: it is kept.)
KeptCache == cachedToken
ClearedCache == 0

\* The first call is rejected: the cache is cleared, whatever it holds by now,
\* and q asks for a token again, all at once.
CallRejected(q) ==
  /\ pc[q] = "call"
  /\ token[q] \notin accepted
  /\ cachedToken' = ClearedCache
  /\ rejected' = [rejected EXCEPT ![q] = issued]
  /\ TokenFor(q, ClearedCache, "relogin", "recall")
  /\ UNCHANGED <<cacheIsFresh, issued, accepted, httpStatus>>

\* The second is: the backend's 401 is passed on.
RetryRejected(q) ==
  /\ pc[q] = "recall"
  /\ token[q] \notin accepted
  /\ Answer(q, 401)
  /\ UNCHANGED <<cachedToken, cacheIsFresh, issued, accepted>>

-----------------------------------------------------------------------------
\* Half an hour has passed since a token was cached, less a minute.
CacheExpires ==
  /\ cacheIsFresh
  /\ cacheIsFresh' = FALSE
  /\ UNCHANGED <<pc, token, cachedToken, issued, accepted, rejected, httpStatus>>

\* A token expires, or the backend has another secret.
TokenRevoked(t) ==
  /\ t \in accepted
  /\ accepted' = accepted \ {t}
  /\ UNCHANGED <<pc, token, cachedToken, cacheIsFresh, issued, rejected, httpStatus>>

ProxyNext ==
  \/ \E q \in OfficerRequests :
       \/ Begin(q) \/ LoginIssued(q) \/ LoginAnswered(q)
       \/ CallRejected(q) \/ RetryRejected(q)
       \/ \E s \in {400, 401} : Refuse(q, s)
       \/ \E s \in {500, 502} : LoginFailed(q, s)
       \/ \E s \in {200, 400, 500} : CallAnswered(q, s)
  \/ CacheExpires
  \/ \E t \in accepted : TokenRevoked(t)

ProxySpec == ProxyInit /\ [][ProxyNext]_proxyVars

-----------------------------------------------------------------------------
\* Invariant.  The token of a retry was issued after the rejection it follows,
\* whatever other requests log in, cache and clear meanwhile: a token that was
\* revoked before is not what makes a dashboard see a 401.
RetryIsFresh ==
  \A q \in OfficerRequests : pc[q] \in {"reresponse", "recall"} => token[q] > rejected[q]

=============================================================================
