----------------------------- MODULE RateLimiter -----------------------------
(***************************************************************************)
(* The limit on SOS submissions of one address (core/rate_limiter.py): a   *)
(* counter in Redis that is to expire a minute after it was created.  The  *)
(* counter and its expiry are two calls of a request, each of which Redis  *)
(* may fail; the addresses do not share anything.                          *)
(***************************************************************************)
EXTENDS Naturals

CONSTANTS
  Limit,        \* RATE_LIMIT_REQUESTS
  Submissions,  \* requests of the address that are open at a time
  MaxCount      \* bound: as far as the counter counts

ASSUME LimitAssumption == Limit \in Nat /\ MaxCount \in Nat

VARIABLES
  count,        \* the counter in Redis; 0, if there is none
  hasExpiry,    \* the counter has a time to live
  submission,   \* per request: its next step and the count it was answered
  leaked        \* history: the counter was left without an expiry

limitVars == <<count, hasExpiry, submission, leaked>>

NotSubmitted == [pc |-> "idle", count |-> 0]

LimitInit ==
  /\ count = 0 /\ hasExpiry = FALSE /\ leaked = FALSE
  /\ submission = [q \in Submissions |-> NotSubmitted]

(* (Mutant: INCR is taken to answer the count before.) *)
WasZero(n) == n = 0
IsFirst(n) == n = 1

Moves(q, pc, n) == submission' = [submission EXCEPT ![q] = [pc |-> pc, count |-> n]]
IsOpen(q) == submission[q].pc \in {"expire", "close"}

Incr(q) ==
  /\ ~IsOpen(q) /\ count < MaxCount
  /\ count' = count + 1
  /\ Moves(q, IF IsFirst(count') THEN "expire" ELSE "close", count')
  /\ UNCHANGED <<hasExpiry, leaked>>

Expire(q) ==
  /\ submission[q].pc = "expire"
  /\ hasExpiry' = (count > 0)
  /\ Moves(q, "close", submission[q].count)
  /\ UNCHANGED <<count, leaked>>

\* The connection is closed; beyond the limit the answer is 429.
Decide(q) ==
  /\ submission[q].pc = "close"
  /\ Moves(q, IF submission[q].count > Limit THEN "refused" ELSE "admitted", submission[q].count)
  /\ UNCHANGED <<count, hasExpiry, leaked>>

\* Redis cannot be reached, or its answer is lost after it has done what it was
\* asked: either way the request is admitted, and asks Redis nothing more.
IncrFails(q) ==
  /\ ~IsOpen(q) /\ count < MaxCount
  /\ \/ UNCHANGED <<count, leaked>>
     \/ count' = count + 1 /\ leaked' = (leaked \/ count = 0)
  /\ Moves(q, "admitted", 0)
  /\ UNCHANGED hasExpiry

ExpireFails(q) ==
  /\ submission[q].pc = "expire"
  /\ \/ leaked' = TRUE /\ UNCHANGED hasExpiry
     \/ hasExpiry' = (count > 0) /\ UNCHANGED leaked
  /\ Moves(q, "admitted", 0)
  /\ UNCHANGED count

CloseFails(q) ==
  /\ submission[q].pc = "close"
  /\ Moves(q, "admitted", 0)
  /\ UNCHANGED <<count, hasExpiry, leaked>>

\* A minute has passed: Redis deletes the counter.
WindowEnds ==
  /\ hasExpiry
  /\ count' = 0 /\ hasExpiry' = FALSE
  /\ UNCHANGED <<submission, leaked>>

LimitNext ==
  \/ WindowEnds
  \/ \E q \in Submissions :
       Incr(q) \/ IncrFails(q) \/ Expire(q) \/ ExpireFails(q) \/ Decide(q) \/ CloseFails(q)

LimitSpec == LimitInit /\ [][LimitNext]_limitVars

-----------------------------------------------------------------------------

Progress == [pc : {"idle", "expire", "close", "admitted", "refused"}, count : 0..MaxCount]

\* Every variable keeps its type.
LimitTypeOK ==
  /\ count \in 0..MaxCount /\ hasExpiry \in BOOLEAN /\ leaked \in BOOLEAN
  /\ submission \in [Submissions -> Progress]

\* The 429 asks to wait a minute, so every counter has to end: whichever
\* requests overlap, it has its expiry or the request that created it is about
\* to set one, unless one of that request's calls has failed.
CountersExpire ==
  count > 0 => hasExpiry \/ leaked \/ \E q \in Submissions : submission[q].pc = "expire"

=============================================================================
