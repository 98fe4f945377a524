----------------------------- MODULE TokenBucket -----------------------------
(***************************************************************************)
(* The token bucket of the rate limiters (httpapi/ratelimit.go and its     *)
(* mirror web/ratelimit.go), for one source address.  Tokens are counted   *)
(* in seconds of refill: one request costs Cost seconds (1 / refillRate),  *)
(* a full bucket holds Capacity seconds.  For newRateLimiter(10, 0.2) Cost *)
(* is 5 and Capacity is 50.                                                *)
(***************************************************************************)
EXTENDS Integers

CONSTANTS Capacity, Cost

ASSUME BucketAssumption == Capacity \in Nat /\ Cost \in Nat

\* Absent until the address is first seen, and again once it is collected.
NoBucket == [tokens |-> 0, lastSeen |-> -1]

Least(a, b) == IF a <= b THEN a ELSE b

\* Without the cap on what an idle address accumulates.
Uncapped(b, now) ==
  IF b = NoBucket
  THEN [tokens |-> Capacity, lastSeen |-> now]
  ELSE [tokens |-> b.tokens + (now - b.lastSeen), lastSeen |-> now]

\* The bucket as allow() leaves it before it looks for a token.  "now" was
\* read before the mutex was taken, so it may be earlier than lastSeen: the
\* elapsed time is then negative and the bucket loses tokens.
Refill(b, now) ==
  IF b = NoBucket
  THEN [tokens |-> Capacity, lastSeen |-> now]
  ELSE [tokens |-> Least(Capacity, b.tokens + (now - b.lastSeen)), lastSeen |-> now]

Admits(b, now) == Refill(b, now).tokens >= Cost

\* The bucket after the request, admitted or refused.
Allow(b, now) ==
  IF Admits(b, now)
  THEN [Refill(b, now) EXCEPT !.tokens = @ - Cost]
  ELSE Refill(b, now)
=============================================================================
