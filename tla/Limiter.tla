------------------------------- MODULE Limiter -------------------------------
(***************************************************************************)
(* The rate limiter under concurrent requests of one address and the       *)
(* collector of idle buckets.  A request reads the clock, then waits for   *)
(* the mutex: it may be overtaken by requests that read a later time.      *)
(* Skew bounds how long a request waits for the mutex, Horizon the clock.  *)
(***************************************************************************)
EXTENDS TokenBucket

CONSTANTS Requests, Idle, Skew, Horizon

\* A bucket is only collected when it would have been full again: 30 minutes
\* against the 50 seconds that fill it.
ASSUME LimiterAssumption ==
  /\ Idle \in Nat /\ Skew \in Nat /\ Horizon \in Nat
  /\ Idle >= Capacity + 2 * Skew

VARIABLES
  clock,      \* seconds
  bucket,     \* the entry of the buckets map for this address
  waiting,    \* the time each request read, or -1 when it is not in allow()
  from,       \* start of the window under observation
  spent       \* seconds of refill handed out since then

vars == <<clock, bucket, waiting, from, spent>>

NotHere == -1

Buckets == [tokens: Int, lastSeen: Int]

TypeOK ==
  /\ clock \in Nat
  /\ bucket \in Buckets
  /\ waiting \in [Requests -> Nat \cup {NotHere}]
  /\ from \in Nat
  /\ spent \in Nat

Init ==
  /\ clock = 0
  /\ bucket = NoBucket
  /\ waiting = [r \in Requests |-> NotHere]
  /\ from = 0
  /\ spent = 0

\* Time passes; nobody has been waiting for the mutex for more than Skew.
Tick ==
  /\ clock < Horizon
  /\ \A r \in Requests : waiting[r] # NotHere => clock - waiting[r] < Skew
  /\ clock' = clock + 1
  /\ UNCHANGED <<bucket, waiting, from, spent>>

\* now := time.Now(), before the lock.
ReadClock(r) ==
  /\ waiting[r] = NotHere
  /\ waiting' = [waiting EXCEPT ![r] = clock]
  /\ UNCHANGED <<clock, bucket, from, spent>>

\* The critical section of allow(): the request goes through or gets a 429.
Decide(r) ==
  /\ waiting[r] # NotHere
  /\ bucket' = Allow(bucket, waiting[r])
  /\ spent' = IF Admits(bucket, waiting[r]) THEN spent + Cost ELSE spent
  /\ waiting' = [waiting EXCEPT ![r] = NotHere]
  /\ UNCHANGED <<clock, from>>

\* Both limiters throw away what nobody has touched for half an hour.
Expired == clock - bucket.lastSeen > Idle

\* One sweep of gcLoop.
Collect ==
  /\ bucket # NoBucket
  /\ Expired
  /\ bucket' = NoBucket
  /\ UNCHANGED <<clock, waiting, from, spent>>

\* The observer of RateBounded starts a new window, at any time.
OpenWindow ==
  /\ from' = clock
  /\ spent' = 0
  /\ UNCHANGED <<clock, bucket, waiting>>

Next ==
  \/ Tick
  \/ Collect
  \/ OpenWindow
  \/ \E r \in Requests : ReadClock(r) \/ Decide(r)

Spec == Init /\ [][Next]_vars

(***************************************************************************)
(* Properties                                                              *)
(***************************************************************************)

\* In every window the limiter admits at most a full bucket plus what the
\* window refills (httpapi/ratelimit.go:99 "about 10 attempts upfront then 1
\* per 5 seconds sustained"), although requests apply their clocks out of
\* order and idle buckets are thrown away and come back full.
RateBounded == spent <= Capacity + (clock - from) + Skew

\* The strengthening that is inductive: with a bucket, what was spent and what
\* is left together; without one, enough time has passed to fill it.
WindowInv ==
  /\ from <= clock
  /\ \A r \in Requests :
       waiting[r] # NotHere => waiting[r] <= clock /\ clock - waiting[r] <= Skew
  /\ RateBounded
  /\ bucket = NoBucket => spent = 0 \/ spent <= clock - from
  /\ bucket # NoBucket =>
       /\ bucket.lastSeen \in 0..clock
       /\ bucket.tokens <= Capacity
       /\ spent = 0 \/ spent + bucket.tokens <= Capacity + (bucket.lastSeen - from) + Skew
       /\ spent = 0 \/ spent <= Capacity + (bucket.lastSeen - from) + 2 * Skew
=============================================================================
