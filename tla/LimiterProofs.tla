---------------------------- MODULE LimiterProofs ----------------------------
(***************************************************************************)
(* The bound of the rate limiter for every capacity, cost, number of       *)
(* concurrent requests, waiting time and idle limit.                       *)
(***************************************************************************)
EXTENDS Limiter, TLAPS

Inv == TypeOK /\ WindowInv

\* A refill by a request whose clock is at most Skew behind keeps the bucket
\* within its capacity and dates it with the request's clock.
LEMMA RefillBounds ==
  ASSUME NEW b \in Buckets, NEW now \in Nat
  PROVE  /\ Refill(b, now) \in Buckets
         /\ Refill(b, now).lastSeen = now
         /\ b = NoBucket => Refill(b, now).tokens = Capacity
         /\ b # NoBucket => Refill(b, now).tokens <= Capacity
         /\ b # NoBucket => Refill(b, now).tokens <= b.tokens + (now - b.lastSeen)
  BY BucketAssumption DEF Refill, Buckets, Least

\* What one request does: the refilled bucket, less Cost when it is admitted.
LEMMA AllowEffect ==
  ASSUME NEW b \in Buckets, NEW now \in Nat
  PROVE  /\ Allow(b, now) \in Buckets
         /\ Allow(b, now).lastSeen = now
         /\ Admits(b, now) =>
              /\ Allow(b, now).tokens = Refill(b, now).tokens - Cost
              /\ Allow(b, now).tokens >= 0
         /\ ~Admits(b, now) => Allow(b, now).tokens = Refill(b, now).tokens
  <1>1. Refill(b, now) \in Buckets /\ Refill(b, now).lastSeen = now
    BY RefillBounds
  <1> QED
    BY <1>1, BucketAssumption DEF Allow, Admits, Buckets

LEMMA InitInv == Init => Inv
  BY BucketAssumption, LimiterAssumption
     DEF Init, Inv, TypeOK, WindowInv, RateBounded, NoBucket, Buckets, NotHere

LEMMA TickInv == Inv /\ Tick => Inv'
  <1> SUFFICES ASSUME Inv, Tick PROVE Inv'
    OBVIOUS
  <1> USE BucketAssumption, LimiterAssumption
         DEF Inv, Tick, NotHere
  <1>1. TypeOK'
    BY DEF TypeOK
  <1>2. WindowInv'
    BY DEF TypeOK, WindowInv, RateBounded, Buckets, NoBucket
  <1> QED
    BY <1>1, <1>2

LEMMA ReadClockInv == ASSUME NEW r \in Requests, Inv, ReadClock(r) PROVE Inv'
  BY LimiterAssumption
     DEF Inv, ReadClock, TypeOK, WindowInv, RateBounded, NotHere, NoBucket, Buckets

LEMMA CollectInv == Inv /\ Collect => Inv'
  <1> SUFFICES ASSUME Inv, Collect PROVE Inv'
    OBVIOUS
  <1>1. TypeOK'
    BY DEF Inv, Collect, TypeOK, NoBucket, Buckets
  <1>2. spent = 0 \/ spent <= clock - from
    \* (lastSeen - from) + Capacity + 2 * Skew, and lastSeen < clock - Idle
    BY BucketAssumption, LimiterAssumption
       DEF Inv, Collect, Expired, TypeOK, WindowInv, Buckets
  <1>3. WindowInv'
    BY <1>2 DEF Inv, Collect, TypeOK, WindowInv, RateBounded
  <1> QED
    BY <1>1, <1>3 DEF Inv

LEMMA OpenWindowInv == Inv /\ OpenWindow => Inv'
  BY BucketAssumption, LimiterAssumption
     DEF Inv, OpenWindow, TypeOK, WindowInv, RateBounded, NoBucket, Buckets

\* The critical section: the only step that spends tokens.
LEMMA DecideInv == ASSUME NEW r \in Requests, Inv, Decide(r) PROVE Inv'
  <1> DEFINE now == waiting[r]
             next == Allow(bucket, now)
             left == Refill(bucket, now).tokens
  <1>1. now \in Nat /\ now <= clock /\ clock - now <= Skew /\ bucket \in Buckets
        /\ clock \in Nat /\ from \in Nat /\ from <= clock /\ spent \in Nat
    BY DEF Inv, TypeOK, WindowInv, Decide, NotHere
  <1>2. bucket' = next /\ next \in Buckets /\ next.lastSeen = now
    BY <1>1, AllowEffect DEF Decide
  <1>3. left \in Int /\ left <= Capacity
    BY <1>1, RefillBounds, BucketAssumption DEF Buckets
  <1>4. bucket' # NoBucket
    BY <1>1, <1>2 DEF NoBucket
  <1>5. spent = 0 \/ spent + left <= Capacity + (now - from) + Skew
    <2>1. CASE bucket = NoBucket
      <3>1. left = Capacity
        BY <2>1, <1>1, RefillBounds
      <3>2. spent = 0 \/ spent <= clock - from
        BY <2>1 DEF Inv, WindowInv
      <3> HIDE DEF left, now
      <3> QED
        BY <3>1, <3>2, <1>1, BucketAssumption, LimiterAssumption
    <2>2. CASE bucket # NoBucket
      <3>1. left <= bucket.tokens + (now - bucket.lastSeen)
        BY <2>2, <1>1, RefillBounds
      <3>2. bucket.tokens \in Int /\ bucket.lastSeen \in Int
        BY <1>1 DEF Buckets
      <3>3. spent = 0
            \/ spent + bucket.tokens <= Capacity + (bucket.lastSeen - from) + Skew
        BY <2>2 DEF Inv, WindowInv
      <3> HIDE DEF left, now
      <3> QED
        BY <3>1, <3>2, <3>3, <1>1, <1>3, BucketAssumption, LimiterAssumption
    <2> QED
      BY <2>1, <2>2
  <1>6. UNCHANGED <<clock, from>> /\ waiting' = [waiting EXCEPT ![r] = NotHere]
    BY DEF Decide
  <1>7. \A q \in Requests :
          waiting'[q] # NotHere => waiting'[q] <= clock /\ clock - waiting'[q] <= Skew
    BY <1>6 DEF Inv, TypeOK, WindowInv, NotHere
  <1>8. CASE Admits(bucket, now)
    <2>1. spent' = spent + Cost /\ next.tokens = left - Cost /\ next.tokens >= 0
      BY <1>1, <1>8, AllowEffect DEF Decide
    <2>2. spent' + next.tokens <= Capacity + (now - from) + Skew
      <3>1. spent + left <= Capacity + (now - from) + Skew
        \* with spent = 0 the refilled bucket is full at most
        <4> HIDE DEF left, now
        <4> QED BY <1>1, <1>3, <1>5, LimiterAssumption, BucketAssumption
      <3> HIDE DEF left, now, next
      <3> QED BY <2>1, <3>1, <1>1, <1>3, BucketAssumption
    <2>3. TypeOK'
      BY <1>1, <1>2, <1>6, <2>1, BucketAssumption DEF Inv, TypeOK, NotHere
    <2>4. WindowInv'
      <3>1. next.tokens <= Capacity /\ next.tokens \in Int
        BY <2>1, <1>3, <1>2, BucketAssumption DEF Buckets
      <3> HIDE DEF left, now, next
      <3> QED
        BY <3>1, <2>1, <2>2, <1>1, <1>2, <1>4, <1>6, <1>7,
           BucketAssumption, LimiterAssumption DEF WindowInv, RateBounded
    <2> QED
      BY <2>3, <2>4 DEF Inv
  <1>9. CASE ~Admits(bucket, now)
    <2>1. spent' = spent /\ next.tokens = left
      BY <1>1, <1>9, AllowEffect DEF Decide
    <2>2. TypeOK'
      BY <1>1, <1>2, <1>6, <2>1 DEF Inv, TypeOK, NotHere
    <2>3. WindowInv'
      <3>1. spent <= Capacity + (clock - from) + Skew
        BY DEF Inv, WindowInv, RateBounded
      <3> HIDE DEF left, now, next
      <3> QED
        BY <3>1, <2>1, <1>1, <1>2, <1>3, <1>4, <1>5, <1>6, <1>7,
           BucketAssumption, LimiterAssumption DEF WindowInv, RateBounded
    <2> QED
      BY <2>2, <2>3 DEF Inv
  <1> QED
    BY <1>8, <1>9

LEMMA NextInv == Inv /\ [Next]_vars => Inv'
  <1> SUFFICES ASSUME Inv, [Next]_vars PROVE Inv'
    OBVIOUS
  <1>1. CASE UNCHANGED vars
    BY <1>1 DEF Inv, TypeOK, WindowInv, RateBounded, vars
  <1>2. CASE Next
    BY <1>2, TickInv, CollectInv, OpenWindowInv, ReadClockInv, DecideInv DEF Next
  <1> QED
    BY <1>1, <1>2

\* Clocks applied out of order may leave a bucket in debt, never without a moment
\* it was last seen at, and no window is charged less than nothing
\* (httpapi/ratelimit.go:90-120).
THEOREM TypeCorrect == Spec => []TypeOK
  <1>1. Inv => TypeOK
    BY DEF Inv
  <1> QED
    BY <1>1, InitInv, NextInv, PTL DEF Spec

\* In every window the limiter admits at most a full bucket and the refill of
\* the window: allow() with its clock read outside the lock, and gcLoop.
THEOREM LimiterBound == Spec => []RateBounded
  <1>1. Inv => RateBounded
    BY DEF Inv, WindowInv
  <1> QED
    BY <1>1, InitInv, NextInv, PTL DEF Spec
=============================================================================
