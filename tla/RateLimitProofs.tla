--------------------------- MODULE RateLimitProofs ---------------------------
(***************************************************************************)
(* What check() guarantees for every window, limit and number of calls:    *)
(* X-RateLimit-Remaining is a promise that is kept, and a client that      *)
(* obeys Retry-After is refused twice at most.                             *)
(*                                                                         *)
(* Both rest on one fact: no bucket after that of the latest reading has   *)
(* been counted in.  So as time passes, what is left can only grow.        *)
(***************************************************************************)
EXTENDS RateLimit, FiniteSetTheorems, TLAPS

-----------------------------------------------------------------------------
(* Arithmetic.                                                             *)

LEMMA Products ==
  /\ \A a, b \in Nat : a * b \in Nat
  /\ \A a, b, x, y \in Nat : a <= b /\ x <= y => a * x <= b * y
  /\ \A a \in Nat, x \in Nat : (x + 1) * a = x * a + a /\ a * (x + 1) = a * x + a
<1>1. \A a, b \in Nat : a * b \in Nat
  OBVIOUS
<1>2. \A a, b, x, y \in Nat : a <= b /\ x <= y => a * x <= b * y
  <2> TAKE a, b, x, y \in Nat
  <2> HAVE a <= b /\ x <= y
  <2>1. a * x <= a * y /\ a * y <= b * y
    OBVIOUS
  <2> QED
    BY <2>1
<1>3. \A a \in Nat, x \in Nat : (x + 1) * a = x * a + a /\ a * (x + 1) = a * x + a
  OBVIOUS
<1> QED
  BY <1>1, <1>2, <1>3

(* A time is its bucket and a rest.                                        *)
LEMMA BucketOf ==
  ASSUME NEW t \in Nat
  PROVE  /\ Bucket(t) \in Nat /\ W * Bucket(t) \in Nat
         /\ t % W \in Nat /\ t % W < W
         /\ t = W * Bucket(t) + (t % W)
<1>1. Bucket(t) \in Nat /\ t % W \in 0 .. W - 1 /\ t = W * Bucket(t) + (t % W)
  BY RateLimitAssumption DEF Bucket
<1> QED
  BY <1>1, Products, RateLimitAssumption

LEMMA BucketsGrow ==
  ASSUME NEW t \in Nat, NEW u \in Nat, t <= u
  PROVE  /\ Bucket(t) <= Bucket(u)
         /\ Bucket(t) = Bucket(u) => t % W <= u % W
<1> DEFINE x == W * Bucket(t)  y == W * Bucket(u)
<1>1. /\ x \in Nat /\ t % W \in Nat /\ t % W < W /\ t = x + (t % W)
      /\ y \in Nat /\ u % W \in Nat /\ u % W < W /\ u = y + (u % W)
      /\ Bucket(t) \in Nat /\ Bucket(u) \in Nat /\ W \in Nat
  BY BucketOf, RateLimitAssumption
<1>2. Bucket(u) < Bucket(t) => y + W <= x
  <2> HAVE Bucket(u) < Bucket(t)
  <2>1. Bucket(u) + 1 \in Nat /\ Bucket(u) + 1 <= Bucket(t)
    BY <1>1
  <2>2. W * (Bucket(u) + 1) <= x /\ W * (Bucket(u) + 1) = y + W
    BY <1>1, <2>1, Products
  <2> QED
    BY <2>2
<1>3. Bucket(t) = Bucket(u) => x = y
  OBVIOUS
<1> HIDE DEF x, y
<1> QED
  BY <1>1, <1>2, <1>3

(* A later bucket begins a window later.                                   *)
LEMMA LaterBucket ==
  ASSUME NEW t \in Nat, NEW u \in Nat, (Bucket(t) + 1) * W <= u
  PROVE  Bucket(t) < Bucket(u)
<1> DEFINE x == W * Bucket(t)  y == W * Bucket(u)
<1>1. /\ x \in Nat /\ y \in Nat /\ u % W \in Nat /\ u % W < W /\ u = y + (u % W)
      /\ Bucket(t) \in Nat /\ Bucket(u) \in Nat /\ W \in Nat
  BY BucketOf, RateLimitAssumption
<1>2. (Bucket(t) + 1) * W = x + W
  BY <1>1, Products
<1>3. Bucket(u) <= Bucket(t) => y <= x
  BY <1>1, Products
<1> HIDE DEF x, y
<1> QED
  BY <1>1, <1>2, <1>3

LEMMA Quotient ==
  ASSUME NEW x \in Nat
  PROVE  x \div W \in Nat /\ (x \div W) * W <= x
<1>1. x \div W \in Nat /\ x % W \in 0 .. W - 1 /\ x = W * (x \div W) + (x % W)
  BY RateLimitAssumption
<1>2. W * (x \div W) = (x \div W) * W /\ W * (x \div W) \in Nat
  BY <1>1, RateLimitAssumption, Products
<1> DEFINE y == W * (x \div W)
<1> HIDE DEF y
<1> QED
  BY <1>1, <1>2 DEF y

LEMMA QuotientAtMost ==
  ASSUME NEW x \in Nat, NEW n \in Nat, x <= n * W
  PROVE  x \div W \in 0 .. n
<1> DEFINE q == x \div W
<1>1. q \in Nat /\ q * W <= x /\ W \in Nat \ {0}
  BY Quotient, RateLimitAssumption
<1>2. n < q => n * W + W <= q * W
  <2> HAVE n < q
  <2>1. n + 1 \in Nat /\ n + 1 <= q
    BY <1>1
  <2>2. (n + 1) * W <= q * W /\ (n + 1) * W = n * W + W
    BY <1>1, <2>1, Products
  <2> QED
    BY <2>2
<1>3. n * W \in Nat /\ q * W \in Nat
  BY <1>1, Products
<1> HIDE DEF q
<1>4. ~ (n < q)
  BY <1>1, <1>2, <1>3
<1> QED
  BY <1>1, <1>4 DEF q

-----------------------------------------------------------------------------
(* What is left.                                                           *)

Counts == [Buckets -> Nat]

LEMMA TimesAndBuckets ==
  /\ 0 \in Times /\ 0 \in Buckets /\ Times \subseteq Nat /\ Buckets \subseteq Nat
  /\ \A t \in Times : Bucket(t) \in Buckets
  /\ \A t \in Times : Bucket(t) # 0 => Bucket(t) - 1 \in Buckets /\ Bucket(t) - 1 \in Nat
<1>1. MaxTime \in Nat /\ Bucket(MaxTime) \in Nat /\ Times \subseteq Nat
  BY RateLimitAssumption, BucketOf DEF Times
<1>2. \A t \in Times : Bucket(t) \in Nat /\ Bucket(t) <= Bucket(MaxTime)
  <2> TAKE t \in Times
  <2>1. t \in Nat /\ MaxTime \in Nat /\ t <= MaxTime
    BY <1>1 DEF Times
  <2> QED
    BY <2>1, BucketOf, BucketsGrow
<1> QED
  BY <1>1, <1>2 DEF Times, Buckets

(* The terms of Left are numbers.                                          *)
LEMMA LeftIs ==
  ASSUME NEW counts \in Counts, NEW t \in Times
  PROVE  /\ Before(counts, t) \in Nat /\ counts[Bucket(t)] \in Nat
         /\ Before(counts, t) * (W - (t % W)) \in Nat
         /\ counts[Bucket(t)] * W \in Nat /\ Limit * W \in Nat
         /\ Left(counts, t) \in Int
         /\ Left(counts, t) = Limit * W - Before(counts, t) * (W - (t % W)) - counts[Bucket(t)] * W
<1>1. Before(counts, t) \in Nat /\ counts[Bucket(t)] \in Nat
  BY TimesAndBuckets DEF Counts, Before
<1>2. W - (t % W) \in Nat
  BY BucketOf, TimesAndBuckets, RateLimitAssumption
<1>3. /\ Before(counts, t) * (W - (t % W)) \in Nat
      /\ counts[Bucket(t)] * W \in Nat /\ Limit * W \in Nat
  BY <1>1, <1>2, Products, RateLimitAssumption
<1> QED
  BY <1>1, <1>3 DEF Left

(* As time passes and counters expire, what is left can only grow, if no   *)
(* later bucket is counted in.                                             *)
LEMMA LeftGrows ==
  ASSUME NEW counts \in Counts, NEW fewer \in Counts, NEW t \in Times, NEW u \in Times, t <= u,
         \A b \in Buckets : fewer[b] <= counts[b],
         \A b \in Buckets : b > Bucket(t) => fewer[b] = 0
  PROVE  Left(counts, t) <= Left(fewer, u)
<1> DEFINE p == Before(counts, t)  q == Before(fewer, u)
           x == W - (t % W)        y == W - (u % W)
           m == counts[Bucket(t)]  n == fewer[Bucket(u)]
<1>1. /\ x \in Nat /\ y \in Nat /\ x <= W /\ y <= W /\ W \in Nat
      /\ Bucket(t) \in Buckets /\ Bucket(u) \in Buckets
      /\ Bucket(t) \in Nat /\ Bucket(u) \in Nat /\ Bucket(t) <= Bucket(u)
      /\ Bucket(t) = Bucket(u) => y <= x
  BY BucketOf, BucketsGrow, TimesAndBuckets, RateLimitAssumption
<1>2. /\ p \in Nat /\ q \in Nat /\ m \in Nat /\ n \in Nat
      /\ p * x \in Nat /\ q * y \in Nat /\ m * W \in Nat /\ n * W \in Nat /\ Limit * W \in Nat
      /\ Left(counts, t) = Limit * W - p * x - m * W
      /\ Left(fewer, u) = Limit * W - q * y - n * W
  BY LeftIs
<1>3. CASE Bucket(t) = Bucket(u)
  <2>1. q <= p /\ n <= m
    BY <1>1, <1>3, TimesAndBuckets DEF Before, Counts
  <2>2. q * y <= p * x /\ n * W <= m * W
    BY <1>1, <1>2, <1>3, <2>1, Products
  <2> HIDE DEF p, q, x, y, m, n
  <2> QED
    BY <1>2, <2>2
<1>4. CASE Bucket(t) < Bucket(u)
  <2>1. n = 0
    BY <1>1, <1>4
  <2>2. q <= m
    <3>1. CASE Bucket(u) - 1 = Bucket(t)
      BY <1>1, <1>4, <3>1 DEF Before
    <3>2. CASE Bucket(u) - 1 # Bucket(t)
      <4>1. Bucket(u) # 0 /\ Bucket(u) - 1 \in Buckets /\ Bucket(u) - 1 > Bucket(t)
        BY <1>1, <1>4, <3>2, TimesAndBuckets
      <4> QED
        BY <1>2, <4>1 DEF Before
    <3> QED
      BY <3>1, <3>2
  <2>3. q * y <= m * W /\ n * W = 0
    BY <1>1, <1>2, <2>1, <2>2, Products
  <2> HIDE DEF p, q, x, y, m, n
  <2> QED
    BY <1>2, <2>3
<1> QED
  BY <1>1, <1>3, <1>4

(* A call that is counted takes one of what is left, at most.              *)
LEMMA LeftByOne ==
  ASSUME NEW counts \in Counts, NEW b \in Buckets, NEW u \in Times
  PROVE  LET counted == [counts EXCEPT ![b] = @ + 1]
         IN  counted \in Counts /\ Left(counts, u) - W <= Left(counted, u)
<1> DEFINE counted == [counts EXCEPT ![b] = @ + 1]
           p == Before(counts, u)  q == Before(counted, u)
           m == counts[Bucket(u)]  n == counted[Bucket(u)]
           y == W - (u % W)
<1>1. counted \in Counts
  BY DEF Counts
<1>2. /\ y \in Nat /\ y <= W /\ W \in Nat /\ Bucket(u) \in Buckets /\ Bucket(u) \in Nat
  BY BucketOf, TimesAndBuckets, RateLimitAssumption
<1>3. /\ p \in Nat /\ q \in Nat /\ m \in Nat /\ n \in Nat
      /\ p * y \in Nat /\ q * y \in Nat /\ m * W \in Nat /\ n * W \in Nat /\ Limit * W \in Nat
      /\ Left(counts, u) = Limit * W - p * y - m * W
      /\ Left(counted, u) = Limit * W - q * y - n * W
  BY <1>1, LeftIs
<1>4. \/ q = p /\ n = m + 1
      \/ q = p + 1 /\ n = m
      \/ q = p /\ n = m
  BY <1>2, TimesAndBuckets DEF Before, Counts
<1>5. (p + 1) * y = p * y + y /\ (m + 1) * W = m * W + W
  BY <1>2, <1>3, Products
<1>6. Left(counts, u) - W <= Left(counted, u)
  <2> HIDE DEF counted, p, q, m, n, y
  <2> QED
    BY <1>2, <1>3, <1>4, <1>5
<1> QED
  BY <1>1, <1>6

(* What is promised is there.                                              *)
LEMMA RemainingIsLeft ==
  ASSUME NEW counts \in Counts, NEW t \in Times
  PROVE  /\ Remaining(counts, t) \in 0 .. Limit
         /\ Remaining(counts, t) > 0 => Remaining(counts, t) * W <= Left(counts, t)
<1>1. Left(counts, t) \in Int /\ Left(counts, t) <= Limit * W /\ Limit \in Nat
  BY LeftIs, RateLimitAssumption
<1>2. CASE Left(counts, t) < 0
  BY <1>1, <1>2 DEF Remaining
<1>3. CASE ~ (Left(counts, t) < 0)
  <2>1. Left(counts, t) \in Nat /\ Remaining(counts, t) = Left(counts, t) \div W
    BY <1>1, <1>3 DEF Remaining
  <2> QED
    BY <1>1, <2>1, Quotient, QuotientAtMost
<1> QED
  BY <1>2, <1>3

-----------------------------------------------------------------------------
(* The invariant.                                                          *)

(* Nothing is counted beyond the bucket of the latest reading.             *)
CountedOK ==
  /\ promise.since <= now
  /\ \A c \in Calls : reading[c] # NULL => reading[c] <= now
  /\ \A b \in Buckets : b > Bucket(promise.since) => count[b] = 0

(* PromiseKept, for all times to come.                                     *)
PromiseOK ==
  \A t \in Times :
    t >= promise.since /\ promise.left > 0 => Left(count, t) >= promise.left * W

(* The one client that obeys is never before its time, and once it has     *)
(* been refused twice its bucket holds no more than that call.             *)
ObedientOK ==
  obeys =>
    /\ \A c, d \in Calls : c # d => reading[c] = NULL \/ reading[d] = NULL
    /\ \A c \in Calls : reading[c] # NULL =>
         reading[c] >= promise.since /\ (refusals > 0 => reading[c] >= wait)
    /\ refusals > 0 => wait >= (Bucket(promise.since) + 1) * W
    /\ Limit >= 2 => refusals <= 2
    /\ refusals >= 2 => count[Bucket(promise.since)] <= 1

LimitInv == TypeOK /\ CountedOK /\ PromiseOK /\ ObedientOK

LEMMA LimitInit == Init => LimitInv
<1> SUFFICES ASSUME Init PROVE LimitInv
  OBVIOUS
<1>1. MaxTime \in Nat /\ Limit \in Nat /\ 0 \in Times /\ Buckets \subseteq Nat
  BY TimesAndBuckets, RateLimitAssumption
<1>2. TypeOK
  <2>1. /\ now \in Times /\ reading \in [Calls -> Times \cup {NULL}]
        /\ count \in [Buckets -> Nat] /\ expires \in [Buckets -> Nat]
        /\ admitted \in Seq(Admissions) /\ promise \in [since : Times, left : 0..Limit]
        /\ wait \in Nat /\ refusals \in Nat
    BY <1>1 DEF Init
  <2>2. obeys \in BOOLEAN /\ raced \in BOOLEAN
    BY DEF Init
  <2> QED
    BY <2>1, <2>2 DEF TypeOK
<1>3. CountedOK /\ PromiseOK /\ ObedientOK
  BY <1>1 DEF Init, CountedOK, PromiseOK, ObedientOK
<1> QED
  BY <1>2, <1>3 DEF LimitInv

(* Time passes: keys expire, and what is left grows.                       *)
LEMMA TickStep == LimitInv /\ Tick => LimitInv'
<1> SUFFICES ASSUME LimitInv, Tick PROVE LimitInv'
  OBVIOUS
<1>1. TypeOK /\ CountedOK /\ PromiseOK /\ ObedientOK
  BY DEF LimitInv
<1>2. /\ now \in Nat /\ now' = now + 1 /\ now' \in Times
      /\ UNCHANGED <<obeys, reading, expires, admitted, promise, wait, refusals, raced>>
  BY <1>1, RateLimitAssumption DEF Tick, told, TypeOK, Times
<1>3. count' \in Counts /\ \A b \in Buckets : count'[b] <= count[b] /\ (count[b] = 0 => count'[b] = 0)
  BY <1>1 DEF Tick, TypeOK, Counts
<1>4. TypeOK'
  BY <1>1, <1>2, <1>3 DEF TypeOK, Counts
<1>5. CountedOK'
  <2>1. promise.since \in Nat /\ \A c \in Calls : reading[c] # NULL => reading[c] \in Nat
    BY <1>1, TimesAndBuckets DEF TypeOK
  <2> QED
    BY <1>1, <1>2, <1>3, <2>1 DEF CountedOK
<1>6. PromiseOK'
  <2> SUFFICES ASSUME NEW t \in Times, t >= promise.since, promise.left > 0
               PROVE  Left(count', t) >= promise.left * W
    BY <1>2 DEF PromiseOK
  <2>1. \A b \in Buckets : b > Bucket(t) => count'[b] = 0
    <3>1. promise.since \in Nat /\ t \in Nat
      BY <1>1, TimesAndBuckets DEF TypeOK
    <3>2. /\ Bucket(promise.since) <= Bucket(t)
          /\ Bucket(promise.since) \in Nat /\ Bucket(t) \in Nat
      BY <3>1, BucketOf, BucketsGrow
    <3> QED
      BY <1>1, <1>3, <3>2, TimesAndBuckets DEF CountedOK
  <2>2. Left(count, t) <= Left(count', t)
    <3>1. count \in Counts /\ t \in Nat /\ t <= t
      BY <1>1, TimesAndBuckets DEF TypeOK, Counts
    <3> QED
      BY <1>3, <2>1, <3>1, LeftGrows
  <2>3. Left(count, t) >= promise.left * W
    BY <1>1 DEF PromiseOK
  <2>4. Left(count, t) \in Int /\ Left(count', t) \in Int
    BY <1>1, <1>3, LeftIs DEF TypeOK, Counts
  <2>5. promise.left * W \in Nat
    BY <1>1, Products, RateLimitAssumption DEF TypeOK
  <2> QED
    BY <2>2, <2>3, <2>4, <2>5
<1>7. ObedientOK'
  <2>1. promise.since \in Times /\ Bucket(promise.since) \in Buckets
    BY <1>1, TimesAndBuckets DEF TypeOK
  <2>2. count'[Bucket(promise.since)] <= count[Bucket(promise.since)]
        /\ count[Bucket(promise.since)] \in Nat /\ count'[Bucket(promise.since)] \in Nat
    BY <1>1, <1>3, <2>1 DEF TypeOK, Counts
  <2> QED
    BY <1>1, <1>2, <2>2 DEF ObedientOK
<1> QED
  BY <1>4, <1>5, <1>6, <1>7 DEF LimitInv

(* A client that obeys reads the clock when it may.                        *)
LEMMA ArriveStep == ASSUME NEW c \in Calls, LimitInv, Arrive(c) PROVE LimitInv'
<1>1. TypeOK /\ CountedOK /\ PromiseOK /\ ObedientOK
  BY DEF LimitInv
<1>2. /\ now \in Nat /\ now \in Times /\ now # NULL
      /\ reading' = [reading EXCEPT ![c] = now]
      /\ UNCHANGED <<now, obeys, count, expires, admitted, promise, wait, refusals, raced>>
  BY <1>1, TimesAndBuckets, RateLimitAssumption DEF Arrive, redis, told, TypeOK
<1>3. TypeOK'
  BY <1>1, <1>2 DEF TypeOK
<1>4. CountedOK'
  BY <1>1, <1>2 DEF CountedOK, TypeOK
<1>5. PromiseOK'
  BY <1>1, <1>2 DEF PromiseOK
<1>6. ObedientOK'
  <2> SUFFICES ASSUME obeys PROVE ObedientOK'
    BY <1>2 DEF ObedientOK
  <2>1. now >= wait /\ \A d \in Calls : reading[d] = NULL
    BY DEF Arrive
  <2>2. \A d \in Calls : reading'[d] = IF d = c THEN now ELSE NULL
    BY <1>1, <1>2, <2>1 DEF TypeOK
  <2>3. now >= promise.since
    BY <1>1, <1>2 DEF CountedOK, TypeOK, Times
  <2> QED
    BY <1>1, <1>2, <2>1, <2>2, <2>3 DEF ObedientOK
<1> QED
  BY <1>3, <1>4, <1>5, <1>6 DEF LimitInv

(* Redis counts a call, and the answer promises what is left.              *)
LEMMA ExecStep == ASSUME NEW c \in Calls, LimitInv, Exec(c) PROVE LimitInv'
<1> DEFINE t == reading[c]
           since == promise.since
           counted == [count EXCEPT ![Bucket(t)] = @ + 1]
           late == IF promise.left = 0 THEN 0 ELSE promise.left - 1
<1>1. TypeOK /\ CountedOK /\ PromiseOK /\ ObedientOK
  BY DEF LimitInv
<1>2. /\ t # NULL /\ count' = counted
      /\ expires' = [expires EXCEPT ![Bucket(t)] = now + Expiry]
      /\ reading' = [reading EXCEPT ![c] = NULL]
      /\ admitted' = IF Allows(counted, t)
                     THEN Append(admitted, [at |-> t, nth |-> counted[Bucket(t)]])
                     ELSE admitted
      /\ promise' = IF t >= since THEN [since |-> t, left |-> Remaining(counted, t)]
                    ELSE [promise EXCEPT !.left = late]
      /\ wait' = IF Allows(counted, t) THEN wait ELSE now + RetryAfter(t)
      /\ refusals' = IF Allows(counted, t) THEN 0 ELSE refusals + 1
      /\ raced' = (raced \/ \E b \in Buckets : b > Bucket(t) /\ count[b] > 0)
      /\ UNCHANGED <<now, obeys>>
  BY DEF Exec
<1>3. /\ t \in Times /\ t \in Nat /\ t <= now /\ now \in Times /\ now \in Nat
      /\ since \in Times /\ since \in Nat /\ since <= now
      /\ promise = [since |-> since, left |-> promise.left] /\ promise.left \in 0 .. Limit
      /\ Bucket(t) \in Buckets /\ Bucket(t) \in Nat
      /\ Bucket(since) \in Buckets /\ Bucket(since) \in Nat
      /\ Limit \in Nat /\ W \in Nat
  BY <1>1, <1>2, TimesAndBuckets, RateLimitAssumption DEF TypeOK, CountedOK
<1>4. count \in Counts /\ counted \in Counts
  BY <1>1, <1>3, LeftByOne DEF TypeOK, Counts
<1>5. /\ t >= since => promise'.since = t /\ promise'.left = Remaining(counted, t)
      /\ t < since => promise'.since = since /\ promise'.left = late
  BY <1>2, <1>3
<1>6. RetryAfter(t) \in Nat /\ now + RetryAfter(t) >= (Bucket(t) + 1) * W
  <2> DEFINE x == W * Bucket(t)
  <2>1. (Bucket(t) + 1) * W = x + W
    BY <1>3, Products
  <2>2. x \in Nat /\ t % W \in Nat /\ t % W < W /\ t = x + (t % W)
    BY <1>3, BucketOf
  <2>3. RetryAfter(t) = (Bucket(t) + 1) * W - t
    BY DEF RetryAfter
  <2> HIDE DEF x
  <2> QED
    BY <1>3, <2>1, <2>2, <2>3
<1>7. TypeOK'
  <2>1. promise' \in [since : Times, left : 0..Limit]
    <3>1. late \in 0 .. Limit /\ Remaining(counted, t) \in 0 .. Limit
      BY <1>3, <1>4, RemainingIsLeft
    <3> HIDE DEF late, counted
    <3> QED
      BY <1>2, <1>3, <3>1
  <2>2. wait' \in Nat /\ refusals' \in Nat
    <3>1. wait \in Nat /\ refusals \in Nat
      BY <1>1 DEF TypeOK
    <3> QED
      BY <1>2, <1>3, <1>6, <3>1
  <2>3. raced' \in BOOLEAN /\ obeys' \in BOOLEAN
    BY <1>1, <1>2 DEF TypeOK
  <2>4. /\ reading' \in [Calls -> Times \cup {NULL}]
        /\ expires' \in [Buckets -> Nat]
    <3>1. /\ reading \in [Calls -> Times \cup {NULL}] /\ expires \in [Buckets -> Nat]
          /\ now + Expiry \in Nat
      BY <1>1, <1>3, RateLimitAssumption DEF TypeOK
    <3> QED
      BY <1>2, <3>1
  <2>5. admitted' \in Seq(Admissions)
    <3> DEFINE new == [at |-> t, nth |-> counted[Bucket(t)]]
    <3>1. new \in Admissions
      BY <1>3, <1>4 DEF Counts, Admissions
    <3>2. admitted \in Seq(Admissions) /\ admitted' \in {admitted, Append(admitted, new)}
      BY <1>1, <1>2 DEF TypeOK
    <3> HIDE DEF new
    <3> QED
      BY <3>1, <3>2
  <2> QED
    BY <1>2, <1>3, <1>4, <2>1, <2>2, <2>3, <2>4, <2>5 DEF TypeOK, Counts
(* The latest reading's bucket is the last that is counted in.             *)
<1>8. /\ promise'.since \in Nat /\ promise'.since <= now
      /\ since <= promise'.since /\ t <= promise'.since
  BY <1>3, <1>5
<1>9. CountedOK'
  <2>1. /\ Bucket(since) <= Bucket(promise'.since) /\ Bucket(t) <= Bucket(promise'.since)
        /\ Bucket(promise'.since) \in Nat
    BY <1>3, <1>8, BucketsGrow, BucketOf
  <2>2. \A b \in Buckets : b > Bucket(promise'.since) => counted[b] = 0
    BY <1>1, <1>3, <1>4, <2>1, TimesAndBuckets DEF CountedOK, Counts
  <2>3. \A d \in Calls : reading'[d] # NULL => reading'[d] <= now
    BY <1>1, <1>2 DEF CountedOK, TypeOK
  <2> QED
    BY <1>2, <1>8, <2>2, <2>3 DEF CountedOK
<1>10. PromiseOK'
  <2> SUFFICES ASSUME NEW u \in Times, u >= promise'.since, promise'.left > 0
               PROVE  Left(counted, u) >= promise'.left * W
    BY <1>2 DEF PromiseOK
  <2>1. u \in Nat /\ Left(counted, u) \in Int /\ Left(count, u) \in Int
    BY <1>4, LeftIs, TimesAndBuckets
  <2>2. CASE t >= since
    <3>1. \A b \in Buckets : b > Bucket(t) => counted[b] = 0
      BY <1>2, <1>5, <1>9, <2>2 DEF CountedOK
    <3>2. \A b \in Buckets : counted[b] <= counted[b]
      BY <1>4 DEF Counts
    <3>3. Left(counted, t) <= Left(counted, u)
      BY <1>3, <1>4, <1>5, <2>2, <3>1, <3>2, LeftGrows
    <3>4. /\ promise'.left * W <= Left(counted, t)
          /\ promise'.left * W \in Nat /\ Left(counted, t) \in Int
      <4>1. /\ Remaining(counted, t) \in 0 .. Limit /\ Left(counted, t) \in Int
            /\ Remaining(counted, t) > 0 => Remaining(counted, t) * W <= Left(counted, t)
        BY <1>3, <1>4, RemainingIsLeft, LeftIs
      <4>2. promise'.left = Remaining(counted, t) /\ promise'.left \in Nat
        BY <1>3, <1>5, <2>2, <4>1
      <4>3. promise'.left * W \in Nat
        BY <1>3, <4>2, Products
      <4> HIDE DEF counted
      <4> QED
        BY <4>1, <4>2, <4>3
    <3> HIDE DEF counted
    <3> QED
      BY <2>1, <3>3, <3>4
  <2>3. CASE t < since
    <3>1. /\ promise.left \in Nat /\ promise.left > 0 /\ promise'.left = promise.left - 1
          /\ promise'.left \in Nat
      BY <1>3, <1>5, <2>3
    <3>2. Left(count, u) >= promise.left * W
      BY <1>1, <1>5, <2>3, <3>1 DEF PromiseOK
    <3>3. Left(count, u) - W <= Left(counted, u)
      BY <1>3, <1>4, LeftByOne
    <3>4. promise.left * W = promise'.left * W + W /\ promise'.left * W \in Nat
      BY <1>3, <3>1, Products
    <3> HIDE DEF counted
    <3> QED
      BY <1>3, <2>1, <3>2, <3>3, <3>4
  <2> QED
    BY <1>3, <2>2, <2>3
<1>11. ObedientOK'
  <2> SUFFICES ASSUME obeys PROVE ObedientOK'
    BY <1>2 DEF ObedientOK
  <2>1. /\ \A d \in Calls : reading'[d] = NULL
        /\ t >= since /\ (refusals > 0 => t >= wait)
    BY <1>1, <1>2 DEF ObedientOK, TypeOK
  <2>2. promise'.since = t
    BY <1>5, <2>1
  <2>3. refusals > 0 => Bucket(since) < Bucket(t)
    <3> HAVE refusals > 0
    <3>1. (Bucket(since) + 1) * W \in Nat /\ (Bucket(since) + 1) * W <= t
      BY <1>1, <1>3, <2>1, Products DEF ObedientOK, TypeOK
    <3> QED
      BY <1>3, <3>1, LaterBucket
  (* The bucket of a call after a refusal holds no other.                  *)
  <2>4. refusals > 0 => counted[Bucket(t)] = 1
    BY <1>1, <1>3, <1>4, <2>3 DEF CountedOK, Counts
  <2>5. refusals \in Nat
    BY <1>1 DEF TypeOK
  <2>6. refusals >= 2 /\ Limit >= 2 => Allows(counted, t)
    <3> HAVE refusals >= 2 /\ Limit >= 2
    <3> DEFINE p == Before(counted, t)  y == W - (t % W)
    <3>1. p \in Nat /\ p <= 1
      <4>1. CASE Bucket(t) = 0
        BY <4>1 DEF Before
      <4>2. CASE Bucket(t) # 0 /\ Bucket(t) - 1 = Bucket(since)
        <5>1. p = count[Bucket(since)]
          BY <1>3, <1>4, <4>2 DEF Before, Counts
        <5> QED
          BY <1>1, <1>3, <1>4, <5>1 DEF ObedientOK, Counts
      <4>3. CASE Bucket(t) # 0 /\ Bucket(t) - 1 # Bucket(since)
        <5>1. Bucket(t) - 1 \in Buckets /\ Bucket(t) - 1 > Bucket(since)
          BY <1>3, <2>3, <2>5, <4>3, TimesAndBuckets
        <5>2. count[Bucket(t) - 1] = 0
          BY <1>1, <5>1 DEF CountedOK
        <5> QED
          BY <1>3, <1>4, <4>3, <5>1, <5>2 DEF Before, Counts
      <4> QED
        BY <4>1, <4>2, <4>3
    <3>2. y \in Nat /\ y <= W
      BY <1>3, BucketOf
    <3>3. /\ Left(counted, t) = Limit * W - p * y - counted[Bucket(t)] * W
          /\ p * y \in Nat /\ Limit * W \in Nat
      BY <1>3, <1>4, LeftIs
    <3>4. counted[Bucket(t)] * W = W
      BY <1>3, <2>4, <2>5
    <3>5. p * y <= 1 * W /\ 2 * W <= Limit * W /\ 1 * W = W /\ 2 * W = W + W
      <4>1. p * y <= 1 * W
        BY <1>3, <3>1, <3>2, Products
      <4>2. 2 * W <= Limit * W
        <5>1. \A n \in Nat : n <= Limit => n * W <= Limit * W
          BY <1>3, Products
        <5>2. 2 <= Limit
          BY <1>3
        <5> HIDE DEF p, y, counted
        <5> QED
          BY <5>1, <5>2
      <4> QED
        BY <1>3, <4>1, <4>2
    <3>6. Left(counted, t) >= 0
      <4> HIDE DEF counted, p, y
      <4> QED
        BY <1>3, <3>3, <3>4, <3>5
    <3> QED
      BY <3>6 DEF Allows
  <2>7. refusals' > 0 => wait' >= (Bucket(t) + 1) * W
    BY <1>2, <1>6
  <2>8. Limit >= 2 => refusals' <= 2
    BY <1>1, <1>2, <2>5, <2>6 DEF ObedientOK
  <2>9. refusals' >= 2 => count'[Bucket(t)] <= 1
    BY <1>2, <2>4, <2>5
  <2> QED
    BY <1>2, <2>1, <2>2, <2>7, <2>8, <2>9 DEF ObedientOK
<1> QED
  BY <1>7, <1>9, <1>10, <1>11 DEF LimitInv

LEMMA LimitStep == LimitInv /\ [Next]_vars => LimitInv'
<1> SUFFICES ASSUME LimitInv, [Next]_vars PROVE LimitInv'
  OBVIOUS
<1>1. CASE UNCHANGED vars
  BY <1>1 DEF vars, redis, told, LimitInv, TypeOK, CountedOK, PromiseOK, ObedientOK
<1> QED
  BY <1>1, TickStep, ArriveStep, ExecStep DEF Next

LEMMA LimitAlways == Spec => []LimitInv
  BY LimitInit, LimitStep, PTL DEF Spec

-----------------------------------------------------------------------------
(* What follows.                                                           *)

(* The counters stay counters, and a promise is of the limit at most.      *)
THEOREM TypeCorrect == Spec => []TypeOK
<1>1. LimitInv => TypeOK
  BY DEF LimitInv
<1> QED
  BY <1>1, LimitAlways, PTL

(* X-RateLimit-Remaining: so many calls more are allowed, whenever they    *)
(* come.                                                                   *)
THEOREM RemainingIsKept == Spec => []PromiseKept
<1>1. LimitInv => PromiseKept
  <2> SUFFICES ASSUME LimitInv, NEW u \in promise.since .. now, promise.left > 0
               PROVE  Left(count, u) >= promise.left * W
    BY DEF PromiseKept
  <2>1. u \in Times /\ u >= promise.since
    <3>1. promise.since \in Nat /\ now \in Times /\ MaxTime \in Nat
      BY RateLimitAssumption DEF LimitInv, TypeOK, Times
    <3> QED
      BY <3>1 DEF Times
  <2> QED
    BY <2>1 DEF LimitInv, PromiseOK
<1> QED
  BY <1>1, LimitAlways, PTL

(* A client that obeys Retry-After is not turned away a third time.        *)
THEOREM PatienceIsServed == Spec => []ObedientIsServed
<1>1. LimitInv => ObedientIsServed
  BY DEF LimitInv, ObedientOK, ObedientIsServed
<1> QED
  BY <1>1, LimitAlways, PTL
-----------------------------------------------------------------------------
(* How many are admitted.                                                  *)
(*                                                                         *)
(* A bucket admits no two calls under one number, and numbers end at the   *)
(* limit.  What INCR returned once stands in the counter until no call of  *)
(* the bucket, or of the next one, can still be under way.                 *)

BucketOfCall(i) == Bucket(admitted[i].at)

(* No call with a reading of the bucket b or b + 1 is under way any more.  *)
LeftBehind(b) == now >= (b + 2) * W + MaxDelay

(* Redis runs a MULTI in time, and a counter outlives its calls.           *)
InTime ==
  /\ \A c \in Calls : reading[c] # NULL => now <= reading[c] + MaxDelay
  /\ \A b \in Buckets : count[b] > 0 => expires[b] >= b * W + Expiry

Numbered ==
  \A i \in DOMAIN admitted :
    /\ admitted[i].nth \in 1..Limit
    /\ admitted[i].nth <= count[BucketOfCall(i)] \/ LeftBehind(BucketOfCall(i))

NumberedApart ==
  \A i, j \in DOMAIN admitted :
    BucketOfCall(i) = BucketOfCall(j) /\ admitted[i].nth = admitted[j].nth => i = j

(* Without a race the last call of a bucket is only admitted if the bucket *)
(* before is empty, and stays so.                                          *)
LastAfterNone ==
  ~ raced => \A i, j \in DOMAIN admitted :
    BucketOfCall(j) = BucketOfCall(i) + 1 => admitted[j].nth < Limit

AdmittedOK == InTime /\ Numbered /\ NumberedApart /\ LastAfterNone

(* Two buckets on, and when they are over.                                 *)
LEMMA TwoOn ==
  ASSUME NEW b \in Nat
  PROVE  /\ b * W \in Nat /\ (b + 1) * W = b * W + W /\ (b + 2) * W = b * W + W + W
         /\ b * W + Expiry >= (b + 2) * W + MaxDelay
<1> DEFINE p == b * W
<1>1. p \in Nat /\ (b + 1) * W = p + W /\ ((b + 1) + 1) * W = (b + 1) * W + W
  BY Products, RateLimitAssumption
<1>2. (b + 1) + 1 = b + 2
  OBVIOUS
<1>3. 2 * W = W + W
  BY RateLimitAssumption
<1> HIDE DEF p
<1>4. (b + 2) * W = p + W + W
  BY <1>1, <1>2
<1>5. p + Expiry >= p + W + W + MaxDelay
  BY <1>1, <1>3, RateLimitAssumption
<1> QED
  BY <1>1, <1>4, <1>5 DEF p

LEMMA AdmittedTypes ==
  ASSUME TypeOK, NEW i \in DOMAIN admitted
  PROVE  /\ admitted[i].at \in Times /\ admitted[i].nth \in Nat
         /\ BucketOfCall(i) \in Buckets /\ BucketOfCall(i) \in Nat
<1>1. admitted[i] \in Admissions
  BY DEF TypeOK
<1>2. admitted[i].at \in Times /\ admitted[i].nth \in Nat
  BY <1>1 DEF Admissions
<1> QED
  BY <1>2, TimesAndBuckets DEF BucketOfCall

(* A call that is counted is in time: neither its own bucket nor those     *)
(* next to it are left behind.                                             *)
LEMMA NotLeftBehind ==
  ASSUME TypeOK, InTime, NEW c \in Calls, reading[c] # NULL,
         NEW b \in Nat, Bucket(reading[c]) <= b + 1
  PROVE  ~ LeftBehind(b)
<1> DEFINE t == reading[c]
<1>1. t \in Times /\ t \in Nat /\ now \in Nat /\ now <= t + MaxDelay
  BY TimesAndBuckets DEF TypeOK, InTime
<1>2. /\ Bucket(t) \in Nat /\ W * Bucket(t) \in Nat /\ t % W \in Nat /\ t % W < W
      /\ t = W * Bucket(t) + (t % W) /\ W \in Nat
  BY <1>1, BucketOf, RateLimitAssumption
<1>3. W * Bucket(t) <= (b + 1) * W
  <2>1. Bucket(t) * W <= (b + 1) * W
    BY <1>2, Products
  <2>2. W * Bucket(t) = Bucket(t) * W
    BY <1>2
  <2> QED
    BY <2>1, <2>2
<1>4. b * W \in Nat /\ (b + 1) * W = b * W + W /\ (b + 2) * W = b * W + W + W
  BY TwoOn
<1> DEFINE p == b * W  q == W * Bucket(t)  x == t % W
<1>5. /\ p \in Nat /\ q \in Nat /\ x \in Nat /\ x < W /\ t = q + x /\ q <= p + W
      /\ (b + 2) * W = p + W + W
  BY <1>2, <1>3, <1>4
<1> HIDE DEF p, q, x, t
<1>6. now < (b + 2) * W + MaxDelay
  BY <1>1, <1>2, <1>5, RateLimitAssumption
<1> QED
  BY <1>1, <1>5, <1>6, RateLimitAssumption DEF LeftBehind

(* A call that is allowed has a number up to the limit, and below it if    *)
(* the bucket before is counted in.                                        *)
LEMMA AllowedNumber ==
  ASSUME NEW counts \in Counts, NEW t \in Times, Left(counts, t) >= 0
  PROVE  /\ counts[Bucket(t)] \in Nat /\ counts[Bucket(t)] <= Limit
         /\ Before(counts, t) >= 1 => counts[Bucket(t)] < Limit
<1> DEFINE p == Before(counts, t)  y == W - (t % W)  n == counts[Bucket(t)]
           nW == n * W  LW == Limit * W  py == p * y
<1>1. /\ p \in Nat /\ n \in Nat /\ py \in Nat /\ nW \in Nat /\ LW \in Nat
      /\ LW - py - nW >= 0
  BY LeftIs
<1>2. y \in Nat /\ y >= 1 /\ W \in Nat /\ W >= 1 /\ Limit \in Nat
  BY BucketOf, TimesAndBuckets, RateLimitAssumption
<1>3. Limit < n => LW + W <= nW
  <2> HAVE Limit < n
  <2>1. Limit + 1 \in Nat /\ Limit + 1 <= n
    BY <1>1, <1>2
  <2>2. (Limit + 1) * W <= nW /\ (Limit + 1) * W = LW + W
    BY <1>1, <1>2, <2>1, Products
  <2> QED
    BY <2>2
<1>4. Limit <= n => LW <= nW
  BY <1>1, <1>2, Products
<1>5. p >= 1 => py >= 1
  <2> HAVE p >= 1
  <2>1. 1 * y <= py /\ 1 * y = y
    BY <1>1, <1>2, Products
  <2> QED
    BY <1>1, <1>2, <2>1
<1> HIDE DEF p, y, n, nW, LW, py
<1>6. n <= Limit /\ (p >= 1 => n < Limit)
  BY <1>1, <1>2, <1>3, <1>4, <1>5
<1> QED
  BY <1>1, <1>6 DEF p, n

(* Time passes: a counter that expires is left behind.                     *)
LEMMA AdmittedByTick ==
  ASSUME LimitInv, AdmittedOK, Tick
  PROVE  AdmittedOK'
<1>1. TypeOK /\ CountedOK /\ InTime /\ Numbered /\ NumberedApart /\ LastAfterNone
  BY DEF LimitInv, AdmittedOK
<1>2. /\ now \in Nat /\ now' = now + 1
      /\ UNCHANGED <<reading, expires, admitted, raced>>
      /\ \A b \in Buckets : \/ count'[b] = count[b] /\ expires[b] > now'
                            \/ count'[b] = 0 /\ expires[b] <= now'
      /\ \A b \in Buckets : expires[b] \in Nat /\ count[b] \in Nat
  BY <1>1, TimesAndBuckets DEF Tick, told, TypeOK
<1>3. InTime'
  <2>1. \A c \in Calls : reading[c] # NULL => now' <= reading[c] + MaxDelay
    <3>1. \A c \in Calls : reading[c] # NULL => reading[c] \in Nat /\ now < reading[c] + MaxDelay
      BY <1>1, TimesAndBuckets DEF Tick, TypeOK
    <3> QED
      BY <1>2, <3>1, RateLimitAssumption
  <2>2. \A b \in Buckets : count'[b] > 0 => expires[b] >= b * W + Expiry
    BY <1>1, <1>2 DEF InTime
  <2> QED
    BY <1>2, <2>1, <2>2 DEF InTime
<1>4. Numbered'
  <2> SUFFICES ASSUME NEW i \in DOMAIN admitted
               PROVE  /\ admitted[i].nth \in 1..Limit
                      /\ \/ admitted[i].nth <= count'[BucketOfCall(i)]
                         \/ now' >= (BucketOfCall(i) + 2) * W + MaxDelay
    BY <1>2 DEF Numbered, BucketOfCall, LeftBehind
  <2> DEFINE b == BucketOfCall(i)  n == admitted[i].nth
  <2>1. /\ b \in Buckets /\ b \in Nat /\ n \in Nat /\ n >= 1 /\ n \in 1..Limit
        /\ n <= count[b] \/ now >= (b + 2) * W + MaxDelay
    BY <1>1, AdmittedTypes, RateLimitAssumption DEF Numbered, LeftBehind
  <2>2. /\ b * W \in Nat /\ (b + 2) * W = b * W + W + W
        /\ b * W + Expiry >= (b + 2) * W + MaxDelay
    BY <2>1, TwoOn
  <2>3. count[b] > 0 => expires[b] >= b * W + Expiry
    BY <1>1, <2>1 DEF InTime
  <2> DEFINE p == b * W  q == (b + 2) * W
  <2>4. /\ p \in Nat /\ q = p + W + W /\ p + Expiry >= q + MaxDelay
        /\ count[b] > 0 => expires[b] >= p + Expiry
        /\ n <= count[b] \/ now >= q + MaxDelay
    BY <2>1, <2>2, <2>3
  <2>5. /\ expires[b] \in Nat /\ count[b] \in Nat
        /\ \/ count'[b] = count[b] /\ expires[b] > now'
           \/ count'[b] = 0 /\ expires[b] <= now'
    BY <1>2, <2>1
  <2> HIDE DEF b, n, p, q
  <2>6. n <= count'[b] \/ now' >= q + MaxDelay
    BY <1>2, <2>1, <2>4, <2>5, RateLimitAssumption
  <2> QED
    BY <2>1, <2>6 DEF b, n, q
<1>5. NumberedApart' /\ LastAfterNone'
  BY <1>1, <1>2 DEF NumberedApart, LastAfterNone, BucketOfCall
<1> QED
  BY <1>3, <1>4, <1>5 DEF AdmittedOK

LEMMA AdmittedByArrive ==
  ASSUME LimitInv, AdmittedOK, NEW c \in Calls, Arrive(c)
  PROVE  AdmittedOK'
<1>1. /\ now \in Nat /\ reading' = [reading EXCEPT ![c] = now]
      /\ UNCHANGED <<now, count, expires, admitted, raced>>
  BY TimesAndBuckets DEF Arrive, redis, told, LimitInv, TypeOK
<1>2. InTime'
  <2>1. \A d \in Calls : reading'[d] # NULL => now <= reading'[d] + MaxDelay
    BY <1>1, RateLimitAssumption DEF LimitInv, TypeOK, AdmittedOK, InTime
  <2> QED
    BY <1>1, <2>1 DEF AdmittedOK, InTime
<1>3. Numbered' /\ NumberedApart' /\ LastAfterNone'
  BY <1>1 DEF AdmittedOK, Numbered, NumberedApart, LastAfterNone, BucketOfCall, LeftBehind
<1> QED
  BY <1>2, <1>3 DEF AdmittedOK
(* A call that is allowed is the first of its number in its bucket; and if *)
(* it is the last of its bucket, it is either the first of the two buckets *)
(* or has raced.                                                           *)
LEMMA AdmittedByExec ==
  ASSUME LimitInv, AdmittedOK, NEW c \in Calls, Exec(c)
  PROVE  AdmittedOK'
<1> DEFINE t == reading[c]
           b == Bucket(t)
           counted == [count EXCEPT ![b] = @ + 1]
           new == [at |-> t, nth |-> counted[b]]
<1>1. TypeOK /\ InTime /\ Numbered /\ NumberedApart /\ LastAfterNone
  BY DEF LimitInv, AdmittedOK
<1>2. /\ t # NULL /\ count' = counted
      /\ expires' = [expires EXCEPT ![b] = now + Expiry]
      /\ reading' = [reading EXCEPT ![c] = NULL]
      /\ admitted' = IF Allows(counted, t) THEN Append(admitted, new) ELSE admitted
      /\ raced' = (raced \/ \E d \in Buckets : d > b /\ count[d] > 0)
      /\ UNCHANGED now
  BY DEF Exec
<1>3. /\ t \in Times /\ t \in Nat /\ b \in Buckets /\ b \in Nat /\ now \in Nat /\ t <= now
      /\ \A d \in Buckets : count[d] \in Nat /\ expires[d] \in Nat
  BY <1>1, <1>2, TimesAndBuckets DEF TypeOK, LimitInv, CountedOK
<1>4. counted \in Counts /\ counted[b] = count[b] + 1
      /\ \A d \in Buckets : count[d] <= counted[d] /\ (d # b => counted[d] = count[d])
  BY <1>1, <1>3 DEF TypeOK, Counts
<1>5. InTime'
  <2>1. b * W <= t
    <3>1. b * W = W * b /\ W * b \in Nat /\ t % W \in Nat /\ t = W * b + (t % W)
      <4>1. /\ b \in Nat /\ W * b \in Nat /\ t % W \in Nat
            /\ t = W * b + (t % W) /\ W \in Nat
        BY <1>3, BucketOf, RateLimitAssumption
      <4>2. W * b = b * W
        BY <4>1
      <4> QED
        BY <4>1, <4>2
    <3> DEFINE p == W * b  x == t % W
    <3>2. p \in Nat /\ x \in Nat /\ t = p + x
      BY <3>1
    <3> HIDE DEF p, x, t
    <3>3. p <= t
      BY <3>2
    <3> QED
      BY <3>1, <3>3 DEF p
  <2>2. now + Expiry >= b * W + Expiry
    <3> DEFINE p == b * W
    <3>1. p \in Nat /\ p <= t
      BY <1>3, <2>1, TwoOn
    <3> HIDE DEF p, t
    <3>2. now + Expiry >= p + Expiry
      BY <1>3, <3>1, RateLimitAssumption
    <3> QED
      BY <3>2 DEF p
  <2>3. expires'[b] = now + Expiry /\ \A d \in Buckets \ {b} : expires'[d] = expires[d]
    BY <1>1, <1>2, <1>3 DEF TypeOK
  <2>4. \A d \in Buckets : counted[d] > 0 => expires'[d] >= d * W + Expiry
    BY <1>1, <1>4, <2>2, <2>3 DEF InTime
  <2>5. \A d \in Calls : reading'[d] # NULL => now <= reading'[d] + MaxDelay
    BY <1>1, <1>2 DEF InTime, TypeOK
  <2> QED
    BY <1>2, <2>4, <2>5 DEF InTime
(* What was admitted in this bucket or next to it is in the counters.      *)
<1>6. ASSUME NEW i \in DOMAIN admitted, b <= BucketOfCall(i) + 1
      PROVE  admitted[i].nth <= count[BucketOfCall(i)] /\ count[BucketOfCall(i)] >= 1
  <2>1. BucketOfCall(i) \in Nat /\ BucketOfCall(i) \in Buckets /\ admitted[i].nth \in Nat
    BY <1>1, AdmittedTypes
  <2>2. ~ LeftBehind(BucketOfCall(i))
    BY <1>1, <1>2, <1>6, <2>1, NotLeftBehind
  <2>3. admitted[i].nth <= count[BucketOfCall(i)] /\ admitted[i].nth >= 1
    BY <1>1, <2>2, RateLimitAssumption DEF Numbered
  <2> QED
    BY <1>3, <2>1, <2>3
<1>7. ASSUME UNCHANGED admitted
      PROVE  AdmittedOK'
  <2>1. Numbered'
    <3>1. \A i \in DOMAIN admitted : BucketOfCall(i) \in Buckets /\ admitted[i].nth \in Nat
      BY <1>1, AdmittedTypes
    <3>2. \A i \in DOMAIN admitted : admitted[i].nth <= count[BucketOfCall(i)] =>
                                     admitted[i].nth <= counted[BucketOfCall(i)]
      BY <1>3, <1>4, <3>1 DEF Counts
    <3> HIDE DEF counted, t
    <3> QED
      BY <1>1, <1>2, <1>7, <3>2 DEF Numbered, BucketOfCall, LeftBehind
  <2>2. NumberedApart' /\ LastAfterNone'
    BY <1>1, <1>2, <1>7 DEF NumberedApart, LastAfterNone, BucketOfCall
  <2> QED
    BY <1>5, <2>1, <2>2 DEF AdmittedOK
<1>8. ASSUME Allows(counted, t)
      PROVE  AdmittedOK'
  <2> DEFINE n == Len(admitted)
  <2>1. new.at = t /\ new.nth = counted[b] /\ new \in Admissions
    BY <1>3, <1>4 DEF Counts, Admissions
  <2> HIDE DEF new
  <2>2. /\ n \in Nat /\ DOMAIN admitted = 1..n /\ DOMAIN admitted' = 1..n + 1
        /\ admitted'[n + 1] = new
        /\ \A i \in DOMAIN admitted : admitted'[i] = admitted[i]
    <3>1. admitted \in Seq(Admissions) /\ admitted' = Append(admitted, new)
      BY <1>1, <1>2, <1>8 DEF TypeOK
    <3> QED
      BY <2>1, <3>1
  <2>3. /\ \A i \in DOMAIN admitted' : i \in DOMAIN admitted \/ i = n + 1
        /\ n + 1 \notin DOMAIN admitted
    BY <2>2
  <2> DEFINE bucket(i) == Bucket(admitted'[i].at)
  <2>4. /\ bucket(n + 1) = b /\ admitted'[n + 1].nth = count[b] + 1
        /\ \A i \in DOMAIN admitted : /\ bucket(i) = BucketOfCall(i)
                                      /\ admitted'[i].nth = admitted[i].nth
    BY <1>4, <2>1, <2>2 DEF BucketOfCall
  <2>5. Left(counted, t) >= 0
    BY <1>8 DEF Allows
  <2>6. /\ count[b] + 1 <= Limit /\ count[b] \in Nat
        /\ Before(counted, t) >= 1 => count[b] + 1 < Limit
    BY <1>3, <1>4, <2>5, AllowedNumber
  <2>7. \A i \in DOMAIN admitted : BucketOfCall(i) \in Buckets /\ BucketOfCall(i) \in Nat
                                   /\ admitted[i].nth \in Nat
    BY <1>1, AdmittedTypes
  <2> HIDE DEF n, bucket, counted, b, t
  <2>8. Numbered'
    <3>1. \A i \in DOMAIN admitted' :
            /\ admitted'[i].nth \in 1..Limit
            /\ admitted'[i].nth <= counted[bucket(i)] \/ LeftBehind(bucket(i))
      <4>1. \A i \in DOMAIN admitted :
              /\ admitted[i].nth \in 1..Limit
              /\ admitted[i].nth <= counted[BucketOfCall(i)] \/ LeftBehind(BucketOfCall(i))
        BY <1>1, <1>3, <1>4, <2>7 DEF Numbered, Counts
      <4>2. count[b] + 1 \in 1..Limit
        BY <2>6, RateLimitAssumption
      <4> QED
        BY <1>4, <2>3, <2>4, <4>1, <4>2
    <3> QED
      BY <1>2, <3>1 DEF Numbered, BucketOfCall, LeftBehind, bucket
  <2>9. NumberedApart'
    <3>1. \A i \in DOMAIN admitted : BucketOfCall(i) = b => admitted[i].nth <= count[b]
      BY <1>3, <1>6
    <3>2. \A i \in DOMAIN admitted : BucketOfCall(i) = b => admitted[i].nth # count[b] + 1
      BY <1>3, <2>6, <2>7, <3>1
    <3>3. \A i, j \in DOMAIN admitted' :
            bucket(i) = bucket(j) /\ admitted'[i].nth = admitted'[j].nth => i = j
      BY <1>1, <2>3, <2>4, <3>2 DEF NumberedApart
    <3> QED
      BY <3>3 DEF NumberedApart, BucketOfCall, bucket
  <2>10. LastAfterNone'
    <3>1. ASSUME NEW i \in DOMAIN admitted, b = BucketOfCall(i) + 1
          PROVE  count[b] + 1 < Limit
      <4>1. count[BucketOfCall(i)] >= 1 /\ BucketOfCall(i) \in Buckets /\ BucketOfCall(i) \in Nat
        BY <1>3, <1>6, <2>7, <3>1
      <4>2. Before(counted, t) >= 1
        BY <1>3, <1>4, <3>1, <4>1 DEF Before, b
      <4> QED
        BY <2>6, <4>2
    <3>2. ASSUME NEW j \in DOMAIN admitted, BucketOfCall(j) = b + 1
          PROVE  raced'
      <4>1. BucketOfCall(j) \in Buckets /\ BucketOfCall(j) > b /\ b <= BucketOfCall(j) + 1
        BY <1>3, <2>7, <3>2
      <4>2. count[BucketOfCall(j)] >= 1 /\ count[BucketOfCall(j)] \in Nat
        <5>1. count[BucketOfCall(j)] >= 1
          BY <1>6, <4>1
        <5> QED
          BY <1>3, <4>1, <5>1
      <4>3. \E d \in Buckets : d > b /\ count[d] > 0
        BY <4>1, <4>2
      <4> QED
        BY <1>2, <4>3, Zenon
    <3>3. b # b + 1
      BY <1>3
    <3>4. raced => raced'
      BY <1>2
    <3>5. ~ raced' => \A i, j \in DOMAIN admitted' :
            bucket(j) = bucket(i) + 1 => admitted'[j].nth < Limit
      BY <1>1, <2>3, <2>4, <3>1, <3>2, <3>3, <3>4 DEF LastAfterNone
    <3> QED
      BY <3>5 DEF LastAfterNone, BucketOfCall, bucket
  <2> QED
    BY <1>5, <2>8, <2>9, <2>10 DEF AdmittedOK
<1> QED
  BY <1>2, <1>7, <1>8

LEMMA AdmittedAlways == Spec => [](LimitInv /\ AdmittedOK)
<1>1. Init => AdmittedOK
  BY DEF Init, AdmittedOK, InTime, Numbered, NumberedApart, LastAfterNone
<1>2. LimitInv /\ AdmittedOK /\ [Next]_vars => AdmittedOK'
  <2> SUFFICES ASSUME LimitInv, AdmittedOK, [Next]_vars PROVE AdmittedOK'
    OBVIOUS
  <2>1. CASE UNCHANGED vars
    BY <2>1 DEF vars, redis, told, AdmittedOK, InTime, Numbered, NumberedApart, LastAfterNone,
                BucketOfCall, LeftBehind
  <2> QED
    BY <2>1, AdmittedByTick, AdmittedByArrive, AdmittedByExec DEF Next
<1> QED
  BY <1>1, <1>2, LimitInit, LimitStep, PTL DEF Spec

-----------------------------------------------------------------------------
(* So much for the buckets; a window meets two of them.                    *)

OfBucket(b) == {i \in DOMAIN admitted : BucketOfCall(i) = b}

(* Numbers that differ and end at n: no more than n calls.                 *)
LEMMA BucketBound ==
  ASSUME TypeOK, AdmittedOK, NEW b, NEW n \in Nat,
         \A i \in OfBucket(b) : admitted[i].nth <= n
  PROVE  /\ IsFiniteSet(OfBucket(b)) /\ Cardinality(OfBucket(b)) \in Nat
         /\ Cardinality(OfBucket(b)) <= n
<1> DEFINE f == [i \in OfBucket(b) |-> admitted[i].nth]
<1>1. \A i \in OfBucket(b) : admitted[i].nth \in 1..n
  BY RateLimitAssumption DEF AdmittedOK, Numbered, OfBucket
<1>2. f \in Injection(OfBucket(b), 1..n)
  <2>1. f \in [OfBucket(b) -> 1..n]
    BY <1>1
  <2>2. \A i, j \in OfBucket(b) : f[i] = f[j] => i = j
    BY DEF AdmittedOK, NumberedApart, OfBucket
  <2> HIDE DEF f
  <2> QED
    BY <2>1, <2>2 DEF Injection, IsInjective
<1>3. IsFiniteSet(1..n) /\ Cardinality(1..n) = n
  BY FS_Interval
<1> QED
  BY <1>2, <1>3, FS_Injection, FS_CardinalityType

(* The W ticks from t on are of the bucket of t and of the next, and of    *)
(* one bucket if t begins it.                                              *)
LEMMA WindowBuckets ==
  ASSUME NEW t \in Nat, NEW u \in Nat, t <= u, u < t + W
  PROVE  /\ Bucket(u) \in {Bucket(t), Bucket(t) + 1}
         /\ t % W = 0 => Bucket(u) = Bucket(t)
<1> DEFINE b == Bucket(t)  d == Bucket(u)
           p == W * b  q == W * d  x == t % W  y == u % W
<1>1. /\ b \in Nat /\ d \in Nat /\ b <= d /\ p \in Nat /\ q \in Nat /\ W \in Nat
      /\ x \in Nat /\ x < W /\ t = p + x /\ y \in Nat /\ y < W /\ u = q + y
  BY BucketOf, BucketsGrow, RateLimitAssumption
<1>2. W * (b + 1) = p + W /\ W * ((b + 1) + 1) = W * (b + 1) + W
  BY <1>1, Products
<1>3. b + 1 <= d => p + W <= q
  BY <1>1, <1>2, Products
<1>4. (b + 1) + 1 <= d => p + W + W <= q
  BY <1>1, <1>2, Products
<1> HIDE DEF b, d, p, q, x, y
<1>5. d \in {b, b + 1} /\ (x = 0 => d = b)
  BY <1>1, <1>3, <1>4
<1> QED
  BY <1>5 DEF b, d, x

(* No bucket admits more calls than the limit, no window twice as many     *)
(* unless calls raced, and none more than that.                            *)
THEOREM AdmissionsAreLimited == Spec => []WithinLimit
<1>1. LimitInv /\ AdmittedOK => WithinLimit
  <2> SUFFICES ASSUME TypeOK, AdmittedOK, NEW t \in Times
               PROVE  AdmittedFrom(t) <= IF t % W = 0 THEN Limit
                                         ELSE IF raced THEN 2 * Limit ELSE 2 * Limit - 1
    BY DEF LimitInv, WithinLimit
  <2> DEFINE b == Bucket(t)
             S == {i \in DOMAIN admitted : t <= admitted[i].at /\ admitted[i].at < t + W}
             A == OfBucket(b)  B == OfBucket(b + 1)
  <2>1. t \in Nat /\ b \in Nat /\ Limit \in Nat /\ Limit >= 1
    BY BucketOf, TimesAndBuckets, RateLimitAssumption
  <2>2. S \subseteq A \cup B /\ (t % W = 0 => S \subseteq A)
    <3>1. \A i \in DOMAIN admitted : admitted[i].at \in Nat
      BY AdmittedTypes, TimesAndBuckets
    <3> QED
      BY <2>1, <3>1, WindowBuckets DEF OfBucket, BucketOfCall
  <2>3. \A i \in DOMAIN admitted : admitted[i].nth \in Nat /\ admitted[i].nth <= Limit
    BY RateLimitAssumption DEF AdmittedOK, Numbered
  <2>4. /\ IsFiniteSet(A) /\ Cardinality(A) \in Nat /\ Cardinality(A) <= Limit
        /\ IsFiniteSet(B) /\ Cardinality(B) \in Nat /\ Cardinality(B) <= Limit
    BY <2>1, <2>3, BucketBound DEF OfBucket
  <2>5. A \cap B = {}
    BY <2>1 DEF OfBucket
  <2>6. /\ IsFiniteSet(A \cup B)
        /\ Cardinality(A \cup B) = Cardinality(A) + Cardinality(B) - Cardinality(A \cap B)
    BY <2>4, FS_Union
  <2>7. Cardinality(A \cap B) = 0
    BY <2>5, FS_EmptySet
  <2>8. /\ Cardinality(S) \in Nat /\ Cardinality(S) <= Cardinality(A) + Cardinality(B)
        /\ t % W = 0 => Cardinality(S) <= Cardinality(A)
    <3>1. S \in SUBSET (A \cup B)
      BY <2>2
    <3>2. IsFiniteSet(S) /\ Cardinality(S) <= Cardinality(A \cup B)
      BY <2>6, <3>1, FS_Subset
    <3>3. t % W = 0 => Cardinality(S) <= Cardinality(A)
      BY <2>2, <2>4, FS_Subset
    <3>4. Cardinality(S) \in Nat
      BY <3>2, FS_CardinalityType
    <3> HIDE DEF S, A, B
    <3> QED
      BY <2>4, <2>6, <2>7, <3>2, <3>3, <3>4
(* Without a race: an empty bucket, or one without its last call.          *)
  <2>9. ~ raced => Cardinality(A) + Cardinality(B) <= 2 * Limit - 1
    <3> HAVE ~ raced
    <3>1. CASE A = {}
      <4>1. Cardinality(A) = 0
        BY <3>1, FS_EmptySet
      <4> HIDE DEF A, B
      <4> QED
        BY <2>1, <2>4, <4>1
    <3>2. CASE A # {}
      <4>1. PICK i \in A : TRUE
        BY <3>2
      <4>2. \A j \in B : admitted[j].nth < Limit
        BY <4>1 DEF AdmittedOK, LastAfterNone, OfBucket
      <4>3. Limit - 1 \in Nat /\ \A j \in B : admitted[j].nth <= Limit - 1
        BY <2>1, <2>3, <4>2 DEF OfBucket
      <4>4. Cardinality(B) <= Limit - 1
        BY <4>3, BucketBound
      <4> HIDE DEF A, B
      <4> QED
        BY <2>1, <2>4, <4>4
    <3> QED
      BY <3>1, <3>2
  <2>10. AdmittedFrom(t) = Cardinality(S)
    BY DEF AdmittedFrom
  <2> HIDE DEF S, A, B
  <2> QED
    BY <2>1, <2>4, <2>8, <2>9, <2>10
<1> QED
  BY <1>1, AdmittedAlways, PTL
=============================================================================
