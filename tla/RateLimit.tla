------------------------------ MODULE RateLimit ------------------------------
(***************************************************************************)
(* check() of src/src/ratelimit.js for one key: a sliding window over two  *)
(* fixed buckets.  A worker reads the clock, then sends one MULTI to Redis *)
(* that counts the call in the bucket of that reading and reads the bucket *)
(* before; Redis runs it a little later, and those of other calls may come *)
(* first.  The workers run on one host and read one clock.                 *)
(*                                                                         *)
(* Redis is external: MULTI is atomic, and a key is gone when it expires.  *)
(***************************************************************************)
EXTENDS Integers, Sequences, FiniteSets

CONSTANTS
  W,        \* windowMs, in ticks of the clock
  Expiry,   \* after which a bucket that is not counted in is forgotten
  Limit,    \* limitPerMin
  MaxDelay, \* Redis runs a MULTI within so many ticks
  Calls,    \* bound: calls under way at one time
  MaxCount, \* bound: calls counted in one bucket
  MaxTime,  \* bound of the clock
  NULL

(* The expiry is two windows and ten seconds: the delay may use up those.  *)
ASSUME RateLimitAssumption ==
  /\ W \in Nat \ {0} /\ Limit \in Nat \ {0} /\ MaxCount \in Nat /\ MaxTime \in Nat
  /\ Expiry \in Nat /\ MaxDelay \in Nat /\ MaxDelay <= Expiry - 2 * W
  /\ NULL \notin Nat

VARIABLES
  now,
  obeys,    \* does one client make all the calls, and obey Retry-After?
  reading,  \* the clock as a call under way has read it
  count,    \* Redis: the counter of each bucket, 0: no such key
  expires,  \* Redis: when it expires
  admitted, \* history: the calls allowed: their reading, and what INCR returned
  promise,  \* what the last answer has left to its client, and as of when
  wait,     \* when the client that was refused may come again
  refusals, \* history: refusals since a call was allowed
  raced     \* history: was a call counted after one of a later bucket?

redis == <<count, expires>>
told == <<admitted, promise, wait, refusals, raced>>
vars == <<now, obeys, reading, redis, told>>

Times == 0..MaxTime
Bucket(t) == t \div W
Buckets == 0..Bucket(MaxTime)
Admissions == [at : Times, nth : Nat]

(* The type invariant.                                                     *)
TypeOK ==
  /\ now \in Times
  /\ obeys \in BOOLEAN
  /\ reading \in [Calls -> Times \cup {NULL}]
  /\ count \in [Buckets -> Nat] /\ expires \in [Buckets -> Nat]
  /\ admitted \in Seq(Admissions)
  /\ promise \in [since : Times, left : 0..Limit]
  /\ wait \in Nat /\ refusals \in Nat /\ raced \in BOOLEAN

Init ==
  /\ now = 0
  /\ obeys \in BOOLEAN
  /\ reading = [c \in Calls |-> NULL]
  /\ count = [b \in Buckets |-> 0] /\ expires = [b \in Buckets |-> 0]
  /\ admitted = <<>>
  /\ promise = [since |-> 0, left |-> 0]
  /\ wait = 0 /\ refusals = 0 /\ raced = FALSE

(* A key that expires is gone.                                             *)
Tick ==
  /\ now < MaxTime
  /\ \A c \in Calls : reading[c] # NULL => now < reading[c] + MaxDelay
  /\ now' = now + 1
  /\ count' = [b \in Buckets |-> IF expires[b] <= now' THEN 0 ELSE count[b]]
  /\ UNCHANGED <<obeys, reading, expires, told>>

(* Date.now()                                                              *)
Arrive(c) ==
  /\ reading[c] = NULL /\ count[Bucket(now)] < MaxCount
  /\ obeys => now >= wait /\ \A d \in Calls : reading[d] = NULL
  /\ reading' = [reading EXCEPT ![c] = now]
  /\ UNCHANGED <<now, obeys, redis, told>>

(* The bucket before, as GET finds it.                                     *)
Before(counts, t) == IF Bucket(t) = 0 THEN 0 ELSE counts[Bucket(t) - 1]

(* What is left of the limit for a call at t, W-fold: the bucket before    *)
(* counts by the part of it that the window still covers.                  *)
Left(counts, t) ==
  Limit * W - Before(counts, t) * (W - (t % W)) - counts[Bucket(t)] * W

(* Mutant: the call itself is not counted.                                 *)
AllowsOneMore(counts, t) == Left(counts, t) + W >= 0

Allows(counts, t) == Left(counts, t) >= 0

(* Mutant: the bucket before is forgotten.                                 *)
RemainingOfBucket(counts, t) ==
  IF counts[Bucket(t)] > Limit THEN 0 ELSE Limit - counts[Bucket(t)]

(* Mutant: not cut off at zero.                                            *)
RemainingUncut(counts, t) == Left(counts, t) \div W

Remaining(counts, t) == IF Left(counts, t) < 0 THEN 0 ELSE Left(counts, t) \div W

(* Mutant: the part of the window that is over.                            *)
RetryAfterElapsed(t) == t % W

(* Until the next bucket begins.                                           *)
RetryAfter(t) == (Bucket(t) + 1) * W - t

(* INCR, EXPIRE and GET, then the answer.                                  *)
Exec(c) ==
  LET t == reading[c]
      counted == [count EXCEPT ![Bucket(t)] = @ + 1]
      allowed == Allows(counted, t)
  IN  /\ t # NULL
      /\ count' = counted
      /\ expires' = [expires EXCEPT ![Bucket(t)] = now + Expiry]
      /\ reading' = [reading EXCEPT ![c] = NULL]
      /\ admitted' = IF allowed THEN Append(admitted, [at |-> t, nth |-> counted[Bucket(t)]])
                    ELSE admitted
      /\ promise' = IF t >= promise.since THEN [since |-> t, left |-> Remaining(counted, t)]
                    ELSE [promise EXCEPT !.left = IF @ = 0 THEN 0 ELSE @ - 1]
      /\ wait' = IF allowed THEN wait ELSE now + RetryAfter(t)
      /\ refusals' = IF allowed THEN 0 ELSE refusals + 1
      /\ raced' = (raced \/ \E b \in Buckets : b > Bucket(t) /\ count[b] > 0)
      /\ UNCHANGED <<now, obeys>>

Next == Tick \/ \E c \in Calls : Arrive(c) \/ Exec(c)

Spec == Init /\ [][Next]_vars

-----------------------------------------------------------------------------
(* Properties.                                                             *)

(* The calls allowed of the W ticks from t on.                             *)
AdmittedFrom(t) ==
  Cardinality({i \in DOMAIN admitted : t <= admitted[i].at /\ admitted[i].at < t + W})

(* Of the calls of one bucket no more are allowed than the limit, and of a *)
(* window that begins anywhere less than twice as many: twice as many only *)
(* if calls of two buckets were counted in the wrong order, before the     *)
(* limit's weighting could see them (ratelimit.js:20-21, 36-42).           *)
WithinLimit ==
  \A t \in Times :
    AdmittedFrom(t) <= IF t % W = 0 THEN Limit
                       ELSE IF raced THEN 2 * Limit ELSE 2 * Limit - 1

(* X-RateLimit-Remaining is a promise: so many calls more are allowed,     *)
(* whenever they come, in this window or a later one; each call of         *)
(* anybody's takes at most one of them (ratelimit.js:41).                  *)
PromiseKept ==
  \A t \in promise.since..now : promise.left > 0 => Left(count, t) >= promise.left * W

(* A client that waits for Retry-After is refused twice at most: its       *)
(* refused calls are counted too, and weigh on the next bucket, but not on *)
(* the one after (ratelimit.js:32, 38, 45).  With a limit of one call the  *)
(* bucket before is always full, and the client may be refused forever.    *)
ObedientIsServed == obeys /\ Limit >= 2 => refusals <= 2
=============================================================================
