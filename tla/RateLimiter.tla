------------------------------ MODULE RateLimiter ------------------------------
(***************************************************************************)
(* The token bucket of one key: in memory (core/src/capabilities/          *)
(* rate-limiter.ts), or in Redis (redis-rate-limiter.ts), where each       *)
(* client brings its own clock and the key expires, and the authentication *)
(* (auth.ts, jwt-auth.ts) that spends one token for an attempt and clears  *)
(* the bucket when the attempt succeeds.                                   *)
(***************************************************************************)
EXTENDS Integers

CONSTANTS
  MaxTokens, Interval,  \* refillInterval, in ticks
  RateNum, RateDen,     \* refillRate: RateNum / RateDen tokens per interval
  Skews,                \* how far the clocks of the clients are from the real one
  Expires,              \* the bucket is a key of Redis
  Slack                 \* what the TTL adds, 60 seconds

RateAssumption ==
  /\ MaxTokens \in Nat \ {0} /\ Interval \in Nat \ {0}
  /\ RateNum \in Nat \ {0} /\ RateDen \in Nat \ {0} /\ Slack \in Nat
  /\ 0 \in Skews /\ \A s \in Skews : s \in Int /\ -s \in Skews
  /\ \E m \in Skews : \A s \in Skews : s <= m
  /\ Expires \in BOOLEAN

VARIABLES
  bucket,  \* [tokens, age]: lastRefill is age ticks ago, or NoBucket
  idle,    \* ticks since the key was written
  last     \* what happened last
vars == <<bucket, idle, last>>

NoBucket == [tokens |-> -1, age |-> 0]
MaxSkew == CHOOSE s \in Skews : \A t \in Skews : t <= s
Least(a, b) == IF a <= b THEN a ELSE b

Unit == Interval * RateDen
\* floor((elapsed / refillInterval) * refillRate)
TokensToAdd(elapsed) == IF elapsed > 0 THEN (elapsed * RateNum) \div Unit ELSE 0

\* ceil(maxTokens / max(refillRate, 1) * interval * 2) + slack
Ttl ==
  LET rate == IF RateNum > RateDen THEN RateNum ELSE RateDen
  IN (2 * MaxTokens * Interval * RateDen + rate - 1) \div rate + Slack

\* After this long every bucket is full, whoever looks: ages beyond are one.
FullAge == (MaxTokens * Unit) \div RateNum + 1 + MaxSkew

\* Of Redis: a token or more comes in an interval, and two clocks differ by no more than
\* the TTL adds.
ExpiryAssumption == Expires => RateNum >= RateDen /\ 2 * MaxSkew <= Slack

TypeOK ==
  /\ bucket = NoBucket \/ bucket.tokens \in 0 .. MaxTokens
  /\ bucket.age \in -MaxSkew .. FullAge
  /\ idle \in 0 .. Ttl

Init == bucket = NoBucket /\ idle = 0 /\ last = "reset"

\* The mistake of moving lastRefill at every call.
RefilledAlways(b, s) ==
  IF b = NoBucket THEN [tokens |-> MaxTokens, age |-> -s]
  ELSE [tokens |-> Least(MaxTokens, b.tokens + TokensToAdd(b.age + s)), age |-> -s]

\* The mistake of keeping the time of the last refill.
RefilledTwice(b, s) ==
  IF b = NoBucket THEN [tokens |-> MaxTokens, age |-> -s]
  ELSE [b EXCEPT !.tokens = Least(MaxTokens, b.tokens + TokensToAdd(b.age + s))]

\* The bucket as a client whose clock is s ahead brings it up to date.
Refilled(b, s) ==
  LET added == TokensToAdd(b.age + s)
  IN IF b = NoBucket THEN [tokens |-> MaxTokens, age |-> -s]
     ELSE IF added > 0 THEN [tokens |-> Least(MaxTokens, b.tokens + added), age |-> -s]
     ELSE b

\* In memory, remaining does not bring the bucket up to date.
Remaining(b, s) ==
  IF b = NoBucket THEN MaxTokens
  ELSE IF Expires THEN Refilled(b, s).tokens ELSE b.tokens

\* One script in Redis, one synchronous call in memory.  An attempt with a valid key
\* or token (valid) clears the bucket after it has spent a token.
Consume(s, valid) ==
  LET b == Refilled(bucket, s)
  IN /\ idle' = 0
     /\ IF b.tokens = 0 THEN bucket' = b /\ last' = "refused"
        ELSE IF valid THEN bucket' = NoBucket /\ last' = "reset"
        ELSE bucket' = [b EXCEPT !.tokens = @ - 1] /\ last' = "granted"

Tick ==
  /\ last' = "tick"
  /\ IF Expires /\ bucket # NoBucket /\ idle + 1 >= Ttl
     THEN bucket' = NoBucket /\ idle' = 0
     ELSE /\ bucket' = IF bucket = NoBucket THEN bucket
                       ELSE [bucket EXCEPT !.age = Least(@ + 1, FullAge)]
          /\ idle' = IF Expires /\ bucket # NoBucket THEN idle + 1 ELSE 0

Next == Tick \/ \E s \in Skews, valid \in BOOLEAN : Consume(s, valid)

Spec == Init /\ [][Next]_vars

\* A client that is refused asks again, as often as it likes; time passes.
FairSpec == Spec /\ WF_vars(Tick) /\ WF_vars(Consume(0, FALSE))

-----------------------------------------------------------------------------
(* Properties *)

\* A bucket holds maxTokens and what two clocks can differ by.
Capacity == MaxTokens * Unit + 2 * MaxSkew * RateNum
Ideal == INSTANCE IdealBucket WITH
  level <- IF bucket = NoBucket THEN Capacity
           ELSE Least(bucket.tokens * Unit + (bucket.age + MaxSkew) * RateNum, Capacity),
  Start <- Capacity, Flow <- RateNum
\* No sequence of calls, of clients whose clocks differ, is let through more often
\* than the ideal bucket lets it: fractions are lost and never gained, a bucket that
\* keeps the age of its last refill gains nothing from it, and a key that expired was
\* full (for a rate of one token per interval or more).
LimitsRate == Ideal!Spec

\* What remaining says is there, the next call of the same client gets.
RemainingIsThere ==
  \A s \in Skews : Remaining(bucket, s) > 0 => Refilled(bucket, s).tokens > 0

\* A client that keeps asking, however often, is let through again and again: asking
\* does not put the refill off.
AskerIsServed == []<>(last \in {"granted", "reset"})
=================================================================================
