---------------------------- MODULE PerimeterProofs ----------------------------
(* What the perimeter keeps, for any cards, requests, rates and clocks; and what *)
(* the SQLite store of the approvals keeps, whatever processes share its file.   *)
EXTENDS SqliteApproval, MCPerimeter, FiniteSetTheorems, SequenceTheorems, NaturalsInduction,
        WellFoundedInduction, TLAPS

-----------------------------------------------------------------------------
(* The parts of the perimeter *)

LEMMA PerimeterSteps ==
  [MCNext]_mcVars =>
    /\ [part = "cards" /\ Policies!Next]_<<part, cardVars>>
    /\ [part = "limit" /\ Limit!Next]_<<part, limitVars>>
    /\ [part = "rules" /\ Analysis!AddRule]_<<part, rulesVars>>
    /\ [part = "auth" /\ Auth!AuthNext]_<<part, authVars>>
    /\ [part = "dashboard" /\ Dashboard!Next]_<<part, dashboardVars>>
    /\ [part = "profile" /\ Knowledge!SessionNext]_<<part, profileVars>>
    /\ [part = "front" /\ Knowledge!RequestNext]_<<part, frontVars>>
BY DEF MCNext, mcVars

LEMMA LeastOfSome ==
  ASSUME NEW S \in SUBSET Nat, S # {}
  PROVE  \E i \in S : \A j \in S : i <= j
<1>1. PICK i \in S : \A j \in S : ~(<<j, i>> \in OpToRel(<, Nat))
  BY NatLessThanWellFounded, WFMin
<1>2. \A j \in S : ~(j < i)
  BY <1>1, Zenon DEF OpToRel
<1> QED BY <1>2

-----------------------------------------------------------------------------
(* Rate limits *)

LEMMA DivBounds ==
  ASSUME NEW x \in Nat, NEW n \in Nat \ {0}
  PROVE  x \div n \in Nat /\ n * (x \div n) <= x /\ x < n * (x \div n) + n
OBVIOUS

LEMMA Distributes == \A a, b, c \in Int : (a + b) * c = a * c + b * c
OBVIOUS

LEMMA Grows == \A a, b \in Int, c \in Nat : a <= b => a * c <= b * c
OBVIOUS

LEMMA SkewFacts ==
  /\ Limit!MaxSkew \in Nat /\ Limit!MaxSkew \in Skews
  /\ \A s \in Skews : s \in Int /\ -Limit!MaxSkew <= s /\ s <= Limit!MaxSkew
<1>1. PICK m \in Skews : \A s \in Skews : s <= m
  BY MCAssumption DEF Limit!RateAssumption
<1>2. Limit!MaxSkew \in Skews /\ \A s \in Skews : s <= Limit!MaxSkew
  BY <1>1 DEF Limit!MaxSkew
<1>3. 0 \in Skews /\ \A s \in Skews : s \in Int /\ -s \in Skews
  BY MCAssumption DEF Limit!RateAssumption
<1> HIDE DEF Limit!MaxSkew
<1>4. ASSUME NEW s \in Skews PROVE s \in Int /\ -Limit!MaxSkew <= s /\ s <= Limit!MaxSkew
  <2>1. s \in Int /\ -s \in Skews /\ Limit!MaxSkew \in Int
    BY <1>2, <1>3
  <2>2. -s <= Limit!MaxSkew /\ s <= Limit!MaxSkew
    BY <1>2, <2>1
  <2> QED BY <2>1, <2>2
<1> QED BY <1>2, <1>3, <1>4

\* What a bucket holds, a token in units and the time since its last refill, is more than
\* the vessel can when it is old enough, and when the key expires.
Filled(b) == b.tokens * Limit!Unit + (b.age + Limit!MaxSkew) * RateNum

LEMMA UnitFacts ==
  /\ Limit!Unit \in Nat \ {0} /\ RateNum \in Nat \ {0} /\ MaxTokens \in Nat \ {0}
  /\ Limit!Capacity = MaxTokens * Limit!Unit + (Limit!MaxSkew + Limit!MaxSkew) * RateNum
  /\ Limit!Capacity \in Nat
<1>1. /\ Interval \in Nat \ {0} /\ RateDen \in Nat \ {0} /\ RateNum \in Nat \ {0}
      /\ MaxTokens \in Nat \ {0}
  BY MCAssumption DEF Limit!RateAssumption
<1>2. Limit!Unit \in Nat \ {0}
  BY <1>1 DEF Limit!Unit
<1> HIDE DEF Limit!Unit
<1>3. Limit!Capacity = MaxTokens * Limit!Unit + (Limit!MaxSkew + Limit!MaxSkew) * RateNum
  BY <1>1, SkewFacts DEF Limit!Capacity
<1>4. MaxTokens * Limit!Unit \in Nat /\ (Limit!MaxSkew + Limit!MaxSkew) * RateNum \in Nat
  BY <1>1, <1>2, SkewFacts
<1> QED BY <1>1, <1>2, <1>3, <1>4

LEMMA FullIsFull ==
  /\ Limit!FullAge \in Nat /\ Limit!FullAge >= 1 + Limit!MaxSkew
  /\ (Limit!FullAge + Limit!MaxSkew) * RateNum >= Limit!Capacity
<1> DEFINE q == (MaxTokens * Limit!Unit) \div RateNum
           n == RateNum
           m == Limit!MaxSkew
           x == MaxTokens * Limit!Unit
<1>1. x \in Nat /\ n \in Nat \ {0} /\ m \in Nat
  BY UnitFacts, SkewFacts
<1>2. q \in Nat /\ x < n * q + n
  BY <1>1, DivBounds
<1>3. Limit!FullAge = q + 1 + m
  BY DEF Limit!FullAge
<1> HIDE DEF q, n, m, x
<1>4. (q + 1 + m + m) * n = q * n + n + (m + m) * n
  <2>1. (q + 1 + m + m) * n = (q + 1) * n + (m + m) * n
    BY <1>1, <1>2, Distributes
  <2>2. (q + 1) * n = q * n + n
    BY <1>1, <1>2
  <2> QED BY <2>1, <2>2
<1>5. q * n \in Nat /\ n * q = q * n /\ (m + m) * n \in Nat
  BY <1>1, <1>2
<1>6. Limit!Capacity = x + (m + m) * n
  BY UnitFacts DEF x, m, n
<1>7. (Limit!FullAge + m) * n >= Limit!Capacity
  BY <1>1, <1>2, <1>3, <1>4, <1>5, <1>6
<1> QED BY <1>1, <1>2, <1>3, <1>7 DEF m, n

LEMMA ExpiredIsFull ==
  /\ Limit!Ttl \in Nat
  /\ Expires => Limit!Ttl * RateNum >= Limit!Capacity
<1> DEFINE rate == IF RateNum > RateDen THEN RateNum ELSE RateDen
           u == MaxTokens * Limit!Unit
           x == 2 * MaxTokens * Interval * RateDen + rate - 1
           q == x \div rate
           m == Limit!MaxSkew
<1>1. /\ RateNum \in Nat \ {0} /\ RateDen \in Nat \ {0} /\ Interval \in Nat /\ MaxTokens \in Nat
      /\ Slack \in Nat /\ m \in Nat
  BY MCAssumption, SkewFacts DEF Limit!RateAssumption
<1>2. rate \in Nat \ {0}
  BY <1>1
<1>3. u \in Nat /\ 2 * MaxTokens * Interval * RateDen = u + u
  <2>1. Interval * RateDen \in Nat /\ 2 * MaxTokens * Interval * RateDen = 2 * (MaxTokens * (Interval * RateDen))
    BY <1>1
  <2> QED BY <1>1, <2>1 DEF Limit!Unit
<1> HIDE DEF u, rate
<1>4. x = u + u + rate - 1 /\ x \in Nat
  BY <1>2, <1>3
<1> HIDE DEF x
<1>5. q \in Nat /\ x < rate * q + rate
  BY <1>2, <1>4, DivBounds
<1>6. Limit!Ttl = q + Slack
  BY DEF Limit!Ttl, q, x, rate
<1> HIDE DEF q, m
<1>7. ASSUME Expires PROVE Limit!Ttl * RateNum >= Limit!Capacity
  <2>1. rate = RateNum /\ m + m <= Slack
    BY <1>1, <1>7, MCAssumption DEF Limit!ExpiryAssumption, rate, m
  <2>2. u + u <= RateNum * q
    BY <1>2, <1>3, <1>4, <1>5, <2>1
  <2>3. (m + m) * RateNum <= Slack * RateNum
    BY <1>1, <2>1, Grows
  <2>4. Limit!Capacity = u + (m + m) * RateNum
    BY UnitFacts DEF u, m
  <2>5. Limit!Ttl * RateNum = q * RateNum + Slack * RateNum
    BY <1>1, <1>5, <1>6, Distributes
  <2>6. q * RateNum = RateNum * q /\ q * RateNum \in Nat /\ (m + m) * RateNum \in Nat /\ Slack * RateNum \in Nat
    BY <1>1, <1>5
  <2> QED BY <1>3, <2>2, <2>3, <2>4, <2>5, <2>6
<1> QED BY <1>1, <1>5, <1>6, <1>7

\* Between calls a bucket has less than all its tokens, since every call took one, and
\* its age is at least the time that the key is idle, but for the clocks.
Stored(b) ==
  /\ b \in [tokens : 0 .. MaxTokens - 1, age : -Limit!MaxSkew .. Limit!FullAge]
LimitInv ==
  /\ bucket = Limit!NoBucket \/ Stored(bucket)
  /\ idle \in 0 .. Limit!Ttl
  /\ bucket # Limit!NoBucket /\ Expires =>
       bucket.age = Limit!FullAge \/ bucket.age + Limit!MaxSkew >= idle
Level(b) == IF b = Limit!NoBucket THEN Limit!Capacity ELSE Limit!Least(Filled(b), Limit!Capacity)

LEMMA NotStored == \A b : Stored(b) => b # Limit!NoBucket
BY DEF Stored, Limit!NoBucket

\* Bringing a bucket up to date gains nothing, whoever does it.
LEMMA RefillGainsNothing ==
  ASSUME NEW b, b = Limit!NoBucket \/ Stored(b), NEW s \in Skews
  PROVE  LET r == Limit!Refilled(b, s) IN
           /\ r \in [tokens : 0 .. MaxTokens, age : -Limit!MaxSkew .. Limit!FullAge]
           /\ Filled(r) <= Level(b)
           /\ b # Limit!NoBucket => r.tokens >= b.tokens
<1> DEFINE r == Limit!Refilled(b, s)
           u == Limit!Unit
           m == Limit!MaxSkew
           n == RateNum
           added == Limit!TokensToAdd(b.age + s)
<1>1. /\ u \in Nat \ {0} /\ m \in Nat /\ n \in Nat \ {0} /\ MaxTokens \in Nat \ {0}
      /\ s \in Int /\ -m <= s /\ s <= m /\ Limit!FullAge \in Nat /\ Limit!FullAge >= 1 + m
      /\ Limit!Capacity = MaxTokens * u + (m + m) * n /\ Limit!Capacity \in Nat
  BY SkewFacts, UnitFacts, FullIsFull
<1>2. Filled(r) = r.tokens * u + (r.age + m) * n
  BY DEF Filled
\* A new bucket, or one that has got tokens: the age is the least that it can be.
<1>3. ASSUME NEW t \in 0 .. MaxTokens, r = [tokens |-> t, age |-> -s]
      PROVE  /\ r \in [tokens : 0 .. MaxTokens, age : -m .. Limit!FullAge]
             /\ Filled(r) = t * u + (m - s) * n
             /\ Filled(r) <= Limit!Capacity
  <2> HIDE DEF r, u, m, n
  <2>1. -s \in -m .. Limit!FullAge
    BY <1>1
  <2>2. r.tokens = t /\ r.age = -s /\ -s + m = m - s
    BY <1>1, <1>3
  <2>3. Filled(r) = t * u + (m - s) * n
    BY <1>2, <2>2
  <2>4. t * u <= MaxTokens * u /\ t \in Int
    BY <1>1, Grows
  <2>5. (m - s) * n <= (m + m) * n /\ (m - s) * n \in Int /\ t * u \in Int /\ MaxTokens * u \in Int /\ (m + m) * n \in Int
    <3>1. m - s \in Int /\ m + m \in Int /\ m - s <= m + m
      BY <1>1
    <3> QED BY <1>1, <3>1, Grows
  <2> QED BY <1>1, <1>3, <2>1, <2>3, <2>4, <2>5
<1>4. CASE b = Limit!NoBucket
  <2>1. r = [tokens |-> MaxTokens, age |-> -s]
    BY <1>4 DEF Limit!Refilled
  <2> HIDE DEF r
  <2>2. MaxTokens \in 0 .. MaxTokens
    BY <1>1
  <2>3. Level(b) = Limit!Capacity
    BY <1>4 DEF Level
  <2> QED BY <1>3, <1>4, <2>1, <2>2, <2>3 DEF r, m
<1>5. CASE Stored(b)
  <2>0. /\ b # Limit!NoBucket /\ b.tokens \in 0 .. MaxTokens - 1 /\ b.age \in -m .. Limit!FullAge
        /\ b \in [tokens : 0 .. MaxTokens - 1, age : -m .. Limit!FullAge]
    BY <1>5, NotStored DEF Stored
  <2>1. b.tokens \in Int /\ b.age \in Int /\ b.age + s \in Int
    BY <1>1, <2>0
  <2>2. Filled(b) = b.tokens * u + (b.age + m) * n /\ Level(b) = Limit!Least(Filled(b), Limit!Capacity)
    BY <2>0 DEF Filled, Level
  <2>3. (b.age + m) * n = (b.age + s) * n + (m - s) * n
    BY <1>1, <2>1
  <2>4. CASE added > 0
    <3>1. b.age + s > 0 /\ added = ((b.age + s) * n) \div u
      BY <2>4, <1>1, <2>1 DEF Limit!TokensToAdd
    <3>2. (b.age + s) * n \in Nat
      BY <1>1, <2>1, <3>1
    <3> HIDE DEF added, u, m, n
    <3>3. added \in Nat /\ u * added <= (b.age + s) * n
      BY <1>1, <3>1, <3>2, DivBounds
    <3> DEFINE t == Limit!Least(MaxTokens, b.tokens + added)
    <3>4. t \in 0 .. MaxTokens /\ t <= b.tokens + added /\ t >= b.tokens
      BY <1>1, <2>0, <3>3 DEF Limit!Least
    <3>5. r = [tokens |-> t, age |-> -s]
      BY <2>0, <2>4 DEF Limit!Refilled, added
    <3> HIDE DEF t
    <3>6. t * u <= b.tokens * u + added * u
      <4>1. t \in Int /\ b.tokens + added \in Int
        BY <2>1, <3>3, <3>4
      <4>2. t * u <= (b.tokens + added) * u
        BY <1>1, <3>4, <4>1, Grows
      <4>3. (b.tokens + added) * u = b.tokens * u + added * u
        BY <1>1, <2>1, <3>3, Distributes
      <4> QED BY <4>2, <4>3
    <3> HIDE DEF r
    <3>7. /\ r \in [tokens : 0 .. MaxTokens, age : -m .. Limit!FullAge]
          /\ Filled(r) = t * u + (m - s) * n /\ Filled(r) <= Limit!Capacity
      BY <1>3, <3>4, <3>5
    <3>8. /\ t * u \in Int /\ b.tokens * u \in Int /\ added * u \in Int /\ added * u = u * added
          /\ (m - s) * n \in Int /\ (b.age + s) * n \in Int
      BY <1>1, <2>1, <3>3, <3>4
    <3>9. Filled(r) <= Filled(b)
      BY <2>2, <2>3, <3>3, <3>6, <3>7, <3>8
    <3>10. r.tokens = t
      BY <3>5
    <3> QED BY <2>2, <3>4, <3>7, <3>9, <3>10 DEF Limit!Least, r, m
  <2>5. CASE ~(added > 0)
    <3>1. r = b
      BY <2>0, <2>5 DEF Limit!Refilled
    <3>2. (b.age + s) * n < u
      <4>1. CASE b.age + s > 0
        <5>1. added = ((b.age + s) * n) \div u
          BY <4>1 DEF Limit!TokensToAdd
        <5>2. (b.age + s) * n \in Nat
          BY <1>1, <2>1, <4>1
        <5> HIDE DEF added, u, m, n
        <5>3. added \in Nat /\ (b.age + s) * n < u * added + u
          BY <1>1, <5>1, <5>2, DivBounds
        <5>4. added = 0
          BY <2>5, <5>3
        <5> QED BY <1>1, <5>3, <5>4
      <4>2. CASE b.age + s <= 0
        <5> HIDE DEF u, m, n
        <5>1. (b.age + s) * n <= 0 * n
          BY <1>1, <2>1, <4>2, Grows
        <5>2. (b.age + s) * n \in Int /\ 0 * n = 0
          BY <1>1, <2>1
        <5> QED BY <1>1, <5>1, <5>2
      <4> QED BY <2>1, <4>1, <4>2
    <3> HIDE DEF added, u, m, n, r
    <3>3. b.tokens * u <= MaxTokens * u - u
      <4>1. MaxTokens - 1 \in Int /\ b.tokens <= MaxTokens - 1
        BY <1>1, <2>0
      <4>2. b.tokens * u <= (MaxTokens - 1) * u
        BY <1>1, <2>1, <4>1, Grows
      <4>3. (MaxTokens - 1) * u = MaxTokens * u - u
        BY <1>1
      <4> QED BY <4>2, <4>3
    <3>4. (m - s) * n <= (m + m) * n
      <4>1. m - s \in Int /\ m + m \in Int /\ m - s <= m + m
        BY <1>1
      <4> QED BY <1>1, <4>1, Grows
    <3>5. /\ b.tokens * u \in Int /\ MaxTokens * u \in Int /\ (m - s) * n \in Int /\ (m + m) * n \in Int
          /\ (b.age + s) * n \in Int
      BY <1>1, <2>1
    <3>6. Filled(b) <= Limit!Capacity /\ Filled(b) \in Int
      BY <1>1, <2>2, <2>3, <3>2, <3>3, <3>4, <3>5
    <3>7. Filled(r) <= Level(b)
      BY <1>1, <2>2, <3>1, <3>6 DEF Limit!Least
    <3>8. b \in [tokens : 0 .. MaxTokens, age : -m .. Limit!FullAge]
      BY <1>1, <2>0
    <3> QED BY <2>1, <3>1, <3>7, <3>8 DEF r, m
  <2> QED BY <2>4, <2>5
<1> QED BY <1>4, <1>5

LEMMA LimitStarts == Limit!Init => LimitInv
BY ExpiredIsFull DEF Limit!Init, LimitInv

\* A call: refused when there is no token, and otherwise one token less, or a new bucket.
LEMMA ConsumeStep ==
  ASSUME LimitInv, NEW s \in Skews, NEW valid \in BOOLEAN, Limit!Consume(s, valid)
  PROVE  LimitInv' /\ Limit!Ideal!Next
<1> DEFINE r == Limit!Refilled(bucket, s)
           u == Limit!Unit
           m == Limit!MaxSkew
           n == RateNum
<1>1. /\ u \in Nat \ {0} /\ m \in Nat /\ n \in Nat \ {0} /\ MaxTokens \in Nat \ {0}
      /\ Limit!FullAge \in Nat /\ Limit!Capacity \in Nat /\ Limit!Ttl \in Nat
  BY SkewFacts, UnitFacts, FullIsFull, ExpiredIsFull
<1>2. /\ r \in [tokens : 0 .. MaxTokens, age : -m .. Limit!FullAge]
      /\ Filled(r) <= Level(bucket)
  BY RefillGainsNothing DEF LimitInv
<1>3. /\ idle' = 0
      /\ IF r.tokens = 0 THEN bucket' = r /\ last' = "refused"
         ELSE IF valid THEN bucket' = Limit!NoBucket /\ last' = "reset"
         ELSE bucket' = [r EXCEPT !.tokens = @ - 1] /\ last' = "granted"
  BY DEF Limit!Consume
<1>4. Filled(r) = r.tokens * u + (r.age + m) * n
  BY DEF Filled
<1>5. Level(bucket) \in Int
  <2>1. CASE bucket = Limit!NoBucket
    BY <1>1, <2>1 DEF Level
  <2>2. CASE bucket # Limit!NoBucket /\ Stored(bucket)
    <3>1. bucket.tokens \in Int /\ bucket.age \in Int
      BY <2>2 DEF Stored
    <3>2. Filled(bucket) \in Int
      BY <1>1, <3>1 DEF Filled
    <3> QED BY <1>1, <2>2, <3>2 DEF Level, Limit!Least
  <2> QED BY <2>1, <2>2 DEF LimitInv
<1>6. /\ Limit!Ideal!Fill <=> last' = "tick" /\ Level(bucket)' <= Level(bucket) + RateNum /\ Level(bucket)' <= Limit!Capacity
      /\ Limit!Ideal!Grant <=> last' = "granted" /\ Level(bucket)' + u <= Level(bucket)
      /\ Limit!Ideal!Refuse <=> last' = "refused" /\ Level(bucket)' <= Level(bucket)
      /\ Limit!Ideal!Reset <=> last' = "reset" /\ Level(bucket)' <= Limit!Capacity
  BY DEF Limit!Ideal!Fill, Limit!Ideal!Grant, Limit!Ideal!Refuse, Limit!Ideal!Reset, Level, Filled
<1> HIDE DEF r, u, m, n
<1>7. CASE r.tokens = 0
  <2>1. bucket' = r /\ last' = "refused"
    BY <1>3, <1>7
  <2>2. Stored(bucket')
    <3>1. r.tokens \in 0 .. MaxTokens - 1 /\ r.age \in -m .. Limit!FullAge
      BY <1>1, <1>2, <1>7
    <3>2. r = [tokens |-> r.tokens, age |-> r.age]
      BY <1>2
    <3> QED BY <2>1, <3>1, <3>2 DEF Stored, m
  <2>3. Level(bucket)' <= Level(bucket)
    <3>1. Level(bucket)' = Limit!Least(Filled(r), Limit!Capacity)
      BY <2>1, <2>2, NotStored DEF Level
    <3>2. Filled(r) \in Int
      <4>1. r.tokens \in Int /\ r.age + m \in Int
        BY <1>1, <1>2
      <4> QED BY <1>1, <1>4, <4>1
    <3> QED BY <1>1, <1>2, <1>5, <3>1, <3>2 DEF Limit!Least
  <2>4. LimitInv'
    <3>1. bucket'.age + m >= 0
      BY <1>1, <1>2, <2>1
    <3> QED BY <1>1, <1>3, <2>2, <3>1 DEF LimitInv, m
  <2> QED BY <1>6, <2>1, <2>3, <2>4 DEF Limit!Ideal!Next
<1>8. CASE r.tokens # 0 /\ valid
  <2>1. bucket' = Limit!NoBucket /\ last' = "reset"
    BY <1>3, <1>8
  <2>2. Level(bucket)' = Limit!Capacity
    BY <2>1 DEF Level
  <2> QED BY <1>1, <1>3, <1>6, <2>1, <2>2 DEF LimitInv, Limit!Ideal!Next
<1>9. CASE r.tokens # 0 /\ ~valid
  <2>1. bucket' = [r EXCEPT !.tokens = @ - 1] /\ last' = "granted"
    BY <1>3, <1>9
  <2>2. /\ bucket'.tokens = r.tokens - 1 /\ bucket'.age = r.age
        /\ bucket' = [tokens |-> r.tokens - 1, age |-> r.age]
    BY <1>2, <2>1
  <2>3. Stored(bucket')
    <3>1. r.tokens - 1 \in 0 .. MaxTokens - 1 /\ r.age \in -m .. Limit!FullAge
      BY <1>1, <1>2, <1>9
    <3> QED BY <2>2, <3>1 DEF Stored, m
  <2>4. Level(bucket)' + u <= Level(bucket)
    <3>1. Level(bucket)' = Limit!Least(Filled(bucket'), Limit!Capacity)
      BY <2>3, NotStored DEF Level, Filled
    <3>2. Filled(bucket') = (r.tokens - 1) * u + (r.age + m) * n
      BY <2>2 DEF Filled, u, m, n
    <3>3. r.tokens \in Int /\ r.age + m \in Int
      BY <1>1, <1>2
    <3>4. /\ (r.tokens - 1) * u = r.tokens * u - u /\ r.tokens * u \in Int /\ (r.age + m) * n \in Int
      BY <1>1, <3>3
    <3>5. Filled(bucket') + u = Filled(r) /\ Filled(bucket') \in Int
      BY <1>1, <1>4, <3>2, <3>4
    <3> QED BY <1>1, <1>2, <1>5, <3>1, <3>5 DEF Limit!Least
  <2>5. LimitInv'
    <3>1. bucket'.age + m >= 0
      BY <1>1, <1>2, <2>2
    <3> QED BY <1>1, <1>3, <2>3, <3>1 DEF LimitInv, m
  <2> QED BY <1>6, <2>1, <2>4, <2>5 DEF Limit!Ideal!Next
<1> QED BY <1>7, <1>8, <1>9

\* Time: the bucket fills as the vessel does, and when the key expires it was full.
LEMMA TickStep ==
  ASSUME LimitInv, Limit!Tick
  PROVE  LimitInv' /\ Limit!Ideal!Next
<1> DEFINE u == Limit!Unit
           m == Limit!MaxSkew
           n == RateNum
<1>1. /\ u \in Nat \ {0} /\ m \in Nat /\ n \in Nat \ {0} /\ MaxTokens \in Nat \ {0}
      /\ Limit!FullAge \in Nat /\ Limit!Capacity \in Nat /\ Limit!Ttl \in Nat
      /\ (Limit!FullAge + m) * n >= Limit!Capacity
      /\ Expires => Limit!Ttl * n >= Limit!Capacity
      /\ Expires \in BOOLEAN /\ idle \in 0 .. Limit!Ttl
  BY SkewFacts, UnitFacts, FullIsFull, ExpiredIsFull, MCAssumption DEF LimitInv, Limit!RateAssumption
<1>2. Limit!Ideal!Fill <=> last' = "tick" /\ Level(bucket)' <= Level(bucket) + n /\ Level(bucket)' <= Limit!Capacity
  BY DEF Limit!Ideal!Fill, Level, Filled
<1>3. last' = "tick"
  BY DEF Limit!Tick
<1>4. CASE bucket = Limit!NoBucket
  <2>1. bucket' = bucket /\ idle' = 0
    BY <1>4 DEF Limit!Tick
  <2>2. Level(bucket)' = Limit!Capacity /\ Level(bucket) = Limit!Capacity
    BY <1>4, <2>1 DEF Level
  <2> QED BY <1>1, <1>2, <1>3, <1>4, <2>1, <2>2 DEF LimitInv, Limit!Ideal!Next
<1>5. CASE Stored(bucket)
  <2>1. /\ bucket # Limit!NoBucket
        /\ bucket.tokens \in 0 .. MaxTokens - 1 /\ bucket.age \in -m .. Limit!FullAge
        /\ bucket = [tokens |-> bucket.tokens, age |-> bucket.age]
    BY <1>5, NotStored DEF Stored
  <2>2. Filled(bucket) = bucket.tokens * u + (bucket.age + m) * n
    BY DEF Filled
  <2>3. bucket.tokens * u \in Nat /\ (bucket.age + m) * n \in Nat /\ Filled(bucket) \in Nat
    <3> HIDE DEF u, m, n
    <3>1. bucket.tokens \in Nat /\ bucket.age + m \in Nat
      BY <1>1, <2>1
    <3> QED BY <1>1, <2>2, <3>1
  <2>4. Level(bucket) = Limit!Least(Filled(bucket), Limit!Capacity)
    BY <2>1 DEF Level
  <2>5. CASE Expires /\ idle + 1 >= Limit!Ttl
    <3>1. bucket' = Limit!NoBucket /\ idle' = 0
      BY <2>1, <2>5 DEF Limit!Tick
    <3>2. Level(bucket)' = Limit!Capacity
      BY <3>1 DEF Level
    <3>3. bucket.age = Limit!FullAge \/ bucket.age + m >= idle
      BY <2>1, <2>5 DEF LimitInv
    <3> HIDE DEF u, m, n
    <3>4. Filled(bucket) + n >= Limit!Capacity
      <4>1. CASE bucket.age = Limit!FullAge
        BY <1>1, <2>2, <2>3, <4>1
      <4>2. CASE bucket.age + m >= idle
        <5>1. Limit!Ttl <= bucket.age + m + 1 /\ bucket.age + m + 1 \in Int /\ bucket.age + m \in Int
          BY <1>1, <2>1, <2>5, <4>2
        <5>2. Limit!Ttl * n <= (bucket.age + m + 1) * n
          BY <1>1, <5>1, Grows
        <5>3. (bucket.age + m + 1) * n = (bucket.age + m) * n + n
          BY <1>1, <5>1
        <5>4. Limit!Ttl * n \in Int
          BY <1>1
        <5> QED BY <1>1, <2>2, <2>3, <2>5, <5>2, <5>3, <5>4
      <4> QED BY <3>3, <4>1, <4>2
    <3>5. Level(bucket)' <= Level(bucket) + n /\ Level(bucket)' <= Limit!Capacity
      BY <1>1, <2>3, <2>4, <3>2, <3>4 DEF Limit!Least
    <3> QED BY <1>1, <1>2, <1>3, <3>1, <3>5 DEF LimitInv, Limit!Ideal!Next
  <2>6. CASE ~(Expires /\ idle + 1 >= Limit!Ttl)
    <3> DEFINE a == Limit!Least(bucket.age + 1, Limit!FullAge)
    <3>1. /\ bucket' = [bucket EXCEPT !.age = a]
          /\ idle' = IF Expires THEN idle + 1 ELSE 0
      BY <2>1, <2>6 DEF Limit!Tick
    <3>2. /\ a \in -m .. Limit!FullAge /\ a <= bucket.age + 1
          /\ a = Limit!FullAge \/ a = bucket.age + 1
      BY <1>1, <2>1 DEF Limit!Least
    <3> HIDE DEF a
    <3>3. bucket' = [tokens |-> bucket.tokens, age |-> a] /\ bucket'.tokens = bucket.tokens /\ bucket'.age = a
      BY <2>1, <3>1
    <3>4. Stored(bucket')
      BY <2>1, <3>2, <3>3 DEF Stored
    <3>5. idle' \in 0 .. Limit!Ttl
      BY <1>1, <2>6, <3>1
    <3>6. Expires => bucket'.age = Limit!FullAge \/ bucket'.age + m >= idle'
      <4>1. SUFFICES ASSUME Expires, a # Limit!FullAge PROVE a + m >= idle'
        BY <3>3
      <4>2. a = bucket.age + 1 /\ idle' = idle + 1
        BY <3>1, <3>2, <4>1
      <4>3. bucket.age = Limit!FullAge \/ bucket.age + m >= idle
        BY <2>1, <4>1 DEF LimitInv
      <4>4. bucket.age # Limit!FullAge
        BY <1>1, <3>2, <4>2
      <4> QED BY <1>1, <2>1, <4>2, <4>3, <4>4
    <3>7. LimitInv'
      BY <3>4, <3>5, <3>6 DEF LimitInv
    <3>8. Level(bucket)' = Limit!Least(Filled(bucket'), Limit!Capacity)
      BY <3>4, NotStored DEF Level, Filled
    <3>9. Filled(bucket') = bucket.tokens * u + (a + m) * n
      BY <3>3 DEF Filled
    <3> HIDE DEF u, m, n
    <3>10. (a + m) * n <= (bucket.age + m) * n + n
      <4>1. a + m \in Int /\ bucket.age + m \in Int /\ bucket.age + m + 1 \in Int /\ a + m <= bucket.age + m + 1
        BY <1>1, <2>1, <3>2
      <4>2. (a + m) * n <= (bucket.age + m + 1) * n
        BY <1>1, <4>1, Grows
      <4>3. (bucket.age + m + 1) * n = (bucket.age + m) * n + n
        BY <1>1, <4>1
      <4> QED BY <4>2, <4>3
    <3>11. (a + m) * n \in Int
      BY <1>1, <3>2
    <3>12. Filled(bucket') <= Filled(bucket) + n /\ Filled(bucket') \in Int
      BY <1>1, <2>2, <2>3, <3>9, <3>10, <3>11
    <3>13. Level(bucket)' <= Level(bucket) + n /\ Level(bucket)' <= Limit!Capacity
      BY <1>1, <2>3, <2>4, <3>8, <3>12 DEF Limit!Least
    <3> QED BY <1>2, <1>3, <3>7, <3>13 DEF Limit!Ideal!Next
  <2> QED BY <2>5, <2>6
<1> QED BY <1>4, <1>5 DEF LimitInv

LEMMA LimitStep == LimitInv /\ [Limit!Next]_limitVars => LimitInv' /\ [Limit!Ideal!Next]_Limit!Ideal!vars
<1> SUFFICES ASSUME LimitInv, [Limit!Next]_limitVars PROVE LimitInv' /\ [Limit!Ideal!Next]_Limit!Ideal!vars
  OBVIOUS
<1>1. CASE UNCHANGED limitVars
  BY <1>1 DEF limitVars, LimitInv, Stored, Limit!Ideal!vars
<1>2. CASE Limit!Tick
  BY <1>2, TickStep
<1>3. CASE \E s \in Skews, valid \in BOOLEAN : Limit!Consume(s, valid)
  BY <1>3, ConsumeStep
<1> QED BY <1>1, <1>2, <1>3 DEF Limit!Next

LEMMA LimitTyped == LimitInv => Limit!TypeOK
BY SkewFacts, FullIsFull, UnitFacts DEF LimitInv, Stored, Limit!TypeOK, Limit!NoBucket

\* What remaining says is there is there.
LEMMA RemainingHolds == LimitInv => Limit!RemainingIsThere
<1> SUFFICES ASSUME LimitInv, NEW s \in Skews, Limit!Remaining(bucket, s) > 0
             PROVE  Limit!Refilled(bucket, s).tokens > 0
  BY DEF Limit!RemainingIsThere
<1>1. CASE bucket = Limit!NoBucket
  BY <1>1, UnitFacts DEF Limit!Refilled
<1>2. CASE Stored(bucket) /\ ~Expires
  <2>1. bucket # Limit!NoBucket /\ bucket.tokens \in Nat
    BY <1>2, NotStored, UnitFacts DEF Stored
  <2>2. bucket.tokens > 0
    BY <1>2, <2>1 DEF Limit!Remaining
  <2>3. /\ Limit!Refilled(bucket, s) \in [tokens : 0 .. MaxTokens, age : -Limit!MaxSkew .. Limit!FullAge]
        /\ Limit!Refilled(bucket, s).tokens >= bucket.tokens
    BY <1>2, <2>1, RefillGainsNothing
  <2> DEFINE t == Limit!Refilled(bucket, s).tokens
  <2>4. t \in Int /\ t >= bucket.tokens
    BY <2>3, UnitFacts
  <2> HIDE DEF t
  <2>5. t > 0
    BY <2>1, <2>2, <2>4
  <2> QED BY <2>5 DEF t
<1>3. CASE Stored(bucket) /\ Expires
  BY <1>3, NotStored DEF Limit!Remaining
<1> QED BY <1>1, <1>2, <1>3 DEF LimitInv


\* No sequence of calls and ticks, whatever the clocks differ by and whenever the key
\* expires, lets more through than the ideal bucket of that rate (rate-limiter.ts,
\* redis-rate-limiter.ts), and what remaining says is there is there.
THEOREM RateIsLimited == MCSpec => LimitsRate
<1>1. MCInit => LimitInv /\ Limit!Ideal!Init
  BY LimitStarts DEF MCInit, Limit!Init, Limit!Ideal!Init
<1>2. LimitInv /\ [MCNext]_mcVars => LimitInv' /\ [Limit!Ideal!Next]_Limit!Ideal!vars
  <2> SUFFICES ASSUME LimitInv, [MCNext]_mcVars PROVE LimitInv' /\ [Limit!Ideal!Next]_Limit!Ideal!vars
    OBVIOUS
  <2>1. [Limit!Next]_limitVars
    BY PerimeterSteps
  <2> QED BY <2>1, LimitStep
<1>3. LimitInv => (part = "limit" => Limit!TypeOK /\ Limit!RemainingIsThere)
  BY LimitTyped, RemainingHolds
<1> QED BY <1>1, <1>2, <1>3, PTL DEF MCSpec, LimitsRate, Limit!LimitsRate, Limit!Ideal!Spec

-----------------------------------------------------------------------------
(* Authentication *)

\* The limit of the attempts, by one clock.
LEMMA AttemptFacts ==
  /\ AttemptTokens \in Nat \ {0} /\ AttemptNum \in Nat \ {0} /\ Auth!Unit \in Nat \ {0}
  /\ Auth!MaxSkew = 0 /\ Auth!FullAge \in Nat \ {0} /\ Auth!Ttl \in Nat
<1>1. /\ AttemptTokens \in Nat \ {0} /\ AttemptInterval \in Nat \ {0} /\ AttemptNum \in Nat \ {0}
      /\ AttemptDen \in Nat \ {0} /\ Slack \in Nat
  BY MCAssumption DEF Auth!RateAssumption
<1>2. Auth!Unit \in Nat \ {0}
  BY <1>1 DEF Auth!Unit
<1>3. Auth!MaxSkew = 0
  BY DEF Auth!MaxSkew
<1>4. Auth!FullAge \in Nat \ {0}
  <2> DEFINE x == AttemptTokens * Auth!Unit
  <2>1. x \in Nat
    BY <1>1, <1>2
  <2>2. Auth!FullAge = (x \div AttemptNum) + 1 + 0
    BY <1>3 DEF Auth!FullAge
  <2> HIDE DEF x
  <2>3. x \div AttemptNum \in Nat
    BY <1>1, <2>1, DivBounds
  <2> QED BY <2>2, <2>3
<1>5. Auth!Ttl \in Nat
  <2> DEFINE rate == IF AttemptNum > AttemptDen THEN AttemptNum ELSE AttemptDen
             y == 2 * AttemptTokens * AttemptInterval * AttemptDen
  <2>1. rate \in Nat \ {0} /\ y \in Nat
    BY <1>1
  <2>2. Auth!Ttl = ((y + rate - 1) \div rate) + Slack
    BY DEF Auth!Ttl
  <2> HIDE DEF rate, y
  <2>3. y + rate - 1 \in Nat
    BY <2>1
  <2>4. (y + rate - 1) \div rate \in Nat
    BY <2>1, <2>3, DivBounds
  <2> QED BY <1>1, <2>2, <2>4
<1> QED BY <1>1, <1>2, <1>3, <1>4, <1>5

Attempting == [tokens : 0 .. AttemptTokens, age : 0 .. Auth!FullAge]
Spent(b, f) == (f + b.tokens) * Auth!Unit + b.age * AttemptNum
Earned == AttemptTokens * Auth!Unit + since * AttemptNum

\* Every attempt that was judged since the last success took a token that the bucket had, or
\* got since then.
AuthInv ==
  /\ now \in Nat /\ failures \in Nat /\ since \in Nat /\ sourceIdle = 0
  /\ \/ source = Auth!NoBucket /\ failures = 0
     \/ source \in Attempting /\ Spent(source, failures) <= Earned

LEMMA AttemptingIsNone == \A b \in Attempting : b # Auth!NoBucket /\ b.tokens \in 0 .. AttemptTokens /\ b.age \in 0 .. Auth!FullAge
<1> SUFFICES ASSUME NEW b \in Attempting PROVE b # Auth!NoBucket /\ b.tokens \in 0 .. AttemptTokens /\ b.age \in 0 .. Auth!FullAge
  OBVIOUS
<1>1. b.tokens \in 0 .. AttemptTokens /\ b.age \in 0 .. Auth!FullAge
  BY DEF Attempting
<1>2. Auth!NoBucket.tokens = -1
  BY DEF Auth!NoBucket
<1> QED BY <1>1, <1>2

\* Bringing the bucket up to date gives nothing that was not earned.
LEMMA AttemptsRefill ==
  ASSUME AuthInv
  PROVE  /\ Auth!Refilled(source, 0) \in Attempting
         /\ Spent(Auth!Refilled(source, 0), failures) <= Earned
<1> DEFINE u == Auth!Unit
           added == Auth!TokensToAdd(source.age + 0)
           r == Auth!Refilled(source, 0)
<1>1. /\ AttemptTokens \in Nat \ {0} /\ AttemptNum \in Nat \ {0} /\ u \in Nat \ {0}
      /\ Auth!FullAge \in Nat \ {0} /\ failures \in Nat /\ since \in Nat
  BY AttemptFacts DEF AuthInv
<1> HIDE DEF u
<1>2. CASE source = Auth!NoBucket /\ failures = 0
  <2>1. r = [tokens |-> AttemptTokens, age |-> -0]
    BY <1>2 DEF Auth!Refilled
  <2>2. r \in Attempting /\ r.tokens = AttemptTokens /\ r.age = 0
    BY <1>1, <2>1 DEF Attempting
  <2> HIDE DEF r
  <2>3. Spent(r, failures) = AttemptTokens * u
    BY <1>1, <1>2, <2>2 DEF Spent, u
  <2>4. since * AttemptNum \in Nat /\ AttemptTokens * u \in Nat
    BY <1>1
  <2> QED BY <2>2, <2>3, <2>4 DEF r, Earned, u
<1>3. CASE source \in Attempting /\ Spent(source, failures) <= Earned
  <2>1. source # Auth!NoBucket /\ source.tokens \in Nat /\ source.tokens <= AttemptTokens /\ source.age \in Nat
    BY <1>1, <1>3, AttemptingIsNone
  <2>2. added = IF source.age > 0 THEN (source.age * AttemptNum) \div u ELSE 0
    BY <2>1 DEF Auth!TokensToAdd, u
  <2>3. source.age * AttemptNum \in Nat
    BY <1>1, <2>1
  <2>4. added \in Nat /\ u * added <= source.age * AttemptNum
    <3>1. CASE source.age > 0
      BY <1>1, <2>2, <2>3, <3>1, DivBounds
    <3>2. CASE ~(source.age > 0)
      BY <1>1, <2>1, <2>2, <2>3, <3>2
    <3> QED BY <3>1, <3>2
  <2> HIDE DEF added
  <2>5. CASE added > 0
    <3>1. r = [tokens |-> Auth!Least(AttemptTokens, source.tokens + added), age |-> -0]
      BY <2>1, <2>5 DEF Auth!Refilled, added
    <3>2. r \in Attempting /\ r.tokens <= source.tokens + added /\ r.age = 0
      BY <1>1, <2>1, <2>4, <3>1 DEF Attempting, Auth!Least
    <3>3. r.tokens \in Nat
      BY <1>1, <3>2, AttemptingIsNone
    <3> HIDE DEF r
    <3>4. (failures + r.tokens) * u <= ((failures + source.tokens) + added) * u
      BY <1>1, <2>1, <2>4, <3>2, <3>3, Grows
    <3>5. ((failures + source.tokens) + added) * u = (failures + source.tokens) * u + added * u
      BY <1>1, <2>1, <2>4, Distributes
    <3>6. added * u = u * added /\ r.age * AttemptNum = 0
      BY <1>1, <2>4, <3>2
    <3>7. /\ (failures + r.tokens) * u \in Int /\ (failures + source.tokens) * u \in Int /\ added * u \in Int
          /\ source.age * AttemptNum \in Int /\ AttemptTokens * u + since * AttemptNum \in Int
      BY <1>1, <2>1, <2>4, <3>3
    <3> HIDE DEF added
    <3>8. Spent(r, failures) = (failures + r.tokens) * u + 0
      BY <3>6 DEF Spent, u
    <3>9. Spent(source, failures) = (failures + source.tokens) * u + source.age * AttemptNum
      BY DEF Spent, u
    <3>10. Spent(r, failures) <= Spent(source, failures)
      BY <2>4, <3>4, <3>5, <3>6, <3>7, <3>8, <3>9
    <3>11. Spent(r, failures) \in Int /\ Spent(source, failures) \in Int /\ Earned \in Int
      BY <3>7, <3>8, <3>9 DEF Earned, u
    <3> QED BY <1>3, <3>2, <3>10, <3>11 DEF r
  <2>6. CASE ~(added > 0)
    <3>1. r = source
      BY <2>1, <2>6 DEF Auth!Refilled, added
    <3> QED BY <1>3, <3>1
  <2> QED BY <2>5, <2>6
<1> QED BY <1>2, <1>3 DEF AuthInv

LEMMA AuthStarts == Auth!AuthInit => AuthInv
BY DEF Auth!AuthInit, Auth!Init, AuthInv

\* An attempt that is judged takes a token, and a success clears the account.
LEMMA AuthenticateStep ==
  ASSUME AuthInv, NEW a \in Auth!Attempts, Auth!Authenticate(a)
  PROVE  AuthInv'
<1> DEFINE r == Auth!Refilled(source, 0)
           u == Auth!Unit
<1>1. /\ now' = now /\ sourceIdle' = 0 /\ now \in Nat /\ failures \in Nat /\ since \in Nat
      /\ failures' = IF sourceLast' = "reset" THEN 0 ELSE IF sourceLast' = "granted" THEN failures + 1 ELSE failures
      /\ since' = IF sourceLast' = "reset" THEN 0 ELSE since
  BY DEF Auth!Authenticate, Auth!Consume, AuthInv
<1>2. r \in Attempting /\ Spent(r, failures) <= Earned
  BY AttemptsRefill
<1>3. r.tokens \in Nat /\ r.tokens <= AttemptTokens /\ r.age \in Nat /\ u \in Nat /\ AttemptTokens \in Nat
  BY <1>2, AttemptFacts, AttemptingIsNone
<1>4. \/ r.tokens = 0 /\ source' = r /\ sourceLast' = "refused"
      \/ source' = Auth!NoBucket /\ sourceLast' = "reset"
      \/ r.tokens # 0 /\ source' = [r EXCEPT !.tokens = @ - 1] /\ sourceLast' = "granted"
  BY DEF Auth!Authenticate, Auth!Consume
<1> HIDE DEF r, u
<1>5. CASE r.tokens = 0 /\ source' = r /\ sourceLast' = "refused"
  BY <1>1, <1>2, <1>5 DEF AuthInv, Earned, Spent
<1>6. CASE source' = Auth!NoBucket /\ sourceLast' = "reset"
  BY <1>1, <1>6 DEF AuthInv
<1>7. CASE r.tokens # 0 /\ source' = [r EXCEPT !.tokens = @ - 1] /\ sourceLast' = "granted"
  <2>1. source' \in Attempting /\ source'.tokens = r.tokens - 1 /\ source'.age = r.age
    BY <1>2, <1>3, <1>7 DEF Attempting
  <2>2. failures' = failures + 1 /\ since' = since
    BY <1>1, <1>7
  <2>3. failures' + source'.tokens = failures + r.tokens
    BY <1>1, <1>3, <2>1, <2>2
  <2>4. Spent(source', failures') = Spent(r, failures)
    BY <2>1, <2>3 DEF Spent
  <2>5. Earned' = Earned
    BY <2>2 DEF Earned
  <2>6. (Spent(source, failures) <= Earned)'
    BY <1>2, <2>4, <2>5 DEF Spent
  <2> QED BY <1>1, <2>1, <2>2, <2>6 DEF AuthInv
<1> QED BY <1>4, <1>5, <1>6, <1>7

LEMMA AuthTickStep ==
  ASSUME AuthInv, Auth!AuthTick
  PROVE  AuthInv'
<1>1. /\ now' = now + 1 /\ since' = since + 1 /\ failures' = failures /\ sourceIdle' = 0
      /\ now \in Nat /\ since \in Nat /\ failures \in Nat
      /\ source' = IF source = Auth!NoBucket THEN source
                   ELSE [source EXCEPT !.age = Auth!Least(@ + 1, Auth!FullAge)]
  BY DEF Auth!AuthTick, Auth!Tick, AuthInv
<1>2. CASE source = Auth!NoBucket /\ failures = 0
  BY <1>1, <1>2 DEF AuthInv
<1>3. CASE source \in Attempting /\ Spent(source, failures) <= Earned
  <2> DEFINE u == Auth!Unit
             age == Auth!Least(source.age + 1, Auth!FullAge)
  <2>1. source # Auth!NoBucket /\ source.tokens \in Nat /\ source.age \in 0 .. Auth!FullAge
    BY <1>3, AttemptFacts, AttemptingIsNone
  <2>2. u \in Nat /\ AttemptNum \in Nat /\ AttemptTokens \in Nat /\ Auth!FullAge \in Nat
    BY AttemptFacts
  <2>3. age \in 0 .. Auth!FullAge /\ age <= source.age + 1 /\ age \in Nat /\ source.age \in Nat
    BY <2>1, <2>2 DEF Auth!Least
  <2>4. source' = [source EXCEPT !.age = age]
    BY <1>1, <2>1
  <2> HIDE DEF age, u
  <2>5. source' \in Attempting /\ source'.tokens = source.tokens /\ source'.age = age
    BY <1>3, <2>3, <2>4 DEF Attempting
  <2>6. age * AttemptNum <= (source.age + 1) * AttemptNum
    BY <2>2, <2>3, Grows
  <2>7. /\ (source.age + 1) * AttemptNum = source.age * AttemptNum + AttemptNum
        /\ (since + 1) * AttemptNum = since * AttemptNum + AttemptNum
    BY <1>1, <2>2, <2>3, Distributes
  <2> DEFINE f == (failures + source.tokens) * u
             m == AttemptTokens * u
             g == source.age * AttemptNum
             h == since * AttemptNum
             k == age * AttemptNum
  <2>8. f \in Int /\ m \in Int /\ g \in Int /\ h \in Int /\ k \in Int
    BY <1>1, <2>1, <2>2, <2>3
  <2>9. f + g <= m + h
    BY <1>3 DEF Spent, Earned, u
  <2>10. k <= g + AttemptNum
    BY <2>6, <2>7
  <2>11. (Spent(source, failures))' = f + k
    BY <1>1, <2>5 DEF Spent, u
  <2>12. Earned' = m + (h + AttemptNum)
    BY <1>1, <2>7 DEF Earned, u
  <2> HIDE DEF f, m, g, h, k
  <2>13. f + k <= m + (h + AttemptNum)
    BY <2>2, <2>8, <2>9, <2>10
  <2> QED BY <1>1, <2>5, <2>11, <2>12, <2>13 DEF AuthInv
<1> QED BY <1>2, <1>3 DEF AuthInv

LEMMA AuthStep == AuthInv /\ [Auth!AuthNext]_authVars => AuthInv'
<1> SUFFICES ASSUME AuthInv, [Auth!AuthNext]_authVars PROVE AuthInv'
  OBVIOUS
<1>1. CASE UNCHANGED authVars
  BY <1>1 DEF authVars, AuthInv, Spent, Earned
<1>2. CASE Auth!AuthTick
  BY <1>2, AuthTickStep
<1>3. CASE \E a \in Auth!Attempts : Auth!Authenticate(a)
  BY <1>3, AuthenticateStep
<1> QED BY <1>1, <1>2, <1>3 DEF Auth!AuthNext

\* What the invariant says of the limit of failed attempts.
LEMMA AttemptsCounted == AuthInv => Auth!TypeOK /\ Auth!FailuresAreCounted
<1> SUFFICES ASSUME AuthInv PROVE Auth!TypeOK /\ Auth!FailuresAreCounted
  OBVIOUS
<1> DEFINE u == Auth!Unit
<1>1. /\ u \in Nat /\ AttemptNum \in Nat /\ AttemptTokens \in Nat /\ Auth!FullAge \in Nat /\ Auth!Ttl \in Nat
      /\ Auth!MaxSkew = 0 /\ failures \in Nat /\ since \in Nat /\ sourceIdle = 0
  BY AttemptFacts DEF AuthInv
<1> HIDE DEF u
<1>2. CASE source = Auth!NoBucket /\ failures = 0
  <2>1. source.age = 0
    BY <1>2 DEF Auth!NoBucket
  <2>2. Auth!TypeOK
    BY <1>1, <1>2, <2>1 DEF Auth!TypeOK
  <2>3. failures * u = 0 /\ AttemptTokens * u \in Nat /\ since * AttemptNum \in Nat
    BY <1>1, <1>2
  <2>4. failures * u <= AttemptTokens * u + since * AttemptNum
    BY <2>3
  <2> QED BY <2>2, <2>4 DEF Auth!FailuresAreCounted, u
<1>3. CASE source \in Attempting /\ Spent(source, failures) <= Earned
  <2>1. source.tokens \in 0 .. AttemptTokens /\ source.age \in 0 .. Auth!FullAge
    BY <1>3, AttemptingIsNone
  <2>2. Auth!TypeOK
    BY <1>1, <2>1 DEF Auth!TypeOK
  <2> DEFINE f == failures * u
             t == source.tokens * u
             g == source.age * AttemptNum
             m == AttemptTokens * u
             h == since * AttemptNum
  <2>3. f \in Nat /\ t \in Nat /\ g \in Nat /\ m \in Nat /\ h \in Nat
    BY <1>1, <2>1
  <2>4. (failures + source.tokens) * u = f + t
    BY <1>1, <2>1, Distributes
  <2>5. (f + t) + g <= m + h
    BY <1>3, <2>4 DEF Spent, Earned, u
  <2> HIDE DEF f, t, g, m, h
  <2>6. f <= m + h
    BY <2>3, <2>5
  <2> QED BY <2>2, <2>6 DEF Auth!FailuresAreCounted, f, m, h, u
<1> QED BY <1>2, <1>3 DEF AuthInv

EntitledStep ==
  asked'.ok /\ asked'.jwt =>
    /\ asked'.of.alg = "HS256" <=> AuthConfig.secret = <<asked'.of.key>>
    /\ asked'.of.alg # "none"
    /\ \A i \in DOMAIN asked'.of.exp : now < asked'.of.exp[i] + Tolerance

\* An attempt that clears the bucket was valid, and the secret is not the public key.
LEMMA LetInEntitled == AuthInv /\ [Auth!AuthNext]_authVars => [EntitledStep]_<<asked, failures>>
<1> SUFFICES ASSUME AuthInv, Auth!AuthNext, ~UNCHANGED <<asked, failures>>, asked'.ok, asked'.jwt
             PROVE  /\ asked'.of.alg = "HS256" <=> AuthConfig.secret = <<asked'.of.key>>
                    /\ asked'.of.alg # "none"
                    /\ \A i \in DOMAIN asked'.of.exp : now < asked'.of.exp[i] + Tolerance
  BY DEF EntitledStep, authVars
<1>1. PICK a \in Auth!Attempts : Auth!Authenticate(a)
  BY DEF Auth!AuthNext, Auth!AuthTick
<1>2. asked' = [ok |-> sourceLast' = "reset", jwt |-> a.jwt, of |-> a.of]
  BY <1>1 DEF Auth!Authenticate
<1>3. sourceLast' = "reset" /\ a.jwt /\ asked'.of = a.of
  BY <1>2
<1>4. Auth!Valid(a)
  BY <1>1, <1>3 DEF Auth!Authenticate, Auth!Consume
<1> DEFINE t == a.of
<1>5. t \in Jwts /\ Auth!ValidJwt(t)
  BY <1>3, <1>4 DEF Auth!Attempts, Auth!Valid
<1> HIDE DEF t
<1>6. Auth!Signed(t) /\ Auth!InTime(t)
  BY <1>5 DEF Auth!ValidJwt
<1>7. AuthConfig.publicKey # <<>> => AuthConfig.secret # <<AuthConfig.publicKey[1].key>>
  BY MCAssumption DEF Auth!AuthAssumption
<1>8. (t.alg = "HS256" <=> AuthConfig.secret = <<t.key>>) /\ t.alg # "none"
  <2>1. CASE t.alg = "HS256" /\ AuthConfig.secret = <<t.key>>
    BY <2>1
  <2>2. CASE t.alg \in {"EdDSA", "RS256"} /\ AuthConfig.publicKey = <<[alg |-> t.alg, key |-> t.key]>>
    <3>1. AuthConfig.publicKey # <<>> /\ AuthConfig.publicKey[1].key = t.key
      BY <2>2
    <3> QED BY <1>7, <2>2, <3>1
  <2> QED BY <1>6, <2>1, <2>2 DEF Auth!Signed
<1>9. ASSUME NEW i \in DOMAIN t.exp PROVE now < t.exp[i] + Tolerance
  <2>1. t.exp \in Seq(Int) /\ Tolerance \in Nat /\ now \in Nat
    BY <1>5, MCAssumption DEF Auth!AuthAssumption, AuthInv
  <2>2. t.exp[i] \in Int
    BY <2>1
  <2>3. now - Tolerance < t.exp[i]
    BY <1>6 DEF Auth!InTime
  <2> QED BY <2>1, <2>2, <2>3
<1> QED BY <1>3, <1>8, <1>9 DEF t
-----------------------------------------------------------------------------
(* The windows of the dashboard *)

Passes(c, t, n) == <<c, t, n>> \in passed
Within(s, t) == s <= t /\ t <= s + WindowMs

\* A window begins with its first request, more than a window's length after the one
\* before, and counts on; the last one is the one that is stored.
StoredWindow(c) ==
  LET w == windows[c] IN
    /\ w.count = 0 => w.resetAt = 0 /\ \A t, n \in Nat : ~Passes(c, t, n)
    /\ w.count # 0 => \E s \in Nat :
         /\ s + WindowMs = w.resetAt /\ Passes(c, s, 1)
         /\ \A t, n \in Nat : Passes(c, t, n) => t <= w.resetAt /\ (t >= s => n <= w.count)
InAWindow(c) ==
  \A t, n \in Nat : Passes(c, t, n) => t <= minute /\ \E s \in Nat : Passes(c, s, 1) /\ Within(s, t)
Apart(c) == \A s, r \in Nat : Passes(c, s, 1) /\ Passes(c, r, 1) /\ s < r => s + WindowMs < r
CountedOnce(c) ==
  \A s, t, u, n \in Nat :
    Passes(c, s, 1) /\ Passes(c, t, n) /\ Passes(c, u, n) /\ Within(s, t) /\ Within(s, u) => t = u
Window(c) == StoredWindow(c) /\ InAWindow(c) /\ Apart(c) /\ CountedOnce(c)

WindowsInv ==
  /\ minute \in Nat \ {0}
  /\ windows \in [Callers -> [count : 0 .. MaxRequests, resetAt : Nat]]
  /\ passed \subseteq Callers \X Nat \X (1 .. MaxRequests)
  /\ \A c \in Callers : Window(c)

LEMMA WindowConstants == WindowMs \in Nat /\ MaxRequests \in Nat \ {0}
BY MCAssumption DEF Dashboard!WindowAssumption

LEMMA WindowsStart == Dashboard!Init => WindowsInv
<1> SUFFICES ASSUME Dashboard!Init PROVE WindowsInv
  OBVIOUS
<1>1. minute = 1 /\ passed = {} /\ windows = [c \in Callers |-> [count |-> 0, resetAt |-> 0]]
  BY DEF Dashboard!Init, Dashboard!NoWindow
<1>2. windows \in [Callers -> [count : 0 .. MaxRequests, resetAt : Nat]]
  BY <1>1, WindowConstants
<1>3. ASSUME NEW c \in Callers PROVE Window(c)
  BY <1>1 DEF Window, StoredWindow, InAWindow, Apart, CountedOnce, Passes
<1> QED BY <1>1, <1>2, <1>3 DEF WindowsInv

\* The request that passes opens a window after the one before, or counts on in it.
LEMMA WindowOpens ==
  ASSUME NEW c \in Callers, WindowsInv, minute > windows[c].resetAt, minute' = minute,
         windows'[c] = [count |-> 1, resetAt |-> minute + WindowMs], passed' = passed \cup {<<c, minute, 1>>}
  PROVE  Window(c)'
<1> DEFINE w == windows[c]
<1>1. /\ minute \in Nat /\ WindowMs \in Nat /\ w.count \in Nat /\ w.resetAt \in Nat
  BY WindowConstants DEF WindowsInv
<1>2. \A t, n : Passes(c, t, n)' <=> Passes(c, t, n) \/ (t = minute /\ n = 1)
  BY DEF Passes
<1>3. Window(c)
  BY DEF WindowsInv
<1>4. \A t, n \in Nat : Passes(c, t, n) => t <= w.resetAt
  BY <1>3 DEF Window, StoredWindow
<1>5. \A r \in Nat : Passes(c, r, 1) => r + WindowMs < minute
  <2> SUFFICES ASSUME NEW r \in Nat, Passes(c, r, 1) PROVE r + WindowMs < minute
    OBVIOUS
  <2>1. PICK s \in Nat : s + WindowMs = w.resetAt /\ Passes(c, s, 1)
    BY <1>3 DEF Window, StoredWindow
  <2>2. r <= w.resetAt /\ (s < r => s + WindowMs < r)
    BY <1>3, <1>4, <2>1 DEF Window, Apart
  <2> QED BY <1>1, <2>1, <2>2
<1>6. /\ windows'[c].count = 1 /\ windows'[c].resetAt = minute + WindowMs /\ Passes(c, minute, 1)'
  BY <1>2
<1> HIDE DEF Passes, w
<1>7. StoredWindow(c)'
  <2>1. ASSUME NEW t \in Nat, NEW n \in Nat, Passes(c, t, n)'
        PROVE  t <= minute + WindowMs /\ (t >= minute => n <= 1)
    <3>1. CASE t = minute /\ n = 1
      BY <1>1, <3>1
    <3>2. CASE Passes(c, t, n)
      BY <1>1, <1>4, <3>2 DEF w
    <3> QED BY <1>2, <2>1, <3>1, <3>2
  <2> QED BY <1>1, <1>6, <2>1 DEF StoredWindow
<1>8. InAWindow(c)'
  <2>1. ASSUME NEW t \in Nat, NEW n \in Nat, Passes(c, t, n)'
        PROVE  t <= minute /\ \E s \in Nat : Passes(c, s, 1)' /\ Within(s, t)
    <3>1. CASE t = minute /\ n = 1
      BY <1>1, <1>6, <3>1 DEF Within
    <3>2. CASE Passes(c, t, n)
      BY <1>2, <1>3, <3>2 DEF Window, InAWindow
    <3> QED BY <1>2, <2>1, <3>1, <3>2
  <2> QED BY <2>1 DEF InAWindow, Within
<1>9. Apart(c)'
  <2>1. ASSUME NEW s \in Nat, NEW r \in Nat, Passes(c, s, 1)', Passes(c, r, 1)', s < r
        PROVE  s + WindowMs < r
    <3>1. CASE Passes(c, s, 1) /\ Passes(c, r, 1)
      BY <1>3, <2>1, <3>1 DEF Window, Apart
    <3>2. CASE Passes(c, s, 1) /\ r = minute
      BY <1>5, <3>2
    <3>3. CASE s = minute
      BY <1>1, <1>2, <1>5, <2>1, <3>3
    <3> QED BY <1>2, <2>1, <3>1, <3>2, <3>3
  <2> QED BY <2>1 DEF Apart
<1>10. CountedOnce(c)'
  <2>1. ASSUME NEW s \in Nat, NEW t \in Nat, NEW u \in Nat, NEW n \in Nat,
               Passes(c, s, 1)', Passes(c, t, n)', Passes(c, u, n)', Within(s, t), Within(s, u), t # u
        PROVE  FALSE
    <3>1. CASE s = minute
      <4>1. ~Passes(c, t, n) /\ ~Passes(c, u, n)
        BY <1>1, <1>4, <2>1, <3>1 DEF Within, w
      <4> QED BY <1>2, <2>1, <4>1
    <3>2. CASE Passes(c, s, 1)
      <4>1. s + WindowMs < minute
        BY <1>5, <3>2
      <4>2. t # minute /\ u # minute
        BY <1>1, <2>1, <4>1 DEF Within
      <4> QED BY <1>2, <1>3, <2>1, <3>2, <4>2 DEF Window, CountedOnce
    <3> QED BY <1>2, <2>1, <3>1, <3>2
  <2> QED BY <2>1 DEF CountedOnce, Within
<1> QED BY <1>7, <1>8, <1>9, <1>10 DEF Window

LEMMA WindowCounts ==
  ASSUME NEW c \in Callers, WindowsInv, minute <= windows[c].resetAt, minute' = minute,
         windows'[c] = [windows[c] EXCEPT !.count = @ + 1],
         passed' = passed \cup {<<c, minute, windows[c].count + 1>>}
  PROVE  Window(c)'
<1> DEFINE w == windows[c]
           k == w.count + 1
<1>1. /\ minute \in Nat /\ minute # 0 /\ WindowMs \in Nat /\ w \in [count : 0 .. MaxRequests, resetAt : Nat]
      /\ MaxRequests \in Nat
  BY WindowConstants DEF WindowsInv
<1>2. w.count \in Nat /\ w.resetAt \in Nat /\ windows'[c].count = k /\ windows'[c].resetAt = w.resetAt
  BY <1>1
<1>3. \A t, n : Passes(c, t, n)' <=> Passes(c, t, n) \/ (t = minute /\ n = k)
  BY DEF Passes
<1>4. Window(c)
  BY DEF WindowsInv
<1>5. w.count # 0 /\ k # 1 /\ k \in Nat
  BY <1>1, <1>2, <1>4 DEF Window, StoredWindow
<1>6. PICK s \in Nat : /\ s + WindowMs = w.resetAt /\ Passes(c, s, 1)
                       /\ \A t, n \in Nat : Passes(c, t, n) => t <= w.resetAt /\ (t >= s => n <= w.count)
  BY <1>4, <1>5 DEF Window, StoredWindow
<1>7. minute <= w.resetAt /\ s <= minute
  BY <1>4, <1>6 DEF Window, InAWindow
<1> HIDE DEF Passes, w, k
<1>8. \A r : Passes(c, r, 1)' <=> Passes(c, r, 1)
  BY <1>3, <1>5
<1>9. StoredWindow(c)'
  <2>1. ASSUME NEW t \in Nat, NEW n \in Nat, Passes(c, t, n)'
        PROVE  t <= w.resetAt /\ (t >= s => n <= k)
    <3>1. CASE t = minute /\ n = k
      BY <1>5, <1>7, <3>1
    <3>2. CASE Passes(c, t, n)
      <4>1. t <= w.resetAt /\ (t >= s => n <= w.count)
        BY <1>6, <3>2
      <4> QED BY <1>2, <4>1 DEF k
    <3> QED BY <1>3, <2>1, <3>1, <3>2
  <2> QED BY <1>2, <1>5, <1>6, <1>8, <2>1 DEF StoredWindow, k
<1>10. InAWindow(c)'
  <2>1. ASSUME NEW t \in Nat, NEW n \in Nat, Passes(c, t, n)'
        PROVE  t <= minute /\ \E r \in Nat : Passes(c, r, 1)' /\ Within(r, t)
    <3>1. CASE t = minute /\ n = k
      BY <1>1, <1>6, <1>7, <1>8, <3>1 DEF Within
    <3>2. CASE Passes(c, t, n)
      BY <1>4, <1>8, <3>2 DEF Window, InAWindow
    <3> QED BY <1>3, <2>1, <3>1, <3>2
  <2> QED BY <2>1 DEF InAWindow, Within
<1>11. Apart(c)'
  BY <1>4, <1>8 DEF Window, Apart
<1>12. CountedOnce(c)'
  <2>1. ASSUME NEW t \in Nat, Passes(c, t, k), NEW r \in Nat, Passes(c, r, 1), Within(r, t), Within(r, minute)
        PROVE  FALSE
    <3>1. ~(t >= s)
      BY <1>2, <1>5, <1>6, <2>1 DEF k
    <3>2. r < s
      BY <2>1, <3>1 DEF Within
    <3>3. r + WindowMs < s
      BY <1>4, <1>6, <2>1, <3>2 DEF Window, Apart
    <3> QED BY <1>1, <1>7, <2>1, <3>3 DEF Within
  <2>2. ASSUME NEW r \in Nat, NEW t \in Nat, NEW u \in Nat, NEW n \in Nat,
               Passes(c, r, 1), Passes(c, t, n)', Passes(c, u, n)', Within(r, t), Within(r, u), t # u
        PROVE  FALSE
    <3>1. CASE Passes(c, t, n) /\ Passes(c, u, n)
      BY <1>4, <2>2, <3>1 DEF Window, CountedOnce
    <3>2. CASE Passes(c, t, n) /\ u = minute /\ n = k
      BY <2>1, <2>2, <3>2
    <3>3. CASE Passes(c, u, n) /\ t = minute /\ n = k
      BY <2>1, <2>2, <3>3
    <3> QED BY <1>3, <2>2, <3>1, <3>2, <3>3
  <2> QED BY <1>8, <2>2 DEF CountedOnce, Within
<1> QED BY <1>9, <1>10, <1>11, <1>12 DEF Window

LEMMA WindowStays ==
  ASSUME NEW c \in Callers, Window(c), minute \in Nat, minute' \in Nat, minute <= minute', windows'[c] = windows[c],
         \A t, n : Passes(c, t, n)' <=> Passes(c, t, n)
  PROVE  Window(c)'
<1> HIDE DEF Passes
<1>1. StoredWindow(c)'
  BY DEF Window, StoredWindow
<1>2. InAWindow(c)'
  <2> SUFFICES ASSUME NEW t \in Nat, NEW n \in Nat, Passes(c, t, n)
               PROVE  t <= minute' /\ \E s \in Nat : Passes(c, s, 1)' /\ Within(s, t)
    BY DEF InAWindow, Within
  <2>1. t <= minute /\ \E s \in Nat : Passes(c, s, 1) /\ Within(s, t)
    BY DEF Window, InAWindow
  <2> QED BY <2>1
<1>3. Apart(c)'
  BY DEF Window, Apart
<1>4. CountedOnce(c)'
  BY DEF Window, CountedOnce, Within
<1> QED BY <1>1, <1>2, <1>3, <1>4 DEF Window

LEMMA RequestWindows ==
  ASSUME WindowsInv, NEW c \in Callers, minute' = minute,
         windows' = [windows EXCEPT ![c] = Dashboard!Limit(c)],
         IF Dashboard!Limit(c) = windows[c] THEN passed' = passed
         ELSE passed' = passed \cup {<<c, minute, Dashboard!Limit(c).count>>}
  PROVE  WindowsInv'
<1> DEFINE w == windows[c]
           l == Dashboard!Limit(c)
<1>1. /\ minute \in Nat /\ minute # 0 /\ WindowMs \in Nat /\ MaxRequests \in Nat \ {0}
      /\ w \in [count : 0 .. MaxRequests, resetAt : Nat]
      /\ windows \in [Callers -> [count : 0 .. MaxRequests, resetAt : Nat]]
      /\ passed \subseteq Callers \X Nat \X (1 .. MaxRequests) /\ \A d \in Callers : Window(d)
  BY WindowConstants DEF WindowsInv
<1>2. windows'[c] = l /\ \A d \in Callers : d # c => windows'[d] = windows[d]
  BY <1>1
<1>3. \/ minute > w.resetAt /\ l = [count |-> 1, resetAt |-> minute + WindowMs]
      \/ ~(minute > w.resetAt) /\ w.count >= MaxRequests /\ l = w
      \/ ~(minute > w.resetAt) /\ ~(w.count >= MaxRequests) /\ l = [w EXCEPT !.count = @ + 1]
  BY DEF Dashboard!Limit
<1> HIDE DEF l
<1>4. CASE ~(minute > w.resetAt) /\ w.count >= MaxRequests /\ l = w
  <2>1. windows' = windows /\ passed' = passed
    BY <1>1, <1>4 DEF l
  <2>2. \A d \in Callers : Window(d)'
    BY <1>1, <2>1, WindowStays DEF Passes
  <2> QED BY <1>1, <2>1, <2>2 DEF WindowsInv
<1>5. ASSUME NEW n \in 1 .. MaxRequests, passed' = passed \cup {<<c, minute, n>>},
             l \in [count : 0 .. MaxRequests, resetAt : Nat], Window(c)'
      PROVE  WindowsInv'
  <2>1. windows' \in [Callers -> [count : 0 .. MaxRequests, resetAt : Nat]]
    BY <1>1, <1>5 DEF l
  <2>2. passed' \subseteq Callers \X Nat \X (1 .. MaxRequests)
    BY <1>1, <1>5
  <2>3. ASSUME NEW d \in Callers, d # c PROVE Window(d)'
    <3>1. \A t, m : Passes(d, t, m)' <=> Passes(d, t, m)
      BY <1>5, <2>3 DEF Passes
    <3> QED BY <1>1, <1>2, <2>3, <3>1, WindowStays
  <2> QED BY <1>1, <1>5, <2>1, <2>2, <2>3 DEF WindowsInv
<1>6. CASE minute > w.resetAt /\ l = [count |-> 1, resetAt |-> minute + WindowMs]
  <2>1. l # w /\ l.count = 1
    <3>1. l.resetAt = minute + WindowMs /\ l.count = 1
      BY <1>6
    <3>2. l.resetAt # w.resetAt
      BY <1>1, <1>6, <3>1
    <3> QED BY <3>1, <3>2
  <2>2. passed' = passed \cup {<<c, minute, 1>>}
    BY <2>1 DEF l
  <2>3. Window(c)'
    BY <1>2, <1>6, <2>2, WindowOpens
  <2>4. l \in [count : 0 .. MaxRequests, resetAt : Nat] /\ 1 \in 1 .. MaxRequests
    BY <1>1, <1>6
  <2> QED BY <1>5, <2>2, <2>3, <2>4
<1>7. CASE ~(minute > w.resetAt) /\ ~(w.count >= MaxRequests) /\ l = [w EXCEPT !.count = @ + 1]
  <2>1. l.count = w.count + 1 /\ w.count \in Nat /\ w.resetAt \in Nat
    BY <1>1, <1>7
  <2>2. l # w
    BY <2>1
  <2>3. passed' = passed \cup {<<c, minute, w.count + 1>>}
    BY <2>1, <2>2 DEF l
  <2>4. minute <= w.resetAt
    BY <1>1, <1>7, <2>1
  <2>5. Window(c)'
    BY <1>2, <1>7, <2>3, <2>4, WindowCounts
  <2>6. w.count + 1 \in 1 .. MaxRequests
    BY <1>1, <1>7, <2>1
  <2>7. l \in [count : 0 .. MaxRequests, resetAt : Nat]
    BY <1>1, <1>7, <2>6
  <2> QED BY <1>5, <2>3, <2>5, <2>6, <2>7
<1> QED BY <1>3, <1>4, <1>6, <1>7

LEMMA CardinalityAgain == \A S : Dashboard!Cardinality(S) = Cardinality(S)
BY DEF Dashboard!Cardinality, Cardinality, Dashboard!IsFiniteSet, IsFiniteSet

\* Two windows at most touch a time of one window's length, and each counts to the maximum.
LEMMA WindowsBounded == WindowsInv => Dashboard!WindowsBound
<1> SUFFICES ASSUME WindowsInv, NEW c \in Callers, NEW t \in 0 .. minute
             PROVE  Cardinality(Dashboard!GotThrough(c, t)) <= 2 * MaxRequests
  BY CardinalityAgain DEF Dashboard!WindowsBound
<1> DEFINE P == Dashboard!GotThrough(c, t)
           In(p, s) == Passes(c, s, 1) /\ Within(s, p[2])
           A == {p \in P : \E s \in Nat : In(p, s) /\ s < t}
           B == {p \in P : \E s \in Nat : In(p, s) /\ s >= t}
           n == MaxRequests
<1>1. /\ t \in Nat /\ minute \in Nat /\ WindowMs \in Nat /\ n \in Nat \ {0} /\ passed \subseteq Callers \X Nat \X (1 .. n)
      /\ Window(c)
  BY WindowConstants DEF WindowsInv
<1>2. \A p \in P : p = <<c, p[2], p[3]>> /\ p[2] \in Nat /\ p[3] \in 1 .. n /\ Passes(c, p[2], p[3])
                   /\ t <= p[2] /\ p[2] <= t + WindowMs
  BY <1>1 DEF Passes, Dashboard!GotThrough
<1> HIDE DEF P
<1>3. P = A \cup B
  <2> SUFFICES ASSUME NEW p \in P PROVE p \in A \/ p \in B
    OBVIOUS
  <2>1. PICK s \in Nat : Passes(c, s, 1) /\ Within(s, p[2])
    BY <1>1, <1>2 DEF Window, InAWindow
  <2>2. s < t \/ s >= t
    BY <1>1
  <2> QED BY <2>1, <2>2
<1>4. ASSUME NEW S \in SUBSET P,
             \A p, q \in S : \E s \in Nat : In(p, s) /\ In(q, s)
      PROVE  IsFiniteSet(S) /\ Cardinality(S) <= n
  <2> DEFINE f == [p \in S |-> p[3]]
  <2>1. \A p, q \in S : p[3] = q[3] => p = q
    <3> SUFFICES ASSUME NEW p \in S, NEW q \in S, p[3] = q[3] PROVE p = q
      OBVIOUS
    <3>1. PICK s \in Nat : In(p, s) /\ In(q, s)
      BY <1>4
    <3>2. /\ p = <<c, p[2], p[3]>> /\ p[2] \in Nat /\ p[3] \in Nat /\ Passes(c, p[2], p[3])
          /\ q = <<c, q[2], q[3]>> /\ q[2] \in Nat /\ Passes(c, q[2], q[3])
      BY <1>2
    <3>3. p[2] = q[2]
      BY <1>1, <3>1, <3>2 DEF Window, CountedOnce
    <3> QED BY <3>2, <3>3
  <2>2. f \in Injection(S, 1 .. n)
    BY <1>2, <2>1 DEF Injection, IsInjective
  <2>3. IsFiniteSet(1 .. n) /\ Cardinality(1 .. n) = n
    BY <1>1, FS_Interval
  <2> HIDE DEF f
  <2>4. IsFiniteSet(S) /\ Cardinality(S) <= Cardinality(1 .. n)
    BY <2>2, <2>3, FS_Injection
  <2> QED BY <2>3, <2>4
<1>5. \A s, r \in Nat : Passes(c, s, 1) /\ Passes(c, r, 1) /\ s < r => s + WindowMs < r
  BY <1>1 DEF Window, Apart
<1>6. IsFiniteSet(A) /\ Cardinality(A) <= n
  <2>1. ASSUME NEW p \in A, NEW q \in A PROVE \E s \in Nat : In(p, s) /\ In(q, s)
    <3>1. PICK s \in Nat : In(p, s) /\ s < t
      OBVIOUS
    <3>2. PICK r \in Nat : In(q, r) /\ r < t
      OBVIOUS
    <3>3. p[2] \in Nat /\ q[2] \in Nat /\ t <= p[2] /\ t <= q[2]
      BY <1>2
    <3>4. s + WindowMs >= t /\ r + WindowMs >= t
      BY <1>1, <3>1, <3>2, <3>3 DEF Within
    <3>5. ~(s < r) /\ ~(r < s)
      BY <1>1, <1>5, <3>1, <3>2, <3>4
    <3>6. s = r
      BY <3>5
    <3> QED BY <3>1, <3>2, <3>6
  <2> HIDE DEF In
  <2> QED BY <1>4, <2>1
<1>7. IsFiniteSet(B) /\ Cardinality(B) <= n
  <2>1. ASSUME NEW p \in B, NEW q \in B PROVE \E s \in Nat : In(p, s) /\ In(q, s)
    <3>1. PICK s \in Nat : In(p, s) /\ s >= t
      OBVIOUS
    <3>2. PICK r \in Nat : In(q, r) /\ r >= t
      OBVIOUS
    <3>3. p[2] \in Nat /\ q[2] \in Nat /\ p[2] <= t + WindowMs /\ q[2] <= t + WindowMs
      BY <1>2
    <3>4. s <= t + WindowMs /\ r <= t + WindowMs
      BY <1>1, <3>1, <3>2, <3>3 DEF Within
    <3>5. ~(s < r) /\ ~(r < s)
      BY <1>1, <1>5, <3>1, <3>2, <3>4
    <3>6. s = r
      BY <3>5
    <3> QED BY <3>1, <3>2, <3>6
  <2> HIDE DEF In
  <2> QED BY <1>4, <2>1
<1> HIDE DEF A, B
<1>8. Cardinality(P) = Cardinality(A) + Cardinality(B) - Cardinality(A \cap B)
  BY <1>3, <1>6, <1>7, FS_Union
<1>9. /\ Cardinality(A) \in Nat /\ Cardinality(B) \in Nat /\ Cardinality(A \cap B) \in Nat
  <2>1. IsFiniteSet(A \cap B)
    BY <1>6, FS_Subset
  <2> QED BY <1>6, <1>7, <2>1, FS_CardinalityType
<1>10. Cardinality(P) <= 2 * n
  BY <1>1, <1>6, <1>7, <1>8, <1>9
<1> QED BY <1>10 DEF P

\* The automation server is started when the profile server is connected, which it stays.
ForwardedInv ==
  /\ \A f \in forwarded : f.known # {} /\ (Dashboard!Routes[f.route].method = "POST" => f.json)
  /\ automation # "null" => profile = "connected"
  /\ (\E f \in forwarded : Dashboard!Routes[f.route].of = "automation") => profile = "connected"

LEMMA CallIsChecked ==
  ASSUME ForwardedInv, NEW route, NEW json \in BOOLEAN, NEW bearer, NEW body,
         Dashboard!FormPasses(route, json), Dashboard!Identity(bearer) # {},
         Dashboard!CallTool(route, json, bearer, body), UNCHANGED <<profile, automation>>
  PROVE  ForwardedInv'
<1> DEFINE client == IF Dashboard!Routes[route].of = "profile" THEN profile ELSE automation
           Call(n) == [route |-> route, as |-> n, known |-> Dashboard!Identity(bearer), json |-> json]
<1>1. CASE client # "connected"
  <2>1. forwarded' = forwarded
    BY <1>1 DEF Dashboard!CallTool
  <2> QED BY <2>1 DEF ForwardedInv
<1>2. CASE client = "connected"
  <2>1. \A f \in forwarded' : \E n : f = Call(n)
    BY <1>2 DEF Dashboard!CallTool
  <2>2. \A f \in forwarded' : f.route = route /\ f.known = Dashboard!Identity(bearer) /\ f.json = json
    BY <2>1
  <2>3. Dashboard!Routes[route].method = "POST" => json
    BY DEF Dashboard!FormPasses
  <2>4. Dashboard!Routes[route].of = "automation" => profile = "connected"
    BY <1>2 DEF ForwardedInv
  <2> HIDE DEF Call, client
  <2> QED BY <2>2, <2>3, <2>4 DEF ForwardedInv
<1> QED BY <1>1, <1>2

DashboardInv == WindowsInv /\ ForwardedInv

LEMMA DashboardStarts == Dashboard!Init => DashboardInv
BY WindowsStart DEF Dashboard!Init, DashboardInv, ForwardedInv

LEMMA DashboardStep == DashboardInv /\ [Dashboard!Next]_dashboardVars => DashboardInv'
<1> SUFFICES ASSUME DashboardInv, [Dashboard!Next]_dashboardVars PROVE DashboardInv'
  OBVIOUS
<1>1. WindowsInv /\ ForwardedInv
  BY DEF DashboardInv
<1>2. ASSUME UNCHANGED <<windows, passed>>, minute' \in Nat, minute <= minute' PROVE WindowsInv'
  <2>1. \A d \in Callers : Window(d)'
    BY <1>1, <1>2, WindowStays DEF WindowsInv, Passes
  <2>2. minute \in Nat \ {0} /\ minute' \in Nat \ {0}
    BY <1>1, <1>2 DEF WindowsInv
  <2> QED BY <1>1, <1>2, <2>1, <2>2 DEF WindowsInv
<1>3. minute \in Nat
  BY <1>1 DEF WindowsInv
<1>4. CASE UNCHANGED dashboardVars
  BY <1>1, <1>2, <1>3, <1>4 DEF dashboardVars, DashboardInv, ForwardedInv
<1>5. CASE Dashboard!Tick
  BY <1>1, <1>2, <1>3, <1>5 DEF Dashboard!Tick, DashboardInv, ForwardedInv
<1>6. CASE Dashboard!StartMCPClients
  <2>1. WindowsInv'
    BY <1>2, <1>3, <1>6 DEF Dashboard!StartMCPClients
  <2>2. ForwardedInv'
    BY <1>1, <1>6 DEF Dashboard!StartMCPClients, ForwardedInv
  <2> QED BY <2>1, <2>2 DEF DashboardInv
<1>8. CASE Dashboard!RefuseBody
  <2>1. WindowsInv'
    BY <1>2, <1>3, <1>8 DEF Dashboard!RefuseBody
  <2>2. ForwardedInv'
    BY <1>1, <1>8 DEF Dashboard!RefuseBody, ForwardedInv
  <2> QED BY <2>1, <2>2 DEF DashboardInv
<1>7. ASSUME NEW c \in Callers, NEW r, NEW json \in BOOLEAN, NEW b, NEW n, Dashboard!Request(c, r, json, b, n)
      PROVE  DashboardInv'
  <2>1. WindowsInv'
    <3>1. /\ minute' = minute /\ windows' = [windows EXCEPT ![c] = Dashboard!Limit(c)]
          /\ IF Dashboard!Limit(c) = windows[c] THEN passed' = passed
             ELSE passed' = passed \cup {<<c, minute, Dashboard!Limit(c).count>>}
      BY <1>7 DEF Dashboard!Request
    <3> QED BY <1>1, <3>1, RequestWindows
  <2>2. UNCHANGED <<profile, automation>>
    BY <1>7 DEF Dashboard!Request
  <2>3. CASE forwarded' = forwarded
    BY <1>1, <2>1, <2>2, <2>3 DEF DashboardInv, ForwardedInv
  <2>4. CASE Dashboard!FormPasses(r, json) /\ Dashboard!Identity(b) # {} /\ Dashboard!CallTool(r, json, b, n)
    BY <1>1, <2>1, <2>2, <2>4, CallIsChecked DEF DashboardInv
  <2> QED BY <1>7, <2>3, <2>4 DEF Dashboard!Request
<1> QED BY <1>4, <1>5, <1>6, <1>7, <1>8 DEF Dashboard!Next


-----------------------------------------------------------------------------
(* What sessions and requests read *)

Chars == Nat \X (Nat \cup {"front", "begin", "end"})
First(t, n) == SubSeq(t, 1, IF n < Len(t) THEN n ELSE Len(t))

LEMMA SliceExtends ==
  ASSUME NEW t \in Seq(Chars), NEW n \in Nat, NEW limit \in Nat
  PROVE  /\ First(t, n) \in Seq(Chars) /\ Knowledge!Slice(t, n, limit) \in Seq(Chars)
         /\ First(t, n) \o Knowledge!Slice(t, n, limit) = First(t, n + limit)
         /\ Len(Knowledge!Slice(t, n, limit)) < limit => n + limit >= Len(t)
         /\ n >= Len(t) => First(t, n) = t
<1> DEFINE len == Len(t)
           k == IF n < len THEN n ELSE len
           e == IF n + limit < len THEN n + limit ELSE len
           s == SubSeq(t, n + 1, e)
<1>1. len \in Nat /\ k \in 0 .. len /\ e \in 0 .. len /\ k <= e
  OBVIOUS
<1>2. First(t, n) = SubSeq(t, 1, k) /\ Knowledge!Slice(t, n, limit) = s /\ First(t, n + limit) = SubSeq(t, 1, e)
  BY DEF First, Knowledge!Slice
<1>3. /\ SubSeq(t, 1, k) \in Seq(Chars) /\ Len(SubSeq(t, 1, k)) = k /\ \A i \in 1 .. k : SubSeq(t, 1, k)[i] = t[i]
      /\ SubSeq(t, 1, e) \in Seq(Chars) /\ Len(SubSeq(t, 1, e)) = e /\ \A i \in 1 .. e : SubSeq(t, 1, e)[i] = t[i]
  BY <1>1
<1>4. s \in Seq(Chars) /\ Len(s) = e - k /\ \A i \in 1 .. e - k : s[i] = t[k + i]
  <2>1. CASE n < len
    BY <1>1, <2>1
  <2>2. CASE ~(n < len)
    <3>1. e = len /\ k = len
      BY <2>2
    <3>2. s = <<>>
      <4>1. n + 1 \in Int /\ e \in Int /\ e < n + 1
        <5> HIDE DEF e, k, len
        <5>1. len \in Nat /\ ~(n < len) /\ e = len
          BY <1>1, <2>2, <3>1 DEF len
        <5> QED BY <5>1
      <4>2. SubSeq(t, n + 1, e) = <<>>
        BY <4>1, SubSeqEmpty, Zenon
      <4> QED BY <4>2
    <3> HIDE DEF s
    <3> QED BY <1>1, <3>1, <3>2
  <2> QED BY <2>1, <2>2
<1>5. SubSeq(t, 1, k) \o s = SubSeq(t, 1, e)
  <2> DEFINE a == SubSeq(t, 1, k)
             b == SubSeq(t, 1, e)
  <2>1. a \in Seq(Chars) /\ b \in Seq(Chars) /\ s \in Seq(Chars) /\ Len(a) = k /\ Len(b) = e /\ Len(s) = e - k
    BY <1>3, <1>4
  <2>2. /\ \A i \in 1 .. k : a[i] = t[i]
        /\ \A i \in 1 .. e : b[i] = t[i]
        /\ \A i \in 1 .. e - k : s[i] = t[k + i]
    BY <1>3, <1>4
  <2> HIDE DEF a, b, s, e, k
  <2>3. Len(a \o s) = e /\ a \o s \in Seq(Chars)
    <3>1. a \o s \in Seq(Chars) /\ Len(a \o s) = Len(a) + Len(s)
      BY <2>1, ConcatProperties, Zenon
    <3> QED BY <1>1, <2>1, <3>1
  <2>4. ASSUME NEW i \in 1 .. e PROVE (a \o s)[i] = b[i]
    <3>1. (a \o s)[i] = IF i <= k THEN a[i] ELSE s[i - k]
      <4>1. i \in 1 .. Len(a) + Len(s)
        BY <1>1, <2>1
      <4>2. (a \o s)[i] = IF i <= Len(a) THEN a[i] ELSE s[i - Len(a)]
        BY <2>1, <4>1, ConcatProperties, Zenon
      <4> QED BY <2>1, <4>2
    <3>2. CASE i <= k
      BY <1>1, <2>2, <3>1, <3>2
    <3>3. CASE ~(i <= k)
      <4>1. i - k \in 1 .. e - k /\ k + (i - k) = i
        BY <1>1, <3>3
      <4> QED BY <2>2, <3>1, <3>3, <4>1
    <3> QED BY <3>2, <3>3
  <2>5. Len(a \o s) = Len(b)
    BY <2>1, <2>3
  <2>6. \A i \in 1 .. Len(a \o s) : (a \o s)[i] = b[i]
    BY <2>3, <2>4
  <2>7. a \o s = b
    BY <2>1, <2>3, <2>5, <2>6, SeqEqual, Zenon
  <2> QED BY <2>7 DEF a, b
<1>6. Len(s) < limit => n + limit >= len
  BY <1>1, <1>4
<1>7. n >= len => SubSeq(t, 1, k) = t
  <2> SUFFICES ASSUME n >= len PROVE SubSeq(t, 1, k) = t
    OBVIOUS
  <2>1. k = len
    BY <1>1
  <2>2. SubSeq(t, 1, Len(t)) = t
    BY SubSeqFull, Zenon
  <2> QED BY <2>1, <2>2
<1> HIDE DEF s, e, k
<1> QED BY <1>2, <1>3, <1>4, <1>5, <1>6, <1>7

LEMMA FirstNone == \A t \in Seq(Chars) : First(t, 0) = <<>>
BY DEF First

LEMMA TextsAre ==
  ASSUME NEW v \in Nat
  PROVE  /\ Knowledge!Body(v) \in Seq(Chars) /\ Len(Knowledge!Body(v)) = v
         /\ Knowledge!FullText(v) \in Seq(Chars)
<1>1. Knowledge!Body(v) \in Seq(Chars) /\ Len(Knowledge!Body(v)) = v
  <2>1. \A i \in 1 .. v : <<v, i>> \in Chars
    BY DEF Chars
  <2> QED BY <2>1 DEF Knowledge!Body
<1>2. <<v, "front">> \in Chars /\ <<v, "begin">> \in Chars /\ <<v, "end">> \in Chars
  BY DEF Chars
<1> HIDE DEF Chars
<1>3. <<<<v, "front">>, <<v, "begin">>>> \in Seq(Chars) /\ <<<<v, "end">>>> \in Seq(Chars)
  BY <1>2
<1>4. Knowledge!FullText(v) = (<<<<v, "front">>, <<v, "begin">>>> \o Knowledge!Body(v)) \o <<<<v, "end">>>>
  BY DEF Knowledge!FullText
<1>5. <<<<v, "front">>, <<v, "begin">>>> \o Knowledge!Body(v) \in Seq(Chars)
  BY <1>1, <1>3
<1> QED BY <1>1, <1>3, <1>4, <1>5

Readings == [kind : {"none", "session", "request"}, limit : Nat, offset : Nat, text : Seq(Chars),
             from : SUBSET Nat, done : BOOLEAN]

\* What was read so far is the beginning of the one version it was read from.
ReadSoFar(c) ==
  LET r == reading[c] IN
    /\ r.kind = "session" =>
         /\ r.text = First(Knowledge!FullText(server[c]), r.offset)
         /\ r.done => r.offset >= Len(Knowledge!FullText(server[c]))
         /\ c \notin connections => r.offset = 0 /\ ~r.done
    /\ r.kind = "request" =>
         /\ r.from = {} => r.text = <<>> /\ r.offset = 0 /\ ~r.done
         /\ \A v \in r.from : r.from = {v} =>
              r.text = First(Knowledge!Body(v), r.offset) /\ (r.done => r.offset >= v)
    /\ r.kind = "none" => ~r.done

SessionInv ==
  /\ ir \in Nat /\ server \in [Clients -> Nat] /\ reading \in [Clients -> Readings]
  /\ Knowledge!SessionsAreOpen /\ Knowledge!OnlyReadingsAreDone
  /\ \A c \in Clients : ReadSoFar(c)

LEMMA SessionsRead == SessionInv => Knowledge!ReadIsWhole
<1> SUFFICES ASSUME SessionInv, NEW c \in Clients, reading[c].done
             PROVE  /\ reading[c].kind = "session" => reading[c].text = Knowledge!FullText(server[c])
                    /\ reading[c].kind = "request" =>
                         \A v \in reading[c].from : reading[c].from = {v} => reading[c].text = Knowledge!Body(v)
  BY DEF Knowledge!ReadIsWhole
<1> DEFINE r == reading[c]
<1>1. ReadSoFar(c) /\ r \in Readings /\ server[c] \in Nat
  BY DEF SessionInv
<1>2. r.offset \in Nat /\ r.from \subseteq Nat
  BY <1>1 DEF Readings
<1>3. ASSUME r.kind = "session" PROVE r.text = Knowledge!FullText(server[c])
  <2>1. r.text = First(Knowledge!FullText(server[c]), r.offset) /\ r.offset >= Len(Knowledge!FullText(server[c]))
    BY <1>1, <1>3 DEF ReadSoFar
  <2>2. First(Knowledge!FullText(server[c]), r.offset) = Knowledge!FullText(server[c])
    BY <1>1, <1>2, <2>1, TextsAre, SliceExtends
  <2> QED BY <2>1, <2>2
<1>4. ASSUME r.kind = "request", NEW v \in r.from, r.from = {v} PROVE r.text = Knowledge!Body(v)
  <2>1. r.text = First(Knowledge!Body(v), r.offset) /\ r.offset >= v
    BY <1>1, <1>4 DEF ReadSoFar
  <2>2. v \in Nat /\ Knowledge!Body(v) \in Seq(Chars) /\ Len(Knowledge!Body(v)) = v
    BY <1>2, TextsAre
  <2>3. First(Knowledge!Body(v), r.offset) = Knowledge!Body(v)
    BY <1>2, <2>1, <2>2, SliceExtends
  <2> QED BY <2>1, <2>3
<1> QED BY <1>3, <1>4


\* A reading with one chunk more, of version v.
WithChunk(r, full, v, done) ==
  [r EXCEPT !.text = @ \o Knowledge!Slice(full, r.offset, r.limit), !.offset = @ + r.limit,
            !.from = @ \cup {v}, !.done = done]

LEMMA ChunkFacts ==
  ASSUME NEW r \in Readings, NEW full \in Seq(Chars), NEW v \in Nat, NEW d \in BOOLEAN
  PROVE  LET s == WithChunk(r, full, v, d) IN
           /\ s \in Readings /\ s.kind = r.kind /\ s.from = r.from \cup {v} /\ s.done = d
           /\ s.offset = r.offset + r.limit
           /\ (r.text = First(full, r.offset) => s.text = First(full, s.offset))
<1> DEFINE x == Knowledge!Slice(full, r.offset, r.limit)
           s == WithChunk(r, full, v, d)
<1>1. r.offset \in Nat /\ r.limit \in Nat /\ r.text \in Seq(Chars) /\ r.from \in SUBSET Nat
  BY DEF Readings
<1>2. x \in Seq(Chars) /\ First(full, r.offset) \o x = First(full, r.offset + r.limit)
  BY <1>1, SliceExtends, Zenon
<1> HIDE DEF x
<1>3. s = [r EXCEPT !.text = r.text \o x, !.offset = r.offset + r.limit, !.from = r.from \cup {v}, !.done = d]
  BY DEF x, WithChunk
<1> HIDE DEF s
<1>4. r.text \o x \in Seq(Chars) /\ r.offset + r.limit \in Nat /\ r.from \cup {v} \in SUBSET Nat
  BY <1>1, <1>2
<1>5. /\ s \in Readings /\ s.kind = r.kind /\ s.from = r.from \cup {v} /\ s.done = d
      /\ s.offset = r.offset + r.limit /\ s.text = r.text \o x
  BY <1>3, <1>4 DEF Readings
<1> QED BY <1>2, <1>5 DEF s

LEMMA ReadDocumentStep ==
  ASSUME SessionInv, NEW c \in Clients, Knowledge!ReadDocumentChunk(c)
  PROVE  reading' \in [Clients -> Readings] /\ ReadSoFar(c)'
<1> DEFINE r == reading[c]
           full == Knowledge!FullText(server[c])
           d == r.offset + r.limit >= Len(full)
           s == reading'[c]
<1>1. /\ r \in Readings /\ ReadSoFar(c) /\ server[c] \in Nat /\ full \in Seq(Chars)
      /\ reading \in [Clients -> Readings] /\ connections = transports
  BY TextsAre DEF SessionInv, Knowledge!SessionsAreOpen
<1>2. /\ r.kind = "session" /\ c \in transports /\ UNCHANGED <<server, connections>>
      /\ reading' = [reading EXCEPT ![c] =
           [r EXCEPT !.text = @ \o Knowledge!Slice(full, r.offset, r.limit), !.offset = @ + r.limit,
                     !.from = @ \cup {server[c]}, !.done = d]]
  BY DEF Knowledge!ReadDocumentChunk
<1> HIDE DEF full, r
<1>3. s = WithChunk(r, full, server[c], d) /\ reading' = [reading EXCEPT ![c] = WithChunk(r, full, server[c], d)]
  BY <1>1, <1>2 DEF WithChunk
<1>4. d \in BOOLEAN
  OBVIOUS
<1> HIDE DEF d, s
<1>5. /\ s \in Readings /\ s.kind = r.kind /\ s.done = d /\ s.offset = r.offset + r.limit
      /\ (r.text = First(full, r.offset) => s.text = First(full, s.offset))
  BY <1>1, <1>3, <1>4, ChunkFacts
<1>6. reading' \in [Clients -> Readings]
  BY <1>1, <1>2, <1>3, <1>5
<1>7. r.text = First(full, r.offset)
  BY <1>1, <1>2 DEF ReadSoFar, r, full
<1>8. s.text = First(full, s.offset) /\ (s.done => s.offset >= Len(full)) /\ s.kind = "session"
  BY <1>2, <1>5, <1>7 DEF d
<1>9. full = Knowledge!FullText(server'[c]) /\ c \in connections'
  BY <1>1, <1>2 DEF full
<1>10. ReadSoFar(c)'
  BY <1>8, <1>9 DEF ReadSoFar, s
<1> QED BY <1>6, <1>10

LEMMA PostChunkStep ==
  ASSUME SessionInv, NEW c \in Clients, Knowledge!PostChunk(c)
  PROVE  reading' \in [Clients -> Readings] /\ ReadSoFar(c)'
<1> DEFINE r == reading[c]
           body == Knowledge!Body(ir)
           chunk == Knowledge!Slice(body, r.offset, r.limit)
           d == Len(chunk) < r.limit
           s == reading'[c]
<1>1. /\ r \in Readings /\ ReadSoFar(c) /\ ir \in Nat /\ body \in Seq(Chars) /\ Len(body) = ir
      /\ reading \in [Clients -> Readings]
  BY TextsAre DEF SessionInv
<1>2. /\ r.kind = "request" /\ ~r.done
      /\ reading' = [reading EXCEPT ![c] =
           [r EXCEPT !.text = @ \o Knowledge!Slice(body, r.offset, r.limit), !.offset = @ + r.limit,
                     !.from = @ \cup {ir}, !.done = d]]
  BY DEF Knowledge!PostChunk
<1> HIDE DEF body, r
<1>3. s = WithChunk(r, body, ir, d) /\ reading' = [reading EXCEPT ![c] = WithChunk(r, body, ir, d)]
  BY <1>1, <1>2 DEF WithChunk
<1>4. d \in BOOLEAN
  OBVIOUS
<1>5. r.offset \in Nat /\ r.limit \in Nat
  BY <1>1 DEF Readings
<1>6. d => r.offset + r.limit >= ir
  BY <1>1, <1>5, SliceExtends
<1> HIDE DEF d, s
<1>7. /\ s \in Readings /\ s.kind = r.kind /\ s.done = d /\ s.offset = r.offset + r.limit /\ s.from = r.from \cup {ir}
      /\ (r.text = First(body, r.offset) => s.text = First(body, s.offset))
  BY <1>1, <1>3, <1>4, ChunkFacts
<1>8. reading' \in [Clients -> Readings]
  BY <1>1, <1>2, <1>3, <1>7
<1>9. ASSUME NEW v \in s.from, s.from = {v}
      PROVE  s.text = First(Knowledge!Body(v), s.offset) /\ (s.done => s.offset >= v)
  <2>1. v = ir /\ (r.from = {} \/ r.from = {v})
    BY <1>7, <1>9
  <2>2. r.text = First(body, r.offset)
    <3>1. CASE r.from = {}
      <4>1. r.text = <<>> /\ r.offset = 0
        BY <1>1, <1>2, <3>1 DEF ReadSoFar, r
      <4> QED BY <1>1, <4>1, FirstNone
    <3>2. CASE r.from = {v}
      BY <1>1, <1>2, <2>1, <3>2 DEF ReadSoFar, r, body
    <3> QED BY <2>1, <3>1, <3>2
  <2> QED BY <1>6, <1>7, <2>1, <2>2 DEF body
<1>10. s.kind = "request" /\ s.from # {}
  BY <1>2, <1>7
<1>11. ReadSoFar(c)'
  BY <1>9, <1>10 DEF ReadSoFar, s
<1> QED BY <1>8, <1>11

LEMMA BeginStep ==
  ASSUME SessionInv, NEW c \in Clients, Knowledge!Begin(c)
  PROVE  reading' \in [Clients -> Readings] /\ ReadSoFar(c)'
<1>1. PICK limit \in Limits, kind \in {"session", "request"} :
        reading' = [reading EXCEPT ![c] = Knowledge!Start(kind, limit)]
  BY DEF Knowledge!Begin
<1> DEFINE none == Knowledge!NotReading
           s == reading'[c]
<1>2. limit \in Nat
  BY MCAssumption DEF Knowledge!ProfileAssumption
<1>3. none \in Readings /\ none.offset = 0 /\ none.text = <<>> /\ none.from = {} /\ ~none.done
  BY DEF Knowledge!NotReading, Readings
<1> HIDE DEF none
<1>4. s = [none EXCEPT !.kind = kind, !.limit = limit]
  BY <1>1 DEF Knowledge!Start, none, SessionInv
<1>5. s \in Readings /\ s.kind = kind /\ s.offset = 0 /\ s.text = <<>> /\ s.from = {} /\ ~s.done
  BY <1>2, <1>3, <1>4 DEF Readings
<1>6. reading' \in [Clients -> Readings]
  BY <1>1, <1>5 DEF SessionInv
<1>7. server'[c] \in Nat
  BY DEF Knowledge!Begin, SessionInv
<1> HIDE DEF s
<1>8. s.text = First(Knowledge!FullText(server'[c]), s.offset)
  BY <1>5, <1>7, TextsAre, FirstNone
<1>9. ReadSoFar(c)'
  BY <1>5, <1>8 DEF ReadSoFar, s
<1> QED BY <1>6, <1>9

LEMMA SessionStarts == Knowledge!SessionInit => SessionInv
<1> SUFFICES ASSUME Knowledge!SessionInit PROVE SessionInv
  OBVIOUS
<1> DEFINE none == Knowledge!NotReading
<1>1. none \in Readings /\ none.kind = "none" /\ ~none.done
  BY DEF Knowledge!NotReading, Readings
<1> HIDE DEF none
<1>2. /\ ir = 0 /\ connections = {} /\ transports = {} /\ server = [c \in Clients |-> 0]
      /\ reading = [c \in Clients |-> none] /\ called = [effect |-> "none", told |-> "read", status |-> "none"]
  BY DEF Knowledge!SessionInit, none
<1>3. \A c \in Clients : ReadSoFar(c)
  BY <1>1, <1>2 DEF ReadSoFar
<1>4. Knowledge!SessionsAreOpen /\ Knowledge!OnlyReadingsAreDone
  BY <1>2 DEF Knowledge!SessionsAreOpen, Knowledge!OnlyReadingsAreDone
<1> QED BY <1>1, <1>2, <1>3, <1>4 DEF SessionInv

LEMMA SessionStep == SessionInv /\ [Knowledge!SessionNext]_profileVars => SessionInv'
<1> SUFFICES ASSUME SessionInv, [Knowledge!SessionNext]_profileVars PROVE SessionInv'
  OBVIOUS
<1>1. /\ ir \in Nat /\ server \in [Clients -> Nat] /\ reading \in [Clients -> Readings]
      /\ transports = connections /\ \A c \in Clients : server[c] > 0 => c \in connections
      /\ Knowledge!OnlyReadingsAreDone /\ \A c \in Clients : ReadSoFar(c)
  BY DEF SessionInv, Knowledge!SessionsAreOpen
<1>2. ASSUME NEW c \in Clients, reading'[c] = reading[c], server'[c] = server[c],
             c \in connections' <=> c \in connections
      PROVE  ReadSoFar(c)'
  BY <1>1, <1>2 DEF ReadSoFar
<1>3. CASE UNCHANGED profileVars
  BY <1>1, <1>2, <1>3 DEF profileVars, SessionInv, Knowledge!SessionsAreOpen, Knowledge!OnlyReadingsAreDone
<1>4. CASE Knowledge!Load
  BY <1>1, <1>2, <1>4 DEF Knowledge!Load, SessionInv, Knowledge!SessionsAreOpen, Knowledge!OnlyReadingsAreDone
<1>5. ASSUME NEW c \in Clients, Knowledge!Connect(c) PROVE SessionInv'
  <2>1. /\ c \notin connections /\ connections' = connections \cup {c} /\ transports' = transports \cup {c}
        /\ server' = [server EXCEPT ![c] = ir] /\ UNCHANGED <<ir, reading, called>>
    BY <1>5 DEF Knowledge!Connect
  <2>2. \A d \in Clients : d # c => ReadSoFar(d)'
    BY <1>1, <1>2, <2>1
  <2>3. ReadSoFar(c)'
    <3>1. ASSUME reading[c].kind = "session"
          PROVE  reading[c].offset = 0 /\ ~reading[c].done /\ reading[c].text = <<>>
      <4>1. reading[c].offset = 0 /\ ~reading[c].done
        BY <1>1, <2>1, <3>1 DEF ReadSoFar
      <4>2. reading[c].text = First(Knowledge!FullText(server[c]), 0)
        BY <1>1, <3>1, <4>1 DEF ReadSoFar
      <4>3. server[c] \in Nat
        BY <1>1
      <4> QED BY <4>1, <4>2, <4>3, TextsAre, FirstNone
    <3>2. First(Knowledge!FullText(ir), 0) = <<>> /\ server'[c] = ir
      BY <1>1, <2>1, TextsAre, FirstNone
    <3>3. ReadSoFar(c) /\ reading'[c] = reading[c] /\ c \in connections'
      BY <1>1, <2>1
    <3> QED BY <3>1, <3>2, <3>3 DEF ReadSoFar
  <2>4. Knowledge!SessionsAreOpen'
    BY <1>1, <2>1 DEF Knowledge!SessionsAreOpen
  <2> QED BY <1>1, <2>1, <2>2, <2>3, <2>4 DEF SessionInv, Knowledge!OnlyReadingsAreDone
<1>6. ASSUME NEW c \in Clients, Knowledge!Close(c) PROVE SessionInv'
  <2> DEFINE none == Knowledge!NotReading
  <2>1. none \in Readings /\ none.kind = "none" /\ ~none.done
    BY DEF Knowledge!NotReading, Readings
  <2> HIDE DEF none
  <2>2. /\ connections' = connections \ {c} /\ transports' = transports \ {c}
        /\ server' = [server EXCEPT ![c] = 0] /\ reading' = [reading EXCEPT ![c] = none] /\ UNCHANGED <<ir, called>>
    BY <1>6 DEF Knowledge!Close, none
  <2>3. \A d \in Clients : d # c => ReadSoFar(d)'
    BY <1>1, <1>2, <2>2
  <2>4. reading'[c] = none
    BY <1>1, <2>2
  <2>5. ReadSoFar(c)'
    BY <2>1, <2>4 DEF ReadSoFar
  <2>6. Knowledge!SessionsAreOpen'
    BY <1>1, <2>2 DEF Knowledge!SessionsAreOpen
  <2> QED BY <1>1, <2>1, <2>2, <2>3, <2>5, <2>6 DEF SessionInv, Knowledge!OnlyReadingsAreDone
<1>7. ASSUME NEW c \in Clients, UNCHANGED <<ir, connections, transports, server, called>>,
             \A d \in Clients : d # c => reading'[d] = reading[d],
             reading' \in [Clients -> Readings], ReadSoFar(c)'
      PROVE  SessionInv'
  <2>1. \A d \in Clients : d # c => ReadSoFar(d)'
    BY <1>2, <1>7
  <2> QED BY <1>1, <1>7, <2>1 DEF SessionInv, Knowledge!OnlyReadingsAreDone, Knowledge!SessionsAreOpen
<1>8. ASSUME NEW c \in Clients, Knowledge!Begin(c) PROVE SessionInv'
  BY <1>1, <1>7, <1>8, BeginStep DEF Knowledge!Begin
<1>9. ASSUME NEW c \in Clients, Knowledge!ReadDocumentChunk(c) PROVE SessionInv'
  BY <1>1, <1>7, <1>9, ReadDocumentStep DEF Knowledge!ReadDocumentChunk
<1>10. ASSUME NEW c \in Clients, Knowledge!PostChunk(c) PROVE SessionInv'
  BY <1>1, <1>7, <1>10, PostChunkStep DEF Knowledge!PostChunk
<1>11. ASSUME NEW e \in Knowledge!SideEffects, Knowledge!CallTool(e) PROVE SessionInv'
  <2>1. /\ called'.effect = e /\ called'.told = Knowledge!Mapped(e)
        /\ called'.status = "ok" => Knowledge!ReadOnly(e)
    BY <1>11 DEF Knowledge!CallTool
  <2>2. /\ Knowledge!Mapped(e) = "read" <=> e \in {"none", "local-read", "external-read"}
        /\ Knowledge!ReadOnly(e) => e \in {"none", "external-read"}
    BY DEF Knowledge!SideEffects, Knowledge!Mapped, Knowledge!ReadOnly
  <2>3. Knowledge!OnlyReadingsAreDone'
    BY <2>1, <2>2 DEF Knowledge!OnlyReadingsAreDone
  <2>4. UNCHANGED <<ir, connections, transports, server, reading>>
    BY <1>11 DEF Knowledge!CallTool
  <2> QED BY <1>1, <1>2, <2>3, <2>4 DEF SessionInv, Knowledge!SessionsAreOpen
<1> QED BY <1>3, <1>4, <1>5, <1>6, <1>8, <1>9, <1>10, <1>11 DEF Knowledge!SessionNext


-----------------------------------------------------------------------------
(* What the front gives *)

\* With the word that every uri of the bundle begins with.
UriWord == STRING \cup {"bundle"}

LEMMA SuffixIs ==
  ASSUME NEW W, NEW s \in Seq(W), NEW t \in Seq(W), Len(s) <= Len(t),
         \A i \in 1 .. Len(s) : s[i] = t[Len(t) - Len(s) + i]
  PROVE  Knowledge!IsSuffix(s, t)
<1> DEFINE m == Len(s)
           n == Len(t)
           a == [i \in 1 .. m |-> s[(m - i) + 1]]
           b == [i \in 1 .. n |-> t[(n - i) + 1]]
<1>1. m \in Nat /\ n \in Nat /\ m <= n /\ s \in [1 .. m -> W] /\ t \in [1 .. n -> W]
  OBVIOUS
<1>2. \A i \in 1 .. m : (m - i) + 1 \in 1 .. m /\ (n - i) + 1 \in 1 .. n /\ (n - m) + ((m - i) + 1) = (n - i) + 1
  BY <1>1
<1>3. a \in Seq(W) /\ Len(a) = m
  <2>1. \A i \in 1 .. m : s[(m - i) + 1] \in W
    BY <1>1, <1>2
  <2> HIDE DEF m
  <2> QED BY <1>1, <2>1
<1>4. b \in Seq(W) /\ Len(b) = n
  <2>1. \A i \in 1 .. n : t[(n - i) + 1] \in W
    BY <1>1
  <2> HIDE DEF n
  <2> QED BY <1>1, <2>1
<1>5. \A i \in 1 .. m : a[i] = b[i]
  <2> SUFFICES ASSUME NEW i \in 1 .. m PROVE a[i] = b[i]
    OBVIOUS
  <2>1. s[(m - i) + 1] = t[(n - m) + ((m - i) + 1)]
    BY <1>2
  <2>2. i \in 1 .. n
    BY <1>1
  <2> HIDE DEF m, n
  <2> QED BY <1>2, <2>1, <2>2
<1>6. Knowledge!Reverse(s) = a /\ Knowledge!Reverse(t) = b
  BY DEF Knowledge!Reverse
<1> HIDE DEF a, b, m, n
<1>7. SubSeq(a, 1, m) \in Seq(W) /\ Len(SubSeq(a, 1, m)) = m /\ \A i \in 1 .. m : SubSeq(a, 1, m)[i] = a[i]
  BY <1>1, <1>3
<1>8. SubSeq(b, 1, m) \in Seq(W) /\ Len(SubSeq(b, 1, m)) = m /\ \A i \in 1 .. m : SubSeq(b, 1, m)[i] = b[i]
  BY <1>1, <1>4
<1>9. SubSeq(a, 1, m) = SubSeq(b, 1, m)
  <2>1. \A i \in 1 .. Len(SubSeq(a, 1, m)) : SubSeq(a, 1, m)[i] = SubSeq(b, 1, m)[i]
    BY <1>5, <1>7, <1>8
  <2> QED BY <1>7, <1>8, <2>1, SeqEqual, Zenon
<1> QED BY <1>1, <1>3, <1>4, <1>6, <1>9 DEF Knowledge!IsSuffix, Knowledge!IsPrefix

LEMMA PathEndsUri == \A id \in Seq(STRING) : Knowledge!IsSuffix(id, Knowledge!Uri(id))
<1> SUFFICES ASSUME NEW id \in Seq(STRING) PROVE Knowledge!IsSuffix(id, <<"bundle">> \o id)
  BY DEF Knowledge!Uri
<1>1. id \in Seq(UriWord) /\ <<"bundle">> \in Seq(UriWord) /\ Len(<<"bundle">>) = 1
  <2>1. STRING \subseteq UriWord /\ "bundle" \in UriWord
    BY DEF UriWord
  <2>2. id \in [1 .. Len(id) -> STRING] /\ Len(id) \in Nat
    OBVIOUS
  <2> HIDE DEF UriWord
  <2>3. id \in [1 .. Len(id) -> UriWord]
    BY <2>1, <2>2
  <2>4. id \in Seq(UriWord)
    BY <2>2, <2>3
  <2>5. <<"bundle">> \in Seq(UriWord) /\ Len(<<"bundle">>) = 1
    BY <2>1
  <2> QED BY <2>4, <2>5
<1> DEFINE t == <<"bundle">> \o id
<1>2. /\ t \in Seq(UriWord) /\ Len(t) = Len(<<"bundle">>) + Len(id)
      /\ \A i \in 1 .. Len(<<"bundle">>) + Len(id) :
           t[i] = IF i <= Len(<<"bundle">>) THEN <<"bundle">>[i] ELSE id[i - Len(<<"bundle">>)]
  BY <1>1, ConcatProperties, Zenon
<1> HIDE DEF t
<1>3. Len(t) = 1 + Len(id) /\ \A i \in 1 .. Len(id) : id[i] = t[Len(t) - Len(id) + i]
  <2>1. Len(id) \in Nat /\ Len(t) = 1 + Len(id)
    BY <1>1, <1>2
  <2>2. ASSUME NEW i \in 1 .. Len(id) PROVE id[i] = t[Len(t) - Len(id) + i]
    <3>1. 1 + i \in 1 .. Len(<<"bundle">>) + Len(id) /\ Len(t) - Len(id) + i = 1 + i
      BY <1>1, <2>1
    <3>2. t[1 + i] = IF 1 + i <= Len(<<"bundle">>) THEN <<"bundle">>[1 + i] ELSE id[(1 + i) - Len(<<"bundle">>)]
      BY <1>2, <3>1
    <3>3. ~(1 + i <= Len(<<"bundle">>)) /\ (1 + i) - Len(<<"bundle">>) = i
      BY <1>1, <2>1
    <3> QED BY <3>1, <3>2, <3>3
  <2> QED BY <2>1, <2>2
<1>4. Len(id) <= Len(t)
  BY <1>1, <1>3
<1>5. Knowledge!IsSuffix(id, t)
  BY <1>1, <1>2, <1>3, <1>4, SuffixIs
<1> QED BY <1>5 DEF t

Bearing == {"none", "wrong", "valid", "session"}
Answers == [status : Nat, bearer : Bearing, asked : Seq(STRING), given : Seq(STRING),
            risk : {"possible", "high"}, outage : BOOLEAN]

LEMMA AnswerIs ==
  ASSUME NEW code \in Nat, NEW bearer \in Bearing
  PROVE  LET a == Knowledge!Answer(code, bearer) IN
           a \in Answers /\ a.bearer = bearer /\ a.given = <<>> /\ a.asked = <<>> /\ a.risk = "possible" /\ a.outage = FALSE
<1> DEFINE n == Knowledge!NoAnswer
<1>1. n \in Answers /\ n.given = <<>> /\ n.asked = <<>> /\ n.risk = "possible" /\ n.outage = FALSE
  BY DEF Knowledge!NoAnswer, Answers, Bearing
<1> HIDE DEF n
<1>2. Knowledge!Answer(code, bearer) = [n EXCEPT !.status = code, !.bearer = bearer]
  BY DEF Knowledge!Answer, n
<1> QED BY <1>1, <1>2 DEF Answers

NothingGiven == answer.given = <<>>

Loaded(c) == c = <<>> \/ \E b \in Bundles : c = <<b>>

\* A running server was started properly, and lets in whom it may; what is given is right
\* when it is given.
FrontBase ==
  /\ config \in Knowledge!Configs /\ running \in BOOLEAN
  /\ running => (config.main => config.auth \/ config.insecure) /\ ~config.forged
  /\ Loaded(concepts) /\ Loaded(session)
  /\ session # <<>> => running /\ (config.auth \/ Knowledge!Open)
FrontInv == FrontBase /\ Knowledge!NothingWithoutBearer /\ Knowledge!GivenIsAsked /\ Knowledge!OutageIsNoPass

LEMMA ConfigIs ==
  \A g \in Knowledge!Configs :
    /\ g.main \in BOOLEAN /\ g.auth \in BOOLEAN /\ g.insecure \in BOOLEAN /\ g.test \in BOOLEAN
    /\ g.forged \in BOOLEAN /\ g.scan \in BOOLEAN /\ g.key \in BOOLEAN /\ g.failClosed \in BOOLEAN
BY DEF Knowledge!Configs

\* What the bearer needs where something is given.
GivenRightly == answer.bearer \in {"none", "wrong"} /\ answer.given # <<>> => Knowledge!Open

LEMMA BearersNeeded ==
  FrontBase /\ GivenRightly /\ (answer.given # <<>> => running /\ (config.auth \/ Knowledge!Open)) =>
    Knowledge!NothingWithoutBearer
<1> SUFFICES ASSUME FrontBase, GivenRightly, answer.given # <<>> => running /\ (config.auth \/ Knowledge!Open)
             PROVE  Knowledge!NothingWithoutBearer
  OBVIOUS
<1> DEFINE main == config.main
           auth == config.auth
           insecure == config.insecure
           forged == config.forged
<1>1. main \in BOOLEAN /\ auth \in BOOLEAN /\ insecure \in BOOLEAN /\ forged \in BOOLEAN
  BY ConfigIs DEF FrontBase
<1>2. running => (main => auth \/ insecure) /\ ~forged
  BY DEF FrontBase
<1>3. answer.given # <<>> \/ session # <<>> => running /\ (auth \/ Knowledge!Open)
  BY DEF FrontBase
<1>4. answer.given # <<>> \/ session # <<>> =>
        running /\ ~forged /\ (auth \/ Knowledge!Open) /\ (main /\ ~auth => insecure)
  <2> HIDE DEF main, auth, insecure, forged
  <2> QED BY <1>1, <1>2, <1>3
<1> QED BY <1>4 DEF Knowledge!NothingWithoutBearer, GivenRightly

\* An answer that gives nothing.
LEMMA EmptyAnswer == FrontBase /\ NothingGiven => FrontInv
<1> SUFFICES ASSUME FrontBase, NothingGiven PROVE FrontInv
  OBVIOUS
<1>1. Knowledge!NothingWithoutBearer
  BY BearersNeeded DEF NothingGiven, GivenRightly
<1>2. Knowledge!GivenIsAsked /\ Knowledge!OutageIsNoPass
  BY DEF NothingGiven, Knowledge!GivenIsAsked, Knowledge!OutageIsNoPass
<1> QED BY <1>1, <1>2 DEF FrontInv

LEMMA FrontStarts == Knowledge!RequestInit => FrontInv
<1> SUFFICES ASSUME Knowledge!RequestInit PROVE FrontInv
  OBVIOUS
<1>1. NothingGiven
  BY DEF Knowledge!RequestInit, Knowledge!NoAnswer, NothingGiven
<1> QED BY <1>1, EmptyAnswer DEF Knowledge!RequestInit, Loaded, FrontBase


LEMMA EntryIsRight ==
  ASSUME FrontBase, NEW bearer, Knowledge!Entry(bearer) = 200
  PROVE  (config.auth /\ bearer = "valid") \/ Knowledge!Open
<1> DEFINE auth == config.auth
           insecure == config.insecure
           test == config.test
<1>1. auth \in BOOLEAN /\ insecure \in BOOLEAN /\ test \in BOOLEAN
  BY ConfigIs DEF FrontBase
<1>2. (IF ~auth THEN (IF insecure \/ test THEN 200 ELSE 500) ELSE IF bearer = "valid" THEN 200 ELSE 401) = 200
  BY DEF Knowledge!Entry
<1>3. (auth /\ bearer = "valid") \/ (~auth /\ (insecure \/ test))
  <2> HIDE DEF auth, insecure, test
  <2> QED BY <1>1, <1>2
<1> QED BY <1>3 DEF Knowledge!Open

LEMMA EntryStatus == \A b : Knowledge!Entry(b) \in Nat
BY DEF Knowledge!Entry

\* Of a request that reads, the document is a loaded one whose path ends the uri.
LEMMA PostReadStep ==
  ASSUME FrontInv, NEW bearer \in Knowledge!Bearers, NEW uri \in Uris, Knowledge!PostRead(bearer, uri)
  PROVE  FrontInv'
<1> DEFINE hits == {i \in DOMAIN concepts[1] : Knowledge!IsSuffix(concepts[1][i], uri)}
           fits == concepts # <<>> /\ hits # {}
           code == IF Knowledge!Entry(bearer) # 200 THEN Knowledge!Entry(bearer)
                     ELSE IF concepts = <<>> THEN 503 ELSE IF fits THEN 200 ELSE 404
           given == IF Knowledge!Entry(bearer) = 200 /\ fits THEN concepts[1][Knowledge!Min(hits)] ELSE <<>>
           base == Knowledge!Answer(code, bearer)
<1>1. /\ running /\ UNCHANGED <<config, running, concepts, session>>
      /\ answer' = [base EXCEPT !.asked = uri, !.given = given]
  BY DEF Knowledge!PostRead
<1>2. FrontBase /\ FrontBase'
  BY <1>1 DEF FrontInv, FrontBase, Knowledge!Open
<1>3. code \in Nat /\ bearer \in Bearing /\ bearer # "session"
  BY EntryStatus DEF Knowledge!Bearers, Bearing
<1>4. CASE ~(Knowledge!Entry(bearer) = 200 /\ fits)
  <2>1. given = <<>> /\ <<>> \in Seq(STRING)
    BY <1>4
  <2> HIDE DEF given, code, base
  <2>2. base \in Answers
    BY <1>3, AnswerIs DEF base
  <2>3. uri \in Seq(STRING)
    BY MCAssumption DEF Knowledge!ProfileAssumption
  <2>4. NothingGiven'
    BY <1>1, <2>1, <2>2, <2>3 DEF NothingGiven, Answers
  <2>5. (FrontBase /\ NothingGiven => FrontInv)'
    BY EmptyAnswer, PTL
  <2> QED BY <1>2, <2>4, <2>5
<1>5. CASE Knowledge!Entry(bearer) = 200 /\ fits
  <2>1. PICK b \in Bundles : concepts = <<b>>
    BY <1>2, <1>5 DEF FrontBase, Loaded
  <2>2. b \in Seq(Seq(STRING)) /\ uri \in Seq(STRING)
    BY MCAssumption DEF Knowledge!ProfileAssumption
  <2>3. hits \in SUBSET Nat /\ hits # {}
    BY <1>5, <2>1, <2>2
  <2>4. Knowledge!Min(hits) \in hits
    <3> HIDE DEF hits
    <3>1. \E i \in hits : \A j \in hits : i <= j
      BY <2>3, LeastOfSome
    <3> QED BY <3>1 DEF Knowledge!Min
  <2>5. given = concepts[1][Knowledge!Min(hits)]
    BY <1>5
  <2>6. given \in Seq(STRING) /\ Knowledge!IsSuffix(given, uri) /\ given \in Knowledge!Concepts
    <3> DEFINE i == Knowledge!Min(hits)
    <3>1. i \in DOMAIN concepts[1] /\ Knowledge!IsSuffix(concepts[1][i], uri)
      BY <2>4
    <3> HIDE DEF i, hits
    <3>2. given = b[i] /\ i \in DOMAIN b
      BY <2>1, <2>5, <3>1 DEF i
    <3>3. concepts[1] = b
      BY <2>1
    <3> HIDE DEF given
    <3> QED BY <2>2, <3>1, <3>2, <3>3 DEF Knowledge!Concepts, Knowledge!Range
  <2> HIDE DEF given, code, hits, fits
  <2> DEFINE a == answer'
  <2>7. base \in Answers /\ base.bearer = bearer
    BY <1>3, AnswerIs
  <2> HIDE DEF base
  <2>8. a.asked = uri /\ a.given = given /\ a.bearer = bearer
    BY <1>1, <2>2, <2>6, <2>7 DEF Answers
  <2>9. (config.auth /\ bearer = "valid") \/ Knowledge!Open
    BY <1>2, <1>5, EntryIsRight
  <2>10. config' = config /\ concepts' = concepts /\ Knowledge!Open' = Knowledge!Open /\ running'
    BY <1>1 DEF Knowledge!Open
  <2>11. (answer.given # <<>> => running /\ (config.auth \/ Knowledge!Open))'
    <3>1. running' /\ (config'.auth \/ Knowledge!Open')
      BY <2>9, <2>10
    <3> QED BY <3>1
  <2>12. GivenRightly'
    <3>1. bearer \in {"none", "wrong"} => Knowledge!Open
      BY <2>9
    <3> QED BY <2>8, <2>10, <3>1 DEF GivenRightly
  <2>13. Knowledge!NothingWithoutBearer'
    <3>1. (FrontBase /\ GivenRightly /\ (answer.given # <<>> => running /\ (config.auth \/ Knowledge!Open)) =>
            Knowledge!NothingWithoutBearer)'
      BY BearersNeeded, PTL
    <3> QED BY <1>2, <2>11, <2>12, <3>1
  <2>14. Knowledge!GivenIsAsked'
    <3>1. Knowledge!Concepts' = Knowledge!Concepts
      BY <2>10 DEF Knowledge!Concepts
    <3>2. answer'.asked = uri /\ answer'.given = given /\ answer'.bearer # "session"
      BY <1>3, <2>8
    <3> HIDE DEF a
    <3>3. ASSUME NEW id \in Knowledge!Concepts, Knowledge!Uri(id) = uri
          PROVE  \/ Knowledge!Uri(given) = uri
                 \/ \E x, y \in Knowledge!Concepts : x # y /\ Knowledge!Uri(x) = uri /\ Knowledge!IsSuffix(y, uri)
      <4>1. CASE given = id
        BY <3>3, <4>1
      <4>2. CASE given # id
        BY <2>6, <3>3, <4>2
      <4> QED BY <4>1, <4>2
    <3> QED BY <2>6, <3>1, <3>2, <3>3 DEF Knowledge!GivenIsAsked
  <2>15. Knowledge!OutageIsNoPass'
    BY <1>3, <2>8 DEF Knowledge!OutageIsNoPass
  <2> QED BY <1>2, <2>13, <2>14, <2>15 DEF FrontInv
<1> QED BY <1>4, <1>5

\* Of a session, the document is the one that is registered with the uri, and screened.
LEMMA SessionReadStep ==
  ASSUME FrontInv, NEW uri \in Uris, Knowledge!SessionRead(uri)
  PROVE  FrontInv'
<1>1. session # <<>> /\ UNCHANGED <<config, running, concepts, session>>
  BY DEF Knowledge!SessionRead
<1>2. FrontBase /\ FrontBase'
  BY <1>1 DEF FrontInv, FrontBase, Knowledge!Open
<1>3. PICK id \in Knowledge!Registered, said \in {"flagged", "clean", "error"} :
        uri = Knowledge!Uri(id) /\ answer' = Knowledge!Screened(id, said)
  BY DEF Knowledge!SessionRead
<1>4. PICK b \in Bundles : session = <<b>>
  BY <1>1, <1>2 DEF FrontBase, Loaded
<1>5. id \in Seq(STRING) /\ ".." \notin Knowledge!Range(id)
  <2>1. b \in Seq(Seq(STRING)) /\ session[1] = b
    BY <1>4, MCAssumption DEF Knowledge!ProfileAssumption
  <2>2. id \in Knowledge!Range(b) /\ ".." \notin Knowledge!Range(id)
    BY <2>1 DEF Knowledge!Registered
  <2> QED BY <2>1, <2>2 DEF Knowledge!Range
<1> DEFINE base == Knowledge!Answer(200, "session")
           outage == ~config.key \/ said = "error"
           risk == IF config.scan /\ Knowledge!Flagged(id, said) THEN "high" ELSE "possible"
           a == answer'
<1>6. base \in Answers /\ base.bearer = "session"
  BY AnswerIs DEF Bearing
<1>7. outage \in BOOLEAN /\ risk \in {"possible", "high"} /\ uri \in Seq(STRING)
  BY MCAssumption DEF Knowledge!ProfileAssumption
<1>8. answer' = [base EXCEPT !.asked = uri, !.given = id, !.outage = outage, !.risk = risk]
  BY <1>3 DEF Knowledge!Screened
<1> HIDE DEF base, outage, risk
<1>9. a.asked = uri /\ a.given = id /\ a.bearer = "session" /\ a.outage = outage /\ a.risk = risk
  BY <1>5, <1>6, <1>7, <1>8 DEF Answers
<1>10. config' = config /\ (answer.given # <<>> => running /\ (config.auth \/ Knowledge!Open))' /\ GivenRightly'
  <2>1. running /\ (config.auth \/ Knowledge!Open)
    BY <1>1, <1>2 DEF FrontBase
  <2>2. running' /\ (config.auth \/ Knowledge!Open)'
    BY <1>1, <2>1 DEF Knowledge!Open
  <2> QED BY <1>1, <1>9, <2>2 DEF GivenRightly
<1>11. Knowledge!NothingWithoutBearer'
  <2>1. (FrontBase /\ GivenRightly /\ (answer.given # <<>> => running /\ (config.auth \/ Knowledge!Open)) =>
          Knowledge!NothingWithoutBearer)'
    BY BearersNeeded, PTL
  <2> QED BY <1>2, <1>10, <2>1
<1>12. Knowledge!GivenIsAsked'
  <2>1. Knowledge!IsSuffix(id, uri)
    BY <1>3, <1>5, PathEndsUri
  <2> QED BY <1>3, <1>5, <1>9, <2>1 DEF Knowledge!GivenIsAsked
<1>13. Knowledge!OutageIsNoPass'
  <2> DEFINE key == config.key
             scan == config.scan
             closed == config.failClosed
             suspect == id \in Suspects
             flagged == Knowledge!Flagged(id, said)
  <2>1. key \in BOOLEAN /\ scan \in BOOLEAN /\ closed \in BOOLEAN /\ suspect \in BOOLEAN
    BY <1>2, ConfigIs DEF FrontBase
  <2>2. flagged = IF ~key THEN suspect ELSE IF said = "error" THEN closed \/ suspect ELSE said = "flagged"
    BY DEF Knowledge!Flagged
  <2>3. outage = (~key \/ said = "error") /\ risk = (IF scan /\ flagged THEN "high" ELSE "possible")
    BY DEF outage, risk
  <2> HIDE DEF key, scan, closed, suspect, flagged
  <2>4. outage /\ scan => (suspect => risk = "high") /\ (closed /\ key => risk = "high")
    BY <2>1, <2>2, <2>3
  <2> HIDE DEF a
  <2>5. config' = config
    BY <1>1
  <2>6. answer'.given = id /\ answer'.outage = outage /\ answer'.risk = risk
    BY <1>9 DEF a
  <2> QED BY <2>4, <2>5, <2>6 DEF Knowledge!OutageIsNoPass, key, scan, closed, suspect
<1> QED BY <1>2, <1>11, <1>12, <1>13 DEF FrontInv

LEMMA FrontStep == FrontInv /\ [Knowledge!RequestNext]_frontVars => FrontInv'
<1> SUFFICES ASSUME FrontInv, [Knowledge!RequestNext]_frontVars PROVE FrontInv'
  OBVIOUS
<1>1. FrontBase
  BY DEF FrontInv
<1>2. CASE UNCHANGED frontVars
  BY <1>2 DEF frontVars, FrontInv, FrontBase, Knowledge!Open, Knowledge!NothingWithoutBearer,
              Knowledge!GivenIsAsked, Knowledge!OutageIsNoPass, Knowledge!Concepts
<1>3. ASSUME FrontBase', NothingGiven' PROVE FrontInv'
  <2>1. (FrontBase /\ NothingGiven => FrontInv)'
    BY EmptyAnswer, PTL
  <2> QED BY <1>3, <2>1
<1>4. Knowledge!NoAnswer.given = <<>>
  BY DEF Knowledge!NoAnswer
<1>5. ASSUME NEW code \in Nat, NEW bearer \in Bearing, answer' = Knowledge!Answer(code, bearer) PROVE NothingGiven'
  BY <1>5, AnswerIs DEF NothingGiven
<1>6. CASE Knowledge!Launch
  <2>1. NothingGiven'
    <3>1. answer' = Knowledge!NoAnswer \/ answer' = Knowledge!Answer(1, "none")
      BY <1>6 DEF Knowledge!Launch
    <3> QED BY <1>4, <1>5, <3>1 DEF NothingGiven, Bearing
  <2>2. /\ ~running /\ running' = ((config.main => config.auth \/ config.insecure) /\ ~config.forged)
        /\ UNCHANGED <<config, concepts, session>>
    BY <1>6 DEF Knowledge!Launch
  <2>3. FrontBase'
    BY <1>1, <2>2 DEF FrontBase
  <2> QED BY <1>3, <2>1, <2>3
<1>7. CASE Knowledge!LoadBundle
  <2>1. NothingGiven'
    BY <1>4, <1>7 DEF Knowledge!LoadBundle, NothingGiven
  <2>2. FrontBase'
    BY <1>1, <1>7 DEF Knowledge!LoadBundle, FrontBase, Loaded, Knowledge!Open
  <2> QED BY <1>3, <2>1, <2>2
<1>8. ASSUME UNCHANGED <<config, running, concepts, session>>, NEW code \in Nat, NEW bearer \in Bearing,
             answer' = Knowledge!Answer(code, bearer)
      PROVE  FrontInv'
  <2>1. NothingGiven'
    BY <1>5, <1>8
  <2>2. FrontBase'
    BY <1>1, <1>8 DEF FrontBase, Knowledge!Open
  <2> QED BY <1>3, <2>1, <2>2
<1>9. CASE Knowledge!Health
  BY <1>8, <1>9 DEF Knowledge!Health, Bearing
<1>10. CASE Knowledge!Ready
  BY <1>8, <1>10 DEF Knowledge!Ready, Bearing
<1>11. ASSUME NEW b \in Knowledge!Bearers, NEW m, Knowledge!Post(b, m) PROVE FrontInv'
  <2> DEFINE code == IF Knowledge!Entry(b) # 200 THEN Knowledge!Entry(b)
                       ELSE IF concepts = <<>> THEN 503
                       ELSE IF m \in {"tools/call", "other"} THEN 400 ELSE 200
  <2>1. code \in Nat /\ b \in Bearing
    BY EntryStatus DEF Knowledge!Bearers, Bearing
  <2>2. answer' = Knowledge!Answer(code, b) /\ UNCHANGED <<config, running, concepts, session>>
    BY <1>11 DEF Knowledge!Post
  <2> HIDE DEF code
  <2> QED BY <1>8, <2>1, <2>2
<1>12. ASSUME NEW b \in Knowledge!Bearers, Knowledge!OpenSession(b) PROVE FrontInv'
  <2> DEFINE code == IF Knowledge!Entry(b) # 200 THEN Knowledge!Entry(b)
                       ELSE IF concepts = <<>> THEN 503 ELSE 200
  <2>1. code \in Nat /\ b \in Bearing
    BY EntryStatus DEF Knowledge!Bearers, Bearing
  <2>2. /\ answer' = Knowledge!Answer(code, b) /\ running /\ UNCHANGED <<config, running, concepts>>
        /\ session' = IF Knowledge!Entry(b) = 200 THEN concepts ELSE session
    BY <1>12 DEF Knowledge!OpenSession
  <2> HIDE DEF code
  <2>3. NothingGiven'
    BY <1>5, <2>1, <2>2
  <2>4. Knowledge!Entry(b) = 200 => config.auth \/ Knowledge!Open
    BY <1>1, EntryIsRight
  <2>5. Knowledge!Open' = Knowledge!Open
    BY <2>2 DEF Knowledge!Open
  <2>6. FrontBase'
    BY <1>1, <2>2, <2>4, <2>5 DEF FrontBase
  <2> QED BY <1>3, <2>3, <2>6
<1> QED BY <1>2, <1>6, <1>7, <1>9, <1>10, <1>11, <1>12, PostReadStep, SessionReadStep DEF Knowledge!RequestNext

-----------------------------------------------------------------------------
(* Who gets in *)

\* Who gets in was entitled to, for any keys, tokens and clocks; what the dashboard hands on was
\* checked and is within its windows; and what the profile server gives is given to those it is
\* open to, is of one version and is what was asked for.
THEOREM EntryEntitled == MCSpec => EntryIsEntitled
<1> DEFINE Invariants == AuthInv /\ DashboardInv /\ SessionInv /\ FrontInv
<1>1. MCInit => Invariants
  BY AuthStarts, DashboardStarts, SessionStarts, FrontStarts DEF MCInit
<1>2. [MCNext]_mcVars => /\ [Auth!AuthNext]_authVars /\ [Dashboard!Next]_dashboardVars
                         /\ [Knowledge!SessionNext]_profileVars /\ [Knowledge!RequestNext]_frontVars
  BY PerimeterSteps
<1>3. Invariants /\ [MCNext]_mcVars => Invariants'
  BY <1>2, AuthStep, DashboardStep, SessionStep, FrontStep
<1>4. Invariants /\ [MCNext]_mcVars => [EntitledStep]_<<asked, failures>>
  BY <1>2, LetInEntitled
<1>5. Invariants =>
        /\ part = "auth" => Auth!TypeOK /\ Auth!FailuresAreCounted
        /\ part = "dashboard" => Dashboard!WindowsBound /\ Dashboard!ForwardedWasChecked
        /\ part = "profile" => Knowledge!ReadIsWhole /\ Knowledge!SessionsAreOpen /\ Knowledge!OnlyReadingsAreDone
        /\ part = "front" => Knowledge!NothingWithoutBearer /\ Knowledge!GivenIsAsked /\ Knowledge!OutageIsNoPass
  <2>1. ForwardedInv => Dashboard!ForwardedWasChecked
    BY DEF ForwardedInv, Dashboard!ForwardedWasChecked
  <2> QED BY <2>1, AttemptsCounted, WindowsBounded, SessionsRead DEF DashboardInv, SessionInv, FrontInv
<1> HIDE DEF Invariants
<1> QED BY <1>1, <1>3, <1>4, <1>5, PTL DEF MCSpec, EntryIsEntitled, Auth!LetInWasEntitled, EntitledStep

-----------------------------------------------------------------------------
(* Patterns *)

\* The pattern matches the name, as GlobMatch has it (engine.ts:96-106).
Glob(p, name) ==
  \E at \in [DOMAIN p -> 0 .. Len(name)] :
    /\ at[1] = 0 /\ at[Len(p)] + Len(p[Len(p)]) = Len(name)
    /\ \A i \in DOMAIN p : SubSeq(name, at[i] + 1, at[i] + Len(p[i])) = p[i]
    /\ \A i \in DOMAIN p : i < Len(p) => at[i] + Len(p[i]) <= at[i + 1]

\* The text stands in the name after its first a pieces.
StandsAt(s, name, a) == \A k \in 1 .. Len(s) : name[a + k] = s[k]

LEMMA StandsAtIs ==
  ASSUME NEW W, NEW s \in Seq(W), NEW name \in Seq(W), NEW a \in Nat, a + Len(s) <= Len(name)
  PROVE  SubSeq(name, a + 1, a + Len(s)) = s <=> StandsAt(s, name, a)
<1> DEFINE n == Len(s)
           t == SubSeq(name, a + 1, a + n)
<1>1. n \in Nat /\ s \in [1 .. n -> W] /\ Len(name) \in Nat
  OBVIOUS
<1>2. t \in Seq(W) /\ Len(t) = n /\ \A k \in 1 .. n : t[k] = name[a + k]
  <2>1. \A k \in 1 .. n : (a + 1) + k - 1 = a + k
    BY <1>1
  <2>2. (a + n) - (a + 1) + 1 = n
    BY <1>1
  <2> QED BY <1>1, <2>1, <2>2
<1> HIDE DEF t
<1>3. t = s <=> \A k \in 1 .. n : t[k] = s[k]
  BY <1>1, <1>2
<1> QED BY <1>2, <1>3 DEF StandsAt, t

\* How a pattern lies in a name.
Lies(p, name, at) ==
  /\ at[1] = 0 /\ at[Len(p)] + Len(p[Len(p)]) = Len(name)
  /\ \A i \in 1 .. Len(p) : at[i] + Len(p[i]) <= Len(name) /\ StandsAt(p[i], name, at[i])
  /\ \A i \in 1 .. Len(p) : i < Len(p) => at[i] + Len(p[i]) <= at[i + 1]

LEMMA GlobIs ==
  ASSUME NEW W, NEW p \in Seq(Seq(W)), p # <<>>, NEW name \in Seq(W)
  PROVE  Glob(p, name) <=> \E at \in [1 .. Len(p) -> 0 .. Len(name)] : Lies(p, name, at)
<1> DEFINE n == Len(p)
<1>1. n \in Nat /\ n >= 1 /\ DOMAIN p = 1 .. n /\ \A i \in 1 .. n : p[i] \in Seq(W) /\ Len(p[i]) \in Nat
  OBVIOUS
<1>2. Len(name) \in Nat
  OBVIOUS
<1> HIDE DEF n
<1>3. ASSUME NEW at \in [1 .. n -> 0 .. Len(name)],
             at[n] + Len(p[n]) = Len(name),
             \A i \in 1 .. n : i < n => at[i] + Len(p[i]) <= at[i + 1]
      PROVE  \A i \in 1 .. n : /\ at[i] + Len(p[i]) <= Len(name)
                               /\ SubSeq(name, at[i] + 1, at[i] + Len(p[i])) = p[i] <=> StandsAt(p[i], name, at[i])
  <2> TAKE i \in 1 .. n
  <2>1. at[i] + Len(p[i]) <= Len(name)
    <3>1. CASE i < n
      <4>1. i + 1 \in 1 .. n
        BY <1>1, <3>1
      <4> QED BY <1>1, <1>2, <1>3, <3>1, <4>1
    <3>2. CASE i = n
      BY <1>1, <1>2, <1>3, <3>2
    <3> QED BY <1>1, <3>1, <3>2
  <2>2. at[i] \in Nat /\ p[i] \in Seq(W)
    BY <1>1, <1>2
  <2> QED BY <2>1, <2>2, StandsAtIs
<1>4. Glob(p, name) <=> \E at \in [1 .. n -> 0 .. Len(name)] :
        /\ at[1] = 0 /\ at[n] + Len(p[n]) = Len(name)
        /\ \A i \in 1 .. n : SubSeq(name, at[i] + 1, at[i] + Len(p[i])) = p[i]
        /\ \A i \in 1 .. n : i < n => at[i] + Len(p[i]) <= at[i + 1]
  BY <1>1, Zenon DEF Glob, n
<1>5. ASSUME NEW at \in [1 .. n -> 0 .. Len(name)]
      PROVE  Lies(p, name, at) <=>
               /\ at[1] = 0 /\ at[n] + Len(p[n]) = Len(name)
               /\ \A i \in 1 .. n : SubSeq(name, at[i] + 1, at[i] + Len(p[i])) = p[i]
               /\ \A i \in 1 .. n : i < n => at[i] + Len(p[i]) <= at[i + 1]
  BY <1>3, <1>5, Zenon DEF Lies, n
<1> QED BY <1>4, <1>5, Zenon DEF n

LEMMA GlobOfLiteral ==
  ASSUME NEW W, NEW s \in Seq(W), NEW name \in Seq(W)
  PROVE  Glob(<<s>>, name) <=> name = s
<1> DEFINE p == <<s>>
<1>1. p \in Seq(Seq(W)) /\ p # <<>> /\ Len(p) = 1 /\ p[1] = s
  OBVIOUS
<1> HIDE DEF p
<1>2. ASSUME NEW at \in [1 .. Len(p) -> 0 .. Len(name)], Lies(p, name, at) PROVE name = s
  <2>1. at[1] = 0 /\ Len(s) = Len(name) /\ StandsAt(s, name, 0)
    BY <1>1, <1>2 DEF Lies
  <2> QED BY <2>1 DEF StandsAt
<1>3. ASSUME name = s PROVE \E at \in [1 .. Len(p) -> 0 .. Len(name)] : Lies(p, name, at)
  <2> DEFINE at == [i \in 1 .. Len(p) |-> 0]
  <2>1. at \in [1 .. Len(p) -> 0 .. Len(name)] /\ at[1] = 0
    BY <1>1
  <2> HIDE DEF at
  <2>2. StandsAt(s, name, 0)
    BY <1>3 DEF StandsAt
  <2>3. Lies(p, name, at)
    BY <1>1, <1>3, <2>1, <2>2 DEF Lies
  <2> QED BY <2>1, <2>3
<1>4. Glob(p, name) <=> \E at \in [1 .. Len(p) -> 0 .. Len(name)] : Lies(p, name, at)
  BY <1>1, GlobIs
<1> QED BY <1>2, <1>3, <1>4 DEF p

LEMMA GlobOfStarting ==
  ASSUME NEW W, NEW s \in Seq(W), NEW name \in Seq(W)
  PROVE  Glob(<<s, <<>>>>, name) <=> Len(s) <= Len(name) /\ \A k \in 1 .. Len(s) : s[k] = name[k]
<1> DEFINE p == <<s, <<>>>>
<1>1. p \in Seq(Seq(W)) /\ p # <<>> /\ Len(p) = 2 /\ p[1] = s /\ p[2] = <<>> /\ Len(p[2]) = 0 /\ Len(s) \in Nat
        /\ Len(name) \in Nat
  OBVIOUS
<1> HIDE DEF p
<1>2. ASSUME NEW at \in [1 .. Len(p) -> 0 .. Len(name)], Lies(p, name, at)
      PROVE  Len(s) <= Len(name) /\ \A k \in 1 .. Len(s) : s[k] = name[k]
  <2>1. at[1] = 0 /\ 0 + Len(s) <= Len(name) /\ StandsAt(s, name, 0)
    BY <1>1, <1>2 DEF Lies
  <2> QED BY <1>1, <2>1 DEF StandsAt
<1>3. ASSUME Len(s) <= Len(name), \A k \in 1 .. Len(s) : s[k] = name[k]
      PROVE  \E at \in [1 .. Len(p) -> 0 .. Len(name)] : Lies(p, name, at)
  <2> DEFINE at == [i \in 1 .. Len(p) |-> IF i = 1 THEN 0 ELSE Len(name)]
  <2>1. at \in [1 .. Len(p) -> 0 .. Len(name)] /\ at[1] = 0 /\ at[2] = Len(name)
    BY <1>1
  <2> HIDE DEF at
  <2>2. StandsAt(p[1], name, at[1]) /\ StandsAt(p[2], name, at[2])
    BY <1>1, <1>3, <2>1 DEF StandsAt
  <2>3. \A i \in 1 .. Len(p) : i = 1 \/ i = 2
    BY <1>1
  <2>4. Lies(p, name, at)
    BY <1>1, <1>3, <2>1, <2>2, <2>3 DEF Lies
  <2> QED BY <2>1, <2>4
<1>4. Glob(p, name) <=> \E at \in [1 .. Len(p) -> 0 .. Len(name)] : Lies(p, name, at)
  BY <1>1, GlobIs
<1> QED BY <1>2, <1>3, <1>4 DEF p

\* The first n texts of a, the last of them cut, are those of b, and a star ends it.
Begins(a, b, n) ==
  /\ n \in 1 .. Len(b) /\ Len(a) = n + 1 /\ a[n + 1] = <<>>
  /\ \A i \in 1 .. n : i < n => a[i] = b[i]
  /\ Len(a[n]) <= Len(b[n]) /\ \A k \in 1 .. Len(a[n]) : a[n][k] = b[n][k]

\* A pattern with its texts of W.
IsPattern(p, W) ==
  /\ p \in Seq(Seq(W)) /\ p # <<>> /\ Len(p) \in Nat /\ Len(p) >= 1
  /\ \A i \in 1 .. Len(p) : p[i] \in Seq(W) /\ Len(p[i]) \in Nat

LEMMA PatternIs == ASSUME NEW W, NEW p \in Seq(Seq(W)), p # <<>> PROVE IsPattern(p, W)
<1>1. Len(p) \in Nat /\ Len(p) >= 1 /\ \A i \in 1 .. Len(p) : p[i] \in Seq(W)
  OBVIOUS
<1>2. \A s \in Seq(W) : Len(s) \in Nat
  OBVIOUS
<1> QED BY <1>1, <1>2 DEF IsPattern

\* A pattern that ends with a star matches what a pattern matches whose text begins with
\* what stands before the star.
LEMMA GlobSubsumes ==
  ASSUME NEW W, NEW a, IsPattern(a, W), NEW b, IsPattern(b, W), NEW name \in Seq(W), Glob(b, name),
         NEW n, Begins(a, b, n)
  PROVE  Glob(a, name)
<1> DEFINE l == Len(name)
           m == Len(b)
<1>1. n \in Nat /\ n >= 1 /\ n <= m /\ m \in Nat /\ l \in Nat
  BY DEF IsPattern, Begins
<1>12. b \in Seq(Seq(W)) /\ b # <<>>
  BY DEF IsPattern
<1>13. Glob(b, name) <=> \E bt \in [1 .. m -> 0 .. l] : Lies(b, name, bt)
  BY <1>12, GlobIs, Zenon
<1>2. PICK bt \in [1 .. m -> 0 .. l] : Lies(b, name, bt)
  BY <1>13, Zenon
<1> HIDE DEF l, m
<1> DEFINE at == [i \in 1 .. n + 1 |-> IF i <= n THEN bt[i] ELSE l]
<1>3. /\ at \in [1 .. n + 1 -> 0 .. l]
      /\ \A i \in 1 .. n : at[i] = bt[i] /\ bt[i] \in Nat
      /\ at[n + 1] = l /\ at[1] = bt[1]
  BY <1>1, <1>2
<1> HIDE DEF at
<1>4. /\ bt[1] = 0
      /\ \A i \in 1 .. n : bt[i] + Len(b[i]) <= l /\ StandsAt(b[i], name, bt[i])
      /\ \A i \in 1 .. n : i < n => bt[i] + Len(b[i]) <= bt[i + 1]
  <2>1. \A i \in 1 .. n : i \in 1 .. Len(b) /\ (i < n => i < Len(b))
    BY <1>1 DEF m
  <2> QED BY <1>2, <2>1, Zenon DEF Lies, l
<1>5. /\ \A i \in 1 .. n : i < n => a[i] = b[i]
      /\ Len(a[n + 1]) = 0 /\ Len(a[n]) <= Len(b[n]) /\ Len(a[n]) \in Nat /\ Len(b[n]) \in Nat
      /\ \A k \in 1 .. Len(a[n]) : a[n][k] = b[n][k]
      /\ Len(a) = n + 1
  <2>1. Len(a) = n + 1 /\ n \in 1 .. Len(b)
    BY DEF Begins
  <2>2. n \in 1 .. Len(a)
    BY <1>1, <2>1
  <2>3. Len(a[n]) \in Nat /\ Len(b[n]) \in Nat
    BY <2>1, <2>2 DEF IsPattern
  <2> QED BY <2>1, <2>3 DEF Begins
<1>6. bt[n] + Len(b[n]) <= l /\ bt[n] \in Nat /\ at[n] = bt[n] /\ \A k \in 1 .. Len(b[n]) : name[bt[n] + k] = b[n][k]
  BY <1>1, <1>3, <1>4 DEF StandsAt
<1>7. at[n] + Len(a[n]) <= l /\ StandsAt(a[n], name, at[n])
  <2>1. \A k \in 1 .. Len(a[n]) : k \in 1 .. Len(b[n])
    BY <1>5
  <2>2. \A k \in 1 .. Len(a[n]) : name[bt[n] + k] = a[n][k]
    BY <1>5, <1>6, <2>1
  <2>3. at[n] + Len(a[n]) <= l
    BY <1>1, <1>5, <1>6
  <2> QED BY <1>6, <2>2, <2>3 DEF StandsAt
<1>8. ASSUME NEW i \in 1 .. n + 1
      PROVE  at[i] + Len(a[i]) <= l /\ StandsAt(a[i], name, at[i])
  <2>1. CASE i < n
    <3>1. i \in 1 .. n /\ a[i] = b[i] /\ at[i] = bt[i]
      BY <1>1, <1>3, <1>5, <2>1
    <3> QED BY <1>4, <3>1
  <2>2. CASE i = n
    BY <1>7, <2>2
  <2>3. CASE i = n + 1
    BY <1>1, <1>3, <1>5, <2>3 DEF StandsAt
  <2> QED BY <1>1, <2>1, <2>2, <2>3
<1>9. ASSUME NEW i \in 1 .. n + 1, i < n + 1 PROVE at[i] + Len(a[i]) <= at[i + 1]
  <2>1. CASE i < n
    <3>1. i \in 1 .. n /\ i + 1 \in 1 .. n /\ a[i] = b[i]
      BY <1>1, <1>5, <2>1
    <3>2. at[i] = bt[i] /\ at[i + 1] = bt[i + 1]
      BY <1>3, <3>1
    <3> QED BY <1>4, <2>1, <3>1, <3>2
  <2>2. CASE i = n
    BY <1>3, <1>7, <2>2
  <2> QED BY <1>1, <1>9, <2>1, <2>2
<1>10. Lies(a, name, at)
  <2>1. at[1] = 0 /\ at[Len(a)] + Len(a[Len(a)]) = l
    BY <1>1, <1>3, <1>4, <1>5
  <2> QED BY <1>5, <1>8, <1>9, <2>1 DEF Lies, l
<1>11. at \in [1 .. Len(a) -> 0 .. Len(name)]
  BY <1>3, <1>5 DEF l
<1> QED BY <1>10, <1>11, GlobIs DEF IsPattern

-----------------------------------------------------------------------------
(* Policy cards *)

\* A card with its lists, among the cards or not.
IsCard(c) ==
  /\ c.applies = <<>> \/ c.applies = <<c.applies[1]>>
  /\ c.applies # <<>> => c.applies[1].tools \subseteq Policies!Patterns
  /\ c.v2 \in Seq([effect : {"allow", "deny", "require_approval"}, conds : Seq(Policies!Conditions)])
  /\ c.spec = <<>> \/ c.spec = <<c.spec[1]>>
  /\ c.spec # <<>> =>
       /\ c.spec[1].forbidden \subseteq Policies!Patterns
       /\ c.spec[1].approvals \subseteq Policies!Patterns
       /\ c.spec[1].allowed \subseteq Policies!Patterns
       /\ c.spec[1].side \in [{"read", "write", "submit"} -> {"allow", "approval", "deny"}]

LEMMA CardTyped == \A c \in Cards : IsCard(c)
BY MCAssumption DEF Policies!CardsAssumption, Policies!SideEffects, IsCard

\* A rule with its fields.
IsRule(r) ==
  r \in [id : {r.id}, priority : {r.priority}, effect : {"allow", "deny"}, tools : {r.tools}, agents : {r.agents},
         risks : {r.risks}, scopes : {r.scopes}, effects : {r.effects}, conds : {r.conds}, approval : BOOLEAN]

LEMMA OpenIs ==
  LET r == Policies!OpenRule IN
    /\ IsRule(r) /\ r.effect = "allow" /\ ~r.approval /\ r.tools = <<>> /\ r.risks = <<>> /\ r.scopes = <<>>
    /\ r.effects = <<>> /\ r.conds = <<>> /\ r.agents = <<>>
BY DEF Policies!OpenRule, Policies!None, IsRule

\* The rules that a card becomes, one by one.
LEMMA DeniedIs ==
  ASSUME NEW tools
  PROVE  LET r == Policies!Denied(tools) IN
           /\ IsRule(r) /\ r.effect = "deny" /\ ~r.approval /\ r.tools = tools /\ r.risks = <<>> /\ r.scopes = <<>>
           /\ r.effects = <<>> /\ r.conds = <<>> /\ r.agents = <<>>
<1> DEFINE o == Policies!OpenRule
<1>1. /\ IsRule(o) /\ o.effect = "allow" /\ ~o.approval /\ o.tools = <<>> /\ o.risks = <<>> /\ o.scopes = <<>>
      /\ o.effects = <<>> /\ o.conds = <<>> /\ o.agents = <<>>
  BY OpenIs
<1>2. Policies!Denied(tools) = [o EXCEPT !.effect = "deny", !.tools = tools]
  BY DEF Policies!Denied
<1> HIDE DEF o
<1> QED BY <1>1, <1>2 DEF IsRule

LEMMA AllowedIs ==
  ASSUME NEW tools, NEW approval \in BOOLEAN
  PROVE  LET r == Policies!Allowed(tools, approval) IN
           /\ IsRule(r) /\ r.effect = "allow" /\ r.approval = approval /\ r.tools = tools /\ r.risks = <<>>
           /\ r.scopes = <<>> /\ r.effects = <<>> /\ r.conds = <<>> /\ r.agents = <<>>
<1> DEFINE o == Policies!OpenRule
<1>1. /\ IsRule(o) /\ o.effect = "allow" /\ ~o.approval /\ o.tools = <<>> /\ o.risks = <<>> /\ o.scopes = <<>>
      /\ o.effects = <<>> /\ o.conds = <<>> /\ o.agents = <<>>
  BY OpenIs
<1>2. Policies!Allowed(tools, approval) = [o EXCEPT !.tools = tools, !.approval = approval]
  BY DEF Policies!Allowed
<1> HIDE DEF o
<1> QED BY <1>1, <1>2 DEF IsRule

LEMMA V2RulesAre ==
  ASSUME NEW c, IsCard(c)
  PROVE  LET rs == Policies!V2Rules(c) IN
           /\ \E X : rs \in Seq(X)
           /\ c.applies = <<>> => rs = <<>>
           /\ c.applies # <<>> =>
                /\ DOMAIN rs = DOMAIN c.v2 /\ Len(rs) = Len(c.v2)
                /\ \A i \in DOMAIN c.v2 :
                     /\ IsRule(rs[i])
                     /\ rs[i].effect = IF c.v2[i].effect = "deny" THEN "deny" ELSE "allow"
                     /\ rs[i].approval = (c.v2[i].effect = "require_approval")
                     /\ rs[i].tools = <<c.applies[1].tools>> /\ rs[i].risks = c.applies[1].risks
                     /\ rs[i].scopes = <<>> /\ rs[i].effects = <<>> /\ rs[i].conds = c.v2[i].conds /\ rs[i].agents = <<>>
<1> DEFINE rs == Policies!V2Rules(c)
           tools == <<c.applies[1].tools>>
           risks == c.applies[1].risks
           Ruled(i) == IF c.v2[i].effect = "deny" THEN Policies!Denied(tools)
                   ELSE Policies!Allowed(tools, c.v2[i].effect = "require_approval")
           n == Len(c.v2)
<1>1. DOMAIN c.v2 = 1 .. n /\ n \in Nat /\ \A i \in 1 .. n : c.v2[i].effect \in {"allow", "deny", "require_approval"}
  <2> DEFINE v == c.v2
             X == [effect : {"allow", "deny", "require_approval"}, conds : Seq(Policies!Conditions)]
  <2>1. v \in Seq(X)
    BY DEF IsCard
  <2> HIDE DEF v, X
  <2>2. DOMAIN v = 1 .. Len(v) /\ Len(v) \in Nat
    BY <2>1
  <2>3. ASSUME NEW i \in 1 .. Len(v) PROVE v[i].effect \in {"allow", "deny", "require_approval"}
    <3>1. v[i] \in X
      BY <2>1, <2>2, <2>3
    <3> QED BY <3>1 DEF X
  <2> QED BY <2>2, <2>3 DEF v
<1>2. CASE c.applies = <<>>
  <2>1. rs = <<>> /\ rs \in Seq({})
    BY <1>2 DEF Policies!V2Rules
  <2> QED BY <1>2, <2>1
<1>3. CASE c.applies # <<>>
  <2>1. rs = [i \in DOMAIN c.v2 |-> [Ruled(i) EXCEPT !.risks = risks, !.conds = c.v2[i].conds]]
    BY <1>3 DEF Policies!V2Rules
  <2>2. DOMAIN rs = DOMAIN c.v2 /\ Len(rs) = n /\ \E X : rs \in Seq(X)
    <3> DEFINE E(i) == [Ruled(i) EXCEPT !.risks = risks, !.conds = c.v2[i].conds]
               X == {E(i) : i \in DOMAIN c.v2}
    <3>1. rs = [i \in DOMAIN c.v2 |-> E(i)]
      BY <2>1
    <3>2. \A i \in DOMAIN c.v2 : E(i) \in X
      OBVIOUS
    <3> HIDE DEF E, rs, X
    <3>3. rs \in [1 .. n -> X]
      BY <1>1, <3>1, <3>2
    <3>4. rs \in Seq(X)
      BY <1>1, <3>3
    <3> QED BY <1>1, <3>1, <3>4
  <2>3. ASSUME NEW i \in DOMAIN c.v2
        PROVE  /\ IsRule(rs[i])
               /\ rs[i].effect = IF c.v2[i].effect = "deny" THEN "deny" ELSE "allow"
               /\ rs[i].approval = (c.v2[i].effect = "require_approval")
               /\ rs[i].tools = tools /\ rs[i].risks = risks
               /\ rs[i].scopes = <<>> /\ rs[i].effects = <<>> /\ rs[i].conds = c.v2[i].conds /\ rs[i].agents = <<>>
    <3> DEFINE r == Ruled(i)
    <3>1. rs[i] = [r EXCEPT !.risks = risks, !.conds = c.v2[i].conds]
      BY <2>1, <2>3
    <3> HIDE DEF tools, risks
    <3>2. CASE c.v2[i].effect = "deny"
      <4>1. /\ IsRule(r) /\ r.effect = "deny" /\ r.approval = FALSE /\ r.tools = tools /\ r.risks = <<>> /\ r.scopes = <<>>
            /\ r.effects = <<>> /\ r.conds = <<>> /\ r.agents = <<>>
        BY <3>2, DeniedIs
      <4> HIDE DEF r, rs
      <4>2. (c.v2[i].effect = "require_approval") = FALSE
        BY <3>2
      <4>3. rs[i].effect = "deny" /\ rs[i].approval = FALSE
        BY <3>1, <4>1 DEF IsRule
      <4> QED BY <3>1, <3>2, <4>1, <4>2, <4>3 DEF IsRule
    <3>3. CASE c.v2[i].effect # "deny"
      <4> DEFINE asks == c.v2[i].effect = "require_approval"
      <4>1. asks \in BOOLEAN
        OBVIOUS
      <4>2. r = Policies!Allowed(tools, asks)
        BY <3>3
      <4> HIDE DEF asks, r, rs
      <4>3. /\ IsRule(r) /\ r.effect = "allow" /\ r.approval = asks /\ r.tools = tools /\ r.risks = <<>> /\ r.scopes = <<>>
            /\ r.effects = <<>> /\ r.conds = <<>> /\ r.agents = <<>>
        BY <4>1, <4>2, AllowedIs
      <4>4. /\ IsRule(rs[i]) /\ rs[i].effect = "allow" /\ rs[i].approval = asks /\ rs[i].tools = tools /\ rs[i].risks = risks
            /\ rs[i].scopes = <<>> /\ rs[i].effects = <<>> /\ rs[i].conds = c.v2[i].conds /\ rs[i].agents = <<>>
        BY <3>1, <4>3 DEF IsRule
      <4> QED BY <3>3, <4>4 DEF asks
    <3> QED BY <3>2, <3>3
  <2> HIDE DEF rs
  <2>4. \A i \in DOMAIN c.v2 :
          /\ IsRule(rs[i])
          /\ rs[i].effect = IF c.v2[i].effect = "deny" THEN "deny" ELSE "allow"
          /\ rs[i].approval = (c.v2[i].effect = "require_approval")
          /\ rs[i].tools = tools /\ rs[i].risks = risks
          /\ rs[i].scopes = <<>> /\ rs[i].effects = <<>> /\ rs[i].conds = c.v2[i].conds /\ rs[i].agents = <<>>
    BY <2>3, Zenon
  <2> QED BY <1>3, <2>2, <2>4 DEF rs
<1> QED BY <1>2, <1>3

LEMMA SideRuleIs ==
  ASSUME NEW s, s.side \in [{"read", "write", "submit"} -> {"allow", "approval", "deny"}],
         NEW e \in {"read", "write", "submit"}
  PROVE  LET r == Policies!SideRule(s, e) IN
           /\ IsRule(r) /\ r.effect = IF s.side[e] = "deny" THEN "deny" ELSE "allow"
           /\ r.approval = (s.side[e] = "approval")
           /\ r.tools = <<s.allowed>> /\ r.risks = <<>> /\ r.scopes = <<>>
           /\ r.effects = <<{e}>> /\ r.conds = <<>> /\ r.agents = <<>>
<1> DEFINE tools == <<s.allowed>>
           asks == s.side[e] = "approval"
           r == Policies!SideRule(s, e)
           base == IF s.side[e] = "deny" THEN Policies!Denied(tools) ELSE Policies!Allowed(tools, asks)
<1>1. r = [base EXCEPT !.effects = <<{e}>>]
  BY DEF Policies!SideRule
<1>2. s.side[e] \in {"allow", "approval", "deny"} /\ asks \in BOOLEAN
  OBVIOUS
<1> HIDE DEF r, tools
<1>3. CASE s.side[e] = "deny"
  <2>1. /\ IsRule(base) /\ base.effect = "deny" /\ base.approval = FALSE /\ base.tools = tools /\ base.risks = <<>>
        /\ base.scopes = <<>> /\ base.conds = <<>> /\ base.agents = <<>>
    BY <1>3, DeniedIs
  <2>2. asks = FALSE
    BY <1>3
  <2> HIDE DEF base, asks
  <2> QED BY <1>1, <1>3, <2>1, <2>2 DEF IsRule, tools, r, asks
<1>4. CASE s.side[e] # "deny"
  <2>1. base = Policies!Allowed(tools, asks)
    BY <1>4
  <2> HIDE DEF base, asks
  <2>2. /\ IsRule(base) /\ base.effect = "allow" /\ base.approval = asks /\ base.tools = tools /\ base.risks = <<>>
        /\ base.scopes = <<>> /\ base.conds = <<>> /\ base.agents = <<>>
    BY <1>2, <2>1, AllowedIs
  <2>3. /\ IsRule(r) /\ r.effect = "allow" /\ r.approval = asks /\ r.tools = tools /\ r.risks = <<>> /\ r.scopes = <<>>
        /\ r.effects = <<{e}>> /\ r.conds = <<>> /\ r.agents = <<>>
    BY <1>1, <2>2 DEF IsRule
  <2> QED BY <1>4, <2>3 DEF tools, r, asks
<1> QED BY <1>3, <1>4

\* What is forbidden comes first, then what needs an approval, then the side effects.
LEMMA SpecRulesAre ==
  ASSUME NEW s, s.side \in [{"read", "write", "submit"} -> {"allow", "approval", "deny"}]
  PROVE  LET rs == Policies!SpecRules(s) IN
           /\ \E X : rs \in Seq(X)
           /\ Len(rs) \in Nat /\ DOMAIN rs = 1 .. Len(rs)
           /\ \A i \in DOMAIN rs :
                /\ IsRule(rs[i])
                /\ \/ s.forbidden # {} /\ rs[i] = Policies!Denied(<<s.forbidden>>)
                   \/ s.approvals # {} /\ rs[i] = Policies!Allowed(<<s.approvals>>, TRUE)
                   \/ /\ \E e \in {"read", "write", "submit"} : rs[i] = Policies!SideRule(s, e)
                      /\ s.forbidden # {} => \E j \in DOMAIN rs : j < i /\ rs[j] = Policies!Denied(<<s.forbidden>>)
                      /\ s.approvals # {} => \E j \in DOMAIN rs : j < i /\ rs[j] = Policies!Allowed(<<s.approvals>>, TRUE)
           /\ s.forbidden = {} /\ s.approvals # {} =>
                1 \in DOMAIN rs /\ rs[1] = Policies!Allowed(<<s.approvals>>, TRUE)
<1> DEFINE d == Policies!Denied(<<s.forbidden>>)
           a == Policies!Allowed(<<s.approvals>>, TRUE)
           x == Policies!SideRule(s, "read")
           y == Policies!SideRule(s, "write")
           z == Policies!SideRule(s, "submit")
           rs == Policies!SpecRules(s)
<1>1. IsRule(d) /\ IsRule(a) /\ IsRule(x) /\ IsRule(y) /\ IsRule(z)
  BY DeniedIs, AllowedIs, SideRuleIs
<1>2. rs = (IF s.forbidden = {} THEN <<>> ELSE <<d>>) \o (IF s.approvals = {} THEN <<>> ELSE <<a>>) \o <<x, y, z>>
  BY DEF Policies!SpecRules, Policies!Forbidden, Policies!Approvals, Policies!SideRules
<1> HIDE DEF d, a, x, y, z, rs
<1>8. \E X : rs \in Seq(X)
  <2> DEFINE X == {d, a, x, y, z}
  <2>1. <<>> \in Seq(X) /\ <<d>> \in Seq(X) /\ <<a>> \in Seq(X) /\ <<x, y, z>> \in Seq(X)
    OBVIOUS
  <2> HIDE DEF X
  <2>2. rs \in Seq(X)
    BY <1>2, <2>1
  <2> QED BY <2>2
<1> USE DEF x, y, z
<1>3. \A r \in {x, y, z} : \E e \in {"read", "write", "submit"} : r = Policies!SideRule(s, e)
  OBVIOUS
<1> HIDE DEF x, y, z
<1>4. CASE s.forbidden = {} /\ s.approvals = {}
  <2>1. rs = <<x, y, z>>
    BY <1>2, <1>4
  <2>2. Len(rs) = 3 /\ DOMAIN rs = 1 .. 3 /\ rs[1] = x /\ rs[2] = y /\ rs[3] = z
    BY <2>1
  <2> QED BY <1>8, <1>1, <1>3, <1>4, <2>2 DEF rs
<1>5. CASE s.forbidden # {} /\ s.approvals = {}
  <2>1. rs = <<d>> \o <<x, y, z>>
    BY <1>2, <1>5
  <2>2. Len(rs) = 4 /\ DOMAIN rs = 1 .. 4 /\ rs[1] = d /\ rs[2] = x /\ rs[3] = y /\ rs[4] = z
    BY <2>1
  <2> QED BY <1>8, <1>1, <1>3, <1>5, <2>2 DEF rs, d
<1>6. CASE s.forbidden = {} /\ s.approvals # {}
  <2>1. rs = <<a>> \o <<x, y, z>>
    BY <1>2, <1>6
  <2>2. Len(rs) = 4 /\ DOMAIN rs = 1 .. 4 /\ rs[1] = a /\ rs[2] = x /\ rs[3] = y /\ rs[4] = z
    BY <2>1
  <2>3. a = Policies!Allowed(<<s.approvals>>, TRUE)
    BY DEF a
  <2>4. \A i \in DOMAIN rs : i = 1 \/ i = 2 \/ i = 3 \/ i = 4
    BY <2>2
  <2>5. \A i \in DOMAIN rs : IsRule(rs[i])
    BY <1>1, <2>2, <2>4
  <2>6. ASSUME NEW i \in DOMAIN rs, i # 1
        PROVE  /\ \E e \in {"read", "write", "submit"} : rs[i] = Policies!SideRule(s, e)
               /\ \E j \in DOMAIN rs : j < i /\ rs[j] = Policies!Allowed(<<s.approvals>>, TRUE)
    <3>1. rs[i] \in {x, y, z}
      BY <2>2, <2>4, <2>6
    <3>2. 1 \in DOMAIN rs /\ 1 < i /\ rs[1] = Policies!Allowed(<<s.approvals>>, TRUE)
      BY <2>2, <2>3, <2>6
    <3> QED BY <1>3, <3>1, <3>2
  <2>7. \A i \in DOMAIN rs :
          /\ IsRule(rs[i])
          /\ \/ s.forbidden # {} /\ rs[i] = Policies!Denied(<<s.forbidden>>)
             \/ s.approvals # {} /\ rs[i] = Policies!Allowed(<<s.approvals>>, TRUE)
             \/ /\ \E e \in {"read", "write", "submit"} : rs[i] = Policies!SideRule(s, e)
                /\ s.forbidden # {} => \E j \in DOMAIN rs : j < i /\ rs[j] = Policies!Denied(<<s.forbidden>>)
                /\ s.approvals # {} => \E j \in DOMAIN rs : j < i /\ rs[j] = Policies!Allowed(<<s.approvals>>, TRUE)
    BY <1>6, <2>2, <2>3, <2>5, <2>6
  <2>8. Len(rs) \in Nat /\ DOMAIN rs = 1 .. Len(rs) /\ 1 \in DOMAIN rs /\ rs[1] = Policies!Allowed(<<s.approvals>>, TRUE)
    BY <2>2, <2>3
  <2> QED BY <1>8, <2>7, <2>8 DEF rs
<1>7. CASE s.forbidden # {} /\ s.approvals # {}
  <2>1. rs = <<d>> \o <<a>> \o <<x, y, z>>
    BY <1>2, <1>7
  <2>2. Len(rs) = 5 /\ DOMAIN rs = 1 .. 5 /\ rs[1] = d /\ rs[2] = a /\ rs[3] = x /\ rs[4] = y /\ rs[5] = z
    BY <2>1
  <2>3. a = Policies!Allowed(<<s.approvals>>, TRUE) /\ d = Policies!Denied(<<s.forbidden>>)
    BY DEF a, d
  <2>4. \A i \in DOMAIN rs : i = 1 \/ i = 2 \/ i = 3 \/ i = 4 \/ i = 5
    BY <2>2
  <2>5. \A i \in DOMAIN rs : IsRule(rs[i])
    BY <1>1, <2>2, <2>4
  <2>6. ASSUME NEW i \in DOMAIN rs, i # 1, i # 2
        PROVE  /\ \E e \in {"read", "write", "submit"} : rs[i] = Policies!SideRule(s, e)
               /\ \E j \in DOMAIN rs : j < i /\ rs[j] = Policies!Denied(<<s.forbidden>>)
               /\ \E j \in DOMAIN rs : j < i /\ rs[j] = Policies!Allowed(<<s.approvals>>, TRUE)
    <3>1. rs[i] \in {x, y, z}
      BY <2>2, <2>4, <2>6
    <3>2. 1 \in DOMAIN rs /\ 1 < i /\ rs[1] = Policies!Denied(<<s.forbidden>>)
      BY <2>2, <2>3, <2>6
    <3>3. 2 \in DOMAIN rs /\ 2 < i /\ rs[2] = Policies!Allowed(<<s.approvals>>, TRUE)
      BY <2>2, <2>3, <2>6
    <3> QED BY <1>3, <3>1, <3>2, <3>3
  <2>7. \A i \in DOMAIN rs :
          /\ IsRule(rs[i])
          /\ \/ s.forbidden # {} /\ rs[i] = Policies!Denied(<<s.forbidden>>)
             \/ s.approvals # {} /\ rs[i] = Policies!Allowed(<<s.approvals>>, TRUE)
             \/ /\ \E e \in {"read", "write", "submit"} : rs[i] = Policies!SideRule(s, e)
                /\ s.forbidden # {} => \E j \in DOMAIN rs : j < i /\ rs[j] = Policies!Denied(<<s.forbidden>>)
                /\ s.approvals # {} => \E j \in DOMAIN rs : j < i /\ rs[j] = Policies!Allowed(<<s.approvals>>, TRUE)
    BY <1>7, <2>2, <2>3, <2>5, <2>6
  <2>8. Len(rs) \in Nat /\ DOMAIN rs = 1 .. Len(rs)
    BY <2>2
  <2> QED BY <1>8, <1>7, <2>7, <2>8 DEF rs
<1> QED BY <1>4, <1>5, <1>6, <1>7, <1>8 DEF rs


\* What the decision looks at is the same in two rules.
Alike(r, t) ==
  /\ r.effect = t.effect /\ r.approval = t.approval /\ r.tools = t.tools /\ r.risks = t.risks
  /\ r.agents = t.agents /\ r.scopes = t.scopes /\ r.effects = t.effects /\ r.conds = t.conds
  /\ r.effect \in {"allow", "deny"} /\ r.approval \in BOOLEAN

LEMMA AdaptIs ==
  ASSUME NEW c, IsCard(c)
  PROVE  LET rs == Policies!AdaptPolicyCardToRules(c)
             v == Policies!V2Rules(c)
             s == IF c.spec = <<>> THEN <<>> ELSE Policies!SpecRules(c.spec[1])
         IN
           /\ Len(v) \in Nat /\ DOMAIN v = 1 .. Len(v)
           /\ Len(s) \in Nat /\ DOMAIN s = 1 .. Len(s)
           /\ DOMAIN rs = 1 .. Len(v) + Len(s)
           /\ \A i \in DOMAIN rs : rs[i].priority = 99 + i
           /\ \A i \in DOMAIN v : Alike(rs[i], v[i])
           /\ \A i \in DOMAIN s : Alike(rs[Len(v) + i], s[i])
<1> DEFINE rs == Policies!AdaptPolicyCardToRules(c)
           v == Policies!V2Rules(c)
           s == IF c.spec = <<>> THEN <<>> ELSE Policies!SpecRules(c.spec[1])
           all == v \o s
           n == Len(v)
           m == Len(s)
<1>1. \E X : v \in Seq(X)
  BY V2RulesAre
<1>2. \A i \in DOMAIN v : IsRule(v[i])
  BY V2RulesAre
<1>3. (\E X : s \in Seq(X)) /\ \A i \in DOMAIN s : IsRule(s[i])
  <2>1. CASE c.spec = <<>>
    <3>1. s = <<>> /\ s \in Seq({})
      BY <2>1
    <3> QED BY <3>1
  <2>2. CASE c.spec # <<>>
    <3>1. s = Policies!SpecRules(c.spec[1])
      BY <2>2
    <3>2. c.spec[1].side \in [{"read", "write", "submit"} -> {"allow", "approval", "deny"}]
      BY <2>2 DEF IsCard
    <3> HIDE DEF s
    <3> QED BY <3>1, <3>2, SpecRulesAre
  <2> QED BY <2>1, <2>2
<1>4. rs = [i \in DOMAIN all |-> [all[i] EXCEPT !.id = i, !.priority = 99 + i]]
  BY DEF Policies!AdaptPolicyCardToRules
<1> HIDE DEF v, s, rs
<1>5. n \in Nat /\ DOMAIN v = 1 .. n
  BY <1>1
<1>6. m \in Nat /\ DOMAIN s = 1 .. m
  BY <1>3
<1>7. /\ DOMAIN all = 1 .. n + m
      /\ \A i \in 1 .. n : all[i] = v[i]
      /\ \A i \in 1 .. m : all[n + i] = s[i]
  <2>1. PICK X : v \in Seq(X)
    BY <1>1
  <2>2. PICK Y : s \in Seq(Y)
    BY <1>3
  <2> QED BY <2>1, <2>2
<1>8. \A i \in 1 .. n + m : IsRule(all[i])
  <2>1. ASSUME NEW i \in 1 .. n + m, ~(i \in 1 .. n) PROVE IsRule(all[i])
    <3>1. i - n \in 1 .. m /\ i = n + (i - n)
      BY <1>5, <1>6, <2>1
    <3> QED BY <1>3, <1>6, <1>7, <3>1
  <2> QED BY <1>2, <1>5, <1>7, <2>1
<1> HIDE DEF all
<1>9. ASSUME NEW i \in 1 .. n + m PROVE Alike(rs[i], all[i]) /\ rs[i].priority = 99 + i
  <2> DEFINE t == all[i]
  <2>1. rs[i] = [t EXCEPT !.id = i, !.priority = 99 + i]
    BY <1>4, <1>7
  <2>2. IsRule(t)
    BY <1>8
  <2> HIDE DEF t
  <2>3. Alike(rs[i], t) /\ rs[i].priority = 99 + i
    BY <2>1, <2>2 DEF IsRule, Alike
  <2> QED BY <2>3 DEF t
<1>10. DOMAIN rs = 1 .. n + m
  BY <1>4, <1>7
<1>11. \A i \in 1 .. n : i \in 1 .. n + m /\ Alike(rs[i], v[i])
  BY <1>5, <1>6, <1>7, <1>9
<1>12. ASSUME NEW i \in 1 .. m PROVE n + i \in 1 .. n + m /\ Alike(rs[n + i], s[i])
  <2>1. n + i \in 1 .. n + m
    BY <1>5, <1>6
  <2> QED BY <1>7, <1>9, <2>1
<1> QED BY <1>5, <1>6, <1>9, <1>10, <1>11, <1>12 DEF rs, v, s

LEMMA AlikeApply ==
  ASSUME NEW r, NEW t, Alike(r, t), NEW q, NEW o
  PROVE  Policies!Applies(r, q, o) <=> Policies!Applies(t, q, o)
BY DEF Alike, Policies!Applies, Policies!MatchesRule

\* The first rule of a card that applies decides.
LEMMA Decided ==
  ASSUME NEW c, IsCard(c), NEW q, NEW o
  PROVE  LET d == Policies!Decide(c, q, o)
             rs == Policies!AdaptPolicyCardToRules(c)
         IN \/ /\ \A i \in DOMAIN rs : ~Policies!Applies(rs[i], q, o)
               /\ d.effect = "deny" /\ d.approval = FALSE
            \/ \E i \in DOMAIN rs :
                 /\ Policies!Applies(rs[i], q, o)
                 /\ \A j \in DOMAIN rs : Policies!Applies(rs[j], q, o) => i <= j
                 /\ d.effect = rs[i].effect /\ d.approval = rs[i].approval
<1> DEFINE d == Policies!Decide(c, q, o)
           rs == Policies!AdaptPolicyCardToRules(c)
           F == Policies!Applicable(rs, q, o)
           i == Policies!FirstOf(rs, F)
<1>1. PICK n \in Nat : DOMAIN rs = 1 .. n
  <2> DEFINE v == Policies!V2Rules(c)
             s == IF c.spec = <<>> THEN <<>> ELSE Policies!SpecRules(c.spec[1])
  <2>1. Len(v) \in Nat /\ Len(s) \in Nat /\ DOMAIN rs = 1 .. Len(v) + Len(s)
    BY AdaptIs
  <2> HIDE DEF v, s, rs
  <2> QED BY <2>1
<1>2. \A j \in DOMAIN rs : rs[j].priority = 99 + j
  BY AdaptIs
<1>3. F = {j \in DOMAIN rs : Policies!Applies(rs[j], q, o)}
  BY DEF Policies!Applicable
<1>4. d = IF F = {} THEN [by |-> 0, effect |-> "deny", approval |-> FALSE]
          ELSE [by |-> i, effect |-> rs[i].effect, approval |-> rs[i].approval]
  BY DEF Policies!Decide, Policies!EvaluatePolicies
<1>5. i = CHOOSE k \in F : \A j \in F \ {k} : Policies!Before(rs, k, j)
  BY DEF Policies!FirstOf
<1> HIDE DEF d, rs, F, i
<1>6. CASE F = {}
  <2>1. d.effect = "deny" /\ d.approval = FALSE
    BY <1>4, <1>6
  <2>2. \A j \in DOMAIN rs : ~Policies!Applies(rs[j], q, o)
    BY <1>3, <1>6
  <2> QED BY <2>1, <2>2 DEF d, rs
<1>7. CASE F # {}
  <2>1. F \subseteq 1 .. n /\ F \in SUBSET Nat
    BY <1>1, <1>3
  <2>2. PICK k \in F : \A j \in F : k <= j
    BY <1>7, <2>1, LeastOfSome
  <2>3. \A j \in F \ {k} : Policies!Before(rs, k, j)
    BY <1>1, <1>2, <2>1, <2>2 DEF Policies!Before
  <2>4. i \in F /\ \A j \in F \ {i} : Policies!Before(rs, i, j)
    BY <1>5, <2>3
  <2>5. \A j \in F : i <= j
    BY <1>1, <1>2, <2>1, <2>4 DEF Policies!Before
  <2>6. d.effect = rs[i].effect /\ d.approval = rs[i].approval
    BY <1>4, <1>7
  <2>7. i \in DOMAIN rs /\ Policies!Applies(rs[i], q, o) /\ \A j \in DOMAIN rs : Policies!Applies(rs[j], q, o) => i <= j
    BY <1>3, <2>4, <2>5
  <2> QED BY <2>6, <2>7 DEF d, rs
<1> QED BY <1>6, <1>7

\* What the pattern of a whole name, of the beginning of one and of every name matches.
LEMMA MatchesAre ==
  ASSUME NEW s \in Seq(STRING), NEW tool \in Seq(STRING)
  PROVE  /\ Policies!GlobMatch(Policies!Literal(s), tool) <=> tool = s
         /\ Policies!GlobMatch(Policies!StartingWith(s), tool) <=> Policies!IsPrefix(s, tool)
         /\ Policies!GlobMatch(Policies!Everything, tool)
<1>1. Policies!GlobMatch(<<s>>, tool) <=> tool = s
  <2>1. Glob(<<s>>, tool) <=> tool = s
    BY GlobOfLiteral
  <2> QED BY <2>1 DEF Glob, Policies!GlobMatch
<1>2. ASSUME NEW x \in Seq(STRING)
      PROVE  Policies!GlobMatch(<<x, <<>>>>, tool) <=> Len(x) <= Len(tool) /\ \A k \in 1 .. Len(x) : x[k] = tool[k]
  <2>1. Glob(<<x, <<>>>>, tool) <=> Len(x) <= Len(tool) /\ \A k \in 1 .. Len(x) : x[k] = tool[k]
    BY GlobOfStarting
  <2> QED BY <2>1 DEF Glob, Policies!GlobMatch
<1>3. Policies!IsPrefix(s, tool) <=> Len(s) <= Len(tool) /\ \A k \in 1 .. Len(s) : s[k] = tool[k]
  <2>1. /\ Len(s) \in Nat /\ Len(tool) \in Nat
        /\ SubSeq(s, 1, Len(s)) = [k \in 1 .. Len(s) |-> s[k]]
        /\ SubSeq(tool, 1, Len(s)) = [k \in 1 .. Len(s) |-> tool[k]]
    OBVIOUS
  <2> QED BY <2>1 DEF Policies!IsPrefix
<1>4. <<>> \in Seq(STRING) /\ Len(<<>>) = 0 /\ Len(tool) \in Nat
  OBVIOUS
<1>5. Policies!GlobMatch(<<<<>>, <<>>>>, tool)
  <2> DEFINE x == <<>>
  <2>1. x \in Seq(STRING) /\ Len(x) <= Len(tool) /\ \A k \in 1 .. Len(x) : x[k] = tool[k]
    BY <1>4
  <2> HIDE DEF x
  <2>2. Policies!GlobMatch(<<x, <<>>>>, tool)
    BY <1>2, <2>1, Zenon
  <2> QED BY <2>2 DEF x
<1>6. Policies!GlobMatch(<<s, <<>>>>, tool) <=> Policies!IsPrefix(s, tool)
  <2>1. Policies!GlobMatch(<<s, <<>>>>, tool) <=> Len(s) <= Len(tool) /\ \A k \in 1 .. Len(s) : s[k] = tool[k]
    BY <1>2, Zenon
  <2> QED BY <1>3, <2>1, Zenon
<1>7. /\ Policies!Literal(s) = <<s>> /\ Policies!StartingWith(s) = <<s, <<>>>>
      /\ Policies!Everything = <<<<>>, <<>>>>
  BY DEF Policies!Literal, Policies!StartingWith, Policies!Everything
<1> QED BY <1>1, <1>5, <1>6, <1>7, Zenon

LEMMA NamesMatches ==
  ASSUME NEW tool \in Seq(STRING), NEW ps, Policies!Names(ps, tool)
  PROVE  ps # {} /\ \E p \in ps : Policies!GlobMatch(p, tool)
BY MatchesAre, Zenon DEF Policies!Names

LEMMA MatchesNames ==
  ASSUME NEW tool \in Seq(STRING), NEW ps \in SUBSET Policies!Patterns,
         \A p \in ps : p \in {Policies!Everything, Policies!Literal(p[1])},
         NEW p \in ps, Policies!GlobMatch(p, tool)
  PROVE  Policies!Names(ps, tool)
<1>1. CASE p = Policies!Everything
  BY <1>1 DEF Policies!Names
<1>2. CASE p = Policies!Literal(p[1])
  <2>1. p \in Seq(Seq(STRING)) /\ p # <<>>
    BY DEF Policies!Patterns, Policies!Text
  <2>2. p[1] \in Seq(STRING)
    BY <2>1
  <2> DEFINE x == p[1]
  <2>3. x \in Seq(STRING) /\ p = Policies!Literal(x) /\ Policies!GlobMatch(Policies!Literal(x), tool)
    BY <1>2, <2>2
  <2> HIDE DEF x
  <2>4. tool = x
    BY <2>3, MatchesAre
  <2> QED BY <2>3, <2>4 DEF Policies!Names
<1> QED BY <1>1, <1>2

\* The scope of a card that has a star at an end only is read the same by both sides.
LEMMA CoversMatches ==
  ASSUME NEW tool \in Seq(STRING), NEW p \in Policies!Patterns,
         p \in {Policies!StartingWith(p[1]), Policies!Literal(p[1])}
  PROVE  Policies!Covers(p, tool) <=> Policies!GlobMatch(p, tool)
<1> DEFINE s == p[1]
<1>1. s \in Seq(STRING)
  <2>1. p \in Seq(Seq(STRING)) /\ p # <<>>
    BY DEF Policies!Patterns, Policies!Text
  <2> QED BY <2>1
<1>2. /\ \A x : Policies!Literal(x) = <<x>> /\ Policies!StartingWith(x) = <<x, <<>>>>
      /\ <<s>> # <<s, <<>>>> /\ <<s, <<>>>> # <<tool>> /\ (<<s>> = <<tool>> <=> s = tool)
      /\ <<s>>[1] = s /\ <<s, <<>>>>[1] = s
  BY DEF Policies!Literal, Policies!StartingWith
<1>3. p = <<s>> \/ p = <<s, <<>>>>
  BY <1>2
<1>4. Policies!Covers(p, tool) <=> p = <<tool>> \/ (p = <<s, <<>>>> /\ Policies!IsPrefix(s, tool))
  BY <1>2, Zenon DEF Policies!Covers
<1>5. /\ Policies!GlobMatch(<<s>>, tool) <=> tool = s
      /\ Policies!GlobMatch(<<s, <<>>>>, tool) <=> Policies!IsPrefix(s, tool)
  BY <1>1, <1>2, MatchesAre
<1> HIDE DEF s
<1>6. CASE p = <<s>>
  BY <1>2, <1>4, <1>5, <1>6
<1>7. CASE p = <<s, <<>>>>
  BY <1>2, <1>4, <1>5, <1>7
<1> QED BY <1>3, <1>6, <1>7

\* A rule with nothing but tools applies to what they match.
LEMMA ToolsApply ==
  ASSUME NEW r, NEW ps, r.tools = <<ps>>, r.risks = <<>>, r.scopes = <<>>, r.effects = <<>>,
         r.conds = <<>>, r.agents = <<>>,
         NEW q, NEW o
  PROVE  Policies!Applies(r, q, o) <=> \E p \in ps : Policies!GlobMatch(p, q.tool)
BY DEF Policies!Applies, Policies!MatchesRule, Policies!MeetsConditions, Policies!None

\* The rules of version 2 that apply are those that are met.
LEMMA MetApply ==
  ASSUME NEW c, IsCard(c), Policies!Exact(c), c.applies # <<>>, NEW i \in DOMAIN c.v2,
         NEW q, q.tool \in Seq(STRING), NEW o
  PROVE  Policies!Applies(Policies!V2Rules(c)[i], q, o)
           <=> /\ \E p \in c.applies[1].tools : Policies!Covers(p, q.tool)
               /\ c.applies[1].risks # <<>> => q.risk \in c.applies[1].risks[1]
               /\ Policies!MeetsConditions(c.v2[i].conds, q, o)
<1> DEFINE r == Policies!V2Rules(c)[i]
<1>1. /\ r.tools = <<c.applies[1].tools>> /\ r.risks = c.applies[1].risks
      /\ r.scopes = <<>> /\ r.effects = <<>> /\ r.conds = c.v2[i].conds /\ r.agents = <<>>
  BY V2RulesAre
<1> HIDE DEF r
<1>2. Policies!Applies(r, q, o)
        <=> /\ \E p \in c.applies[1].tools : Policies!GlobMatch(p, q.tool)
            /\ c.applies[1].risks # <<>> => q.risk \in c.applies[1].risks[1]
            /\ Policies!MeetsConditions(c.v2[i].conds, q, o)
  BY <1>1 DEF Policies!Applies, Policies!MatchesRule
<1>3. \A p \in c.applies[1].tools : Policies!Covers(p, q.tool) <=> Policies!GlobMatch(p, q.tool)
  <2>1. \A p \in c.applies[1].tools :
          p \in Policies!Patterns /\ p \in {Policies!StartingWith(p[1]), Policies!Literal(p[1])}
    BY DEF IsCard, Policies!Exact
  <2> QED BY <2>1, CoversMatches
<1> QED BY <1>2, <1>3 DEF r

\* What the rules of a card allow without asking, the card allows without asking.
LEMMA Enforced ==
  ASSUME NEW c, IsCard(c), Policies!Exact(c), NEW o,
         NEW q, q.tool \in Seq(STRING), q.effect # "none",
         Policies!Unconditional(Policies!Decide(c, q, o))
  PROVE  Policies!Unconditional(Policies!EvaluatePolicy(c, q, o))
<1> DEFINE rs == Policies!AdaptPolicyCardToRules(c)
           v == Policies!V2Rules(c)
           s == IF c.spec = <<>> THEN <<>> ELSE Policies!SpecRules(c.spec[1])
           n == Len(v)
           m == Len(s)
           d == Policies!Decide(c, q, o)
           inScope == /\ c.applies # <<>>
                      /\ \E p \in c.applies[1].tools : Policies!Covers(p, q.tool)
                      /\ c.applies[1].risks # <<>> => q.risk \in c.applies[1].risks[1]
           met == {i \in DOMAIN c.v2 : inScope /\ Policies!MeetsConditions(c.v2[i].conds, q, o)}
           App(r) == Policies!Applies(r, q, o)
<1>1. d.effect = "allow" /\ ~d.approval
  BY DEF Policies!Unconditional
<1>2. PICK i \in DOMAIN rs : /\ App(rs[i])
                            /\ \A j \in DOMAIN rs : App(rs[j]) => i <= j
                            /\ d.effect = rs[i].effect /\ d.approval = rs[i].approval
  <2> HIDE DEF d
  <2> QED BY <1>1, Decided DEF d
<1>3. /\ n \in Nat /\ DOMAIN v = 1 .. n /\ m \in Nat /\ DOMAIN s = 1 .. m /\ DOMAIN rs = 1 .. n + m
      /\ \A j \in 1 .. n : Alike(rs[j], v[j])
      /\ \A j \in 1 .. m : Alike(rs[n + j], s[j])
  BY AdaptIs
<1>4. /\ c.applies = <<>> => n = 0
      /\ c.applies # <<>> => DOMAIN v = DOMAIN c.v2
  BY V2RulesAre
<1>5. \A j \in met : j \in 1 .. n /\ App(rs[j])
  <2> TAKE j \in met
  <2>1. c.applies # <<>> /\ j \in DOMAIN c.v2 /\ App(v[j])
    BY MetApply
  <2>2. j \in 1 .. n
    BY <1>3, <1>4, <2>1
  <2> HIDE DEF v, rs
  <2> QED BY <1>3, <2>1, <2>2, AlikeApply
<1>6. rs[i].effect = "allow" /\ rs[i].approval = FALSE
  <2>1. rs[i].approval \in BOOLEAN
    <3>1. i \in 1 .. n \/ (i - n \in 1 .. m /\ i = n + (i - n))
      <4> HIDE DEF n, m, rs
      <4> QED BY <1>2, <1>3
    <3> HIDE DEF n, m, rs, v, s
    <3> QED BY <1>3, <3>1 DEF Alike
  <2> QED BY <1>1, <1>2, <2>1
<1>7. CASE i \in 1 .. n
  <2>1. c.applies # <<>> /\ i \in DOMAIN c.v2
    BY <1>3, <1>4, <1>7
  <2>2. App(v[i])
    <3>1. Alike(rs[i], v[i]) /\ App(rs[i])
      BY <1>2, <1>3, <1>7
    <3> HIDE DEF v, rs
    <3> QED BY <3>1, AlikeApply
  <2>3. i \in met
    BY <2>1, <2>2, MetApply
  <2>4. c.v2[i].effect = "allow"
    <3>1. /\ v[i].effect = IF c.v2[i].effect = "deny" THEN "deny" ELSE "allow"
          /\ v[i].approval = (c.v2[i].effect = "require_approval")
      BY <2>1, V2RulesAre
    <3>2. Alike(rs[i], v[i])
      BY <1>3, <1>7
    <3>3. c.v2[i].effect \in {"allow", "deny", "require_approval"}
      <4> DEFINE w == c.v2
                 X == [effect : {"allow", "deny", "require_approval"}, conds : Seq(Policies!Conditions)]
      <4>1. w \in Seq(X)
        BY DEF IsCard
      <4> HIDE DEF w, X
      <4>2. i \in DOMAIN w
        BY <2>1 DEF w
      <4>3. w[i] \in X
        BY <4>1, <4>2
      <4> QED BY <4>3 DEF w, X
    <3> HIDE DEF v, rs
    <3> QED BY <1>6, <3>1, <3>2, <3>3 DEF Alike
  <2>5. \A j \in met : i <= j
    <3> HIDE DEF met, rs
    <3> QED BY <1>2, <1>3, <1>5
  <2>6. (CHOOSE k \in met : \A j \in met : k <= j) = i
    <3>1. \A k \in met : k \in Nat
      <4> HIDE DEF met
      <4> QED BY <1>3, <1>5
    <3> HIDE DEF met
    <3> QED BY <2>3, <2>5, <3>1
  <2>7. Policies!EvaluatePolicy(c, q, o) = [effect |-> "allow", approval |-> FALSE]
    BY <2>3, <2>4, <2>6 DEF Policies!EvaluatePolicy
  <2> QED BY <2>7 DEF Policies!Unconditional
<1>8. CASE ~(i \in 1 .. n)
  <2>1. PICK k \in 1 .. m : i = n + k
    <3>1. i - n \in 1 .. m /\ i = n + (i - n)
      <4> HIDE DEF n, m, rs
      <4> QED BY <1>2, <1>3, <1>8
    <3> QED BY <3>1
  <2>2. met = {}
    <3> HIDE DEF met, rs, n, m
    <3> QED BY <1>2, <1>3, <1>5, <1>8
  <2>3. c.spec # <<>>
    <3>1. c.spec = <<>> => m = 0
      OBVIOUS
    <3> HIDE DEF m
    <3> QED BY <2>1, <3>1
  <2> DEFINE p == c.spec[1]
  <2>4. s = Policies!SpecRules(p) /\ p.side \in [{"read", "write", "submit"} -> {"allow", "approval", "deny"}]
    BY <2>3 DEF IsCard
  <2>5. /\ p.forbidden \subseteq Policies!Patterns /\ p.approvals \subseteq Policies!Patterns
        /\ p.allowed \subseteq Policies!Patterns
        /\ \A x \in p.forbidden \cup p.approvals \cup p.allowed : x \in {Policies!Everything, Policies!Literal(x[1])}
    BY <2>3 DEF IsCard, Policies!Exact
  <2>6. Alike(rs[i], s[k]) /\ App(s[k])
    <3>1. Alike(rs[i], s[k]) /\ App(rs[i])
      BY <1>2, <1>3, <2>1
    <3> HIDE DEF s, rs
    <3> QED BY <3>1, AlikeApply
  <2>7. \A j \in 1 .. m : App(s[j]) => k <= j
    <3> TAKE j \in 1 .. m
    <3>1. Alike(rs[n + j], s[j])
      BY <1>3
    <3> HIDE DEF s, rs
    <3>2. App(s[j]) => App(rs[n + j])
      BY <3>1, AlikeApply
    <3> HIDE DEF n, m, App
    <3> QED BY <1>2, <1>3, <2>1, <3>2
  <2>8. s[k].effect = "allow" /\ s[k].approval = FALSE
    <3> HIDE DEF s, rs
    <3> QED BY <1>6, <2>6 DEF Alike
  <2>9. PICK e \in {"read", "write", "submit"} :
          /\ s[k] = Policies!SideRule(p, e)
          /\ p.forbidden # {} => \E j \in 1 .. m : j < k /\ s[j] = Policies!Denied(<<p.forbidden>>)
          /\ p.approvals # {} => \E j \in 1 .. m : j < k /\ s[j] = Policies!Allowed(<<p.approvals>>, TRUE)
    <3>1. k \in DOMAIN s
      BY <1>3
    <3> HIDE DEF s, p
    <3>2. s[k] # Policies!Denied(<<p.forbidden>>)
      BY <2>8, DeniedIs
    <3>3. s[k] # Policies!Allowed(<<p.approvals>>, TRUE)
      BY <2>8, AllowedIs
    <3> QED BY <1>3, <2>4, <3>1, <3>2, <3>3, SpecRulesAre
  <2>10. /\ s[k].effect = IF p.side[e] = "deny" THEN "deny" ELSE "allow"
         /\ s[k].approval = (p.side[e] = "approval")
         /\ s[k].tools = <<p.allowed>> /\ s[k].effects = <<{e}>>
    <3> DEFINE r == Policies!SideRule(p, e)
    <3> HIDE DEF s, p
    <3>1. /\ r.effect = IF p.side[e] = "deny" THEN "deny" ELSE "allow"
          /\ r.approval = (p.side[e] = "approval")
          /\ r.tools = <<p.allowed>> /\ r.effects = <<{e}>>
      BY <2>4, SideRuleIs
    <3>2. s[k] = r
      BY <2>9
    <3> HIDE DEF r
    <3> QED BY <3>1, <3>2
  <2>11. p.side[e] = "allow"
    <3> HIDE DEF s, p
    <3> QED BY <2>4, <2>8, <2>10
  <2>12. q.effect = e /\ \E x \in p.allowed : Policies!GlobMatch(x, q.tool)
    <3> HIDE DEF s, p
    <3> QED BY <2>6, <2>10 DEF Policies!Applies, Policies!MatchesRule, Policies!None
  <2>13. Policies!Names(p.allowed, q.tool)
    <3> HIDE DEF p
    <3> QED BY <2>5, <2>12, MatchesNames
  <2>14. ~Policies!Names(p.forbidden, q.tool)
    <3> SUFFICES ASSUME Policies!Names(p.forbidden, q.tool) PROVE FALSE
      OBVIOUS
    <3> HIDE DEF s, p
    <3>1. p.forbidden # {} /\ \E x \in p.forbidden : Policies!GlobMatch(x, q.tool)
      BY NamesMatches
    <3>2. PICK j \in 1 .. m : j < k /\ s[j] = Policies!Denied(<<p.forbidden>>)
      BY <2>9, <3>1
    <3> DEFINE r == Policies!Denied(<<p.forbidden>>)
               ps == p.forbidden
    <3>3. /\ r.tools = <<ps>> /\ r.risks = <<>> /\ r.scopes = <<>> /\ r.effects = <<>> /\ r.conds = <<>> /\ r.agents = <<>>
      BY DeniedIs
    <3>4. s[j] = r /\ \E x \in ps : Policies!GlobMatch(x, q.tool)
      BY <3>1, <3>2
    <3> HIDE DEF r, ps
    <3>5. App(s[j])
      BY <3>3, <3>4, ToolsApply
    <3> HIDE DEF App, n, m
    <3>6. k <= j
      BY <2>7, <3>5
    <3> QED BY <1>3, <2>1, <3>2, <3>6
  <2>15. ~Policies!Names(p.approvals, q.tool)
    <3> SUFFICES ASSUME Policies!Names(p.approvals, q.tool) PROVE FALSE
      OBVIOUS
    <3> HIDE DEF s, p
    <3>1. p.approvals # {} /\ \E x \in p.approvals : Policies!GlobMatch(x, q.tool)
      BY NamesMatches
    <3>2. PICK j \in 1 .. m : j < k /\ s[j] = Policies!Allowed(<<p.approvals>>, TRUE)
      BY <2>9, <3>1
    <3> DEFINE r == Policies!Allowed(<<p.approvals>>, TRUE)
               ps == p.approvals
    <3>3. /\ r.tools = <<ps>> /\ r.risks = <<>> /\ r.scopes = <<>> /\ r.effects = <<>> /\ r.conds = <<>> /\ r.agents = <<>>
      BY AllowedIs
    <3>4. s[j] = r /\ \E x \in ps : Policies!GlobMatch(x, q.tool)
      BY <3>1, <3>2
    <3> HIDE DEF r, ps
    <3>5. App(s[j])
      BY <3>3, <3>4, ToolsApply
    <3> HIDE DEF App, n, m
    <3>6. k <= j
      BY <2>7, <3>5
    <3> QED BY <1>3, <2>1, <3>2, <3>6
  <2>16. Policies!EvaluatePolicy(c, q, o) = Policies!EvaluateSpec(p, q)
    BY <2>2, <2>3 DEF Policies!EvaluatePolicy
  <2>17. Policies!EvaluateSpec(p, q) = [effect |-> "allow", approval |-> FALSE]
    <3> HIDE DEF p
    <3> QED BY <2>11, <2>12, <2>13, <2>14, <2>15 DEF Policies!EvaluateSpec
  <2> QED BY <2>16, <2>17 DEF Policies!Unconditional
<1> QED BY <1>7, <1>8

\* An organisation's approval comes first in the card made of its defaults.
LEMMA Asked ==
  ASSUME NEW ps \in SUBSET Policies!Patterns, NEW q, NEW o,
         \E p \in ps : Policies!GlobMatch(p, q.tool)
  PROVE  ~Policies!Unconditional(Policies!Decide(Policies!SynthesizedCard(ps), q, o))
<1> DEFINE c == Policies!SynthesizedCard(ps)
           p == c.spec[1]
           rs == Policies!AdaptPolicyCardToRules(c)
           v == Policies!V2Rules(c)
           s == IF c.spec = <<>> THEN <<>> ELSE Policies!SpecRules(c.spec[1])
           d == Policies!Decide(c, q, o)
           r == Policies!Allowed(<<ps>>, TRUE)
<1>1. /\ c.applies = <<>> /\ c.v2 = <<>> /\ c.spec # <<>> /\ c.spec = <<p>>
      /\ p.forbidden = {} /\ p.approvals = ps /\ p.allowed = {Policies!Everything} /\ p.side = Policies!DefaultSide
  BY DEF Policies!SynthesizedCard
<1>2. Policies!DefaultSide \in [{"read", "write", "submit"} -> {"allow", "approval", "deny"}]
  BY DEF Policies!DefaultSide
<1>3. Policies!Everything \in Policies!Patterns
  <2>1. <<<<>>, <<>>>> \in Seq(Seq(STRING)) \ {<<>>}
    OBVIOUS
  <2> QED BY <2>1 DEF Policies!Everything, Policies!StartingWith, Policies!Patterns, Policies!Text
<1> HIDE DEF c
<1>4. IsCard(c)
  <2> DEFINE X == [effect : {"allow", "deny", "require_approval"}, conds : Seq(Policies!Conditions)]
  <2>1. <<>> \in Seq(X)
    OBVIOUS
  <2> QED BY <1>1, <1>2, <1>3, <2>1 DEF IsCard
<1>5. v = <<>> /\ Len(v) = 0
  BY <1>1, <1>4, V2RulesAre
<1>6. s = Policies!SpecRules(p) /\ 1 \in DOMAIN s /\ s[1] = r
  <2>1. s = Policies!SpecRules(p)
    BY <1>1
  <2> HIDE DEF s, p
  <2>2. p.side \in [{"read", "write", "submit"} -> {"allow", "approval", "deny"}] /\ p.approvals # {} /\ p.forbidden = {}
    BY <1>1, <1>2
  <2>3. 1 \in DOMAIN Policies!SpecRules(p) /\ Policies!SpecRules(p)[1] = Policies!Allowed(<<p.approvals>>, TRUE)
    BY <2>2, SpecRulesAre
  <2> QED BY <1>1, <2>1, <2>3
<1>7. /\ r.tools = <<ps>> /\ r.risks = <<>> /\ r.scopes = <<>> /\ r.effects = <<>> /\ r.conds = <<>> /\ r.agents = <<>> /\ r.approval = TRUE
  BY AllowedIs
<1>8. \E n \in Nat : DOMAIN rs = 1 .. n /\ 1 \in 1 .. n /\ Alike(rs[1], s[1])
  <2>1. /\ Len(s) \in Nat /\ DOMAIN s = 1 .. Len(s) /\ DOMAIN rs = 1 .. Len(v) + Len(s)
        /\ \A i \in DOMAIN s : Alike(rs[Len(v) + i], s[i])
    BY <1>4, AdaptIs
  <2> HIDE DEF rs, s, v, r
  <2>2. DOMAIN rs = 1 .. Len(s) /\ 1 \in 1 .. Len(s)
    BY <1>5, <1>6, <2>1
  <2>3. Alike(rs[Len(v) + 1], s[1])
    BY <1>6, <2>1
  <2>4. Len(v) + 1 = 1
    BY <1>5
  <2>5. Alike(rs[1], s[1])
    BY <2>3, <2>4
  <2> QED BY <2>1, <2>2, <2>5
<1>9. Policies!Applies(r, q, o)
  <2> HIDE DEF r
  <2> QED BY <1>7, ToolsApply
<1>10. \/ /\ \A i \in DOMAIN rs : ~Policies!Applies(rs[i], q, o)
          /\ d.effect = "deny" /\ d.approval = FALSE
       \/ \E i \in DOMAIN rs :
            /\ Policies!Applies(rs[i], q, o)
            /\ \A j \in DOMAIN rs : Policies!Applies(rs[j], q, o) => i <= j
            /\ d.effect = rs[i].effect /\ d.approval = rs[i].approval
  BY <1>4, Decided
<1> HIDE DEF rs, s, r, d
<1>11. PICK n \in Nat : DOMAIN rs = 1 .. n /\ 1 \in 1 .. n /\ Alike(rs[1], r)
  BY <1>6, <1>8
<1>12. Policies!Applies(rs[1], q, o) /\ rs[1].approval = TRUE
  <2>1. Policies!Applies(rs[1], q, o)
    BY <1>9, <1>11, AlikeApply
  <2> QED BY <1>7, <1>11, <2>1 DEF Alike
<1>13. PICK i \in 1 .. n : i <= 1 /\ d.approval = rs[i].approval
  BY <1>10, <1>11, <1>12
<1>14. d.approval
  <2>1. i = 1
    BY <1>13
  <2> QED BY <1>12, <1>13, <2>1
<1> QED BY <1>14 DEF d, c, Policies!Unconditional

\* What denies asks nobody.
LEMMA DecisionsAreSound ==
  ASSUME NEW c, IsCard(c), NEW q, NEW o
  PROVE  LET d == Policies!Decide(c, q, o) IN
           d.effect \in {"allow", "deny"} /\ d.approval \in BOOLEAN /\ (d.effect = "deny" => d.approval = FALSE)
<1> DEFINE rs == Policies!AdaptPolicyCardToRules(c)
           v == Policies!V2Rules(c)
           s == IF c.spec = <<>> THEN <<>> ELSE Policies!SpecRules(c.spec[1])
           d == Policies!Decide(c, q, o)
           n == Len(v)
           m == Len(s)
           Sound(r) == r.effect = "deny" => r.approval = FALSE
<1>1. \A i \in DOMAIN v : Sound(v[i])
  <2> TAKE i \in DOMAIN v
  <2>1. c.applies # <<>> /\ i \in DOMAIN c.v2
    BY V2RulesAre
  <2>2. /\ v[i].effect = IF c.v2[i].effect = "deny" THEN "deny" ELSE "allow"
        /\ v[i].approval = (c.v2[i].effect = "require_approval")
    BY <2>1, V2RulesAre
  <2> HIDE DEF v
  <2> QED BY <2>2
<1>2. \A i \in DOMAIN s : Sound(s[i])
  <2> TAKE i \in DOMAIN s
  <2> DEFINE p == c.spec[1]
  <2>1. c.spec # <<>> /\ s = Policies!SpecRules(p)
    OBVIOUS
  <2>2. p.side \in [{"read", "write", "submit"} -> {"allow", "approval", "deny"}]
    BY <2>1 DEF IsCard
  <2> HIDE DEF s, p
  <2>3. \/ s[i] = Policies!Denied(<<p.forbidden>>)
        \/ s[i] = Policies!Allowed(<<p.approvals>>, TRUE)
        \/ \E e \in {"read", "write", "submit"} : s[i] = Policies!SideRule(p, e)
    BY <2>1, <2>2, SpecRulesAre
  <2>4. CASE s[i] = Policies!Denied(<<p.forbidden>>)
    <3>1. s[i].approval = FALSE
      <4> DEFINE r == Policies!Denied(<<p.forbidden>>)
      <4>1. ~r.approval /\ IsRule(r)
        BY DeniedIs
      <4> HIDE DEF r
      <4>2. r.approval = FALSE
        BY <4>1 DEF IsRule
      <4> QED BY <2>4, <4>2 DEF r
    <3> QED BY <3>1
  <2>5. CASE s[i] = Policies!Allowed(<<p.approvals>>, TRUE)
    <3> DEFINE r == Policies!Allowed(<<p.approvals>>, TRUE)
    <3>1. r.effect = "allow"
      BY AllowedIs
    <3> HIDE DEF r
    <3>2. Sound(r)
      BY <3>1
    <3> QED BY <2>5, <3>2 DEF r
  <2>6. CASE \E e \in {"read", "write", "submit"} : s[i] = Policies!SideRule(p, e)
    <3>1. PICK e \in {"read", "write", "submit"} : s[i] = Policies!SideRule(p, e)
      BY <2>6
    <3> DEFINE r == Policies!SideRule(p, e)
    <3>2. r.effect = (IF p.side[e] = "deny" THEN "deny" ELSE "allow") /\ r.approval = (p.side[e] = "approval")
      BY <2>2, SideRuleIs
    <3> HIDE DEF r
    <3>3. Sound(r)
      BY <3>2
    <3> QED BY <3>1, <3>3 DEF r
  <2> QED BY <2>3, <2>4, <2>5, <2>6
<1>3. /\ n \in Nat /\ DOMAIN v = 1 .. n /\ m \in Nat /\ DOMAIN s = 1 .. m /\ DOMAIN rs = 1 .. n + m
      /\ \A j \in 1 .. n : Alike(rs[j], v[j])
      /\ \A j \in 1 .. m : Alike(rs[n + j], s[j])
  BY AdaptIs
<1>4. \/ d.effect = "deny" /\ d.approval = FALSE
      \/ \E i \in DOMAIN rs : d.effect = rs[i].effect /\ d.approval = rs[i].approval
  BY Decided
<1> HIDE DEF rs, v, s, d
<1>5. \A j \in 1 .. n : rs[j].effect \in {"allow", "deny"} /\ rs[j].approval \in BOOLEAN /\ Sound(rs[j])
  BY <1>1, <1>3 DEF Alike
<1>6. \A j \in 1 .. m : rs[n + j].effect \in {"allow", "deny"} /\ rs[n + j].approval \in BOOLEAN /\ Sound(rs[n + j])
  BY <1>2, <1>3 DEF Alike
<1> HIDE DEF n, m
<1>7. \A i \in 1 .. n + m : i \in 1 .. n \/ (i - n \in 1 .. m /\ i = n + (i - n))
  BY <1>3
<1>8. \A i \in DOMAIN rs : rs[i].effect \in {"allow", "deny"} /\ rs[i].approval \in BOOLEAN /\ Sound(rs[i])
  BY <1>3, <1>5, <1>6, <1>7
<1> QED BY <1>4, <1>8 DEF d

\* What is logged is a decision of a card: of a request, and one that asks nobody if it
\* denies.
CardInv ==
  /\ card \in Cards /\ remote \in BOOLEAN /\ open \in BOOLEAN
  /\ \A e \in log :
       /\ e.request \in CardRequests /\ e.effect \in {"allow", "deny"} /\ e.approval \in BOOLEAN
       /\ e.effect = "deny" => e.approval = FALSE

LEMMA CardsStart == MCInit => CardInv
BY DEF MCInit, Policies!Init, CardInv

LEMMA CardStep == CardInv /\ Policies!Next => CardInv'
<1> SUFFICES ASSUME CardInv, Policies!Next PROVE CardInv'
  OBVIOUS
<1>1. CASE Policies!Call
  <2>1. PICK q \in CardRequests, a \in {"decision", "empty", "error", "timeout"} :
          LET d == Policies!External(a, Policies!Decide(card, q, open))
          IN log' = log \cup {[request |-> q, effect |-> d.effect, approval |-> d.approval]}
    BY <1>1 DEF Policies!Call
  <2> DEFINE d == Policies!External(a, Policies!Decide(card, q, open))
             f == [request |-> q, effect |-> d.effect, approval |-> d.approval]
  <2>2. d.effect \in {"allow", "deny"} /\ d.approval \in BOOLEAN /\ (d.effect = "deny" => d.approval = FALSE)
    <3>1. CASE a = "decision"
      <4>1. d = Policies!Decide(card, q, open)
        BY <3>1 DEF Policies!External
      <4>2. IsCard(card)
        BY CardTyped DEF CardInv
      <4> HIDE DEF d
      <4> QED BY <4>1, <4>2, DecisionsAreSound
    <3>2. CASE a # "decision"
      <4>1. d = [by |-> 0, effect |-> "deny", approval |-> FALSE]
        BY <3>2 DEF Policies!External
      <4> HIDE DEF d
      <4> QED BY <4>1
    <3> QED BY <3>1, <3>2
  <2>3. log' = log \cup {f}
    BY <2>1
  <2>4. f.request = q /\ f.effect = d.effect /\ f.approval = d.approval
    OBVIOUS
  <2>5. UNCHANGED <<card, remote, open>>
    BY <1>1 DEF Policies!Call
  <2> HIDE DEF f, d
  <2> QED BY <2>2, <2>3, <2>4, <2>5 DEF CardInv
<1>2. CASE Policies!Reload
  BY <1>2 DEF Policies!Reload, CardInv
<1>3. CASE Policies!HourPasses
  BY <1>3 DEF Policies!HourPasses, CardInv
<1> QED BY <1>1, <1>2, <1>3 DEF Policies!Next

\* A replay judges an entry by what the two decisions are.
LEMMA Judged ==
  ASSUME NEW e \in log, CardInv, ~e.request.token
  PROVE  LET d == Policies!Decide(card, e.request, open) IN
           /\ e \in Policies!Relaxations(log) <=> Policies!Opened(e, d)
           /\ e \in Policies!Blocks(log) <=> (e.effect = "allow" /\ d.effect = "deny")
<1> DEFINE d == Policies!Decide(card, e.request, open)
           k == Policies!DivergenceKind(e)
           q == e.request
<1>1. [q EXCEPT !.token = FALSE] = q
  <2>1. q \in Policies!RequestSet
    BY MCAssumption DEF CardInv, Policies!CardsAssumption
  <2> HIDE DEF q
  <2> QED BY <2>1 DEF Policies!RequestSet, q
<1>2. k = IF e.effect = d.effect /\ e.approval = d.approval THEN "identical"
          ELSE IF e.effect = "deny" /\ d.effect = "allow" THEN "PRIVILEGE_RELAXED"
          ELSE IF e.effect = "allow" /\ d.effect = "deny" THEN "NEWLY_BLOCKED"
          ELSE IF e.approval /\ ~d.approval THEN "HITL_REMOVED"
          ELSE "NEWLY_GATED_HITL"
  BY <1>1 DEF Policies!DivergenceKind, Policies!Identical
<1>3. d.effect \in {"allow", "deny"} /\ d.approval \in BOOLEAN /\ (d.effect = "deny" => d.approval = FALSE)
  BY CardTyped, DecisionsAreSound DEF CardInv
<1>4. e.effect \in {"allow", "deny"} /\ e.approval \in BOOLEAN /\ (e.effect = "deny" => e.approval = FALSE)
  BY DEF CardInv
<1>5. /\ e \in Policies!Relaxations(log) <=> k \in {"PRIVILEGE_RELAXED", "HITL_REMOVED"}
      /\ e \in Policies!Blocks(log) <=> k = "NEWLY_BLOCKED"
  BY DEF Policies!Relaxations, Policies!Blocks
<1>6. Policies!Opened(e, d) <=> d.effect = "allow" /\ (e.effect = "deny" \/ (e.approval /\ ~d.approval))
  BY DEF Policies!Opened
<1> HIDE DEF d, k
<1>7. /\ k \in {"PRIVILEGE_RELAXED", "HITL_REMOVED"}
            <=> d.effect = "allow" /\ (e.effect = "deny" \/ (e.approval /\ ~d.approval))
      /\ k = "NEWLY_BLOCKED" <=> e.effect = "allow" /\ d.effect = "deny"
  BY <1>2, <1>3, <1>4
<1> QED BY <1>5, <1>6, <1>7 DEF d

\* Of the cards: what the rules allow the card allows, organisations are asked, and
\* replays judge right (adapter.ts, evaluate.ts, extract-gateway-policies.ts,
\* flight-recorder.ts).
THEOREM CardsEnforced == MCSpec => []CardsAreEnforced
<1>1. CardInv /\ [MCNext]_mcVars => CardInv'
  <2> SUFFICES ASSUME CardInv, [MCNext]_mcVars PROVE CardInv'
    OBVIOUS
  <2>1. CASE Policies!Next
    BY <2>1, CardStep
  <2>2. CASE UNCHANGED cardVars
    BY <2>2 DEF cardVars, CardInv
  <2> QED BY <2>1, <2>2, PerimeterSteps
<1>2. CardInv => CardsAreEnforced
  <2> SUFFICES ASSUME CardInv PROVE CardsAreEnforced
    OBVIOUS
  <2>1. IsCard(card)
    BY CardTyped DEF CardInv
  <2>2. \A q \in CardRequests : q.tool \in Seq(STRING)
    BY MCAssumption DEF Policies!CardsAssumption, Policies!RequestSet, Policies!Text
  <2>3. Policies!TypeOK
    BY DEF CardInv, Policies!TypeOK
  <2>4. Policies!EnforcedAsWritten
    BY <2>1, <2>2, Enforced DEF Policies!EnforcedAsWritten, Policies!None
  <2>5. Policies!OrganisationIsAsked
    <3> SUFFICES ASSUME card.spec # <<>>, NEW q \in CardRequests,
                        \E p \in card.spec[1].approvals : Policies!GlobMatch(p, q.tool)
                 PROVE  ~Policies!Unconditional(
                            Policies!Decide(Policies!SynthesizedCard(card.spec[1].approvals), q, open))
      BY DEF Policies!OrganisationIsAsked
    <3>1. card.spec[1].approvals \in SUBSET Policies!Patterns
      BY <2>1 DEF IsCard
    <3> QED BY <3>1, Asked
  <2>6. Policies!ReplayJudgesRight
    BY Judged DEF Policies!ReplayJudgesRight
  <2> QED BY <2>3, <2>4, <2>5, <2>6 DEF CardsAreEnforced
<1> QED BY <1>1, <1>2, CardsStart, PTL DEF MCSpec

-----------------------------------------------------------------------------
(* The analysis of rules *)

\* The pieces of texts; the provers do not know that those of the model are strings.
Word ==
  STRING \cup {"s", "ample", "read_", "document", "write_", "record", "submit_", "external", "unlisted_admin_tool",
               "drop_", "production_database", "wire_transfer", "cluster_config", "__shadow_debug_shell"}
Words == Seq(Word)

LEMMA WordsAre == Seq(STRING) \subseteq Words
BY DEF Words, Word

LEMMA MadeOfWords ==
  ASSUME NEW v, NEW w, v \in Word, w \in Word
  PROVE  <<v>> \in Words /\ <<v, w>> \in Words
BY DEF Words

LEMMA PrefixAt ==
  ASSUME NEW a \in Words, NEW b \in Words
  PROVE  Analysis!IsPrefix(a, b) <=> Len(a) <= Len(b) /\ \A k \in 1 .. Len(a) : a[k] = b[k]
<1>1. /\ Len(a) \in Nat /\ Len(b) \in Nat
      /\ SubSeq(a, 1, Len(a)) = [k \in 1 .. Len(a) |-> a[k]]
      /\ SubSeq(b, 1, Len(a)) = [k \in 1 .. Len(a) |-> b[k]]
  BY DEF Words
<1> QED BY <1>1 DEF Analysis!IsPrefix

\* What the pattern of a whole name, of the beginning of one and of every name matches.
LEMMA SeenAre ==
  ASSUME NEW s \in Words, NEW t \in Words
  PROVE  /\ Analysis!GlobMatch(<<s>>, t) <=> t = s
         /\ Analysis!GlobMatch(<<s, <<>>>>, t) <=> Analysis!IsPrefix(s, t)
         /\ Analysis!GlobMatch(Analysis!Everything, t)
<1>1. Analysis!GlobMatch(<<s>>, t) <=> t = s
  <2>1. Glob(<<s>>, t) <=> t = s
    BY GlobOfLiteral DEF Words
  <2> QED BY <2>1 DEF Glob, Analysis!GlobMatch
<1>2. ASSUME NEW x \in Words
      PROVE  Analysis!GlobMatch(<<x, <<>>>>, t) <=> Len(x) <= Len(t) /\ \A k \in 1 .. Len(x) : x[k] = t[k]
  <2>1. Glob(<<x, <<>>>>, t) <=> Len(x) <= Len(t) /\ \A k \in 1 .. Len(x) : x[k] = t[k]
    BY GlobOfStarting DEF Words
  <2> QED BY <2>1 DEF Glob, Analysis!GlobMatch
<1>3. Analysis!GlobMatch(<<s, <<>>>>, t) <=> Analysis!IsPrefix(s, t)
  BY <1>2, PrefixAt, Zenon
<1>4. Analysis!GlobMatch(Analysis!Everything, t)
  <2> DEFINE x == <<>>
  <2>1. x \in Words /\ Len(x) <= Len(t) /\ \A k \in 1 .. Len(x) : x[k] = t[k]
    BY DEF Words
  <2>2. Analysis!Everything = <<x, <<>>>>
    BY DEF Analysis!Everything, Analysis!StartingWith
  <2> HIDE DEF x
  <2> QED BY <1>2, <2>1, <2>2, Zenon
<1> QED BY <1>1, <1>3, <1>4

\* What a rule lists.
IsListed(r) ==
  /\ r.priority \in Nat
  /\ Analysis!Optional(r.tools) /\ Analysis!Optional(r.agents) /\ Analysis!Optional(r.risks)
  /\ Analysis!Optional(r.scopes) /\ Analysis!Optional(r.effects)
  /\ r.tools # <<>> => \A p \in r.tools[1] : IsPattern(p, Word)
  /\ r.effects # <<>> => r.effects[1] \subseteq {"read", "write", "submit"}

LEMMA RulesListed == \A r \in RuleSet : IsListed(r)
<1> SUFFICES ASSUME NEW r \in RuleSet PROVE IsListed(r)
  OBVIOUS
<1>1. /\ r.priority \in Nat
      /\ Analysis!Optional(r.tools) /\ Analysis!Optional(r.agents) /\ Analysis!Optional(r.risks)
      /\ Analysis!Optional(r.scopes) /\ Analysis!Optional(r.effects)
      /\ r.effects # <<>> => r.effects[1] \subseteq {"read", "write", "submit"}
  BY MCAssumption DEF Analysis!RulesAssumption, Analysis!SideEffects
<1>2. ASSUME r.tools # <<>>, NEW p \in r.tools[1]
      PROVE  IsPattern(p, Word)
  <2>1. p \in Seq(Seq(STRING)) /\ p # <<>>
    BY <1>2, MCAssumption DEF Analysis!RulesAssumption, Analysis!Patterns, Analysis!Text
  <2>2. p \in Seq(Words)
    BY <2>1, WordsAre
  <2> QED BY <2>1, <2>2, PatternIs DEF Words
<1> QED BY <1>1, <1>2 DEF IsListed

\* A pattern that the linter finds in another one matches what the other matches.
LEMMA SubsumesMatches ==
  ASSUME NEW a, NEW b, NEW t \in Words, IsPattern(a, Word), IsPattern(b, Word),
         Analysis!PatternSubsumes(a, b), Analysis!GlobMatch(b, t)
  PROVE  Analysis!GlobMatch(a, t)
<1>1. CASE a = b
  BY <1>1
<1>2. CASE a # b
  <2> DEFINE n == Len(a) - 1
             s == SubSeq(a, 1, n)
             c == Analysis!WithoutStar(b)
  <2>1. Analysis!EndsWithStar(a) /\ Analysis!StartsWith(c, s)
    BY <1>2 DEF Analysis!PatternSubsumes, Analysis!WithoutStar, Analysis!Front
  <2>2. /\ a \in Seq(Words) /\ b \in Seq(Words) /\ Len(a) \in Nat /\ Len(b) \in Nat /\ Len(b) >= 1
        /\ Len(a) > 1 /\ a[n + 1] = <<>>
    BY <2>1 DEF IsPattern, Words, Analysis!EndsWithStar
  <2>3. n \in 1 .. Len(a) /\ Len(s) = n /\ \A i \in 1 .. n : s[i] = a[i]
    BY <2>2
  <2>4. Len(c) \in Nat /\ Len(c) <= Len(b) /\ \A i \in 1 .. Len(c) : c[i] = b[i]
    <3> DEFINE m == Len(b) - 1
               f == SubSeq(b, 1, m)
    <3>1. c = b \/ c = f
      BY DEF Analysis!WithoutStar, Analysis!Front
    <3>2. m \in Nat /\ m <= Len(b)
      BY <2>2
    <3> HIDE DEF m
    <3>3. Len(f) = m /\ \A i \in 1 .. m : f[i] = b[i]
      BY <2>2, <3>2
    <3> HIDE DEF c, f
    <3> QED BY <2>2, <3>1, <3>2, <3>3
  <2>11. DOMAIN s = 1 .. n
    BY <2>2
  <2> HIDE DEF s, c
  <2>5. n \in 1 .. Len(c) /\ Analysis!IsPrefix(a[n], b[n]) /\ \A i \in 1 .. n : i < n => a[i] = b[i]
    <3> HIDE DEF n
    <3>1. /\ Len(s) <= Len(c) /\ Analysis!IsPrefix(s[Len(s)], c[Len(s)])
          /\ \A i \in DOMAIN s : i < Len(s) => s[i] = c[i]
      BY <2>1 DEF Analysis!StartsWith
    <3>3. n \in 1 .. Len(c) /\ n \in 1 .. n
      BY <2>2, <2>3, <2>4, <3>1
    <3>4. Analysis!IsPrefix(a[n], b[n])
      BY <2>3, <2>4, <3>1, <3>3
    <3>5. ASSUME NEW i \in 1 .. n, i < n PROVE a[i] = b[i]
      <4>1. i \in 1 .. Len(c)
        BY <2>4, <3>3
      <4> QED BY <2>3, <2>4, <2>11, <3>1, <3>5, <4>1
    <3> QED BY <3>3, <3>4, <3>5
  <2>6. a[n] \in Words /\ b[n] \in Words
    BY <2>2, <2>3, <2>4, <2>5
  <2>7. Len(a[n]) <= Len(b[n]) /\ \A k \in 1 .. Len(a[n]) : a[n][k] = b[n][k]
    BY <2>5, <2>6, PrefixAt
  <2>8. Begins(a, b, n)
    <3>1. n \in 1 .. Len(b) /\ Len(a) = n + 1
      BY <2>2, <2>3, <2>4, <2>5
    <3> QED BY <2>2, <2>5, <2>7, <3>1 DEF Begins
  <2>9. Glob(b, t)
    BY DEF Glob, Analysis!GlobMatch
  <2>10. Glob(a, t)
    <3> HIDE DEF n
    <3> QED BY <2>8, <2>9, GlobSubsumes DEF Words
  <2> QED BY <2>10 DEF Glob, Analysis!GlobMatch
<1> QED BY <1>1, <1>2

\* A rule whose matcher subsumes that of another one, without its conditions or with the
\* same, applies where the other does.
LEMMA SubsumesApplies ==
  ASSUME NEW r, NEW s, IsListed(r), IsListed(s), NEW q, q.tool \in Words, NEW o,
         r.tools # <<{}>>, r.agents # <<{}>>, r.risks # <<{}>>, r.effects # <<{}>>,
         Analysis!MatcherSubsumes(r, s), r.conds = s.conds \/ r.conds = <<>>,
         Analysis!Applies(s, q, o)
  PROVE  Analysis!Applies(r, q, o)
<1>1. ASSUME r.tools # <<>> PROVE \E p \in r.tools[1] : Analysis!GlobMatch(p, q.tool)
  <2>1. r.tools = <<r.tools[1]>> /\ r.tools[1] # {} /\ Analysis!Listed(r.tools)
    BY <1>1 DEF IsListed, Analysis!Optional, Analysis!Listed
  <2>2. CASE Analysis!Everything \in r.tools[1]
    BY <2>2, SeenAre
  <2>3. CASE Analysis!Everything \notin r.tools[1]
    <3>1. s.tools # <<>> /\ \A y \in s.tools[1] : \E x \in r.tools[1] : Analysis!PatternSubsumes(x, y)
      BY <2>1, <2>3 DEF Analysis!MatcherSubsumes, Analysis!ToolsSubsume, Analysis!Listed
    <3>2. PICK y \in s.tools[1] : Analysis!GlobMatch(y, q.tool)
      BY <3>1 DEF Analysis!Applies, Analysis!MatchesRule
    <3>3. PICK x \in r.tools[1] : Analysis!PatternSubsumes(x, y)
      BY <3>1
    <3>4. IsPattern(x, Word) /\ IsPattern(y, Word)
      BY <1>1, <3>1 DEF IsListed
    <3> QED BY <3>2, <3>3, <3>4, SubsumesMatches
  <2> QED BY <2>2, <2>3
<1>2. r.risks # <<>> => q.risk \in r.risks[1]
  <2> SUFFICES ASSUME r.risks # <<>> PROVE q.risk \in r.risks[1]
    OBVIOUS
  <2>1. Analysis!Listed(r.risks)
    BY DEF IsListed, Analysis!Optional, Analysis!Listed
  <2> QED BY <2>1 DEF Analysis!MatcherSubsumes, Analysis!ArraySubsumes, Analysis!Listed, Analysis!Applies, Analysis!MatchesRule
<1>3. r.scopes # <<>> => r.scopes[1] \subseteq q.scopes
  <2> SUFFICES ASSUME r.scopes # <<>> PROVE r.scopes[1] \subseteq q.scopes
    OBVIOUS
  <2>1. CASE r.scopes[1] = {}
    BY <2>1
  <2>2. CASE r.scopes[1] # {}
    BY <2>2 DEF Analysis!MatcherSubsumes, Analysis!Listed, Analysis!Applies, Analysis!MatchesRule
  <2> QED BY <2>1, <2>2
<1>4. r.effects # <<>> /\ q.effect # "none" => q.effect \in r.effects[1]
  <2> SUFFICES ASSUME r.effects # <<>>, q.effect # "none" PROVE q.effect \in r.effects[1]
    OBVIOUS
  <2>1. Analysis!Listed(r.effects)
    BY DEF IsListed, Analysis!Optional, Analysis!Listed
  <2> QED BY <2>1 DEF Analysis!MatcherSubsumes, Analysis!ArraySubsumes, Analysis!Listed, Analysis!Applies,
             Analysis!MatchesRule, Analysis!None
<1>5. Analysis!MeetsConditions(r.conds, q, o)
  BY DEF Analysis!Applies, Analysis!MeetsConditions
<1>6. r.agents # <<>> => q.agent \in r.agents[1]
  <2> SUFFICES ASSUME r.agents # <<>> PROVE q.agent \in r.agents[1]
    OBVIOUS
  <2>1. Analysis!Listed(r.agents)
    BY DEF IsListed, Analysis!Optional, Analysis!Listed
  <2> QED BY <2>1 DEF Analysis!MatcherSubsumes, Analysis!ArraySubsumes, Analysis!Listed, Analysis!Applies, Analysis!MatchesRule
<1> QED BY <1>1, <1>2, <1>3, <1>4, <1>5, <1>6 DEF Analysis!Applies, Analysis!MatchesRule, Analysis!None

\* Of rules, some are first.
LEMMA FirstIs ==
  ASSUME NEW rs, NEW S \in SUBSET Nat, S # {}, \A i \in S : rs[i].priority \in Nat
  PROVE  LET f == Analysis!FirstOf(rs, S) IN
           f \in S /\ \A j \in S : rs[f].priority <= rs[j].priority /\ (j # f => Analysis!Before(rs, f, j))
<1> DEFINE T == {rs[i].priority : i \in S}
           f == Analysis!FirstOf(rs, S)
<1>1. PICK p \in T : \A x \in T : p <= x
  <2>1. T \in SUBSET Nat /\ T # {}
    OBVIOUS
  <2> HIDE DEF T
  <2> QED BY <2>1, LeastOfSome
<1> DEFINE U == {i \in S : rs[i].priority = p}
<1>2. PICK i \in U : \A j \in U : i <= j
  <2>1. U \in SUBSET Nat /\ U # {}
    BY <1>1
  <2> HIDE DEF U
  <2> QED BY <2>1, LeastOfSome
<1>3. \A j \in S \ {i} : Analysis!Before(rs, i, j)
  <2> TAKE j \in S \ {i}
  <2>1. /\ i \in Nat /\ j \in Nat /\ rs[i].priority = p /\ p \in Nat /\ rs[j].priority \in Nat /\ p <= rs[j].priority
        /\ rs[j].priority = p => i <= j
    BY <1>1, <1>2
  <2> QED BY <2>1 DEF Analysis!Before
<1>4. f \in S /\ \A j \in S \ {f} : Analysis!Before(rs, f, j)
  <2>1. f = CHOOSE k \in S : \A j \in S \ {k} : Analysis!Before(rs, k, j)
    BY DEF Analysis!FirstOf
  <2> HIDE DEF f
  <2> QED BY <1>2, <1>3, <2>1
<1> HIDE DEF f
<1>5. \A j \in S : rs[f].priority <= rs[j].priority
  BY <1>4 DEF Analysis!Before
<1> QED BY <1>4, <1>5 DEF f

\* What is decided, and by whom.
LEMMA EvaluatedIs ==
  ASSUME NEW rs \in Seq(RuleSet), NEW q, NEW o
  PROVE  LET d == Analysis!EvaluatePolicies(rs, q, o)
             A == Analysis!Applicable(rs, q, o)
         IN /\ A \subseteq DOMAIN rs /\ A \in SUBSET Nat /\ \A i \in A : IsListed(rs[i]) /\ Analysis!Applies(rs[i], q, o)
            /\ A = {} => d.by = 0 /\ d.effect = "deny" /\ d.approval = FALSE
            /\ A # {} => /\ d.by \in A /\ d.effect = rs[d.by].effect /\ d.approval = rs[d.by].approval
                         /\ d.by = Analysis!FirstOf(rs, A)
                         /\ \A j \in A : rs[d.by].priority <= rs[j].priority /\ (j # d.by => Analysis!Before(rs, d.by, j))
<1> DEFINE d == Analysis!EvaluatePolicies(rs, q, o)
           A == Analysis!Applicable(rs, q, o)
           f == Analysis!FirstOf(rs, A)
<1>1. A \subseteq DOMAIN rs /\ A \in SUBSET Nat /\ \A i \in A : Analysis!Applies(rs[i], q, o)
  BY DEF Analysis!Applicable
<1>2. \A i \in DOMAIN rs : rs[i] \in RuleSet
  OBVIOUS
<1>3. \A i \in A : IsListed(rs[i])
  BY <1>1, <1>2, RulesListed
<1>4. d = IF A = {} THEN [by |-> 0, effect |-> "deny", approval |-> FALSE]
          ELSE [by |-> f, effect |-> rs[f].effect, approval |-> rs[f].approval]
  BY DEF Analysis!EvaluatePolicies
<1>5. A # {} => f \in A /\ \A j \in A : rs[f].priority <= rs[j].priority /\ (j # f => Analysis!Before(rs, f, j))
  <2>1. \A i \in A : rs[i].priority \in Nat
    BY <1>3 DEF IsListed
  <2> HIDE DEF A
  <2> QED BY <1>1, <2>1, FirstIs
<1> HIDE DEF d, A, f
<1>6. A = {} => d.by = 0 /\ d.effect = "deny" /\ d.approval = FALSE
  BY <1>4
<1>7. A # {} => d.by = f /\ d.effect = rs[f].effect /\ d.approval = rs[f].approval
  BY <1>4
<1> QED BY <1>1, <1>3, <1>5, <1>6, <1>7 DEF d, A, f

\* A shadowed rule is preceded by one that applies where it does.
LEMMA ShadowsHide ==
  ASSUME rules \in Seq(RuleSet), RuleRequests \subseteq Analysis!RequestSet
  PROVE  Analysis!ShadowedNeverDecides
<1> SUFFICES ASSUME Analysis!NoEmptyList, NEW p \in Analysis!Shadowed(rules), NEW q \in RuleRequests, NEW o \in BOOLEAN,
                    Analysis!EvaluatePolicies(rules, q, o).by = p[1]
             PROVE  FALSE
  BY DEF Analysis!ShadowedNeverDecides
<1> DEFINE s == rules[p[1]]
           r == rules[p[2]]
           d == Analysis!EvaluatePolicies(rules, q, o)
           A == Analysis!Applicable(rules, q, o)
<1>1. /\ p[1] \in DOMAIN rules /\ p[2] \in DOMAIN rules /\ r.priority < s.priority
      /\ Analysis!MatcherSubsumes(r, s) /\ (r.conds = s.conds \/ r.conds = <<>>)
  BY DEF Analysis!Shadowed, Analysis!None
<1>2. IsListed(r) /\ IsListed(s)
  BY <1>1, RulesListed
<1>3. p[1] # 0
  BY <1>1
<1>4. /\ A # {} /\ d.by \in A /\ \A j \in A : rules[d.by].priority <= rules[j].priority
  BY <1>3, EvaluatedIs
<1>5. Analysis!Applies(s, q, o)
  BY <1>4 DEF Analysis!Applicable
<1>6. q.tool \in Words
  BY WordsAre DEF Analysis!RequestSet, Analysis!Text
<1>7. r.tools # <<{}>> /\ r.agents # <<{}>> /\ r.risks # <<{}>> /\ r.effects # <<{}>>
  BY <1>1 DEF Analysis!NoEmptyList
<1>8. Analysis!Applies(r, q, o)
  <2> HIDE DEF r, s
  <2> QED BY <1>1, <1>2, <1>5, <1>6, <1>7, SubsumesApplies
<1>9. p[2] \in A
  BY <1>1, <1>8 DEF Analysis!Applicable
<1>10. s.priority <= r.priority
  BY <1>4, <1>9
<1> HIDE DEF r, s
<1> QED BY <1>1, <1>2, <1>10 DEF IsListed

LEMMA ContradictionsClash ==
  ASSUME rules \in Seq(RuleSet), RuleRequests \subseteq Analysis!RequestSet
  PROVE  Analysis!ContradictionIsReal
<1> SUFFICES ASSUME Analysis!NoEmptyList, NEW p \in Analysis!Contradictory(rules), NEW q \in RuleRequests
             PROVE  Analysis!Applies(rules[p[1]], q, hour) <=> Analysis!Applies(rules[p[2]], q, hour)
  BY DEF Analysis!ContradictionIsReal
<1> DEFINE s == rules[p[1]]
           r == rules[p[2]]
<1>1. /\ p[1] \in DOMAIN rules /\ p[2] \in DOMAIN rules
      /\ Analysis!MatcherSubsumes(r, s) /\ Analysis!MatcherSubsumes(s, r) /\ r.conds = s.conds
  BY DEF Analysis!Contradictory
<1>2. IsListed(r) /\ IsListed(s)
  BY <1>1, RulesListed
<1>3. q.tool \in Words
  BY WordsAre DEF Analysis!RequestSet, Analysis!Text
<1>4. /\ r.tools # <<{}>> /\ r.agents # <<{}>> /\ r.risks # <<{}>> /\ r.effects # <<{}>>
      /\ s.tools # <<{}>> /\ s.agents # <<{}>> /\ s.risks # <<{}>> /\ s.effects # <<{}>>
  BY <1>1 DEF Analysis!NoEmptyList
<1> HIDE DEF r, s
<1>5. Analysis!Applies(s, q, hour) => Analysis!Applies(r, q, hour)
  BY <1>1, <1>2, <1>3, <1>4, SubsumesApplies
<1>6. Analysis!Applies(r, q, hour) => Analysis!Applies(s, q, hour)
  BY <1>1, <1>2, <1>3, <1>4, SubsumesApplies
<1> QED BY <1>5, <1>6 DEF r, s

\* What decides is of the least priority, in whatever order the rules stand.
LEMMA OrderOfOnePriority ==
  ASSUME rules \in Seq(RuleSet)
  PROVE  Analysis!HashDeterminesDecision
<1> DEFINE n == Len(rules)
           same == Analysis!Reverse(rules)
<1>1. n \in Nat /\ DOMAIN rules = 1 .. n /\ \A i \in 1 .. n : rules[i] \in RuleSet
  OBVIOUS
<1>2. same = [i \in 1 .. n |-> rules[(n - i) + 1]]
  BY DEF Analysis!Reverse
<1> HIDE DEF n, same
<1>3. \A i \in 1 .. n : n - i + 1 \in 1 .. n /\ n - (n - i + 1) + 1 = i
  BY <1>1
<1>4. same \in Seq(RuleSet) /\ DOMAIN same = 1 .. n
  <2>1. same \in [1 .. n -> RuleSet]
    BY <1>1, <1>2, <1>3
  <2> QED BY <1>1, <2>1
<1> SUFFICES ASSUME NEW q \in RuleRequests
             PROVE  \/ Analysis!EvaluatePolicies(same, q, hour).effect = Analysis!EvaluatePolicies(rules, q, hour).effect
                    \/ \E i, j \in Analysis!Applicable(rules, q, hour) :
                         rules[i].priority = rules[j].priority /\ rules[i].effect # rules[j].effect
  BY DEF Analysis!HashDeterminesDecision, same
<1> DEFINE d == Analysis!EvaluatePolicies(rules, q, hour)
           e == Analysis!EvaluatePolicies(same, q, hour)
           A == Analysis!Applicable(rules, q, hour)
           B == Analysis!Applicable(same, q, hour)
<1>5. /\ \A i \in A : i \in 1 .. n /\ n - i + 1 \in B /\ same[n - i + 1] = rules[i]
      /\ \A i \in B : i \in 1 .. n /\ n - i + 1 \in A /\ same[i] = rules[n - i + 1]
  <2>1. A = {i \in 1 .. n : Analysis!Applies(rules[i], q, hour)} /\ B = {i \in 1 .. n : Analysis!Applies(same[i], q, hour)}
    BY <1>1, <1>4 DEF Analysis!Applicable
  <2>2. \A i \in 1 .. n : same[i] = rules[n - i + 1] /\ same[n - i + 1] = rules[i]
    BY <1>2, <1>3
  <2> HIDE DEF A, B
  <2> QED BY <1>3, <2>1, <2>2
<1>6. /\ A = {} => d.effect = "deny"
      /\ A # {} => d.by \in A /\ d.effect = rules[d.by].effect /\ \A j \in A : rules[d.by].priority <= rules[j].priority
  BY EvaluatedIs
<1>7. /\ B = {} => e.effect = "deny"
      /\ B # {} => e.by \in B /\ e.effect = same[e.by].effect /\ \A j \in B : same[e.by].priority <= same[j].priority
  BY <1>4, EvaluatedIs
<1> HIDE DEF d, e, A, B
<1>8. CASE A = {}
  <2>1. B = {}
    BY <1>5, <1>8
  <2> QED BY <1>6, <1>7, <1>8, <2>1 DEF d, e
<1>9. CASE A # {}
  <2>1. B # {}
    BY <1>5, <1>9
  <2> DEFINE i == d.by
             j == n - e.by + 1
  <2>2. i \in A /\ j \in A /\ same[e.by] = rules[j] /\ n - i + 1 \in B /\ same[n - i + 1] = rules[i]
    BY <1>5, <1>6, <1>7, <1>9, <2>1
  <2>3. rules[i].priority <= rules[j].priority /\ rules[j].priority <= rules[i].priority
    <3>1. rules[i].priority <= rules[j].priority
      BY <1>6, <1>9, <2>2
    <3>2. same[e.by].priority <= same[n - i + 1].priority
      BY <1>7, <2>1, <2>2
    <3> HIDE DEF i, j
    <3> QED BY <2>2, <3>1, <3>2
  <2>4. rules[i].priority \in Nat /\ rules[j].priority \in Nat
    <3>1. i \in 1 .. n /\ j \in 1 .. n
      BY <1>5, <2>2
    <3> QED BY <1>1, <3>1, RulesListed DEF IsListed
  <2>5. rules[i].priority = rules[j].priority
    BY <2>3, <2>4
  <2>6. e.effect = rules[j].effect /\ d.effect = rules[i].effect
    BY <1>6, <1>7, <1>9, <2>1, <2>2
  <2> HIDE DEF i, j
  <2> QED BY <2>2, <2>5, <2>6 DEF d, e, A
<1> QED BY <1>8, <1>9

\* The samples of a whole name and of the beginning of one.
LEMMA SampleIs ==
  ASSUME NEW y \in Words
  PROVE  /\ Analysis!SampleOf(<<y>>) = y
         /\ LET u == Analysis!SampleOf(<<y, <<>>>>) IN u \in Words /\ Analysis!IsPrefix(y, u)
<1> DEFINE S == Analysis!Sample
<1>1. S \in Words
  <2> DEFINE v == "s"
             w == "ample"
  <2>1. v \in Word /\ w \in Word
    BY DEF Word
  <2> HIDE DEF v, w
  <2>2. <<v, w>> \in Words
    BY <2>1, MadeOfWords
  <2> QED BY <2>2 DEF v, w, Analysis!Sample
<1> HIDE DEF S
<1>2. ASSUME NEW p, NEW n \in {1, 2}, Len(p) = n, DOMAIN p = 1 .. n, p[1] = y
      PROVE  Analysis!SampleOf(p) = IF n = 1 THEN y ELSE y \o S \o p[2]
  <2> DEFINE F(f) == [i \in DOMAIN p |-> IF i = 1 THEN p[1] ELSE f[i - 1] \o S \o p[i]]
             g == CHOOSE f : f = F(f)
             h == [i \in DOMAIN p |-> IF i = 1 THEN p[1] ELSE p[1] \o S \o p[2]]
  <2>1. Analysis!SampleOf(p) = g[Len(p)]
    BY DEF Analysis!SampleOf, S
  <2>2. h = F(h)
    <3>1. \A i \in DOMAIN p : i = 1 \/ (i = 2 /\ i - 1 = 1 /\ 1 \in DOMAIN p)
      BY <1>2
    <3>2. \A i \in DOMAIN p : h[i] = IF i = 1 THEN p[1] ELSE h[i - 1] \o S \o p[i]
      BY <3>1
    <3> QED BY <3>2
  <2>3. g = F(g)
    BY <2>2
  <2> HIDE DEF g
  <2>4. g[1] = y
    BY <1>2, <2>3
  <2>5. n = 2 => g[2] = g[1] \o S \o p[2]
    BY <1>2, <2>3
  <2> QED BY <1>2, <2>1, <2>4, <2>5
<1>3. Analysis!SampleOf(<<y>>) = y
  <2>1. Len(<<y>>) = 1 /\ DOMAIN <<y>> = 1 .. 1 /\ <<y>>[1] = y
    OBVIOUS
  <2> QED BY <1>2, <2>1
<1>4. Analysis!SampleOf(<<y, <<>>>>) = y \o S \o <<>>
  <2> DEFINE p == <<y, <<>>>>
  <2>1. Len(p) = 2 /\ DOMAIN p = 1 .. 2 /\ p[1] = y /\ p[2] = <<>>
    OBVIOUS
  <2> HIDE DEF p
  <2>2. Analysis!SampleOf(p) = IF 2 = 1 THEN y ELSE y \o S \o p[2]
    BY <1>2, <2>1
  <2>3. Analysis!SampleOf(p) = y \o S \o <<>>
    BY <2>1, <2>2
  <2> QED BY <2>3, Zenon DEF p
<1>5. y \o S \o <<>> \in Words /\ Len(y) <= Len(y \o S \o <<>>) /\ \A k \in 1 .. Len(y) : y[k] = (y \o S \o <<>>)[k]
  <2> DEFINE z == y \o S
  <2>1. z \in Words /\ Len(z) = Len(y) + Len(S) /\ Len(y) \in Nat /\ Len(S) \in Nat /\ \A k \in 1 .. Len(y) : z[k] = y[k]
    BY <1>1 DEF Words
  <2> HIDE DEF z
  <2>2. z \o <<>> = z
    BY <2>1 DEF Words
  <2> QED BY <2>1, <2>2 DEF z
<1>6. Analysis!IsPrefix(y, y \o S \o <<>>)
  BY <1>5, PrefixAt
<1> QED BY <1>3, <1>4, <1>5, <1>6

LEMMA FixedAreWords == Analysis!FixedTools \subseteq Words
<1> DEFINE a == "read_"
           b == "document"
           c == "write_"
           d == "record"
           e == "submit_"
           f == "external"
           g == "unlisted_admin_tool"
<1>1. a \in Word /\ b \in Word /\ c \in Word /\ d \in Word /\ e \in Word /\ f \in Word /\ g \in Word
  BY DEF Word
<1>2. Analysis!FixedTools = {<<a, b>>, <<c, d>>, <<e, f>>, <<g>>}
  BY DEF Analysis!FixedTools
<1> HIDE DEF a, b, c, d, e, f, g
<1>3. <<a, b>> \in Words /\ <<c, d>> \in Words /\ <<e, f>> \in Words /\ <<g>> \in Words
  BY <1>1, MadeOfWords
<1> QED BY <1>2, <1>3

\* Every tool has one among those that are looked at that the same patterns match: the
\* tool itself, the sample of the longest pattern, or the fixed one that no pattern names.
LEMMA ToolHasSample ==
  ASSUME NEW rs \in Seq(RuleSet), Analysis!Sampled(rs), NEW t \in Words
  PROVE  \E u \in Analysis!ToolsSeen(rs) :
           \A p \in Analysis!Listing(rs, "tools") : Analysis!GlobMatch(p, u) <=> Analysis!GlobMatch(p, t)
<1> DEFINE Pats == Analysis!Listing(rs, "tools")
           Every == Analysis!Everything
           Named == Pats \ {Every}
           Seen == Analysis!ToolsSeen(rs)
<1>1. ASSUME NEW p \in Pats PROVE IsPattern(p, Word) /\ p[1] \in Words
  <2>1. PICK i \in DOMAIN rs : rs[i].tools # <<>> /\ p \in rs[i].tools[1]
    BY DEF Analysis!Listing
  <2>2. rs[i] \in RuleSet
    OBVIOUS
  <2>3. IsPattern(p, Word)
    BY <2>1, <2>2, RulesListed DEF IsListed
  <2>4. 1 \in 1 .. Len(p)
    BY <2>3 DEF IsPattern
  <2> QED BY <2>3, <2>4 DEF IsPattern, Words
<1>2. /\ \A p \in Named : p = <<p[1]>> \/ p = <<p[1], <<>>>>
      /\ \A p, r \in Named : p = <<p[1], <<>>>> /\ Analysis!GlobMatch(r, Analysis!SampleOf(p)) =>
                                r = <<r[1], <<>>>> /\ Analysis!IsPrefix(r[1], p[1])
      /\ \E x \in Analysis!FixedTools : \A p \in Named : ~Analysis!GlobMatch(p, x)
  BY DEF Analysis!Sampled, Analysis!Literal, Analysis!StartingWith
<1>3. Analysis!FixedTools \subseteq Seen /\ \A p \in Named : Analysis!SampleOf(p) \in Seen
  BY DEF Analysis!ToolsSeen
<1> HIDE DEF Pats, Every, Seen
<1>4. SUFFICES \E u \in Seen : u \in Words /\ \A p \in Named : Analysis!GlobMatch(p, u) <=> Analysis!GlobMatch(p, t)
  <2>1. \A u \in Words : Analysis!GlobMatch(Every, u)
    BY SeenAre, Zenon DEF Every
  <2>2. \A p \in Pats : p = Every \/ p \in Named
    OBVIOUS
  <2> QED BY <1>4, <2>1, <2>2 DEF Pats, Seen
<1>5. CASE \E p \in Named : p = <<t>>
  <2>1. PICK p \in Named : p = <<t>>
    BY <1>5
  <2>2. t \in Seen
    BY <1>3, <2>1, SampleIs
  <2> QED BY <2>2
<1>6. CASE \A p \in Named : p # <<t>>
  <2>1. \A p \in Named : Analysis!GlobMatch(p, t) <=> p = <<p[1], <<>>>> /\ Analysis!IsPrefix(p[1], t)
    <3> TAKE p \in Named
    <3> DEFINE s == p[1]
    <3>1. s \in Words /\ (p = <<s>> \/ p = <<s, <<>>>>) /\ p # <<t>>
      BY <1>1, <1>2, <1>6
    <3> HIDE DEF s
    <3>2. /\ Analysis!GlobMatch(<<s>>, t) <=> t = s
          /\ Analysis!GlobMatch(<<s, <<>>>>, t) <=> Analysis!IsPrefix(s, t)
      BY <3>1, SeenAre
    <3>3. <<s>> # <<s, <<>>>>
      OBVIOUS
    <3>4. Analysis!GlobMatch(p, t) <=> p = <<s, <<>>>> /\ Analysis!IsPrefix(s, t)
      BY <3>1, <3>2, <3>3
    <3> QED BY <3>4 DEF s
  <2> DEFINE L == {p \in Named : Analysis!GlobMatch(p, t)}
  <2>2. CASE L = {}
    <3>1. PICK x \in Analysis!FixedTools : \A p \in Named : ~Analysis!GlobMatch(p, x)
      BY <1>2
    <3>2. x \in Seen /\ x \in Words
      BY <1>3, FixedAreWords
    <3> QED BY <2>2, <3>1, <3>2
  <2>3. CASE L # {}
    <3>1. \A p \in L : /\ p \in Named /\ p[1] \in Words /\ Len(p[1]) \in Nat /\ p = <<p[1], <<>>>>
                       /\ Len(p[1]) <= Len(t) /\ \A k \in 1 .. Len(p[1]) : p[1][k] = t[k]
      <4> TAKE p \in L
      <4>1. p \in Named /\ p[1] \in Words /\ p = <<p[1], <<>>>> /\ Analysis!IsPrefix(p[1], t)
        BY <1>1, <2>1, Zenon
      <4>2. \A w \in Words : Len(w) \in Nat
        BY DEF Words
      <4> QED BY <4>1, <4>2, PrefixAt
    <3>2. Len(t) \in Nat
      BY DEF Words
    <3>3. PICK b \in L : \A p \in L : Len(p[1]) <= Len(b[1])
      <4> DEFINE S == {Len(t) - Len(p[1]) : p \in L}
      <4>1. S \in SUBSET Nat /\ S # {}
        <5> HIDE DEF L
        <5> QED BY <2>3, <3>1, <3>2
      <4>2. PICK m \in S : \A x \in S : m <= x
        <5> HIDE DEF S
        <5> QED BY <4>1, LeastOfSome
      <4>3. PICK b \in L : m = Len(t) - Len(b[1])
        BY <4>2
      <4>4. ASSUME NEW p \in L PROVE Len(p[1]) <= Len(b[1])
        <5>1. m <= Len(t) - Len(p[1])
          BY <4>2, <4>4
        <5> HIDE DEF L
        <5> QED BY <3>1, <3>2, <4>3, <4>4, <5>1
      <4> QED BY <4>4
    <3> DEFINE y == b[1]
               u == Analysis!SampleOf(b)
    <3>4. b \in Named /\ b = <<y, <<>>>> /\ y \in Words /\ Len(y) \in Nat /\ Len(y) <= Len(t)
          /\ \A k \in 1 .. Len(y) : y[k] = t[k]
      BY <3>1
    <3>5. u \in Seen
      BY <1>3, <3>4
    <3>6. u \in Words /\ Analysis!IsPrefix(y, u)
      <4> HIDE DEF y
      <4> QED BY <3>4, SampleIs
    <3>7. Len(y) <= Len(u) /\ (\A k \in 1 .. Len(y) : y[k] = u[k]) /\ Len(u) \in Nat
      <4> HIDE DEF y, u
      <4>1. Len(u) \in Nat
        BY <3>6 DEF Words
      <4> QED BY <3>4, <3>6, <4>1, PrefixAt
    <3>8. ASSUME NEW p \in Named PROVE Analysis!GlobMatch(p, u) <=> Analysis!GlobMatch(p, t)
      <4> DEFINE x == p[1]
      <4>1. x \in Words /\ Len(x) \in Nat
        <5>1. x \in Words
          BY <1>1
        <5> HIDE DEF x
        <5> QED BY <5>1 DEF Words
      <4>2. ASSUME Analysis!GlobMatch(p, u) PROVE Analysis!GlobMatch(p, t)
        <5>1. p = <<x, <<>>>> /\ Analysis!IsPrefix(x, y)
          BY <1>2, <3>4, <4>2
        <5> HIDE DEF x, y, u, L
        <5>2. Len(x) <= Len(y) /\ \A k \in 1 .. Len(x) : x[k] = y[k]
          BY <3>4, <4>1, <5>1, PrefixAt
        <5>3. Len(x) <= Len(t) /\ \A k \in 1 .. Len(x) : x[k] = t[k]
          BY <3>2, <3>4, <4>1, <5>2
        <5>4. Analysis!IsPrefix(x, t)
          BY <4>1, <5>3, PrefixAt
        <5> QED BY <2>1, <5>1, <5>4 DEF x
      <4>3. ASSUME Analysis!GlobMatch(p, t) PROVE Analysis!GlobMatch(p, u)
        <5>1. p \in L /\ p = <<x, <<>>>>
          BY <2>1, <4>3
        <5>2. Len(x) <= Len(y) /\ \A k \in 1 .. Len(x) : x[k] = t[k]
          BY <3>1, <3>3, <5>1
        <5> HIDE DEF x, y, u, L
        <5>3. Len(x) <= Len(u) /\ \A k \in 1 .. Len(x) : x[k] = u[k]
          BY <3>4, <3>7, <4>1, <5>2
        <5>4. Analysis!IsPrefix(x, u)
          BY <3>6, <4>1, <5>3, PrefixAt
        <5> QED BY <3>6, <4>1, <5>1, <5>4, SeenAre
      <4> QED BY <4>2, <4>3
    <3> QED BY <3>5, <3>6, <3>8
  <2> QED BY <2>2, <2>3
<1> QED BY <1>5, <1>6

\* Two requests that the same rules apply to are decided alike.
LEMMA SameRulesSameDecision ==
  ASSUME NEW rs, NEW q, NEW r, NEW o,
         \A i \in DOMAIN rs : Analysis!Applies(rs[i], q, o) <=> Analysis!Applies(rs[i], r, o)
  PROVE  Analysis!EvaluatePolicies(rs, q, o) = Analysis!EvaluatePolicies(rs, r, o)
<1>1. Analysis!Applicable(rs, q, o) = Analysis!Applicable(rs, r, o)
  BY DEF Analysis!Applicable
<1> QED BY <1>1 DEF Analysis!EvaluatePolicies

\* A condition that compares nothing that the finite set does not vary.
LEMMA ConditionAlike ==
  ASSUME NEW c, c.type = "expression" => c.field \notin {"tool", "agentId", "sideEffect", "approvalToken"},
         NEW q, NEW s, s.risk = q.risk, s.env = q.env, s.token = q.token, NEW o
  PROVE  Analysis!Meets(c, s, o) <=> Analysis!Meets(c, q, o)
<1>1. c.type = "expression" => Analysis!ResolveRequestField(c.field, s) = Analysis!ResolveRequestField(c.field, q)
  BY DEF Analysis!ResolveRequestField
<1> QED BY <1>1, Zenon DEF Analysis!Meets

\* A request that stands for q, with another tool, agent and side effect, and without scopes.
Stands(u, a, e, q) ==
  [tool |-> u, agent |-> a, risk |-> q.risk, effect |-> e, scopes |-> {}, env |-> q.env, token |-> q.token]

\* A rule applies to the one as to the other, but for the side effect.
LEMMA StandsApplies ==
  ASSUME NEW r, r.scopes = <<>>, NEW q, NEW u, NEW a, NEW e, e # "none", NEW o,
         \A k \in DOMAIN r.conds : r.conds[k].type = "expression" =>
           r.conds[k].field \notin {"tool", "agentId", "sideEffect", "approvalToken"},
         r.tools # <<>> => \A p \in r.tools[1] : Analysis!GlobMatch(p, u) <=> Analysis!GlobMatch(p, q.tool),
         r.agents # <<>> => (a \in r.agents[1] <=> q.agent \in r.agents[1])
  PROVE  /\ q.effect = e => (Analysis!Applies(r, Stands(u, a, e, q), o) <=> Analysis!Applies(r, q, o))
         /\ q.effect = "none" =>
              (Analysis!Applies(r, Stands(u, a, e, q), o)
                 <=> Analysis!Applies(r, q, o) /\ (r.effects # <<>> => e \in r.effects[1]))
<1> DEFINE s == Stands(u, a, e, q)
<1>1. /\ s.tool = u /\ s.agent = a /\ s.risk = q.risk /\ s.effect = e /\ s.scopes = {}
      /\ s.env = q.env /\ s.token = q.token
  BY DEF Stands
<1> HIDE DEF s
<1>2. Analysis!MeetsConditions(r.conds, s, o) <=> Analysis!MeetsConditions(r.conds, q, o)
  <2>1. \A k \in DOMAIN r.conds : Analysis!Meets(r.conds[k], s, o) <=> Analysis!Meets(r.conds[k], q, o)
    BY <1>1, ConditionAlike
  <2> QED BY <2>1 DEF Analysis!MeetsConditions
<1>3. (r.tools # <<>> => \E p \in r.tools[1] : Analysis!GlobMatch(p, s.tool))
        <=> (r.tools # <<>> => \E p \in r.tools[1] : Analysis!GlobMatch(p, q.tool))
  BY <1>1
<1>4. /\ q.effect = e => (Analysis!Applies(r, s, o) <=> Analysis!Applies(r, q, o))
      /\ q.effect = "none" =>
           (Analysis!Applies(r, s, o) <=> Analysis!Applies(r, q, o) /\ (r.effects # <<>> => e \in r.effects[1]))
  BY <1>1, <1>2, <1>3 DEF Analysis!Applies, Analysis!MatchesRule, Analysis!None
<1> QED BY <1>4 DEF s

\* A request in an environment that is looked at has one that stands for it.
LEMMA StandIn ==
  ASSUME NEW rs \in Seq(RuleSet), Analysis!Sampled(rs),
         NEW q, q.tool \in Words, q.risk \in Analysis!Risks, q.token \in BOOLEAN,
         q.env \in Analysis!EnvironmentsSeen(rs), NEW e \in {"read", "write", "submit"}
  PROVE  \E s \in Analysis!StateSpace(rs) :
           /\ s.risk = q.risk /\ s.effect = e /\ s.env = q.env /\ s.token = q.token
           /\ \A i \in DOMAIN rs, o \in BOOLEAN :
                /\ q.effect = e => (Analysis!Applies(rs[i], s, o) <=> Analysis!Applies(rs[i], q, o))
                /\ q.effect = "none" =>
                     (Analysis!Applies(rs[i], s, o)
                        <=> Analysis!Applies(rs[i], q, o) /\ (rs[i].effects # <<>> => e \in rs[i].effects[1]))
<1> DEFINE t == q.tool
<1>1. PICK u \in Analysis!ToolsSeen(rs) :
        \A p \in Analysis!Listing(rs, "tools") : Analysis!GlobMatch(p, u) <=> Analysis!GlobMatch(p, t)
  BY ToolHasSample, Zenon
<1> DEFINE a == IF q.agent \in Analysis!AgentsSeen(rs) THEN q.agent ELSE "agent-default"
           s == Stands(u, a, e, q)
<1>2. a \in Analysis!AgentsSeen(rs)
  BY DEF Analysis!AgentsSeen
<1>3. s \in Analysis!StateSpace(rs)
  <2> HIDE DEF a
  <2> QED BY <1>1, <1>2 DEF Stands, Analysis!StateSpace, Analysis!SideEffects
<1>4. s.risk = q.risk /\ s.effect = e /\ s.env = q.env /\ s.token = q.token
  BY DEF Stands
<1>5. ASSUME NEW i \in DOMAIN rs, NEW o \in BOOLEAN
      PROVE  /\ q.effect = e => (Analysis!Applies(rs[i], s, o) <=> Analysis!Applies(rs[i], q, o))
             /\ q.effect = "none" =>
                  (Analysis!Applies(rs[i], s, o)
                     <=> Analysis!Applies(rs[i], q, o) /\ (rs[i].effects # <<>> => e \in rs[i].effects[1]))
  <2> DEFINE r == rs[i]
  <2>1. r.scopes = <<>>
    BY DEF Analysis!Sampled
  <2>2. \A k \in DOMAIN r.conds : r.conds[k].type = "expression" =>
          r.conds[k].field \notin {"tool", "agentId", "sideEffect", "approvalToken"}
    <3>1. \A k \in DOMAIN r.conds : r.conds[k] \in Analysis!ConditionsOf(rs)
      BY DEF Analysis!ConditionsOf, Analysis!ToSet
    <3> QED BY <3>1 DEF Analysis!Sampled, Analysis!NotVaried
  <2>3. r.tools # <<>> => \A p \in r.tools[1] : p \in Analysis!Listing(rs, "tools")
    BY DEF Analysis!Listing
  <2>4. r.agents # <<>> => \A x \in r.agents[1] : x \in Analysis!Listing(rs, "agents")
    BY DEF Analysis!Listing
  <2>5. r.agents # <<>> => (a \in r.agents[1] <=> q.agent \in r.agents[1])
    <3>1. CASE q.agent \in Analysis!AgentsSeen(rs)
      BY <3>1
    <3>2. CASE q.agent \notin Analysis!AgentsSeen(rs)
      <4>1. a = "agent-default" /\ q.agent \notin Analysis!Listing(rs, "agents")
        BY <3>2 DEF Analysis!AgentsSeen
      <4>2. "agent-default" \notin Analysis!Listing(rs, "agents")
        BY DEF Analysis!Sampled
      <4> HIDE DEF a, r
      <4> QED BY <2>4, <4>1, <4>2
    <3> QED BY <3>1, <3>2
  <2>6. r.tools # <<>> => \A p \in r.tools[1] : Analysis!GlobMatch(p, u) <=> Analysis!GlobMatch(p, q.tool)
    BY <1>1, <2>3
  <2>7. e # "none"
    OBVIOUS
  <2> HIDE DEF r, a
  <2>8. /\ q.effect = e => (Analysis!Applies(r, s, o) <=> Analysis!Applies(r, q, o))
        /\ q.effect = "none" =>
             (Analysis!Applies(r, s, o)
                <=> Analysis!Applies(r, q, o) /\ (r.effects # <<>> => e \in r.effects[1]))
    BY <2>1, <2>2, <2>5, <2>6, <2>7, StandsApplies
  <2> QED BY <2>8 DEF r
<1> HIDE DEF s
<1> QED BY <1>3, <1>4, <1>5

\* Of the rules that apply the first one decides.
LEMMA DecidedBy ==
  ASSUME NEW rs \in Seq(RuleSet), NEW q, NEW o, Analysis!Applicable(rs, q, o) # {}
  PROVE  /\ Analysis!Applicable(rs, q, o) \subseteq DOMAIN rs
         /\ Analysis!EvaluatePolicies(rs, q, o).by \in Analysis!Applicable(rs, q, o)
         /\ \A j \in Analysis!Applicable(rs, q, o) : j # Analysis!EvaluatePolicies(rs, q, o).by =>
              Analysis!Before(rs, Analysis!EvaluatePolicies(rs, q, o).by, j)
         /\ Analysis!EvaluatePolicies(rs, q, o).effect = rs[Analysis!EvaluatePolicies(rs, q, o).by].effect
         /\ Analysis!EvaluatePolicies(rs, q, o).approval = rs[Analysis!EvaluatePolicies(rs, q, o).by].approval
BY EvaluatedIs, Zenon

\* What is safe on the finite set of requests is safe.
LEMMA SafeOnSamples ==
  ASSUME rules \in Seq(RuleSet), Analysis!Sampled(rules), Analysis!NoEmptyEffects,
         NEW o \in BOOLEAN, Analysis!Verified(rules, o),
         NEW q, q.tool \in Words, q.risk \in Analysis!Risks, q.env \in Analysis!EnvironmentsSeen(rules),
         q.effect \in {"read", "write", "submit", "none"}, q.token \in BOOLEAN
  PROVE  ~Analysis!Violates(q, Analysis!EvaluatePolicies(rules, q, o))
<1> DEFINE d == Analysis!EvaluatePolicies(rules, q, o)
           A == Analysis!Applicable(rules, q, o)
           i == d.by
<1> SUFFICES ASSUME Analysis!Violates(q, d) PROVE FALSE
  OBVIOUS
<1>1. /\ d.effect = "allow" /\ ~d.approval /\ ~q.token
      /\ \/ q.risk = "critical"
         \/ q.effect = "submit"
         \/ q.env = "production" /\ q.effect = "write" /\ q.risk \in {"high", "critical"}
  BY DEF Analysis!Violates, Analysis!Unconditional
<1>2. /\ A \subseteq DOMAIN rules /\ i \in A /\ \A j \in A : j # i => Analysis!Before(rules, i, j)
      /\ d.effect = rules[i].effect /\ d.approval = rules[i].approval
  <2>1. A # {}
    BY <1>1, EvaluatedIs
  <2> HIDE DEF d, A
  <2> QED BY <2>1, DecidedBy, Zenon DEF d, A
<1>3. \A j \in DOMAIN rules : IsListed(rules[j]) /\ rules[j].effects # <<{}>>
  BY RulesListed DEF Analysis!NoEmptyEffects
<1>4. PICK e \in {"read", "write", "submit"} :
        (q.effect # "none" => e = q.effect) /\ (rules[i].effects # <<>> /\ q.effect = "none" => e \in rules[i].effects[1])
  <2>1. q.effect \in {"read", "write", "submit", "none"}
    OBVIOUS
  <2>2. rules[i].effects # <<>> => rules[i].effects[1] # {} /\ rules[i].effects[1] \subseteq {"read", "write", "submit"}
    <3>1. i \in DOMAIN rules
      BY <1>2
    <3> QED BY <1>3, <3>1 DEF IsListed, Analysis!Optional
  <2> HIDE DEF i
  <2>3. CASE q.effect # "none"
    BY <2>1, <2>3
  <2>4. CASE q.effect = "none"
    BY <2>2, <2>4
  <2> QED BY <2>3, <2>4
<1>5. PICK s \in Analysis!StateSpace(rules) :
        /\ s.risk = q.risk /\ s.effect = e /\ s.env = q.env /\ s.token = q.token
        /\ \A j \in DOMAIN rules, h \in BOOLEAN :
             /\ q.effect = e => (Analysis!Applies(rules[j], s, h) <=> Analysis!Applies(rules[j], q, h))
             /\ q.effect = "none" =>
                  (Analysis!Applies(rules[j], s, h)
                     <=> Analysis!Applies(rules[j], q, h) /\ (rules[j].effects # <<>> => e \in rules[j].effects[1]))
  BY StandIn
<1> DEFINE f == Analysis!EvaluatePolicies(rules, s, o)
           B == Analysis!Applicable(rules, s, o)
<1>8. B \subseteq A /\ i \in B
  <2>1. A = {j \in DOMAIN rules : Analysis!Applies(rules[j], q, o)} /\ B = {j \in DOMAIN rules : Analysis!Applies(rules[j], s, o)}
    BY DEF Analysis!Applicable
  <2>2. q.effect = e \/ q.effect = "none"
    BY <1>4
  <2> HIDE DEF A, B, i
  <2> QED BY <1>2, <1>4, <1>5, <2>1, <2>2
<1>9. f.by \in B /\ f.effect = rules[f.by].effect /\ f.approval = rules[f.by].approval
        /\ \A j \in B : j # f.by => Analysis!Before(rules, f.by, j)
  <2>1. B # {}
    BY <1>8
  <2> HIDE DEF f, B
  <2> QED BY <2>1, DecidedBy, Zenon DEF f, B
<1>10. f.by = i
  <2> SUFFICES ASSUME f.by # i PROVE FALSE
    OBVIOUS
  <2>1. Analysis!Before(rules, i, f.by) /\ Analysis!Before(rules, f.by, i)
    BY <1>2, <1>8, <1>9
  <2>2. i \in Nat /\ f.by \in Nat /\ rules[i].priority \in Nat /\ rules[f.by].priority \in Nat
    <3>1. i \in DOMAIN rules /\ f.by \in DOMAIN rules
      BY <1>2, <1>8, <1>9
    <3> QED BY <1>3, <3>1 DEF IsListed
  <2> HIDE DEF f, i
  <2> QED BY <2>1, <2>2 DEF Analysis!Before
<1>11. f.effect = "allow" /\ ~f.approval
  BY <1>1, <1>2, <1>9, <1>10
<1>12. Analysis!Violates(s, f)
  <2> HIDE DEF f
  <2> QED BY <1>1, <1>4, <1>5, <1>11 DEF Analysis!Violates, Analysis!Unconditional
<1> QED BY <1>5, <1>12 DEF Analysis!Verified

\* The requests of the red-team suite.
LEMMA VectorsAre ==
  \A q \in Analysis!Vectors :
    /\ q.tool \in Words /\ q.env = "production" /\ q.token = FALSE /\ q.effect \in {"write", "submit"}
    /\ q.risk = "critical" \/ (q.effect = "write" /\ q.risk = "high")
<1> DEFINE a == "drop_"
           b == "production_database"
           c == "submit_"
           d == "wire_transfer"
           e == "write_"
           f == "cluster_config"
           g == "__shadow_debug_shell"
<1>1. a \in Word /\ b \in Word /\ c \in Word /\ d \in Word /\ e \in Word /\ f \in Word /\ g \in Word
  BY DEF Word
<1> SUFFICES ASSUME NEW q \in Analysis!Vectors
             PROVE  /\ q.tool \in Words /\ q.env = "production" /\ q.token = FALSE /\ q.effect \in {"write", "submit"}
                    /\ q.risk = "critical" \/ (q.effect = "write" /\ q.risk = "high")
  OBVIOUS
<1>2. /\ q.tool \in {<<a, b>>, <<c, d>>, <<e, f>>, <<g>>} /\ q.env = "production" /\ q.token = FALSE
      /\ q.effect \in {"write", "submit"} /\ (q.risk = "critical" \/ (q.effect = "write" /\ q.risk = "high"))
  BY DEF Analysis!Vectors, Analysis!Vector
<1> HIDE DEF a, b, c, d, e, f, g
<1>3. <<a, b>> \in Words /\ <<c, d>> \in Words /\ <<e, f>> \in Words /\ <<g>> \in Words
  BY <1>1, MadeOfWords
<1> QED BY <1>2, <1>3

LEMMA VerifiedMeansSafe ==
  ASSUME rules \in Seq(RuleSet), hour \in BOOLEAN
  PROVE  Analysis!VerifiedIsSafe
<1> SUFFICES ASSUME Analysis!Sampled(rules), Analysis!NoEmptyEffects, Analysis!Verified(rules, hour)
             PROVE  /\ \A q \in RuleRequests : q.env \in Analysis!EnvironmentsSeen(rules) =>
                         ~Analysis!Violates(q, Analysis!EvaluatePolicies(rules, q, hour))
                    /\ Analysis!Breached(rules, hour) = {}
  BY DEF Analysis!VerifiedIsSafe
<1>1. ASSUME NEW q \in RuleRequests, q.env \in Analysis!EnvironmentsSeen(rules)
      PROVE  ~Analysis!Violates(q, Analysis!EvaluatePolicies(rules, q, hour))
  <2>1. q \in Analysis!RequestSet /\ q.risk \in Analysis!Risks
    BY MCAssumption DEF Analysis!RulesAssumption
  <2>2. q.tool \in Words /\ q.token \in BOOLEAN /\ q.effect \in {"read", "write", "submit", "none"}
    BY <2>1, WordsAre DEF Analysis!RequestSet, Analysis!Text, Analysis!SideEffects, Analysis!None
  <2> QED BY <1>1, <2>1, <2>2, SafeOnSamples
<1>2. ASSUME NEW q \in Analysis!Vectors
      PROVE  ~Analysis!Unconditional(Analysis!EvaluatePolicies(rules, q, hour))
  <2>1. /\ q.tool \in Words /\ q.env = "production" /\ q.token = FALSE /\ q.effect \in {"write", "submit"}
        /\ q.risk = "critical" \/ (q.effect = "write" /\ q.risk = "high")
    BY VectorsAre
  <2>2. q.env \in Analysis!EnvironmentsSeen(rules)
    BY <2>1 DEF Analysis!EnvironmentsSeen, Analysis!None
  <2>3. q.risk \in Analysis!Risks
    BY <2>1 DEF Analysis!Risks
  <2>4. ~Analysis!Violates(q, Analysis!EvaluatePolicies(rules, q, hour))
    BY <2>1, <2>2, <2>3, SafeOnSamples
  <2> QED BY <2>1, <2>4 DEF Analysis!Violates
<1> QED BY <1>1, <1>2 DEF Analysis!Breached

\* What is proved equivalent decides alike.
LEMMA EquivalentMeansAlike ==
  ASSUME rules \in Seq(RuleSet), hour \in BOOLEAN
  PROVE  Analysis!EquivalentDecideAlike
<1> SUFFICES ASSUME NEW i \in DOMAIN rules, Analysis!Sampled(rules),
                    Analysis!Equivalent(rules, Analysis!RemoveAt(rules, i), hour),
                    NEW q \in RuleRequests, q.env \in Analysis!EnvironmentsSeen(rules), q.effect # "none"
             PROVE  Analysis!Alike(Analysis!EvaluatePolicies(rules, q, hour),
                                   Analysis!EvaluatePolicies(Analysis!RemoveAt(rules, i), q, hour))
  BY DEF Analysis!EquivalentDecideAlike, Analysis!None
<1> DEFINE rest == Analysis!RemoveAt(rules, i)
           both == rules \o rest
           X == {rules[j] : j \in DOMAIN rules}
<1>1. rules \in Seq(X) /\ X \subseteq RuleSet /\ i \in 1 .. Len(rules)
  <2>1. rules \in [1 .. Len(rules) -> X] /\ Len(rules) \in Nat /\ X \subseteq RuleSet
    OBVIOUS
  <2> HIDE DEF X
  <2> QED BY <2>1
<1>2. \A r \in X : \E j \in DOMAIN rules : r = rules[j]
  OBVIOUS
<1>3. rest = SubSeq(rules, 1, i - 1) \o SubSeq(rules, i + 1, Len(rules))
  BY DEF Analysis!RemoveAt
<1> HIDE DEF X, rest
<1>4. rest \in Seq(X)
  <2>1. SubSeq(rules, 1, i - 1) \in Seq(X) /\ SubSeq(rules, i + 1, Len(rules)) \in Seq(X)
    BY <1>1
  <2> QED BY <1>3, <2>1
<1>5. \A j \in DOMAIN rules : j \in DOMAIN both /\ both[j] = rules[j]
  <2>1. both \in Seq(X)
    BY <1>1, <1>4
  <2>2. Len(both) = Len(rules) + Len(rest) /\ Len(rules) \in Nat /\ Len(rest) \in Nat
    BY <1>1, <1>4
  <2>3. \A j \in 1 .. Len(rules) : both[j] = rules[j]
    BY <1>1, <1>4
  <2>4. DOMAIN rules = 1 .. Len(rules) /\ DOMAIN both = 1 .. Len(both)
    BY <1>1, <2>1
  <2> HIDE DEF both
  <2> QED BY <2>2, <2>3, <2>4
<1>6. /\ q.risk \in Analysis!Risks /\ q.tool \in Words /\ q.token \in BOOLEAN
      /\ q.effect \in {"read", "write", "submit"}
  <2>1. q \in Analysis!RequestSet /\ q.risk \in Analysis!Risks
    BY MCAssumption DEF Analysis!RulesAssumption
  <2>2. q.tool \in Words /\ q.token \in BOOLEAN /\ q.effect \in {"read", "write", "submit", "none"}
    BY <2>1, WordsAre DEF Analysis!RequestSet, Analysis!Text, Analysis!SideEffects, Analysis!None
  <2> QED BY <2>1, <2>2
<1> HIDE DEF both
<1>7. PICK s \in Analysis!StateSpace(rules) :
        \A j \in DOMAIN rules : Analysis!Applies(rules[j], s, hour) <=> Analysis!Applies(rules[j], q, hour)
  <2> DEFINE e == q.effect
  <2>1. \E s \in Analysis!StateSpace(rules) :
          \A j \in DOMAIN rules, o \in BOOLEAN : Analysis!Applies(rules[j], s, o) <=> Analysis!Applies(rules[j], q, o)
    <3>1. e \in {"read", "write", "submit"} /\ q.effect = e
      BY <1>6
    <3> HIDE DEF e
    <3>2. PICK s \in Analysis!StateSpace(rules) :
            \A j \in DOMAIN rules, o \in BOOLEAN :
              q.effect = e => (Analysis!Applies(rules[j], s, o) <=> Analysis!Applies(rules[j], q, o))
      BY <1>6, <3>1, StandIn
    <3> QED BY <3>1, <3>2
  <2> QED BY <2>1
<1>8. s \in Analysis!StateSpace(both)
  <2>1. \A field : Analysis!Listing(rules, field) \subseteq Analysis!Listing(both, field)
    <3> SUFFICES ASSUME NEW field, NEW x \in Analysis!Listing(rules, field) PROVE x \in Analysis!Listing(both, field)
      OBVIOUS
    <3>1. PICK j \in DOMAIN rules : rules[j][field] # <<>> /\ x \in rules[j][field][1]
      BY DEF Analysis!Listing
    <3> QED BY <1>5, <3>1 DEF Analysis!Listing
  <2>2. Analysis!ConditionsOf(rules) \subseteq Analysis!ConditionsOf(both)
    BY <1>5, Zenon DEF Analysis!ConditionsOf
  <2>3. Analysis!ToolsSeen(rules) \subseteq Analysis!ToolsSeen(both)
    BY <2>1, Zenon DEF Analysis!ToolsSeen
  <2>4. Analysis!AgentsSeen(rules) \subseteq Analysis!AgentsSeen(both)
    BY <2>1, Zenon DEF Analysis!AgentsSeen
  <2>5. Analysis!EnvironmentsSeen(rules) \subseteq Analysis!EnvironmentsSeen(both)
    BY <2>2, Zenon DEF Analysis!EnvironmentsSeen
  <2> QED BY <2>3, <2>4, <2>5 DEF Analysis!StateSpace
<1>10. Analysis!EvaluatePolicies(rules, s, hour) = Analysis!EvaluatePolicies(rules, q, hour)
  BY <1>7, SameRulesSameDecision
<1>11. Analysis!EvaluatePolicies(rest, s, hour) = Analysis!EvaluatePolicies(rest, q, hour)
  <2>1. ASSUME NEW j \in DOMAIN rest PROVE Analysis!Applies(rest[j], s, hour) <=> Analysis!Applies(rest[j], q, hour)
    <3>1. rest[j] \in X
      BY <1>4
    <3>2. PICK k \in DOMAIN rules : rest[j] = rules[k]
      BY <1>2, <3>1
    <3> QED BY <1>7, <3>2
  <2> QED BY <2>1, SameRulesSameDecision
<1>12. Analysis!Alike(Analysis!EvaluatePolicies(rules, s, hour), Analysis!EvaluatePolicies(rest, s, hour))
  BY <1>8 DEF Analysis!Equivalent, both, rest
<1> QED BY <1>10, <1>11, <1>12 DEF rest

\* A set of rules grows out of the rules there are.
RulesInv == rules \in Seq(RuleSet) /\ hour \in BOOLEAN

\* What the linter, the verifier and the hash say of a set of rules is true of the engine
\* for every request (linter.ts, formal-verifier.ts, zk-policy-proof.ts, engine.ts).
THEOREM AnalysedRight == MCSpec => []AnalysisIsRight
<1>1. MCInit => RulesInv
  BY DEF MCInit, Analysis!Init, RulesInv
<1>2. RulesInv /\ [MCNext]_mcVars => RulesInv'
  <2> SUFFICES ASSUME RulesInv, [MCNext]_mcVars PROVE RulesInv'
    OBVIOUS
  <2>1. CASE Analysis!AddRule
    BY <2>1 DEF Analysis!AddRule, RulesInv
  <2>2. CASE UNCHANGED rulesVars
    BY <2>2 DEF rulesVars, RulesInv
  <2> QED BY <2>1, <2>2, PerimeterSteps
<1>3. RulesInv => AnalysisIsRight
  <2> SUFFICES ASSUME RulesInv PROVE AnalysisIsRight
    OBVIOUS
  <2>1. Analysis!TypeOK
    BY DEF RulesInv, Analysis!TypeOK
  <2>2. RuleRequests \subseteq Analysis!RequestSet
    BY MCAssumption DEF Analysis!RulesAssumption
  <2> QED BY <2>1, <2>2, ShadowsHide, VerifiedMeansSafe, EquivalentMeansAlike, OrderOfOnePriority, ContradictionsClash
          DEF RulesInv, AnalysisIsRight
<1> QED BY <1>1, <1>2, <1>3, PTL DEF MCSpec

-----------------------------------------------------------------------------
(* The SQLite store *)

\* A row that a consuming call may still find was not expired when the call
\* swept, and the call knows a token that was handed out.
Knows(p) ==
  LET t == call[p].tok IN
    /\ At(p, "consumeSelect") =>
         Handed(t) /\ (status[t] # "absent" => call[p].now <= expiresAt[t])
    /\ At(p, "consumeUpdate") => Handed(t) /\ call[p].now <= expiresAt[t]
    /\ (At(p, "approveUpdate") \/ At(p, "revokeUpdate")) => Handed(t)

InWindow == \A p \in Processes : Knows(p)

IInv == TypeOK /\ InWindow

LEMMA InitIInv == Init => IInv
<1> SUFFICES ASSUME Init PROVE IInv
  OBVIOUS
<1>1. TypeOK
  BY ConstantsAssumption DEF Init, TypeOK, Calls, Handed, Unborn, Idle
<1>2. InWindow
  BY DEF Init, InWindow, Knows, At, Idle
<1> QED BY <1>1, <1>2 DEF IInv

LEMMA StepTypeOK == TypeOK /\ [Next]_vars => TypeOK'
<1> SUFFICES ASSUME TypeOK, [Next]_vars PROVE TypeOK'
  OBVIOUS
<1> USE ConstantsAssumption
<1>0. CASE UNCHANGED vars
  BY <1>0 DEF vars, TypeOK, Handed
<1>1. CASE Tick
  BY <1>1 DEF Tick, TypeOK, Handed, Calls
<1>2. ASSUME NEW p \in Processes,
             \/ GetPendingApprovals(p) \/ \E t \in Tokens : ConsumeSweep(p, t)
      PROVE  TypeOK'
  <2>1. status' \in [Tokens -> Statuses \cup {"absent"}]
    BY <1>2 DEF GetPendingApprovals, ConsumeSweep, Sweep, TypeOK
  <2>2. call' \in [Processes -> Calls]
    BY <1>2 DEF GetPendingApprovals, ConsumeSweep, Go, Calls, TypeOK
  <2>3. expiresAt' = expiresAt /\ clock' = clock /\ uses' = uses
    BY <1>2 DEF GetPendingApprovals, ConsumeSweep
  <2>4. \A t \in Tokens : ~Handed(t) => status'[t] = "absent"
    BY <1>2 DEF GetPendingApprovals, ConsumeSweep, Sweep, TypeOK
  <2> QED BY <2>1, <2>2, <2>3, <2>4 DEF TypeOK, Handed
<1>3. ASSUME NEW p \in Processes, NEW t \in Tokens, GenerateToken(p, t)
      PROVE  TypeOK'
  BY <1>3 DEF GenerateToken, TypeOK, Statuses, Handed, Unborn
<1>4. ASSUME NEW p \in Processes,
             \/ ConsumeSelect(p) \/ Crash(p)
             \/ \E t \in Tokens : ApproveSelect(p, t) \/ RevokeSelect(p, t)
      PROVE  TypeOK'
  <2>1. call' \in [Processes -> Calls]
    <3>1. CASE ConsumeSelect(p) \/ Crash(p)
      <4>1. call[p] \in Calls
        BY DEF TypeOK
      <4> QED BY <3>1, <4>1 DEF ConsumeSelect, Crash, Go, At, Free, Calls, Idle, TypeOK
    <3>2. CASE \E t \in Tokens : ApproveSelect(p, t) \/ RevokeSelect(p, t)
      BY <3>2 DEF ApproveSelect, RevokeSelect, Go, Calls, TypeOK
    <3> QED BY <1>4, <3>1, <3>2
  <2>2. UNCHANGED <<status, expiresAt, clock, uses>>
    BY <1>4 DEF ConsumeSelect, Crash, ApproveSelect, RevokeSelect
  <2> QED BY <2>1, <2>2 DEF TypeOK, Handed
<1>5. ASSUME NEW p \in Processes, ConsumeUpdate(p) \/ ApproveUpdate(p) \/ RevokeUpdate(p)
      PROVE  TypeOK'
  <2>1. call[p].tok \in Tokens
    BY <1>5 DEF ConsumeUpdate, ApproveUpdate, RevokeUpdate, At, TypeOK, Calls, Idle
  <2>2. \E to \in Statuses : Update(call[p].tok, to)
    BY <1>5 DEF ConsumeUpdate, ApproveUpdate, RevokeUpdate, Statuses
  <2>3. /\ status' \in [Tokens -> Statuses \cup {"absent"}]
        /\ \A t \in Tokens : status[t] = "absent" => status'[t] = "absent"
    BY <2>1, <2>2 DEF Update, TypeOK
  <2>4. uses' \in [Tokens -> Nat]
    BY <1>5, <2>1 DEF ConsumeUpdate, ApproveUpdate, RevokeUpdate, TypeOK
  <2>5. call' \in [Processes -> Calls]
    BY <1>5 DEF ConsumeUpdate, ApproveUpdate, RevokeUpdate, Go, Calls, TypeOK
  <2>6. UNCHANGED <<expiresAt, clock>>
    BY <1>5 DEF ConsumeUpdate, ApproveUpdate, RevokeUpdate
  <2> QED BY <2>3, <2>4, <2>5, <2>6 DEF TypeOK, Handed
<1> QED
  BY <1>0, <1>1, <1>2, <1>3, <1>4, <1>5, Zenon DEF Next

\* A row that is not there stays away, and an expiry once set stands.
LEMMA RowsStay ==
  ASSUME TypeOK, [Next]_vars, NEW t \in Tokens, Handed(t)
  PROVE  expiresAt'[t] = expiresAt[t] /\ (status[t] = "absent" => status'[t] = "absent")
<1>1. CASE UNCHANGED vars \/ Tick
  BY <1>1 DEF vars, Tick
<1>2. ASSUME NEW p \in Processes, NEW u \in Tokens, GenerateToken(p, u)
      PROVE  expiresAt'[t] = expiresAt[t] /\ status'[t] = status[t]
  BY <1>2 DEF GenerateToken, TypeOK
<1>3. ASSUME NEW p \in Processes,
             \/ GetPendingApprovals(p) \/ \E u \in Tokens : ConsumeSweep(p, u)
      PROVE  expiresAt' = expiresAt /\ (status[t] = "absent" => status'[t] = "absent")
  BY <1>3 DEF GetPendingApprovals, ConsumeSweep, Sweep
<1>4. ASSUME NEW p \in Processes,
             \/ ConsumeSelect(p) \/ Crash(p)
             \/ \E u \in Tokens : ApproveSelect(p, u) \/ RevokeSelect(p, u)
      PROVE  UNCHANGED <<status, expiresAt>>
  BY <1>4 DEF ConsumeSelect, Crash, ApproveSelect, RevokeSelect
<1>5. ASSUME NEW p \in Processes, ConsumeUpdate(p) \/ ApproveUpdate(p) \/ RevokeUpdate(p)
      PROVE  expiresAt' = expiresAt /\ (status[t] = "absent" => status'[t] = "absent")
  BY <1>5 DEF ConsumeUpdate, ApproveUpdate, RevokeUpdate, Update, TypeOK
<1> QED
  BY <1>1, <1>2, <1>3, <1>4, <1>5, Zenon DEF Next

\* What a call that does not move knows stays true, because expiries stand and
\* absent rows stay absent.
LEMMA StillInWindow ==
  ASSUME TypeOK, InWindow, [Next]_vars, NEW q \in Processes, call'[q] = call[q]
  PROVE  Knows(q)'
<1> DEFINE t == call[q].tok
<1>1. CASE call[q].next \in {"consumeSelect", "consumeUpdate", "approveUpdate", "revokeUpdate"}
  <2>1. t \in Tokens /\ Handed(t)
    BY <1>1 DEF TypeOK, InWindow, Knows, At, Calls, Idle
  <2>2. expiresAt'[t] = expiresAt[t] /\ (status[t] = "absent" => status'[t] = "absent")
    BY <2>1, RowsStay
  <2>3. Handed(t)'
    BY <2>1, <2>2 DEF Handed
  <2> QED BY <2>2, <2>3 DEF InWindow, Knows, At
<1>2. CASE call[q].next \notin {"consumeSelect", "consumeUpdate", "approveUpdate", "revokeUpdate"}
  BY <1>2 DEF At, Knows
<1> QED BY <1>1, <1>2

LEMMA StepInWindow == IInv /\ [Next]_vars => InWindow'
<1> SUFFICES ASSUME IInv, [Next]_vars, NEW q \in Processes, call'[q] # call[q]
             PROVE  Knows(q)'
  BY StillInWindow DEF InWindow, IInv
<1> USE ConstantsAssumption DEF IInv
<1>1. CASE \E t \in Tokens : ConsumeSweep(q, t)
  <2>1. PICK t \in Tokens : ConsumeSweep(q, t)
    BY <1>1
  <2>2. call'[q] = [next |-> "consumeSelect", tok |-> t, now |-> clock]
    BY <2>1 DEF ConsumeSweep, Go, TypeOK
  <2>3. Handed(t)' /\ (status'[t] # "absent" => clock <= expiresAt'[t])
    BY <2>1 DEF ConsumeSweep, Sweep, Handed, TypeOK, Unborn
  <2> QED BY <2>2, <2>3 DEF At, Knows
<1>2. CASE \E t \in Tokens : ApproveSelect(q, t) \/ RevokeSelect(q, t)
  <2>1. PICK t \in Tokens : ApproveSelect(q, t) \/ RevokeSelect(q, t)
    BY <1>2
  <2>2. call'[q].next \in {"approveUpdate", "revokeUpdate"} /\ call'[q].tok = t
    BY <2>1 DEF ApproveSelect, RevokeSelect, Go, TypeOK
  <2>3. Handed(t)'
    BY <2>1 DEF ApproveSelect, RevokeSelect, TypeOK, Handed
  <2> QED BY <2>2, <2>3 DEF At, Knows
<1>3. CASE ConsumeSelect(q) /\ call'[q] # Idle
  <2>1. /\ call[q].tok \in Tokens /\ status[call[q].tok] = "APPROVED"
        /\ call'[q] = [call[q] EXCEPT !.next = "consumeUpdate"]
    BY <1>3 DEF ConsumeSelect, Go, At, TypeOK, Calls, Idle
  <2>2. call'[q].next = "consumeUpdate" /\ call'[q].tok = call[q].tok /\ call'[q].now = call[q].now
    BY <1>3, <2>1 DEF ConsumeSelect, At, TypeOK, Calls, Idle
  <2>3. Handed(call[q].tok) /\ call[q].now <= expiresAt[call[q].tok]
    BY <1>3, <2>1 DEF ConsumeSelect, InWindow, Knows
  <2> QED BY <1>3, <2>2, <2>3 DEF ConsumeSelect, At, Handed, Knows
<1>4. CASE call'[q] = Idle
  BY <1>4 DEF At, Idle, Knows
<1>5. \/ \E t \in Tokens : ConsumeSweep(q, t) \/ ApproveSelect(q, t) \/ RevokeSelect(q, t)
      \/ ConsumeSelect(q)
      \/ call'[q] = Idle
  <2>1. CASE UNCHANGED vars \/ Tick
    BY <2>1 DEF vars, Tick
  <2>2. ASSUME NEW p \in Processes, \E t \in Tokens : GenerateToken(p, t) \/ GetPendingApprovals(p)
        PROVE  FALSE
    BY <2>2 DEF GenerateToken, GetPendingApprovals
  <2>3. ASSUME NEW p \in Processes, NEW c, Go(p, c)
        PROVE  p = q /\ call'[q] = c
    BY <2>3 DEF Go, TypeOK
  <2>4. ASSUME NEW p \in Processes,
               ConsumeUpdate(p) \/ ApproveUpdate(p) \/ RevokeUpdate(p) \/ Crash(p)
        PROVE  call'[q] = Idle
    BY <2>3, <2>4 DEF ConsumeUpdate, ApproveUpdate, RevokeUpdate, Crash
  <2>5. ASSUME NEW p \in Processes,
               \/ ConsumeSelect(p)
               \/ \E t \in Tokens : ConsumeSweep(p, t) \/ ApproveSelect(p, t) \/ RevokeSelect(p, t)
        PROVE  p = q
    BY <2>3, <2>5 DEF ConsumeSelect, ConsumeSweep, ApproveSelect, RevokeSelect
  <2> QED BY <2>1, <2>2, <2>4, <2>5 DEF Next, GetPendingApprovals
<1> QED BY <1>1, <1>2, <1>3, <1>4, <1>5

LEMMA Invariance == Spec => []IInv
<1>1. IInv /\ [Next]_vars => IInv'
  BY StepTypeOK, StepInWindow DEF IInv
<1> QED BY InitIInv, <1>1, PTL DEF Spec

\* Rows, clocks and calls keep their types, and no row precedes its token.
THEOREM TypeCorrect == Spec => []TypeOK
<1>1. IInv => TypeOK
  BY DEF IInv
<1> QED BY <1>1, Invariance, PTL

\* A deleted row never comes back, whatever calls that read it are under way.
THEOREM SweptAlwaysStays == Spec => SweptStaysSwept
<1> DEFINE A == \A t \in Tokens : Handed(t) /\ status[t] = "absent" => status'[t] = "absent"
<1>1. IInv /\ [Next]_vars => [A]_vars
  BY RowsStay DEF IInv
<1> HIDE DEF A
<1>2. Spec => [][A]_vars
  BY <1>1, Invariance, PTL DEF Spec
<1> QED BY <1>2 DEF A, SweptStaysSwept

\* A token is honoured only by a call that began in its window, however the
\* statements of any number of processes interleave.
THEOREM AlwaysHonouredInWindow == Spec => HonouredInWindow
<1> DEFINE A == \A p \in Processes, t \in Tokens :
       (At(p, "consumeUpdate") /\ call[p].tok = t /\ uses'[t] > uses[t] /\ call'[p] = Idle)
         => call[p].now <= expiresAt[t]
<1>1. IInv /\ [Next]_vars => [A]_vars
  BY DEF IInv, InWindow, Knows
<1> HIDE DEF A
<1>2. Spec => [][A]_vars
  BY <1>1, Invariance, PTL DEF Spec
<1> QED BY <1>2 DEF A, HonouredInWindow

-----------------------------------------------------------------------------
(* One process *)

\* The file is opened by one server process.
Single == \A p, q \in Processes : p = q

\* The row that a call is about to update is still as its SELECT found it.
AsRead(p) ==
  /\ At(p, "consumeUpdate") => status[call[p].tok] = "APPROVED"
  /\ (At(p, "approveUpdate") \/ At(p, "revokeUpdate")) => status[call[p].tok] = "PENDING"

RowsAsRead == \A p \in Processes : AsRead(p)

LEMMA StepAsRead == Single /\ IInv /\ RowsAsRead /\ [Next]_vars => RowsAsRead'
<1> SUFFICES ASSUME Single, IInv, RowsAsRead, [Next]_vars, NEW q \in Processes
             PROVE  AsRead(q)'
  BY DEF RowsAsRead
<1>1. CASE UNCHANGED <<status, call>>
  BY <1>1 DEF RowsAsRead, AsRead, At
<1>2. ASSUME NEW t \in Tokens, ApproveSelect(q, t) \/ RevokeSelect(q, t)
      PROVE  AsRead(q)'
  <2>1. call'[q] \in [next : {"approveUpdate", "revokeUpdate"}, tok : {t}, now : {clock}]
    BY <1>2 DEF ApproveSelect, RevokeSelect, Go, IInv, TypeOK
  <2>2. status'[t] = "PENDING"
    BY <1>2 DEF ApproveSelect, RevokeSelect
  <2> QED BY <2>1, <2>2 DEF AsRead, At
<1>3. ASSUME NEW t \in Tokens, ConsumeSweep(q, t)
      PROVE  AsRead(q)'
  <2>1. call'[q].next = "consumeSelect"
    BY <1>3 DEF ConsumeSweep, Go, IInv, TypeOK
  <2> QED BY <2>1 DEF AsRead, At
<1>4. CASE ConsumeSelect(q)
  <2>1. CASE status[call[q].tok] = "APPROVED"
    <3>1. call'[q] = [call[q] EXCEPT !.next = "consumeUpdate"] /\ status' = status
      BY <1>4, <2>1 DEF ConsumeSelect, Go, IInv, TypeOK
    <3>2. call[q] \in Calls /\ call[q].next = "consumeSelect"
      BY <1>4 DEF ConsumeSelect, At, IInv, TypeOK
    <3>3. call'[q].next = "consumeUpdate" /\ call'[q].tok = call[q].tok
      BY <3>1, <3>2 DEF Calls, Idle
    <3> QED BY <2>1, <3>1, <3>3 DEF AsRead, At
  <2>2. CASE status[call[q].tok] # "APPROVED"
    <3>1. call'[q] = Idle
      BY <1>4, <2>2 DEF ConsumeSelect, Go, IInv, TypeOK
    <3> QED BY <3>1 DEF AsRead, At, Idle
  <2> QED BY <2>1, <2>2
<1>5. CASE ConsumeUpdate(q) \/ ApproveUpdate(q) \/ RevokeUpdate(q) \/ Crash(q)
  <2>1. call'[q] = Idle
    BY <1>5 DEF ConsumeUpdate, ApproveUpdate, RevokeUpdate, Crash, Go, IInv, TypeOK
  <2> QED BY <2>1 DEF AsRead, At, Idle
<1>6. ASSUME NEW t \in Tokens, GenerateToken(q, t)
      PROVE  AsRead(q)'
  <2>1. call'[q] = Idle
    BY <1>6 DEF GenerateToken, Free
  <2> QED BY <2>1 DEF AsRead, At, Idle
<1>7. CASE GetPendingApprovals(q)
  <2>1. call'[q] = Idle
    BY <1>7 DEF GetPendingApprovals, Free
  <2> QED BY <2>1 DEF AsRead, At, Idle
<1>8. UNCHANGED vars \/ Tick => UNCHANGED <<status, call>>
  BY DEF vars, Tick
<1> QED
  BY <1>1, <1>2, <1>3, <1>4, <1>5, <1>6, <1>7, <1>8, Zenon DEF Next, Single

\* A step of the life of a token, as ApprovalLifecycle allows it.
LifeStep(t) ==
  \/ Phase(t) = "none" /\ Phase(t)' # "none" /\ uses'[t] = uses[t]
  \/ Phase(t) = "waiting" /\ Phase(t)' = "granted" /\ uses'[t] = uses[t]
  \/ Phase(t) = "granted" /\ Phase(t)' = "closed" /\ uses'[t] = uses[t] + 1
  \/ Phase(t) \in {"waiting", "granted"} /\ Phase(t)' = "closed" /\ uses'[t] = uses[t]
  \/ Phase(t)' = Phase(t) /\ uses'[t] = uses[t]

\* Each step moves each token by a step of its life.
LEMMA StepLife ==
  ASSUME Single, IInv, IInv', RowsAsRead, [Next]_vars, NEW t \in Tokens
  PROVE  LifeStep(t)
<1>0. /\ status[t] \in Statuses \cup {"absent"}
      /\ ~Handed(t) => status[t] = "absent"
  BY DEF IInv, TypeOK
<1>1. CASE UNCHANGED <<status, expiresAt, uses>>
  BY <1>1 DEF LifeStep, Phase, Handed
<1>2. ASSUME NEW p \in Processes, NEW u \in Tokens, GenerateToken(p, u)
      PROVE  LifeStep(t)
  <2>1. CASE t = u
    <3>1. status'[t] = "PENDING" /\ uses' = uses /\ status[t] = "absent" /\ ~Handed(t)
      BY <1>0, <1>2, <2>1 DEF GenerateToken, IInv, TypeOK
    <3> QED BY <3>1 DEF LifeStep, Phase
  <2>2. CASE t # u
    <3>1. status'[t] = status[t] /\ expiresAt'[t] = expiresAt[t] /\ uses' = uses
      BY <1>2, <2>2 DEF GenerateToken, IInv, TypeOK
    <3> QED BY <3>1 DEF LifeStep, Phase, Handed
  <2> QED BY <2>1, <2>2
<1>3. ASSUME NEW p \in Processes,
             \/ GetPendingApprovals(p) \/ \E u \in Tokens : ConsumeSweep(p, u)
      PROVE  LifeStep(t)
  <2>1. /\ status'[t] \in {status[t], "absent"}
        /\ expiresAt' = expiresAt /\ uses' = uses
    BY <1>3 DEF GetPendingApprovals, ConsumeSweep, Sweep
  <2> QED BY <1>0, <2>1 DEF LifeStep, Phase, Handed, Statuses
<1>4. ASSUME NEW p \in Processes, ConsumeUpdate(p) \/ ApproveUpdate(p) \/ RevokeUpdate(p)
      PROVE  LifeStep(t)
  <2>1. call[p].tok \in Tokens /\ Handed(call[p].tok) /\ expiresAt' = expiresAt
    BY <1>4 DEF ConsumeUpdate, ApproveUpdate, RevokeUpdate, At, IInv, TypeOK, Calls, Idle,
                InWindow, Knows
  <2>2. CASE t = call[p].tok
    <3>1. CASE ConsumeUpdate(p)
      <4>1. status[t] = "APPROVED" /\ status'[t] = "CONSUMED" /\ uses'[t] = uses[t] + 1
        BY <2>1, <2>2, <3>1 DEF ConsumeUpdate, Update, RowsAsRead, AsRead, IInv, TypeOK
      <4> QED BY <2>1, <2>2, <4>1 DEF LifeStep, Phase, Handed
    <3>2. CASE ApproveUpdate(p)
      <4>1. status[t] = "PENDING" /\ status'[t] = "APPROVED" /\ uses' = uses
        BY <2>1, <2>2, <3>2 DEF ApproveUpdate, Update, RowsAsRead, AsRead, IInv, TypeOK
      <4> QED BY <4>1 DEF LifeStep, Phase
    <3>3. CASE RevokeUpdate(p)
      <4>1. status[t] = "PENDING" /\ status'[t] = "REVOKED" /\ uses' = uses
        BY <2>1, <2>2, <3>3 DEF RevokeUpdate, Update, RowsAsRead, AsRead, IInv, TypeOK
      <4> QED BY <2>1, <2>2, <4>1 DEF LifeStep, Phase, Handed
    <3> QED BY <1>4, <3>1, <3>2, <3>3
  <2>3. CASE t # call[p].tok
    <3>1. status'[t] = status[t] /\ uses'[t] = uses[t]
      BY <1>4, <2>1, <2>3 DEF ConsumeUpdate, ApproveUpdate, RevokeUpdate, Update, IInv, TypeOK
    <3> QED BY <2>1, <3>1 DEF LifeStep, Phase, Handed
  <2> QED BY <2>2, <2>3
<1>5. ASSUME NEW p \in Processes,
             \/ ConsumeSelect(p) \/ Crash(p)
             \/ \E u \in Tokens : ApproveSelect(p, u) \/ RevokeSelect(p, u)
      PROVE  UNCHANGED <<status, expiresAt, uses>>
  BY <1>5 DEF ConsumeSelect, Crash, ApproveSelect, RevokeSelect
<1>6. UNCHANGED vars \/ Tick => UNCHANGED <<status, expiresAt, uses>>
  BY DEF vars, Tick
<1> QED
  BY <1>1, <1>2, <1>3, <1>4, <1>5, <1>6, Zenon DEF Next

\* A file that one process opens keeps the promise of IApprovalStore for every
\* token, through expiry, revocation and failures between the statements.
THEOREM OneProcessImplements == Single => (Spec => ImplementsLifecycle)
<1> SUFFICES ASSUME Single PROVE Spec => ImplementsLifecycle
  OBVIOUS
<1> DEFINE ph == [t \in Tokens |-> Phase(t)]
<1>1. Init => Lifecycle!Init /\ RowsAsRead
  BY DEF Init, Lifecycle!Init, Phase, Handed, Unborn, RowsAsRead, AsRead, At, Idle
<1>2. IInv /\ RowsAsRead /\ [Next]_vars => RowsAsRead'
  BY StepAsRead
<1>3. ASSUME IInv, IInv', RowsAsRead, [Next]_vars
      PROVE  [Lifecycle!Next]_(Lifecycle!vars)
  <2>1. \A t \in Tokens :
          /\ ph[t] = Phase(t) /\ ph'[t] = Phase(t)'
          /\ Phase(t)' \in Lifecycle!Phases
    BY DEF Lifecycle!Phases, Phase
  <2>2. ph' \in [Tokens -> Lifecycle!Phases] /\ uses' \in [Tokens -> Nat]
    BY <1>3, <2>1 DEF IInv, TypeOK
  <2> HIDE DEF ph
  <2>3. \A t \in Tokens :
          \/ ph[t] = "none" /\ ph'[t] # "none" /\ uses'[t] = uses[t]
          \/ ph[t] = "waiting" /\ ph'[t] = "granted" /\ uses'[t] = uses[t]
          \/ ph[t] = "granted" /\ ph'[t] = "closed" /\ uses'[t] = uses[t] + 1
          \/ ph[t] \in {"waiting", "granted"} /\ ph'[t] = "closed" /\ uses'[t] = uses[t]
          \/ ph'[t] = ph[t] /\ uses'[t] = uses[t]
    BY <1>3, <2>1, StepLife DEF LifeStep
  <2> QED BY <2>2, <2>3 DEF ph, Lifecycle!Next, Lifecycle!Learn, Lifecycle!Grant,
             Lifecycle!Use, Lifecycle!Close, Lifecycle!Idle
<1> QED
  BY <1>1, <1>2, <1>3, Invariance, PTL DEF Spec, ImplementsLifecycle, Lifecycle!Spec

-----------------------------------------------------------------------------
(* The promise itself: single use follows from the life of a token alone, of  *)
(* whatever store it is.                                                      *)

CONSTANT LifeKeys
VARIABLES lifePhase, lifeUses
Life == INSTANCE ApprovalLifecycle WITH Keys <- LifeKeys, phase <- lifePhase, uses <- lifeUses

\* The inductive invariant: types, and a token that is not closed was not used.
LifeInv ==
  /\ Life!TypeOK
  /\ \A k \in LifeKeys : lifeUses[k] <= 1 /\ (lifePhase[k] # "closed" => lifeUses[k] = 0)

LEMMA LivesStep == LifeInv /\ [Life!Next]_(Life!vars) => LifeInv'
<1> SUFFICES ASSUME LifeInv, [Life!Next]_(Life!vars) PROVE LifeInv'
  OBVIOUS
<1>1. CASE Life!Next
  <2>1. Life!TypeOK'
    BY <1>1 DEF Life!Next, Life!TypeOK
  <2>2. ASSUME NEW k \in LifeKeys
        PROVE  lifeUses'[k] <= 1 /\ (lifePhase'[k] # "closed" => lifeUses'[k] = 0)
    <3>1. /\ lifeUses[k] \in Nat /\ lifeUses[k] <= 1
          /\ lifePhase[k] # "closed" => lifeUses[k] = 0
      BY DEF LifeInv, Life!TypeOK
    <3>2. Life!Learn(k) \/ Life!Grant(k) \/ Life!Use(k) \/ Life!Close(k) \/ Life!Idle(k)
      BY <1>1 DEF Life!Next
    <3> QED BY <3>1, <3>2 DEF Life!Learn, Life!Grant, Life!Use, Life!Close, Life!Idle
  <2> QED BY <2>1, <2>2 DEF LifeInv
<1>2. CASE UNCHANGED Life!vars
  BY <1>2 DEF LifeInv, Life!TypeOK, Life!vars
<1> QED
  BY <1>1, <1>2

\* A token of any store that keeps the promise is honoured at most once, and is
\* closed when it has been.
THEOREM LifecycleSingleUse == Life!Spec => []Life!SingleUse
<1>1. Life!Init => LifeInv
  BY DEF Life!Init, LifeInv, Life!TypeOK, Life!Phases
<1>2. LifeInv => Life!SingleUse
  <2> SUFFICES ASSUME LifeInv, NEW k \in LifeKeys
               PROVE  lifeUses[k] <= 1 /\ (lifeUses[k] = 1 => lifePhase[k] = "closed")
    BY DEF Life!SingleUse
  <2>1. lifeUses[k] <= 1 /\ (lifePhase[k] # "closed" => lifeUses[k] = 0)
    BY DEF LifeInv
  <2> QED BY <2>1
<1> QED
  BY <1>1, <1>2, LivesStep, PTL DEF Life!Spec

================================================================================
