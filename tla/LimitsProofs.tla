---------------------------- MODULE LimitsProofs ----------------------------
(***************************************************************************)
(* Proofs about the two limiters of module Limits, for every set of keys,  *)
(* every limit and every pruning threshold: the rate limiter keeps to      *)
(* RateBound and the budget to BudgetBound.  Each limiter has an inductive *)
(* invariant of its own, over its own map and history, so that a component *)
(* that asks both in one step can use them too.                            *)
(***************************************************************************)
EXTENDS Limits, TLAPS

-----------------------------------------------------------------------------
(* The invariants.                                                         *)

\* A history: what was allowed up to each tick; nothing after now.
HistoryOK(h) ==
  /\ h \in [0..MaxNow -> Nat]
  /\ \A t \in now..MaxNow : h[t] = h[now]

\* The bucket b of a key that was allowed g requests since tick s.  Up to the
\* last refill they are bounded as RateBound says, with the tokens that are
\* left counted as if allowed; after it the tokens alone pay for them, and
\* only while the time since the refill is not worth a token.
Covers(b, g, s) ==
  /\ s <= b.last => (g + b.tokens - PerMin) * Minute < (b.last - s) * PerMin + Minute
  /\ s > b.last => /\ g + b.tokens <= PerMin
                   /\ g > 0 => (s - b.last) * PerMin < Minute

\* A key without a bucket is given a full one: what it was allowed since
\* tick s has been paid for by the time that has passed.
Repaid(g, s) == g * Minute < (now - s) * PerMin + Minute

BucketType == [tokens : 0..PerMin, last : 0..now]

RateInv ==
  /\ now \in 0..MaxNow
  /\ DOMAIN granted = Keys
  /\ DOMAIN buckets \subseteq Keys
  /\ PerMin = 0 => DOMAIN buckets = {}
  /\ \A k \in Keys : HistoryOK(granted[k])
  /\ \A k \in DOMAIN buckets :
       /\ buckets[k] \in BucketType
       /\ \A s \in 0..now : Covers(buckets[k], Total(granted[k], s, now), s)
  /\ \A k \in Keys \ DOMAIN buckets : \A s \in 0..now : Repaid(Total(granted[k], s, now), s)
  /\ RateBound

\* The window u of a key that was allowed g tokens since tick s: those of the
\* window itself, at most as many again in the minute before it, and none
\* after it.
Accounts(u, g, s) ==
  /\ s + Minute >= u.resetAt => g <= u.tokens
  /\ s + 2 * Minute >= u.resetAt => g <= MaxTokens + u.tokens
  /\ s > u.resetAt => g <= 0

\* A key without a window was allowed nothing within the last minute.
Idle(g, s) == s + Minute >= now => g <= 0

WindowType == [tokens : 0..MaxTokens, resetAt : Minute..(now + Minute)]

BudgetInv ==
  /\ now \in 0..MaxNow
  /\ DOMAIN spent = Keys
  /\ DOMAIN usage \subseteq Keys
  /\ MaxTokens = 0 => DOMAIN usage = {}
  /\ \A k \in Keys : HistoryOK(spent[k])
  /\ \A k \in DOMAIN usage :
       /\ usage[k] \in WindowType
       /\ \A s \in 0..now : Accounts(usage[k], Total(spent[k], s, now), s)
  /\ \A k \in Keys \ DOMAIN usage : \A s \in 0..now : Idle(Total(spent[k], s, now), s)
  /\ BudgetBound

LimitsInv == RateInv /\ BudgetInv

-----------------------------------------------------------------------------
(* Arithmetic.                                                             *)

\* Products of a sum and of a difference, and their order.
LEMMA Products ==
  ASSUME NEW a \in Int, NEW b \in Int, NEW c \in Nat
  PROVE  /\ a * c \in Int
         /\ (a + b) * c = a * c + b * c
         /\ (a - b) * c = a * c - b * c
         /\ a <= b => a * c <= b * c
BY SMTT(30)

\* What integer division leaves out is less than the divisor.
LEMMA Division ==
  ASSUME NEW x \in Nat, NEW m \in Nat, m > 0
  PROVE  /\ x \div m \in Nat
         /\ (x \div m) * m <= x
         /\ x < (x \div m) * m + m
BY SMTT(30)

\* A refill that is worth r tokens covers what the bucket covered before.
LEMMA RefillCovers ==
  ASSUME NEW P \in Nat, NEW M \in Nat, M > 0,
         NEW l \in Nat, NEW n \in Nat, l <= n,
         NEW tk \in 0..P, NEW new \in 0..P,
         NEW r \in Nat, r * M <= (n - l) * P, new <= tk + r,
         NEW g \in Int, NEW s \in 0..n,
         s <= l => (g + tk - P) * M < (l - s) * P + M,
         s > l => /\ g + tk <= P
                  /\ g > 0 => (s - l) * P < M
  PROVE  (g + new - P) * M < (n - s) * P + M
<1>1. /\ (g + new - P) * M \in Int /\ (n - s) * P \in Int /\ r * M \in Int
      /\ (l - s) * P \in Int /\ (s - l) * P \in Int /\ (n - l) * P \in Int
      /\ (g + tk - P) * M \in Int
  BY Products, SMTT(30)
<1>2. 0 <= (n - s) * P
  BY SMTT(30)
<1>3. CASE s <= l
  <2>1. (g + new - P) * M <= (g + tk - P + r) * M
    BY Products, SMTT(30)
  <2>2. (g + tk - P + r) * M = (g + tk - P) * M + r * M
    BY Products, SMTT(30)
  <2>3. (n - s) * P = (n - l) * P + (l - s) * P
    <3>1. (n - l + (l - s)) * P = (n - l) * P + (l - s) * P
      BY Products, SMTT(30)
    <3>2. n - l + (l - s) = n - s
      BY SMTT(30)
    <3> QED  BY <3>1, <3>2, SMTT(30)
  <2> QED  BY <1>1, <1>3, <2>1, <2>2, <2>3, SMTT(30)
<1>4. CASE s > l /\ g > 0
  <2>1. (g + new - P) * M <= r * M
    BY <1>4, Products, SMTT(30)
  <2>2. (n - l) * P = (n - s) * P + (s - l) * P
    <3>1. (n - s + (s - l)) * P = (n - s) * P + (s - l) * P
      BY Products, SMTT(30)
    <3>2. n - s + (s - l) = n - l
      BY SMTT(30)
    <3> QED  BY <3>1, <3>2, SMTT(30)
  <2> QED  BY <1>1, <1>4, <2>1, <2>2, SMTT(30)
<1>5. CASE s > l /\ g <= 0
  <2>1. (g + new - P) * M <= 0 * M
    BY <1>5, Products, SMTT(30)
  <2> QED  BY <1>1, <1>2, <2>1, SMTT(30)
<1> QED  BY <1>3, <1>4, <1>5, SMTT(30)

\* What a bucket covers has been repaid a minute after its last refill.
LEMMA StaleRepaid ==
  ASSUME NEW P \in Nat, NEW M \in Nat, M > 0,
         NEW l \in Nat, NEW n \in Nat, l + M < n,
         NEW tk \in 0..P, NEW g \in Int, NEW s \in 0..n,
         s <= l => (g + tk - P) * M < (l - s) * P + M,
         s > l => /\ g + tk <= P
                  /\ g > 0 => (s - l) * P < M
  PROVE  g * M < (n - s) * P + M
<1>1. /\ g * M \in Int /\ P * M \in Int /\ (n - s) * P \in Int /\ (n - l) * P \in Int
      /\ (l - s) * P \in Int /\ (s - l) * P \in Int /\ (g + tk - P) * M \in Int
  BY Products, SMTT(30)
<1>2. 0 <= (n - s) * P
  BY SMTT(30)
<1>3. P * M + P <= (n - l) * P
  <2>1. (M + 1) * P <= (n - l) * P
    BY Products, SMTT(30)
  <2>2. (M + 1) * P = M * P + 1 * P
    BY Products, SMTT(30)
  <2>3. M * P = P * M
    BY SMTT(30)
  <2> QED  BY <2>1, <2>2, <2>3, <1>1, SMTT(30)
<1>4. CASE s <= l
  <2>1. g * M <= (g + tk - P + P) * M
    BY Products, SMTT(30)
  <2>2. (g + tk - P + P) * M = (g + tk - P) * M + P * M
    BY Products, SMTT(30)
  <2>3. (n - s) * P = (n - l) * P + (l - s) * P
    <3>1. (n - l + (l - s)) * P = (n - l) * P + (l - s) * P
      BY Products, SMTT(30)
    <3>2. n - l + (l - s) = n - s
      BY SMTT(30)
    <3> QED  BY <3>1, <3>2, SMTT(30)
  <2> QED  BY <1>1, <1>3, <1>4, <2>1, <2>2, <2>3, SMTT(30)
<1>5. CASE s > l /\ g > 0
  <2>1. g * M <= P * M
    BY <1>5, Products, SMTT(30)
  <2>2. (n - l) * P = (n - s) * P + (s - l) * P
    <3>1. (n - s + (s - l)) * P = (n - s) * P + (s - l) * P
      BY Products, SMTT(30)
    <3>2. n - s + (s - l) = n - l
      BY SMTT(30)
    <3> QED  BY <3>1, <3>2, SMTT(30)
  <2> QED  BY <1>1, <1>3, <1>5, <2>1, <2>2, SMTT(30)
<1>6. CASE s > l /\ g <= 0
  <2>1. g * M <= 0 * M
    BY <1>6, Products, SMTT(30)
  <2> QED  BY <1>1, <1>2, <2>1, SMTT(30)
<1> QED  BY <1>4, <1>5, <1>6, SMTT(30)

-----------------------------------------------------------------------------
(* Histories and maps.                                                     *)

\* A stretch of a history has a whole number of requests.
LEMMA TotalInt ==
  ASSUME NEW h \in [0..MaxNow -> Nat], NEW t \in 0..MaxNow, NEW s \in 0..t
  PROVE  Total(h, s, t) \in Int
<1>1. s # 0 => s - 1 \in 0..MaxNow
  BY LimitsAssumption, SMTT(30) DEF LimitsAssumption
<1> QED  BY <1>1, LimitsAssumption, SMTT(30) DEF Total, LimitsAssumption

\* Counting n at this tick adds n to every stretch that ends now, and changes
\* no stretch that has ended.
LEMMA CountTotal ==
  ASSUME now \in 0..MaxNow, NEW h, HistoryOK(h), NEW n \in Nat
  PROVE  /\ HistoryOK(Count(h, now, n))
         /\ \A s \in 0..now : Total(Count(h, now, n), s, now) = Total(h, s, now) + n
         /\ \A t \in 0..now : \A s \in 0..t :
              t # now => Total(Count(h, now, n), s, t) = Total(h, s, t)
<1> DEFINE c == Count(h, now, n)
<1>0. now \in Nat /\ MaxNow \in Nat /\ now <= MaxNow
  BY LimitsAssumption, SMTT(30) DEF LimitsAssumption
<1>1. h \in [0..MaxNow -> Nat] /\ \A t \in now..MaxNow : h[t] = h[now]
  BY DEF HistoryOK
<1>2. c = [i \in 0..MaxNow |-> IF i >= now THEN h[i] + n ELSE h[i]]
  BY <1>1, ZenonT(30) DEF Count
<1>3. \A i \in 0..MaxNow : c[i] = IF i >= now THEN h[i] + n ELSE h[i]
  BY <1>2, ZenonT(30)
<1>4. c \in [0..MaxNow -> Nat]
  BY <1>0, <1>1, <1>2, SMTT(30)
<1> HIDE DEF c
<1>5. \A t \in now..MaxNow : c[t] = c[now]
  BY <1>0, <1>1, <1>3, SMTT(30)
<1>6. HistoryOK(c)
  BY <1>4, <1>5 DEF HistoryOK
<1>7. ASSUME NEW s \in 0..now  PROVE Total(c, s, now) = Total(h, s, now) + n
  <2>1. CASE s = 0
    BY <1>0, <1>1, <1>3, <2>1, SMTT(30) DEF Total
  <2>2. CASE s # 0
    <3>1. s - 1 \in 0..MaxNow /\ ~(s - 1 >= now) /\ now \in 0..MaxNow
      BY <1>0, <2>2, SMTT(30)
    <3>2. c[s - 1] = h[s - 1] /\ h[s - 1] \in Nat /\ c[now] = h[now] + n /\ h[now] \in Nat
      BY <1>0, <1>1, <1>3, <3>1, SMTT(30)
    <3> QED  BY <2>2, <3>2, SMTT(30) DEF Total
  <2> QED  BY <2>1, <2>2
<1>8. ASSUME NEW t \in 0..now, NEW s \in 0..t, t # now  PROVE Total(c, s, t) = Total(h, s, t)
  <2>1. t \in 0..MaxNow /\ ~(t >= now)
    BY <1>0, <1>8, SMTT(30)
  <2>2. s # 0 => s - 1 \in 0..MaxNow /\ ~(s - 1 >= now)
    BY <1>0, <1>8, SMTT(30)
  <2> QED  BY <1>3, <2>1, <2>2, ZenonT(30) DEF Total
<1> QED  BY <1>6, <1>7, <1>8 DEF c

\* When the clock moves, a stretch that ended now has the same total if it
\* ends a tick later, and the new tick has none.
LEMMA TickTotal ==
  ASSUME now \in 0..MaxNow, now < MaxNow, NEW h, HistoryOK(h)
  PROVE  /\ h \in [0..MaxNow -> Nat]
         /\ \A t \in (now + 1)..MaxNow : h[t] = h[now + 1]
         /\ \A s \in 0..now : Total(h, s, now + 1) = Total(h, s, now)
         /\ Total(h, now + 1, now + 1) = 0
<1>0. now \in Nat /\ MaxNow \in Nat
  BY LimitsAssumption, SMTT(30) DEF LimitsAssumption
<1>1. h \in [0..MaxNow -> Nat] /\ \A t \in now..MaxNow : h[t] = h[now]
  BY DEF HistoryOK
<1>2. h[now + 1] = h[now] /\ h[now] \in Nat /\ h[now + 1] \in Nat
  BY <1>0, <1>1, SMTT(30)
<1>3. \A t \in (now + 1)..MaxNow : h[t] = h[now + 1]
  BY <1>0, <1>1, <1>2, SMTT(30)
<1>4. \A s \in 0..now : Total(h, s, now + 1) = Total(h, s, now)
  BY <1>2, ZenonT(30) DEF Total
<1>5. Total(h, now + 1, now + 1) = 0
  <2>1. now + 1 # 0 /\ now + 1 - 1 = now
    BY <1>0, SMTT(30)
  <2>2. h[now + 1 - 1] = h[now]
    BY <2>1
  <2>3. Total(h, now + 1, now + 1) = h[now + 1] - h[now + 1 - 1]
    BY <1>0, <2>1, SMTT(30) DEF Total
  <2> QED  BY <1>2, <2>2, <2>3, SMTT(30)
<1> QED  BY <1>1, <1>3, <1>4, <1>5

-----------------------------------------------------------------------------
(* The rate limiter.                                                       *)

\* A bucket made with a tokens and refilled at tick c.
LEMMA BucketRecord ==
  ASSUME NEW a \in 0..PerMin, NEW c \in 0..now
  PROVE  /\ [tokens |-> a, last |-> c] \in BucketType
         /\ [tokens |-> a, last |-> c].tokens = a
         /\ [tokens |-> a, last |-> c].last = c
BY SMTT(30) DEF BucketType

\* Taking tokens from a bucket leaves its last refill alone.
LEMMA BucketUpdate ==
  ASSUME NEW b \in BucketType, NEW a \in 0..PerMin
  PROVE  /\ [b EXCEPT !.tokens = a] \in BucketType
         /\ [b EXCEPT !.tokens = a].tokens = a
         /\ [b EXCEPT !.tokens = a].last = b.last
BY SMTT(30) DEF BucketType

\* pruneLocked drops only buckets that were last refilled long ago.
LEMMA PrunedBucketsOK ==
  /\ DOMAIN PrunedBuckets \subseteq DOMAIN buckets
  /\ \A x \in DOMAIN PrunedBuckets : PrunedBuckets[x] = buckets[x]
  /\ \A x \in DOMAIN buckets :
       x \notin DOMAIN PrunedBuckets => ~(buckets[x].last + StaleAfter >= now)
BY ZenonT(30) DEF PrunedBuckets, Only

\* A key without a bucket, dropped just now or not, has been repaid.
LEMMA PrunedRepaid ==
  ASSUME RateInv, NEW k \in Keys, k \notin DOMAIN PrunedBuckets, NEW s \in 0..now
  PROVE  Repaid(Total(granted[k], s, now), s)
<1>1. CASE k \notin DOMAIN buckets
  BY <1>1 DEF RateInv
<1>2. CASE k \in DOMAIN buckets
  <2> DEFINE b == buckets[k]
             g == Total(granted[k], s, now)
  <2>1. b \in BucketType /\ Covers(b, g, s)
    BY <1>2 DEF RateInv
  <2>2. ~(b.last + StaleAfter >= now)
    BY <1>2, PrunedBucketsOK
  <2>3. now \in 0..MaxNow /\ granted[k] \in [0..MaxNow -> Nat]
    BY DEF RateInv, HistoryOK
  <2>4. g \in Int
    BY <2>3, TotalInt
  <2>5. b.tokens \in 0..PerMin /\ b.last \in 0..now
    BY <2>1 DEF BucketType
  <2> HIDE DEF b, g
  <2>6. /\ PerMin \in Nat /\ Minute \in Nat /\ Minute > 0 /\ now \in Nat
        /\ b.last \in Nat /\ b.last + Minute < now
    BY <2>2, <2>3, <2>5, LimitsAssumption, SMTT(30) DEF LimitsAssumption
  <2>7. /\ s <= b.last => (g + b.tokens - PerMin) * Minute < (b.last - s) * PerMin + Minute
        /\ s > b.last => /\ g + b.tokens <= PerMin
                         /\ g > 0 => (s - b.last) * PerMin < Minute
    BY <2>1 DEF Covers
  <2>8. g * Minute < (now - s) * PerMin + Minute
    BY <2>4, <2>5, <2>6, <2>7, StaleRepaid
  <2> QED  BY <2>8 DEF Repaid, g
<1> QED  BY <1>1, <1>2

\* The bucket Allow looks at covers the requests so far, and it is not yet
\* worth another refill.
LEMMA RefilledOK ==
  ASSUME RateInv, NEW k \in Keys
  PROVE  /\ Refilled(k) \in BucketType
         /\ \A s \in 0..now : Covers(Refilled(k), Total(granted[k], s, now), s)
         /\ (now - Refilled(k).last) * PerMin < Minute
<1> DEFINE b == IF k \in DOMAIN PrunedBuckets THEN PrunedBuckets[k]
                ELSE [tokens |-> PerMin, last |-> now]
           x == (now - b.last) * PerMin
           r == x \div Minute
           g(s) == Total(granted[k], s, now)
<1>0. /\ PerMin \in Nat /\ Minute \in Nat /\ Minute > 0 /\ now \in Nat
      /\ now \in 0..MaxNow /\ granted[k] \in [0..MaxNow -> Nat]
  <2>1. now \in 0..MaxNow /\ granted[k] \in [0..MaxNow -> Nat]
    BY DEF RateInv, HistoryOK
  <2> QED  BY <2>1, LimitsAssumption, SMTT(30) DEF LimitsAssumption
<1>1. \A s \in 0..now : g(s) \in Int
  BY <1>0, TotalInt
<1>2. /\ b \in BucketType
      /\ \A s \in 0..now : Covers(b, g(s), s)
  <2>1. CASE k \in DOMAIN PrunedBuckets
    <3>1. b = buckets[k] /\ k \in DOMAIN buckets
      BY <2>1, PrunedBucketsOK
    <3> QED  BY <3>1 DEF RateInv
  <2>2. CASE k \notin DOMAIN PrunedBuckets
    <3>1. b = [tokens |-> PerMin, last |-> now]
      BY <2>2
    <3>2. b.tokens = PerMin /\ b.last = now /\ b \in BucketType
      <4>1. PerMin \in 0..PerMin /\ now \in 0..now
        BY <1>0, SMTT(30)
      <4> HIDE DEF b
      <4> QED  BY <3>1, <4>1, BucketRecord, ZenonT(30)
    <3>3. ASSUME NEW s \in 0..now  PROVE Covers(b, g(s), s)
      <4>1. Repaid(g(s), s) /\ g(s) \in Int
        BY <1>1, <2>2, PrunedRepaid
      <4> HIDE DEF g, b
      <4>2. g(s) + PerMin - PerMin = g(s) /\ ~(s > now)
        BY <1>0, <4>1, SMTT(30)
      <4>3. (g(s) + b.tokens - PerMin) * Minute < (b.last - s) * PerMin + Minute
        BY <3>2, <4>1, <4>2, ZenonT(30) DEF Repaid
      <4> QED  BY <3>2, <4>2, <4>3, ZenonT(30) DEF Covers
    <3> QED  BY <3>2, <3>3
  <2> QED  BY <2>1, <2>2
<1>3. b.tokens \in 0..PerMin /\ b.last \in 0..now
  BY <1>2 DEF BucketType
<1>4. Refilled(k) = IF r = 0 THEN b
                    ELSE [tokens |-> IF b.tokens + r > PerMin THEN PerMin ELSE b.tokens + r,
                          last |-> now]
  BY ZenonT(30) DEF Refilled
<1> HIDE DEF b, g, r
<1>5. b.last \in Nat /\ b.last <= now /\ x \in Nat
  <2>1. b.last \in Nat /\ b.last <= now
    BY <1>0, <1>3, SMTT(30)
  <2>2. now - b.last \in Nat
    BY <1>0, <2>1, SMTT(30)
  <2> QED  BY <1>0, <2>1, <2>2, SMTT(30)
<1>6. r \in Nat /\ r * Minute <= x /\ x < r * Minute + Minute
  BY <1>0, <1>5, Division DEF r
<1>7. CASE r = 0
  <2>1. x < Minute
    BY <1>0, <1>6, <1>7, SMTT(30)
  <2> QED  BY <1>2, <1>4, <1>7, <2>1 DEF g
<1>8. CASE r # 0
  <2> DEFINE n == IF b.tokens + r > PerMin THEN PerMin ELSE b.tokens + r
  <2>1. Refilled(k) = [tokens |-> n, last |-> now]
    BY <1>4, <1>8
  <2>2. n \in 0..PerMin /\ n <= b.tokens + r /\ now \in 0..now
    BY <1>0, <1>3, <1>6, SMTT(30)
  <2> HIDE DEF n
  <2>3. /\ Refilled(k).tokens = n /\ Refilled(k).last = now
        /\ Refilled(k) \in BucketType
    <3>1. /\ [tokens |-> n, last |-> now] \in BucketType
          /\ [tokens |-> n, last |-> now].tokens = n
          /\ [tokens |-> n, last |-> now].last = now
      BY <2>2, BucketRecord
    <3> QED  BY <2>1, <3>1, ZenonT(30)
  <2>4. ASSUME NEW s \in 0..now  PROVE Covers(Refilled(k), g(s), s)
    <3>1. /\ s <= b.last => (g(s) + b.tokens - PerMin) * Minute < (b.last - s) * PerMin + Minute
          /\ s > b.last => /\ g(s) + b.tokens <= PerMin
                           /\ g(s) > 0 => (s - b.last) * PerMin < Minute
      BY <1>2 DEF Covers
    <3>2. (g(s) + n - PerMin) * Minute < (now - s) * PerMin + Minute
      BY <1>0, <1>1, <1>3, <1>5, <1>6, <2>2, <3>1, RefillCovers
    <3>3. ~(s > now)
      BY <1>0, SMTT(30)
    <3> QED  BY <2>3, <3>2, <3>3, ZenonT(30) DEF Covers
  <2>5. (now - now) * PerMin < Minute
    BY <1>0, SMTT(30)
  <2> QED  BY <2>3, <2>4, <2>5 DEF g
<1> QED  BY <1>7, <1>8

\* Steps that do not touch the rate limiter keep its invariant.
LEMMA RateFrame ==
  ASSUME RateInv, UNCHANGED <<now, buckets, granted>>
  PROVE  RateInv'
<1>0. now' = now /\ buckets' = buckets /\ granted' = granted
  OBVIOUS
<1>1. RateBound'
  BY <1>0, ZenonT(30) DEF RateInv, RateBound, Total
<1>2. \A k \in Keys : HistoryOK(granted[k])'
  BY <1>0, ZenonT(30) DEF RateInv, HistoryOK
<1>3. \A k \in DOMAIN buckets' : /\ buckets'[k] \in BucketType'
                            /\ \A s \in 0..now' : Covers(buckets[k], Total(granted[k], s, now), s)'
  <2>1. BucketType' = BucketType
    BY <1>0 DEF BucketType
  <2> QED  BY <1>0, <2>1, ZenonT(30) DEF RateInv, Covers, Total
<1>4. \A k \in Keys \ DOMAIN buckets' : \A s \in 0..now' : Repaid(Total(granted[k], s, now), s)'
  BY <1>0, ZenonT(30) DEF RateInv, Repaid, Total
<1> QED  BY <1>0, <1>1, <1>2, <1>3, <1>4, ZenonT(30) DEF RateInv

\* RateLimiter.Allow keeps the invariant, whoever asks and whatever it answers.
LEMMA RateAllowInv ==
  ASSUME RateInv, NEW k \in Keys, NEW ok \in BOOLEAN, RateAllow(k, ok), now' = now
  PROVE  RateInv'
<1>0. now \in 0..MaxNow /\ DOMAIN granted = Keys /\ \A x \in Keys : HistoryOK(granted[x])
  BY DEF RateInv
<1>1. PerMin \in Nat /\ Minute \in Nat /\ Minute > 0 /\ now \in Nat /\ MaxNow \in Nat
  BY <1>0, LimitsAssumption, SMTT(30) DEF LimitsAssumption
<1>2. CASE PerMin = 0
  <2>1. buckets' = buckets /\ granted' = granted
    BY <1>2, ZenonT(30) DEF RateAllow
  <2> QED  BY <2>1, RateFrame
<1>3. CASE PerMin # 0
  <2> DEFINE b  == Refilled(k)
             nb == IF ok THEN [b EXCEPT !.tokens = @ - 1] ELSE b
             h  == granted[k]
             nh == IF ok THEN Count(h, now, 1) ELSE h
  <2>1. /\ ok = (b.tokens > 0)
        /\ buckets' = Put(PrunedBuckets, k, nb)
        /\ granted' = IF ok THEN [granted EXCEPT ![k] = Count(@, now, 1)] ELSE granted
    BY <1>3, ZenonT(30) DEF RateAllow
  <2>2. DOMAIN granted' = Keys /\ \A x \in Keys : granted'[x] = IF x = k THEN nh ELSE granted[x]
    BY <1>0, <2>1, ZenonT(30)
  <2> HIDE DEF nb
  <2>3. /\ DOMAIN buckets' = DOMAIN PrunedBuckets \cup {k}
        /\ buckets'[k] = nb
        /\ \A x \in DOMAIN PrunedBuckets : x # k => buckets'[x] = buckets[x]
    <3>1. buckets' = Put(PrunedBuckets, k, nb)
      BY <2>1
    <3>2. \A x \in DOMAIN PrunedBuckets : PrunedBuckets[x] = buckets[x]
      BY PrunedBucketsOK
    <3>3. /\ DOMAIN Put(PrunedBuckets, k, nb) = DOMAIN PrunedBuckets \cup {k}
          /\ Put(PrunedBuckets, k, nb)[k] = nb
          /\ \A x \in DOMAIN PrunedBuckets : x # k => Put(PrunedBuckets, k, nb)[x] = PrunedBuckets[x]
      BY ZenonT(30) DEF Put
    <3> QED  BY <3>1, <3>2, <3>3, ZenonT(30)
  <2>4. DOMAIN PrunedBuckets \subseteq DOMAIN buckets /\ DOMAIN buckets \subseteq Keys
    BY PrunedBucketsOK DEF RateInv
  <2>5. /\ b \in BucketType
        /\ \A s \in 0..now : Covers(b, Total(h, s, now), s)
        /\ (now - b.last) * PerMin < Minute
    BY RefilledOK
  <2>6. HistoryOK(h) /\ \A s \in 0..now : Total(h, s, now) \in Int
    BY <1>0, TotalInt DEF HistoryOK
  <2> HIDE DEF b, h
  <2>7. /\ HistoryOK(nh)
        /\ \A t \in 0..now : \A s \in 0..t : t # now => Total(nh, s, t) = Total(h, s, t)
        /\ \A s \in 0..now : Total(nh, s, now) = Total(h, s, now) + (IF ok THEN 1 ELSE 0)
    <3>1. CASE ok
      BY <1>0, <2>6, <3>1, CountTotal
    <3>2. CASE ~ok
      BY <2>6, <3>2, SMTT(30)
    <3> QED  BY <3>1, <3>2
  <2>8. b.tokens \in 0..PerMin /\ b.last \in 0..now
    BY <2>5 DEF BucketType
  <2>9. /\ nb \in BucketType
        /\ nb.last = b.last
        /\ nb.tokens = b.tokens - (IF ok THEN 1 ELSE 0)
    <3>1. CASE ok
      <4>1. b.tokens - 1 \in 0..PerMin
        <5>1. b.tokens > 0
          BY <2>1, <3>1, ZenonT(30)
        <5> QED  BY <1>1, <2>8, <5>1, SMTT(30)
      <4>2. nb = [b EXCEPT !.tokens = b.tokens - 1]
        BY <3>1, ZenonT(30) DEF nb
      <4>3. nb \in BucketType /\ nb.tokens = b.tokens - 1 /\ nb.last = b.last
        BY <2>5, <4>1, <4>2, BucketUpdate, ZenonT(30)
      <4> QED  BY <3>1, <4>3, ZenonT(30)
    <3>2. CASE ~ok
      <4>1. nb = b
        BY <3>2 DEF nb
      <4>2. b.tokens = b.tokens - 0
        BY <2>8, SMTT(30)
      <4> QED  BY <2>5, <3>2, <4>1, <4>2, ZenonT(30)
    <3> QED  BY <3>1, <3>2
  <2> HIDE DEF nh
  <2>10. ASSUME NEW s \in 0..now  PROVE Covers(nb, Total(nh, s, now), s)
    <3> DEFINE g == Total(h, s, now)
               d == IF ok THEN 1 ELSE 0
    <3>1. g \in Int /\ d \in {0, 1}
      BY <2>6
    <3>2. /\ s <= b.last => (g + b.tokens - PerMin) * Minute < (b.last - s) * PerMin + Minute
          /\ s > b.last => g + b.tokens <= PerMin
      BY <2>5 DEF Covers
    <3>3. Total(nh, s, now) = g + d /\ nb.tokens = b.tokens - d /\ nb.last = b.last
      BY <2>7, <2>9
    <3> HIDE DEF g, d
    <3>4. g + d + (b.tokens - d) = g + b.tokens
      BY <2>8, <3>1, SMTT(30)
    <3>5. (s - b.last) * PerMin < Minute
      <4>1. (s - b.last) * PerMin <= (now - b.last) * PerMin
        BY <1>1, <2>8, Products, SMTT(30)
      <4>2. (s - b.last) * PerMin \in Int /\ (now - b.last) * PerMin \in Int
        BY <1>1, <2>8, Products, SMTT(30)
      <4> QED  BY <1>1, <2>5, <4>1, <4>2, SMTT(30)
    <3>6. Covers(b, g, s) /\ (s > b.last => (s - b.last) * PerMin < Minute)
      BY <2>5, <3>5 DEF g
    <3>7. /\ s <= nb.last => (g + d + nb.tokens - PerMin) * Minute < (nb.last - s) * PerMin + Minute
          /\ s > nb.last => g + d + nb.tokens <= PerMin
      <4>1. g + d + nb.tokens = g + b.tokens
        BY <3>3, <3>4, ZenonT(30)
      <4>2. g + d + nb.tokens - PerMin = g + b.tokens - PerMin
        <5>1. nb.tokens = b.tokens - d
          BY <3>3
        <5> QED  BY <1>1, <2>8, <3>1, <5>1, SMTT(30)
      <4>3. nb.last = b.last
        BY <3>3
      <4> HIDE DEF g, d
      <4> QED  BY <3>2, <4>1, <4>2, <4>3, ZenonT(30)
    <3> QED  BY <3>3, <3>6, <3>7, ZenonT(30) DEF Covers
  <2>11. now' \in 0..MaxNow /\ BucketType' = BucketType
    BY <1>0 DEF BucketType
  <2>12. DOMAIN buckets' \subseteq Keys
    BY <2>3, <2>4
  <2>13. ASSUME NEW x \in Keys  PROVE HistoryOK(granted[x])'
    <3>1. HistoryOK(granted'[x])
      BY <1>0, <2>2, <2>7, ZenonT(30)
    <3> QED  BY <3>1 DEF HistoryOK
  <2>14. ASSUME NEW x \in DOMAIN buckets'
         PROVE  /\ buckets'[x] \in BucketType
                /\ \A s \in 0..now : Covers(buckets'[x], Total(granted'[x], s, now), s)
    <3>1. CASE x = k
      BY <2>2, <2>3, <2>9, <2>10, <3>1
    <3>2. CASE x # k
      <4>1. x \in DOMAIN PrunedBuckets /\ x \in DOMAIN buckets /\ x \in Keys
        BY <2>3, <2>4, <3>2
      <4>2. buckets'[x] = buckets[x] /\ granted'[x] = granted[x]
        BY <2>2, <2>3, <3>2, <4>1
      <4> QED  BY <4>1, <4>2 DEF RateInv
    <3> QED  BY <3>1, <3>2
  <2>15. ASSUME NEW x \in Keys \ DOMAIN buckets', NEW s \in 0..now
         PROVE  Repaid(Total(granted'[x], s, now), s)
    <3>1. x # k /\ x \notin DOMAIN PrunedBuckets /\ granted'[x] = granted[x]
      BY <2>2, <2>3
    <3> QED  BY <3>1, PrunedRepaid
  <2>16. RateBound'
    <3> SUFFICES ASSUME NEW x \in Keys, NEW t \in 0..now, NEW s \in 0..t
                 PROVE  (Total(granted'[x], s, t) - PerMin) * Minute < (t - s) * PerMin + Minute
      BY DEF RateBound, Total
    <3>1. PerMin > 0
      BY <1>1, <1>3, SMTT(30)
    <3>2. (Total(granted[x], s, t) - PerMin) * Minute < (t - s) * PerMin + Minute
      BY <3>1 DEF RateInv, RateBound
    <3>3. CASE x # k \/ t # now
      <4>1. Total(granted'[x], s, t) = Total(granted[x], s, t)
        BY <2>2, <2>7, <3>3 DEF h
      <4> QED  BY <3>2, <4>1
    <3>4. CASE x = k /\ t = now
      <4> DEFINE g == Total(nh, s, now)
      <4>1. granted'[x] = nh /\ Covers(nb, g, s) /\ g \in Int
        <5>1. s \in 0..now
          BY <3>4
        <5>2. Total(nh, s, now) \in Int
          BY <1>0, <2>7, <5>1, TotalInt DEF HistoryOK
        <5> QED  BY <2>2, <2>10, <3>4, <5>1, <5>2
      <4>2. nb.tokens \in 0..PerMin /\ nb.last \in 0..now
        BY <2>9 DEF BucketType
      <4>3. (now - s) * PerMin \in Int /\ 0 <= (now - s) * PerMin
        <5>1. now - s \in Nat
          BY <1>1, <3>4, SMTT(30)
        <5> QED  BY <1>1, <5>1, SMTT(30)
      <4> HIDE DEF g
      <4>4. (g - PerMin) * Minute <= (g + nb.tokens - PerMin) * Minute
        <5>1. g - PerMin <= g + nb.tokens - PerMin /\ g - PerMin \in Int /\ g + nb.tokens - PerMin \in Int
          BY <1>1, <4>1, <4>2, SMTT(30)
        <5> QED  BY <1>1, <5>1, Products
      <4>5. /\ (g - PerMin) * Minute \in Int /\ (g + nb.tokens - PerMin) * Minute \in Int
            /\ (nb.last - s) * PerMin \in Int
        BY <1>1, <4>1, <4>2, Products, SMTT(30)
      <4>6. CASE s <= nb.last
        <5>1. (nb.last - s) * PerMin <= (now - s) * PerMin
          BY <1>1, <4>2, Products, SMTT(30)
        <5>2. (g + nb.tokens - PerMin) * Minute < (nb.last - s) * PerMin + Minute
          BY <4>1, <4>6 DEF Covers
        <5>3. (g - PerMin) * Minute < (now - s) * PerMin + Minute
          BY <1>1, <4>3, <4>4, <4>5, <5>1, <5>2, SMTT(30)
        <5> QED  BY <3>4, <4>1, <5>3 DEF g
      <4>7. CASE s > nb.last
        <5>1. g + nb.tokens <= PerMin
          BY <4>1, <4>7 DEF Covers
        <5>2. (g - PerMin) * Minute <= 0 * Minute
          BY <1>1, <4>1, <4>2, <5>1, Products, SMTT(30)
        <5>3. (g - PerMin) * Minute < (now - s) * PerMin + Minute
          BY <1>1, <4>3, <4>5, <5>2, SMTT(30)
        <5> QED  BY <3>4, <4>1, <5>3 DEF g
      <4> QED  BY <1>1, <4>2, <4>6, <4>7, SMTT(30)
    <3> QED  BY <3>3, <3>4
  <2>17. \A x \in DOMAIN buckets' :
           /\ buckets'[x] \in BucketType'
           /\ \A s \in 0..now' : Covers(buckets[x], Total(granted[x], s, now), s)'
    BY <2>11, <2>14, ZenonT(30) DEF Covers, Total
  <2>18. \A x \in Keys \ DOMAIN buckets' : \A s \in 0..now' : Repaid(Total(granted[x], s, now), s)'
    BY <2>15, ZenonT(30) DEF Repaid, Total
  <2> QED  BY <1>3, <2>2, <2>11, <2>12, <2>13, <2>16, <2>17, <2>18, ZenonT(30) DEF RateInv
<1> QED  BY <1>2, <1>3

\* Time passes: what was covered stays covered and what was repaid, repaid.
LEMMA RateTick ==
  ASSUME RateInv, Tick
  PROVE  RateInv'
<1>0. now \in 0..MaxNow /\ DOMAIN granted = Keys /\ \A x \in Keys : HistoryOK(granted[x])
  BY DEF RateInv
<1>1. now < MaxNow /\ now' = now + 1 /\ buckets' = buckets /\ granted' = granted
  BY DEF Tick, limitVars
<1>2. /\ PerMin \in Nat /\ Minute \in Nat /\ Minute > 0 /\ now \in Nat /\ MaxNow \in Nat
      /\ now' \in 0..MaxNow /\ now \in 0..now'
  BY <1>0, <1>1, LimitsAssumption, SMTT(30) DEF LimitsAssumption
<1>3. \A s \in 0..now' : s \in 0..now \/ s = now + 1
  BY <1>1, <1>2, SMTT(30)
<1>4. ASSUME NEW x \in Keys
      PROVE  /\ HistoryOK(granted[x])'
             /\ \A s \in 0..now : /\ Total(granted[x], s, now') = Total(granted[x], s, now)
                                  /\ Total(granted[x], s, now) \in Int
             /\ Total(granted[x], now + 1, now') = 0
  <2> DEFINE h == granted[x]
  <2>1. /\ h \in [0..MaxNow -> Nat]
        /\ \A t \in (now + 1)..MaxNow : h[t] = h[now + 1]
        /\ \A s \in 0..now : Total(h, s, now + 1) = Total(h, s, now)
        /\ Total(h, now + 1, now + 1) = 0
    BY <1>0, <1>1, TickTotal
  <2>2. \A s \in 0..now : Total(h, s, now) \in Int
    BY <1>0, <2>1, TotalInt
  <2>3. HistoryOK(h)'
    BY <1>1, <2>1, ZenonT(30) DEF HistoryOK
  <2> QED  BY <1>1, <2>1, <2>2, <2>3, ZenonT(30)
<1>5. BucketType \subseteq BucketType'
  <2>1. 0..now \subseteq 0..now'
    BY <1>1, <1>2, SMTT(30)
  <2> QED  BY <2>1, SMTT(30) DEF BucketType
<1>6. ASSUME NEW x \in DOMAIN buckets
      PROVE  /\ buckets[x] \in BucketType'
             /\ \A s \in 0..now' : Covers(buckets[x], Total(granted[x], s, now'), s)
  <2>1. /\ x \in Keys
        /\ buckets[x] \in BucketType
        /\ \A s \in 0..now : Covers(buckets[x], Total(granted[x], s, now), s)
    BY DEF RateInv
  <2>2. buckets[x].tokens \in 0..PerMin /\ buckets[x].last \in 0..now
    BY <2>1 DEF BucketType
  <2>3. Covers(buckets[x], 0, now + 1)
    BY <1>2, <2>2, SMTT(30) DEF Covers
  <2>4. ASSUME NEW s \in 0..now'  PROVE Covers(buckets[x], Total(granted[x], s, now'), s)
    <3>1. CASE s \in 0..now
      <4>1. Total(granted[x], s, now') = Total(granted[x], s, now)
        BY <1>4, <2>1, <3>1
      <4> QED  BY <2>1, <3>1, <4>1, ZenonT(30)
    <3>2. CASE s = now + 1
      <4>1. Total(granted[x], s, now') = 0
        BY <1>4, <2>1, <3>2
      <4> QED  BY <2>3, <3>2, <4>1, ZenonT(30)
    <3> QED  BY <1>3, <3>1, <3>2
  <2> QED  BY <1>5, <2>1, <2>4
<1>7. ASSUME NEW x \in Keys \ DOMAIN buckets, NEW s \in 0..now'
      PROVE  Total(granted[x], s, now') * Minute < (now' - s) * PerMin + Minute
  <2>1. CASE s \in 0..now
    <3> DEFINE g == Total(granted[x], s, now)
    <3>1. Total(granted[x], s, now') = g /\ g \in Int
      BY <1>4, <2>1
    <3>2. g * Minute < (now - s) * PerMin + Minute
      BY <2>1 DEF RateInv, Repaid
    <3> HIDE DEF g
    <3>3. (now - s) * PerMin <= (now' - s) * PerMin
      BY <1>1, <1>2, <2>1, Products, SMTT(30)
    <3>4. g * Minute \in Int /\ (now - s) * PerMin \in Int /\ (now' - s) * PerMin \in Int
      BY <1>1, <1>2, <2>1, <3>1, Products, SMTT(30)
    <3>5. g * Minute < (now' - s) * PerMin + Minute
      BY <1>2, <3>2, <3>3, <3>4, SMTT(30)
    <3> QED  BY <1>1, <3>1, <3>5, ZenonT(30)
  <2>2. CASE s = now + 1
    <3>1. Total(granted[x], s, now') = 0 /\ now' = s
      BY <1>1, <1>4, <2>2
    <3>2. s \in Nat /\ 0 * Minute < (s - s) * PerMin + Minute
      BY <1>2, <2>2, SMTT(30)
    <3> QED  BY <3>1, <3>2, ZenonT(30)
  <2> QED  BY <1>3, <2>1, <2>2
<1>8. RateBound'
  <2> SUFFICES ASSUME PerMin > 0, NEW x \in Keys, NEW t \in 0..now', NEW s \in 0..t
               PROVE  (Total(granted[x], s, t) - PerMin) * Minute < (t - s) * PerMin + Minute
    BY <1>1 DEF RateBound, Total
  <2>1. CASE t \in 0..now
    BY <2>1 DEF RateInv, RateBound
  <2>2. CASE t = now + 1 /\ s \in 0..now
    <3> DEFINE g == Total(granted[x], s, now)
    <3>1. Total(granted[x], s, t) = g /\ g \in Int
      BY <1>1, <1>4, <2>2
    <3>2. (g - PerMin) * Minute < (now - s) * PerMin + Minute
      <4>1. now \in 0..now /\ s \in 0..now
        BY <1>2, <2>2, SMTT(30)
      <4> QED  BY <4>1 DEF RateInv, RateBound
    <3> HIDE DEF g
    <3>3. (now - s) * PerMin <= (t - s) * PerMin
      BY <1>2, <2>2, Products, SMTT(30)
    <3>4. (g - PerMin) * Minute \in Int /\ (now - s) * PerMin \in Int /\ (t - s) * PerMin \in Int
      BY <1>2, <2>2, <3>1, Products, SMTT(30)
    <3>5. (g - PerMin) * Minute < (t - s) * PerMin + Minute
      BY <1>2, <3>2, <3>3, <3>4, SMTT(30)
    <3> QED  BY <2>2, <3>1, <3>5, ZenonT(30)
  <2>3. CASE t = now + 1 /\ s = now + 1
    <3>1. Total(granted[x], s, t) = 0
      BY <1>1, <1>4, <2>3
    <3>2. (0 - PerMin) * Minute <= 0 * Minute
      BY <1>2, Products, SMTT(30)
    <3>3. (0 - PerMin) * Minute < (t - s) * PerMin + Minute
      BY <1>2, <2>3, <3>2, SMTT(30)
    <3> QED  BY <3>1, <3>3, ZenonT(30)
  <2> QED  BY <1>1, <1>2, <1>3, <2>1, <2>2, <2>3, SMTT(30)
<1>9. \A x \in DOMAIN buckets' :
        /\ buckets'[x] \in BucketType'
        /\ \A s \in 0..now' : Covers(buckets[x], Total(granted[x], s, now), s)'
  BY <1>1, <1>6, ZenonT(30) DEF Covers, Total
<1>10. \A x \in Keys \ DOMAIN buckets' : \A s \in 0..now' : Repaid(Total(granted[x], s, now), s)'
  BY <1>1, <1>7, ZenonT(30) DEF Repaid, Total
<1>11. \A x \in Keys : HistoryOK(granted[x])'
  BY <1>4
<1>12. /\ DOMAIN granted' = Keys /\ DOMAIN buckets' \subseteq Keys
       /\ PerMin = 0 => DOMAIN buckets' = {}
  BY <1>1, ZenonT(30) DEF RateInv
<1> QED  BY <1>2, <1>8, <1>9, <1>10, <1>11, <1>12, ZenonT(30) DEF RateInv

\* A new rate limiter has no buckets and has allowed nothing.
LEMMA RateInit ==
  ASSUME LimitsInit
  PROVE  RateInv
<1>1. now = 0 /\ DOMAIN buckets = {} /\ granted = [k \in Keys |-> [t \in 0..MaxNow |-> 0]]
  BY DEF LimitsInit, Empty
<1>2. PerMin \in Nat /\ Minute \in Nat /\ Minute > 0 /\ MaxNow \in Nat /\ now \in 0..MaxNow
  BY <1>1, LimitsAssumption, SMTT(30) DEF LimitsAssumption
<1>3. ASSUME NEW k \in Keys
      PROVE  HistoryOK(granted[k]) /\ \A t \in 0..now : \A s \in 0..t : Total(granted[k], s, t) = 0
  <2>1. granted[k] = [t \in 0..MaxNow |-> 0]
    BY <1>1
  <2>2. HistoryOK(granted[k])
    BY <1>1, <1>2, <2>1, SMTT(30) DEF HistoryOK
  <2> QED  BY <1>1, <1>2, <2>1, <2>2, SMTT(30) DEF Total
<1>4. ASSUME NEW k \in Keys, NEW t \in 0..now, NEW s \in 0..t
      PROVE  /\ (Total(granted[k], s, t) - PerMin) * Minute < (t - s) * PerMin + Minute
             /\ Total(granted[k], s, t) * Minute < (t - s) * PerMin + Minute
  <2>1. Total(granted[k], s, t) = 0 /\ t = s /\ s = 0
    <3>1. t = s /\ s = 0
      BY <1>1, SMTT(30)
    <3> QED  BY <1>3, <3>1
  <2>2. (0 - PerMin) * Minute <= 0 * Minute
    BY <1>2, Products, SMTT(30)
  <2>3. (0 - PerMin) * Minute < (0 - 0) * PerMin + Minute /\ 0 * Minute < (0 - 0) * PerMin + Minute
    BY <1>2, <2>2, SMTT(30)
  <2> QED  BY <2>1, <2>3, ZenonT(30)
<1>5. RateBound
  BY <1>4 DEF RateBound
<1>6. \A k \in Keys : \A s \in 0..now : Repaid(Total(granted[k], s, now), s)
  <2>1. now \in 0..now
    BY <1>1, SMTT(30)
  <2> QED  BY <1>4, <2>1 DEF Repaid
<1> QED  BY <1>1, <1>2, <1>3, <1>5, <1>6, ZenonT(30) DEF RateInv

-----------------------------------------------------------------------------
(* The budget.                                                             *)

\* A window made with a tokens spent and ending at tick c.
LEMMA WindowRecord ==
  ASSUME NEW a \in 0..MaxTokens, NEW c \in Minute..(now + Minute)
  PROVE  /\ [tokens |-> a, resetAt |-> c] \in WindowType
         /\ [tokens |-> a, resetAt |-> c].tokens = a
         /\ [tokens |-> a, resetAt |-> c].resetAt = c
BY SMTT(30) DEF WindowType

\* Spending from a window leaves its end alone.
LEMMA WindowUpdate ==
  ASSUME NEW u \in WindowType, NEW a \in 0..MaxTokens
  PROVE  /\ [u EXCEPT !.tokens = a] \in WindowType
         /\ [u EXCEPT !.tokens = a].tokens = a
         /\ [u EXCEPT !.tokens = a].resetAt = u.resetAt
BY SMTT(30) DEF WindowType

\* pruneLocked drops only windows that ended long ago.
LEMMA PrunedUsageOK ==
  /\ DOMAIN PrunedUsage \subseteq DOMAIN usage
  /\ \A x \in DOMAIN PrunedUsage : PrunedUsage[x] = usage[x]
  /\ \A x \in DOMAIN usage :
       x \notin DOMAIN PrunedUsage => ~(usage[x].resetAt + StaleAfter >= now)
BY ZenonT(30) DEF PrunedUsage, Only

\* A key without a window, dropped just now or not, spent nothing lately.
LEMMA PrunedIdle ==
  ASSUME BudgetInv, NEW k \in Keys, k \notin DOMAIN PrunedUsage, NEW s \in 0..now
  PROVE  Idle(Total(spent[k], s, now), s)
<1>1. CASE k \notin DOMAIN usage
  BY <1>1 DEF BudgetInv
<1>2. CASE k \in DOMAIN usage
  <2> DEFINE u == usage[k]
             g == Total(spent[k], s, now)
  <2>1. u \in WindowType /\ Accounts(u, g, s) /\ now \in 0..MaxNow
    BY <1>2 DEF BudgetInv
  <2>2. ~(u.resetAt + StaleAfter >= now)
    BY <1>2, PrunedUsageOK
  <2>3. u.resetAt \in Minute..(now + Minute)
    BY <2>1 DEF WindowType
  <2>4. s > u.resetAt => g <= 0
    BY <2>1 DEF Accounts
  <2> HIDE DEF u, g
  <2>5. s + Minute >= now => s > u.resetAt
    BY <2>1, <2>2, <2>3, LimitsAssumption, SMTT(30) DEF LimitsAssumption
  <2> QED  BY <2>4, <2>5 DEF Idle, g
<1> QED  BY <1>1, <1>2

\* The window Allow looks at is not over and accounts for what was spent.
LEMMA WindowOK ==
  ASSUME BudgetInv, NEW k \in Keys
  PROVE  /\ Window(k) \in WindowType
         /\ now <= Window(k).resetAt
         /\ \A s \in 0..now : Accounts(Window(k), Total(spent[k], s, now), s)
<1>0. /\ MaxTokens \in Nat /\ Minute \in Nat /\ Minute > 0 /\ now \in Nat
      /\ now \in 0..MaxNow /\ spent[k] \in [0..MaxNow -> Nat]
  <2>1. now \in 0..MaxNow /\ spent[k] \in [0..MaxNow -> Nat]
    BY DEF BudgetInv, HistoryOK
  <2> QED  BY <2>1, LimitsAssumption, SMTT(30) DEF LimitsAssumption
<1>1. CASE k \in DOMAIN PrunedUsage /\ now <= PrunedUsage[k].resetAt
  <2>1. Window(k) = usage[k] /\ k \in DOMAIN usage /\ now <= usage[k].resetAt
    BY <1>1, PrunedUsageOK DEF Window
  <2> QED  BY <2>1 DEF BudgetInv
<1>2. CASE ~(k \in DOMAIN PrunedUsage /\ now <= PrunedUsage[k].resetAt)
  <2>1. Window(k) = [tokens |-> 0, resetAt |-> now + Minute]
    BY <1>2, ZenonT(30) DEF Window
  <2>2. 0 \in 0..MaxTokens /\ now + Minute \in Minute..(now + Minute) /\ now <= now + Minute
    BY <1>0, SMTT(30)
  <2>3. /\ Window(k) \in WindowType
        /\ Window(k).tokens = 0 /\ Window(k).resetAt = now + Minute
    BY <2>1, <2>2, WindowRecord
  <2>4. ASSUME NEW s \in 0..now  PROVE Accounts(Window(k), Total(spent[k], s, now), s)
    <3> DEFINE g == Total(spent[k], s, now)
    <3>1. g \in Int
      BY <1>0, TotalInt
    <3>2. (s + Minute >= now => g <= MaxTokens) /\ (s >= now => g <= 0)
      <4>1. CASE k \notin DOMAIN PrunedUsage
        <5>1. s + Minute >= now => g <= 0
          BY <4>1, PrunedIdle DEF Idle
        <5> HIDE DEF g
        <5> QED  BY <1>0, <3>1, <5>1, SMTT(30)
      <4>2. CASE k \in DOMAIN PrunedUsage /\ ~(now <= PrunedUsage[k].resetAt)
        <5> DEFINE u == usage[k]
        <5>1. k \in DOMAIN usage /\ ~(now <= u.resetAt)
          BY <4>2, PrunedUsageOK
        <5>2. u \in WindowType /\ Accounts(u, g, s)
          BY <5>1 DEF BudgetInv
        <5>3. u.tokens \in 0..MaxTokens /\ u.resetAt \in Minute..(now + Minute)
          BY <5>2 DEF WindowType
        <5>4. (s + Minute >= u.resetAt => g <= u.tokens) /\ (s > u.resetAt => g <= 0)
          BY <5>2 DEF Accounts
        <5> HIDE DEF u, g
        <5> QED  BY <1>0, <3>1, <5>1, <5>3, <5>4, SMTT(30)
      <4> QED  BY <1>2, <4>1, <4>2
    <3> HIDE DEF g
    <3>3. /\ s + Minute >= now + Minute => g <= 0
          /\ s + 2 * Minute >= now + Minute => g <= MaxTokens + 0
          /\ ~(s > now + Minute)
      BY <1>0, <3>1, <3>2, SMTT(30)
    <3> QED  BY <2>3, <3>3, ZenonT(30) DEF Accounts, g
  <2> QED  BY <2>2, <2>3, <2>4, ZenonT(30)
<1> QED  BY <1>1, <1>2

\* Steps that do not touch the budget keep its invariant.
LEMMA BudgetFrame ==
  ASSUME BudgetInv, UNCHANGED <<now, usage, spent>>
  PROVE  BudgetInv'
<1>0. now' = now /\ usage' = usage /\ spent' = spent
  OBVIOUS
<1>1. BudgetBound'
  BY <1>0, ZenonT(30) DEF BudgetInv, BudgetBound, Total
<1>2. \A k \in Keys : HistoryOK(spent[k])'
  BY <1>0, ZenonT(30) DEF BudgetInv, HistoryOK
<1>3. \A k \in DOMAIN usage' : /\ usage'[k] \in WindowType'
                            /\ \A s \in 0..now' : Accounts(usage[k], Total(spent[k], s, now), s)'
  <2>1. WindowType' = WindowType
    BY <1>0 DEF WindowType
  <2> QED  BY <1>0, <2>1, ZenonT(30) DEF BudgetInv, Accounts, Total
<1>4. \A k \in Keys \ DOMAIN usage' : \A s \in 0..now' : Idle(Total(spent[k], s, now), s)'
  BY <1>0, ZenonT(30) DEF BudgetInv, Idle, Total
<1> QED  BY <1>0, <1>1, <1>2, <1>3, <1>4, ZenonT(30) DEF BudgetInv

\* TokenBudget.Allow keeps the invariant.
LEMMA BudgetAllowInv ==
  ASSUME BudgetInv, NEW k \in Keys, NEW n \in Costs, NEW ok \in BOOLEAN,
         BudgetAllow(k, n, ok), now' = now
  PROVE  BudgetInv'
<1>0. now \in 0..MaxNow /\ DOMAIN spent = Keys /\ \A x \in Keys : HistoryOK(spent[x])
  BY DEF BudgetInv
<1>1. MaxTokens \in Nat /\ Minute \in Nat /\ Minute > 0 /\ now \in Nat /\ MaxNow \in Nat /\ n \in Nat
  BY <1>0, LimitsAssumption, SMTT(30) DEF LimitsAssumption
<1>2. CASE MaxTokens = 0
  <2>1. usage' = usage /\ spent' = spent
    BY <1>2, ZenonT(30) DEF BudgetAllow
  <2> QED  BY <2>1, BudgetFrame
<1>3. CASE MaxTokens # 0
  <2> DEFINE u  == Window(k)
             nu == IF ok THEN [u EXCEPT !.tokens = @ + n] ELSE u
             h  == spent[k]
             nh == IF ok THEN Count(h, now, n) ELSE h
             d  == IF ok THEN n ELSE 0
  <2>1. /\ ok = Fits(u, n)
        /\ usage' = Put(PrunedUsage, k, nu)
        /\ spent' = IF ok THEN [spent EXCEPT ![k] = Count(@, now, n)] ELSE spent
    BY <1>3, ZenonT(30) DEF BudgetAllow
  <2>2. DOMAIN spent' = Keys /\ \A x \in Keys : spent'[x] = IF x = k THEN nh ELSE spent[x]
    BY <1>0, <2>1, ZenonT(30)
  <2> HIDE DEF nu
  <2>3. /\ DOMAIN usage' = DOMAIN PrunedUsage \cup {k}
        /\ usage'[k] = nu
        /\ \A x \in DOMAIN PrunedUsage : x # k => usage'[x] = usage[x]
    <3>1. usage' = Put(PrunedUsage, k, nu)
      BY <2>1
    <3>2. \A x \in DOMAIN PrunedUsage : PrunedUsage[x] = usage[x]
      BY PrunedUsageOK
    <3>3. /\ DOMAIN Put(PrunedUsage, k, nu) = DOMAIN PrunedUsage \cup {k}
          /\ Put(PrunedUsage, k, nu)[k] = nu
          /\ \A x \in DOMAIN PrunedUsage : x # k => Put(PrunedUsage, k, nu)[x] = PrunedUsage[x]
      BY ZenonT(30) DEF Put
    <3> QED  BY <3>1, <3>2, <3>3, ZenonT(30)
  <2>4. DOMAIN PrunedUsage \subseteq DOMAIN usage /\ DOMAIN usage \subseteq Keys
    BY PrunedUsageOK DEF BudgetInv
  <2>5. /\ u \in WindowType
        /\ now <= u.resetAt
        /\ \A s \in 0..now : Accounts(u, Total(h, s, now), s)
    BY WindowOK
  <2>6. HistoryOK(h) /\ \A s \in 0..now : Total(h, s, now) \in Int
    BY <1>0, TotalInt DEF HistoryOK
  <2> HIDE DEF u, h
  <2>7. /\ HistoryOK(nh)
        /\ \A t \in 0..now : \A s \in 0..t : t # now => Total(nh, s, t) = Total(h, s, t)
        /\ \A s \in 0..now : Total(nh, s, now) = Total(h, s, now) + d
    <3>1. CASE ok
      BY <1>0, <1>1, <2>6, <3>1, CountTotal
    <3>2. CASE ~ok
      BY <2>6, <3>2, SMTT(30)
    <3> QED  BY <3>1, <3>2
  <2>8. u.tokens \in 0..MaxTokens /\ u.resetAt \in Minute..(now + Minute)
    BY <2>5 DEF WindowType
  <2>9. /\ nu \in WindowType
        /\ nu.resetAt = u.resetAt
        /\ nu.tokens = u.tokens + d
    <3>1. CASE ok
      <4>1. u.tokens + n \in 0..MaxTokens
        <5>1. u.tokens + n <= MaxTokens
          BY <2>1, <3>1, ZenonT(30) DEF Fits
        <5> QED  BY <1>1, <2>8, <5>1, SMTT(30)
      <4>2. nu = [u EXCEPT !.tokens = u.tokens + n]
        BY <3>1, ZenonT(30) DEF nu
      <4>3. nu \in WindowType /\ nu.tokens = u.tokens + n /\ nu.resetAt = u.resetAt
        BY <2>5, <4>1, <4>2, WindowUpdate, ZenonT(30)
      <4> QED  BY <3>1, <4>3, ZenonT(30)
    <3>2. CASE ~ok
      <4>1. nu = u
        BY <3>2 DEF nu
      <4>2. u.tokens = u.tokens + 0
        BY <2>8, SMTT(30)
      <4> QED  BY <2>5, <3>2, <4>1, <4>2, ZenonT(30)
    <3> QED  BY <3>1, <3>2
  <2>10. d \in Nat
    BY <1>1
  <2> HIDE DEF nh, d
  <2>11. ASSUME NEW s \in 0..now  PROVE Accounts(nu, Total(nh, s, now), s)
    <3> DEFINE g == Total(h, s, now)
    <3>1. g \in Int /\ Total(nh, s, now) = g + d
      BY <2>6, <2>7
    <3>2. /\ s + Minute >= u.resetAt => g <= u.tokens
          /\ s + 2 * Minute >= u.resetAt => g <= MaxTokens + u.tokens
      BY <2>5 DEF Accounts
    <3> HIDE DEF g
    <3>3. /\ s + Minute >= u.resetAt => g + d <= u.tokens + d
          /\ s + 2 * Minute >= u.resetAt => g + d <= MaxTokens + (u.tokens + d)
          /\ ~(s > u.resetAt)
      BY <1>1, <2>5, <2>8, <2>10, <3>1, <3>2, SMTT(30)
    <3> QED  BY <2>9, <3>1, <3>3, ZenonT(30) DEF Accounts
  <2>12. now' \in 0..MaxNow /\ WindowType' = WindowType
    BY <1>0 DEF WindowType
  <2>13. DOMAIN usage' \subseteq Keys
    BY <2>3, <2>4
  <2>14. ASSUME NEW x \in Keys  PROVE HistoryOK(spent[x])'
    <3>1. HistoryOK(spent'[x])
      BY <1>0, <2>2, <2>7, ZenonT(30)
    <3> QED  BY <3>1 DEF HistoryOK
  <2>15. ASSUME NEW x \in DOMAIN usage'
         PROVE  /\ usage'[x] \in WindowType
                /\ \A s \in 0..now : Accounts(usage'[x], Total(spent'[x], s, now), s)
    <3>1. CASE x = k
      BY <2>2, <2>3, <2>9, <2>11, <3>1
    <3>2. CASE x # k
      <4>1. x \in DOMAIN PrunedUsage /\ x \in DOMAIN usage /\ x \in Keys
        BY <2>3, <2>4, <3>2
      <4>2. usage'[x] = usage[x] /\ spent'[x] = spent[x]
        BY <2>2, <2>3, <3>2, <4>1
      <4> QED  BY <4>1, <4>2 DEF BudgetInv
    <3> QED  BY <3>1, <3>2
  <2>16. ASSUME NEW x \in Keys \ DOMAIN usage', NEW s \in 0..now
         PROVE  Idle(Total(spent'[x], s, now), s)
    <3>1. x # k /\ x \notin DOMAIN PrunedUsage /\ spent'[x] = spent[x]
      BY <2>2, <2>3
    <3> QED  BY <3>1, PrunedIdle
  <2>17. BudgetBound'
    <3> SUFFICES ASSUME NEW x \in Keys, NEW t \in 0..now, NEW s \in 0..t, t <= s + Minute
                 PROVE  Total(spent'[x], s, t) <= 2 * MaxTokens
      BY DEF BudgetBound, Total
    <3>1. CASE x # k \/ t # now
      <4>1. Total(spent'[x], s, t) = Total(spent[x], s, t)
        BY <2>2, <2>7, <3>1 DEF h
      <4>2. MaxTokens > 0
        BY <1>1, <1>3, SMTT(30)
      <4>3. Total(spent[x], s, t) <= 2 * MaxTokens
        BY <4>2 DEF BudgetInv, BudgetBound
      <4> QED  BY <4>1, <4>3
    <3>2. CASE x = k /\ t = now
      <4> DEFINE g == Total(nh, s, now)
      <4>1. spent'[x] = nh /\ Accounts(nu, g, s) /\ g \in Int
        <5>1. s \in 0..now
          BY <3>2
        <5>2. Total(nh, s, now) \in Int
          BY <1>0, <2>7, <5>1, TotalInt DEF HistoryOK
        <5> QED  BY <2>2, <2>11, <3>2, <5>1, <5>2
      <4>2. nu.tokens \in 0..MaxTokens /\ nu.resetAt \in Minute..(now + Minute)
        BY <2>9 DEF WindowType
      <4>3. s + 2 * Minute >= nu.resetAt => g <= MaxTokens + nu.tokens
        BY <4>1 DEF Accounts
      <4> HIDE DEF g
      <4>4. g <= 2 * MaxTokens
        BY <1>1, <3>2, <4>1, <4>2, <4>3, SMTT(30)
      <4> QED  BY <3>2, <4>1, <4>4 DEF g
    <3> QED  BY <3>1, <3>2
  <2>18. \A x \in DOMAIN usage' :
           /\ usage'[x] \in WindowType'
           /\ \A s \in 0..now' : Accounts(usage[x], Total(spent[x], s, now), s)'
    BY <2>12, <2>15, ZenonT(30) DEF Accounts, Total
  <2>19. \A x \in Keys \ DOMAIN usage' : \A s \in 0..now' : Idle(Total(spent[x], s, now), s)'
    BY <2>16, ZenonT(30) DEF Idle, Total
  <2> QED  BY <1>3, <2>2, <2>12, <2>13, <2>14, <2>17, <2>18, <2>19, ZenonT(30) DEF BudgetInv
<1> QED  BY <1>2, <1>3

\* Time passes: no window accounts for less.
LEMMA BudgetTick ==
  ASSUME BudgetInv, Tick
  PROVE  BudgetInv'
<1>0. now \in 0..MaxNow /\ DOMAIN spent = Keys /\ \A x \in Keys : HistoryOK(spent[x])
  BY DEF BudgetInv
<1>1. now < MaxNow /\ now' = now + 1 /\ usage' = usage /\ spent' = spent
  BY DEF Tick, limitVars
<1>2. /\ MaxTokens \in Nat /\ Minute \in Nat /\ Minute > 0 /\ now \in Nat /\ MaxNow \in Nat
      /\ now' \in 0..MaxNow /\ now \in 0..now'
  BY <1>0, <1>1, LimitsAssumption, SMTT(30) DEF LimitsAssumption
<1>3. \A s \in 0..now' : s \in 0..now \/ s = now + 1
  BY <1>1, <1>2, SMTT(30)
<1>4. ASSUME NEW x \in Keys
      PROVE  /\ HistoryOK(spent[x])'
             /\ \A s \in 0..now : /\ Total(spent[x], s, now') = Total(spent[x], s, now)
                                  /\ Total(spent[x], s, now) \in Int
             /\ Total(spent[x], now + 1, now') = 0
  <2> DEFINE h == spent[x]
  <2>1. /\ h \in [0..MaxNow -> Nat]
        /\ \A t \in (now + 1)..MaxNow : h[t] = h[now + 1]
        /\ \A s \in 0..now : Total(h, s, now + 1) = Total(h, s, now)
        /\ Total(h, now + 1, now + 1) = 0
    BY <1>0, <1>1, TickTotal
  <2>2. \A s \in 0..now : Total(h, s, now) \in Int
    BY <1>0, <2>1, TotalInt
  <2>3. HistoryOK(h)'
    BY <1>1, <2>1, ZenonT(30) DEF HistoryOK
  <2> QED  BY <1>1, <2>1, <2>2, <2>3, ZenonT(30)
<1>5. WindowType \subseteq WindowType'
  <2>1. Minute..(now + Minute) \subseteq Minute..(now' + Minute)
    BY <1>1, <1>2, SMTT(30)
  <2> QED  BY <2>1, SMTT(30) DEF WindowType
<1>6. ASSUME NEW x \in DOMAIN usage
      PROVE  /\ usage[x] \in WindowType'
             /\ \A s \in 0..now' : Accounts(usage[x], Total(spent[x], s, now'), s)
  <2>1. /\ x \in Keys
        /\ usage[x] \in WindowType
        /\ \A s \in 0..now : Accounts(usage[x], Total(spent[x], s, now), s)
    BY DEF BudgetInv
  <2>2. usage[x].tokens \in 0..MaxTokens /\ usage[x].resetAt \in Minute..(now + Minute)
    BY <2>1 DEF WindowType
  <2>3. Accounts(usage[x], 0, now + 1)
    BY <1>2, <2>2, SMTT(30) DEF Accounts
  <2>4. ASSUME NEW s \in 0..now'  PROVE Accounts(usage[x], Total(spent[x], s, now'), s)
    <3>1. CASE s \in 0..now
      <4>1. Total(spent[x], s, now') = Total(spent[x], s, now)
        BY <1>4, <2>1, <3>1
      <4> QED  BY <2>1, <3>1, <4>1, ZenonT(30)
    <3>2. CASE s = now + 1
      <4>1. Total(spent[x], s, now') = 0
        BY <1>4, <2>1, <3>2
      <4> QED  BY <2>3, <3>2, <4>1, ZenonT(30)
    <3> QED  BY <1>3, <3>1, <3>2
  <2> QED  BY <1>5, <2>1, <2>4
<1>7. ASSUME NEW x \in Keys \ DOMAIN usage, NEW s \in 0..now', s + Minute >= now'
      PROVE  Total(spent[x], s, now') <= 0
  <2>1. CASE s \in 0..now
    <3>1. Total(spent[x], s, now') = Total(spent[x], s, now)
      BY <1>4, <2>1
    <3>2. s + Minute >= now
      BY <1>1, <1>2, <1>7, <2>1, SMTT(30)
    <3>3. Total(spent[x], s, now) <= 0
      BY <2>1, <3>2 DEF BudgetInv, Idle
    <3> QED  BY <3>1, <3>3
  <2>2. CASE s = now + 1
    <3>1. Total(spent[x], s, now') = 0
      BY <1>4, <2>2
    <3> QED  BY <3>1, SMTT(30)
  <2> QED  BY <1>3, <2>1, <2>2
<1>8. BudgetBound'
  <2> SUFFICES ASSUME MaxTokens > 0, NEW x \in Keys, NEW t \in 0..now', NEW s \in 0..t, t <= s + Minute
               PROVE  Total(spent[x], s, t) <= 2 * MaxTokens
    BY <1>1 DEF BudgetBound, Total
  <2>1. CASE t \in 0..now
    BY <2>1 DEF BudgetInv, BudgetBound
  <2>2. CASE t = now + 1 /\ s \in 0..now
    <3>1. Total(spent[x], s, t) = Total(spent[x], s, now)
      BY <1>1, <1>4, <2>2
    <3>2. now \in 0..now /\ s \in 0..now /\ now <= s + Minute
      BY <1>2, <2>2, SMTT(30)
    <3>3. Total(spent[x], s, now) <= 2 * MaxTokens
      BY <3>2 DEF BudgetInv, BudgetBound
    <3> QED  BY <3>1, <3>3
  <2>3. CASE t = now + 1 /\ s = now + 1
    <3>1. Total(spent[x], s, t) = 0
      BY <1>1, <1>4, <2>3
    <3> QED  BY <1>2, <3>1, SMTT(30)
  <2> QED  BY <1>1, <1>2, <1>3, <2>1, <2>2, <2>3, SMTT(30)
<1>9. \A x \in DOMAIN usage' :
        /\ usage'[x] \in WindowType'
        /\ \A s \in 0..now' : Accounts(usage[x], Total(spent[x], s, now), s)'
  BY <1>1, <1>6, ZenonT(30) DEF Accounts, Total
<1>10. \A x \in Keys \ DOMAIN usage' : \A s \in 0..now' : Idle(Total(spent[x], s, now), s)'
  BY <1>1, <1>7, ZenonT(30) DEF Idle, Total
<1>11. \A x \in Keys : HistoryOK(spent[x])'
  BY <1>4
<1>12. /\ DOMAIN spent' = Keys /\ DOMAIN usage' \subseteq Keys
       /\ MaxTokens = 0 => DOMAIN usage' = {}
  BY <1>1, ZenonT(30) DEF BudgetInv
<1> QED  BY <1>2, <1>8, <1>9, <1>10, <1>11, <1>12, ZenonT(30) DEF BudgetInv

\* A new budget has no windows and has let nothing be spent.
LEMMA BudgetInit ==
  ASSUME LimitsInit
  PROVE  BudgetInv
<1>1. now = 0 /\ DOMAIN usage = {} /\ spent = [k \in Keys |-> [t \in 0..MaxNow |-> 0]]
  BY DEF LimitsInit, Empty
<1>2. MaxTokens \in Nat /\ Minute \in Nat /\ MaxNow \in Nat /\ now \in 0..MaxNow
  BY <1>1, LimitsAssumption, SMTT(30) DEF LimitsAssumption
<1>3. ASSUME NEW k \in Keys
      PROVE  HistoryOK(spent[k]) /\ \A t \in 0..now : \A s \in 0..t : Total(spent[k], s, t) = 0
  <2>1. spent[k] = [t \in 0..MaxNow |-> 0]
    BY <1>1
  <2>2. HistoryOK(spent[k])
    BY <1>1, <1>2, <2>1, SMTT(30) DEF HistoryOK
  <2> QED  BY <1>1, <1>2, <2>1, <2>2, SMTT(30) DEF Total
<1>4. \A k \in Keys : \A t \in 0..now : \A s \in 0..t :
        Total(spent[k], s, t) <= 0 /\ Total(spent[k], s, t) <= 2 * MaxTokens
  BY <1>2, <1>3, SMTT(30)
<1>5. BudgetBound
  BY <1>4 DEF BudgetBound
<1>6. \A k \in Keys : \A s \in 0..now : Idle(Total(spent[k], s, now), s)
  <2>1. now \in 0..now
    BY <1>1, SMTT(30)
  <2> QED  BY <1>4, <2>1 DEF Idle
<1> QED  BY <1>1, <1>2, <1>3, <1>5, <1>6, ZenonT(30) DEF BudgetInv

-----------------------------------------------------------------------------
(* The theorems.                                                           *)

\* Both invariants hold whatever is asked of the two limiters.
THEOREM LimitsInvariant == LimitsSpec => []LimitsInv
<1>1. LimitsInit => LimitsInv
  BY RateInit, BudgetInit DEF LimitsInv
<1>2. LimitsInv /\ [LimitsNext]_<<limitVars, now>> => LimitsInv'
  <2> SUFFICES ASSUME LimitsInv, [LimitsNext]_<<limitVars, now>>
               PROVE  LimitsInv'
    OBVIOUS
  <2>0. RateInv /\ BudgetInv
    BY DEF LimitsInv
  <2>1. CASE Tick
    BY <2>0, <2>1, RateTick, BudgetTick DEF LimitsInv
  <2>2. ASSUME NEW k \in Keys, NEW ok \in BOOLEAN,
               RateAllow(k, ok) /\ UNCHANGED <<now, usage, spent>>
        PROVE  LimitsInv'
    BY <2>0, <2>2, RateAllowInv, BudgetFrame DEF LimitsInv
  <2>3. ASSUME NEW k \in Keys, NEW ok \in BOOLEAN, NEW n \in Costs,
               BudgetAllow(k, n, ok) /\ UNCHANGED <<now, buckets, granted>>
        PROVE  LimitsInv'
    BY <2>0, <2>3, BudgetAllowInv, RateFrame DEF LimitsInv
  <2>4. CASE UNCHANGED <<limitVars, now>>
    BY <2>0, <2>4, RateFrame, BudgetFrame DEF LimitsInv, limitVars
  <2> QED  BY <2>1, <2>2, <2>3, <2>4 DEF LimitsNext
<1> QED  BY <1>1, <1>2, PTL DEF LimitsSpec

\* RateLimiter.Allow never lets more requests of one key through, in any
\* stretch of time, than a full bucket and the rate for that stretch.
THEOREM RateIsBounded == LimitsSpec => []RateBound
<1>1. LimitsInv => RateBound
  BY DEF LimitsInv, RateInv
<1> QED  BY <1>1, LimitsInvariant, PTL

\* TokenBudget.Allow never lets more than twice the budget of one key be
\* spent within a minute.
THEOREM BudgetIsBounded == LimitsSpec => []BudgetBound
<1>1. LimitsInv => BudgetBound
  BY DEF LimitsInv, BudgetInv
<1> QED  BY <1>1, LimitsInvariant, PTL
=============================================================================
