------------------------------- MODULE Limits -------------------------------
(***************************************************************************)
(* The two limiters of the MCP proxy (internal/mcp/safety.go), each behind *)
(* a mutex of its own: RateLimiter, a token bucket per key that is         *)
(* refilled when it is asked, and TokenBudget, a fixed window per key.     *)
(* Both forget old keys when their maps grow.                              *)
(*                                                                         *)
(* Time is counted in ticks; a refill is exact here where the code         *)
(* computes it in floating point.                                          *)
(***************************************************************************)
EXTENDS Integers, FiniteSets

CONSTANTS
  Keys,         \* client addresses, port included
  PerMin,       \* RateLimiter.perMin; 0 is no limit
  MaxTokens,    \* TokenBudget.maxTokens; 0 is no limit
  Costs,        \* estimates EstimateTokens may return
  Minute,       \* ticks of a minute, the unit of the rate and the period
  StaleAfter,   \* ticks after which pruneLocked drops an entry (5 minutes)
  PruneAbove,   \* entries a map holds before it is pruned (1000)
  PruneEvery,   \* and the multiple at which it is (64)
  MaxNow        \* bound: ticks of the clock

ASSUME LimitsAssumption ==
  /\ PerMin \in Nat
  /\ MaxTokens \in Nat
  /\ Costs \subseteq Nat
  /\ Minute \in Nat \ {0}
  /\ StaleAfter \in Nat /\ StaleAfter >= Minute
  /\ PruneAbove \in Nat
  /\ PruneEvery \in Nat \ {0}
  /\ MaxNow \in Nat

VARIABLES
  now,      \* time.Now()
  buckets,  \* RateLimiter.buckets: key -> [tokens, last]
  usage,    \* TokenBudget.usage: key -> [tokens, resetAt]
  granted,  \* history: key -> the requests it was allowed up to each tick
  spent     \* history: key -> the tokens it was allowed up to each tick

limitVars == <<buckets, usage, granted, spent>>

Empty == [k \in {} |-> 0]

\* The map f with k set to v.
Put(f, k, v) == [x \in DOMAIN f \cup {k} |-> IF x = k THEN v ELSE f[x]]

Only(f, S) == [x \in DOMAIN f \cap S |-> f[x]]

\* The history h with n more allowed at tick t.
Count(h, t, n) == [i \in DOMAIN h |-> IF i >= t THEN h[i] + n ELSE h[i]]

Crowded(f) ==
  /\ Cardinality(DOMAIN f) > PruneAbove
  /\ Cardinality(DOMAIN f) % PruneEvery = 0

LimitsInit ==
  /\ now = 0
  /\ buckets = Empty
  /\ usage = Empty
  /\ granted = [k \in Keys |-> [t \in 0..MaxNow |-> 0]]
  /\ spent = [k \in Keys |-> [t \in 0..MaxNow |-> 0]]

-----------------------------------------------------------------------------
(* RateLimiter.                                                            *)

\* Mutant of PrunedBuckets: every entry is as good as stale.
PrunedBuckets_All == IF Crowded(buckets) THEN Empty ELSE buckets

PrunedBuckets ==
  IF Crowded(buckets)
  THEN Only(buckets, {k \in DOMAIN buckets : buckets[k].last + StaleAfter >= now})
  ELSE buckets

\* The bucket of k with the tokens that have accrued since its last refill;
\* a fraction of a token is left for the next time, unless one accrued.
Refilled(k) ==
  LET b == IF k \in DOMAIN PrunedBuckets THEN PrunedBuckets[k]
           ELSE [tokens |-> PerMin, last |-> now]
      refill == ((now - b.last) * PerMin) \div Minute
  IN  IF refill = 0 THEN b
      ELSE [tokens |-> IF b.tokens + refill > PerMin THEN PerMin ELSE b.tokens + refill,
            last |-> now]

\* RateLimiter.Allow returns ok.
RateAllow(k, ok) ==
  IF PerMin = 0
  THEN ok /\ UNCHANGED <<buckets, granted>>
  ELSE LET b == Refilled(k)
       IN  /\ ok = (b.tokens > 0)
           /\ buckets' = Put(PrunedBuckets, k, IF ok THEN [b EXCEPT !.tokens = @ - 1] ELSE b)
           /\ granted' = IF ok THEN [granted EXCEPT ![k] = Count(@, now, 1)] ELSE granted

-----------------------------------------------------------------------------
(* TokenBudget.                                                            *)

PrunedUsage ==
  IF Crowded(usage)
  THEN Only(usage, {k \in DOMAIN usage : usage[k].resetAt + StaleAfter >= now})
  ELSE usage

\* The window of k, a new one once the last has passed.
Window(k) ==
  IF k \in DOMAIN PrunedUsage /\ now <= PrunedUsage[k].resetAt
  THEN PrunedUsage[k]
  ELSE [tokens |-> 0, resetAt |-> now + Minute]

\* Mutant of Fits: only what was spent before counts.
Fits_Before(u, n) == u.tokens < MaxTokens

Fits(u, n) == u.tokens + n <= MaxTokens

\* TokenBudget.Allow for n tokens returns ok.
BudgetAllow(k, n, ok) ==
  IF MaxTokens = 0
  THEN ok /\ UNCHANGED <<usage, spent>>
  ELSE LET u == Window(k)
       IN  /\ ok = Fits(u, n)
           /\ usage' = Put(PrunedUsage, k, IF ok THEN [u EXCEPT !.tokens = @ + n] ELSE u)
           /\ spent' = IF ok THEN [spent EXCEPT ![k] = Count(@, now, n)] ELSE spent

-----------------------------------------------------------------------------
Tick ==
  /\ now < MaxNow
  /\ now' = now + 1
  /\ UNCHANGED limitVars

\* The limiters by themselves, asked for any key at any time.
LimitsNext ==
  \/ Tick
  \/ \E k \in Keys, ok \in BOOLEAN :
       \/ RateAllow(k, ok) /\ UNCHANGED <<now, usage, spent>>
       \/ \E n \in Costs : BudgetAllow(k, n, ok) /\ UNCHANGED <<now, buckets, granted>>

LimitsSpec == LimitsInit /\ [][LimitsNext]_<<limitVars, now>>

-----------------------------------------------------------------------------
\* What the history h was allowed from tick s to tick t, both included.
Total(h, s, t) == h[t] - (IF s = 0 THEN 0 ELSE h[s - 1])

\* No stretch of time sees more requests of one key allowed than a full
\* bucket and what the rate gives for that stretch, rounded up, however the
\* bucket was refilled, pruned and created again in between.
RateBound ==
  PerMin > 0 =>
    \A k \in Keys : \A t \in 0..now : \A s \in 0..t :
      (Total(granted[k], s, t) - PerMin) * Minute < (t - s) * PerMin + Minute

\* No minute sees more than twice the budget of one key spent, wherever the
\* minute starts; requests and responses draw on the same budget.
BudgetBound ==
  MaxTokens > 0 =>
    \A k \in Keys : \A t \in 0..now : \A s \in 0..t :
      t <= s + Minute => Total(spent[k], s, t) <= 2 * MaxTokens
=============================================================================
