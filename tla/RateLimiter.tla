---------------------------- MODULE RateLimiter ----------------------------
(***************************************************************************)
(* The in-process token buckets in front of the login and the callback     *)
(* routes (internal/platform/httpx/ratelimit.go).  Tokens are counted in   *)
(* 1/Window of a request, so that a tick refills Rate of them and a        *)
(* request costs Window.  A request reads the clock before it takes the    *)
(* lock, so requests may use the table in another order than their times.  *)
(***************************************************************************)
EXTENDS Integers, FiniteSets

CONSTANTS ClientKeys, LimitRate, LimitWindow, LimitBurst, MaxKeys,
          Throttled,    \* requests in flight
          LimiterEnd    \* last instant of the model

ASSUME LimiterAssumption ==
  /\ LimitRate \in Nat \ {0} /\ LimitWindow \in Nat \ {0} /\ LimitBurst \in Nat \ {0}
  /\ MaxKeys \in Nat \ {0} /\ LimiterEnd \in Nat

VARIABLES buckets,   \* the keys in the table, each with its bucket
          instant,
          throttled  \* the requests: their key and the time they read

limiterVars == <<buckets, instant, throttled>>

Full == LimitBurst * LimitWindow

IdleTTL == 4 * LimitWindow

Waiting == [pc : {"free", "timed"}, key : ClientKeys, at : 0..LimiterEnd]

LimiterInit ==
  /\ buckets = [k \in {} |-> [tokens |-> 0, lastSeen |-> 0]] /\ instant = 0
  /\ throttled \in [Throttled -> {w \in Waiting : w.pc = "free" /\ w.at = 0}]

ReadClock(r, k) ==
  /\ throttled[r].pc = "free"
  /\ throttled' = [throttled EXCEPT ![r] = [pc |-> "timed", key |-> k, at |-> instant]]
  /\ UNCHANGED <<buckets, instant>>

(* Mutant: only idle keys are dropped. *)
EvictIdle(now) ==
  IF Cardinality(DOMAIN buckets) < MaxKeys THEN DOMAIN buckets
  ELSE {k \in DOMAIN buckets : now - buckets[k].lastSeen < IdleTTL}

(* evictLocked: a full table loses its idle keys, or else everything. *)
evictLocked(now) ==
  LET live == {k \in DOMAIN buckets : now - buckets[k].lastSeen < IdleTTL}
  IN  IF Cardinality(DOMAIN buckets) < MaxKeys THEN DOMAIN buckets
      ELSE IF Cardinality(live) >= MaxKeys THEN {} ELSE live

(* Mutant: a bucket that was idle for long holds more than its burst. *)
Uncapped(b, now) ==
  IF now <= b.lastSeen THEN b.tokens ELSE b.tokens + (now - b.lastSeen) * LimitRate

(* Refilled since it was last seen, up to its burst. *)
Refilled(b, now) ==
  LET more == b.tokens + (now - b.lastSeen) * LimitRate
  IN  IF now <= b.lastSeen THEN b.tokens ELSE IF more < Full THEN more ELSE Full

(* allow, under the lock; a request that finds no whole token is refused. *)
allow(r) ==
  LET k      == throttled[r].key
      now    == throttled[r].at
      old    == k \in DOMAIN buckets
      kept   == IF old THEN DOMAIN buckets ELSE evictLocked(now)
      tokens == IF old THEN Refilled(buckets[k], now) ELSE Full
      left   == IF tokens < LimitWindow THEN tokens ELSE tokens - LimitWindow
  IN  /\ throttled[r].pc = "timed"
      /\ buckets' = [q \in kept \cup {k} |-> IF q = k THEN [tokens |-> left, lastSeen |-> now] ELSE buckets[q]]
      /\ throttled' = [throttled EXCEPT ![r].pc = "free"]
      /\ UNCHANGED instant

ClockTicks ==
  /\ instant < LimiterEnd
  /\ instant' = instant + 1
  /\ UNCHANGED <<buckets, throttled>>

LimiterNext ==
  \/ ClockTicks
  \/ \E r \in Throttled : allow(r) \/ \E k \in ClientKeys : ReadClock(r, k)

LimiterSpec == LimiterInit /\ [][LimiterNext]_limiterVars

----------------------------------------------------------------------------
(* Properties.                                                             *)

(* Every variable has its type; a bucket holds between nothing and its     *)
(* burst, also when requests use the table in another order than their     *)
(* times.                                                                  *)
LimiterTypeOK ==
  /\ instant \in 0..LimiterEnd
  /\ throttled \in [Throttled -> Waiting]
  /\ DOMAIN buckets \in SUBSET ClientKeys
  /\ buckets \in [DOMAIN buckets -> [tokens : 0..Full, lastSeen : 0..LimiterEnd]]

(* "never lets memory grow unbounded": the table never holds more keys     *)
(* than its limit, whatever the addresses and the order of the requests    *)
(* (evictLocked runs before a key is added, and only then).                *)
TableBounded == Cardinality(DOMAIN buckets) <= MaxKeys

=============================================================================
