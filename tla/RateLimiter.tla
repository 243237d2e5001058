----------------------------- MODULE RateLimiter -----------------------------
(***************************************************************************)
(* middleware/rate-limit.ts and route-costs.ts: one in-memory token bucket  *)
(* per tenant, refilled by elapsed wall-clock time, against a clock that    *)
(* may be stepped backwards or forwards.                                    *)
(*                                                                          *)
(* Time is counted in 1/Scale seconds and tokens in 1/Scale tokens (the     *)
(* code: milliseconds, Scale = 1000), so that a refill is exact.            *)
(***************************************************************************)
EXTENDS Integers

CONSTANTS
  Tenant,
  Scale,       \* clock units per second
  Rate,        \* RATE_LIMIT_PER_SECOND
  Burst,       \* RATE_LIMIT_BURST
  ScanCost,    \* VOIDED_SCAN_RATE_LIMIT_COST
  MaxClock,    \* bound: time
  MaxAdmitted  \* bound: cost admitted in the observed window

ASSUME RateLimiterAssumption ==
  /\ Scale \in Nat \ {0} /\ Rate \in Nat \ {0} /\ Burst \in Nat \ {0}
  /\ ScanCost \in Nat \ {0} /\ MaxClock \in Nat /\ MaxAdmitted \in Nat

VARIABLES
  clock,    \* Date.now()
  high,     \* the latest time the clock has shown
  bucket,   \* buckets: the Map, by tenant
  window,   \* observation: cost admitted per tenant since its bucket stood at `from'
  promise   \* the last Retry-After given to each tenant, if nothing was admitted since

vars == <<clock, high, bucket, window, promise>>

Full == Burst * Scale

(* A tenant not seen yet has no bucket.                                     *)
Bucket == [seen : BOOLEAN, tokens : 0..Full, lastRefill : Nat]

TypeOK ==
  /\ clock \in Nat /\ high \in Nat
  /\ bucket \in [Tenant -> Bucket]
  /\ window \in [Tenant -> [from : Nat, admitted : Nat]]
  /\ promise \in [Tenant -> [made : BOOLEAN, cost : Nat, at : Nat]]

NoPromise == [made |-> FALSE, cost |-> 0, at |-> 0]

Init ==
  /\ clock \in 0..MaxClock /\ high = clock
  /\ bucket = [t \in Tenant |-> [seen |-> FALSE, tokens |-> Full, lastRefill |-> 0]]
  /\ window = [t \in Tenant |-> [from |-> 0, admitted |-> 0]]
  /\ promise = [t \in Tenant |-> NoPromise]

-----------------------------------------------------------------------------
(* Cost: rateLimitCostForPath, clamped to what the bucket can ever hold.    *)

RouteCost == {1, ScanCost}

AtMost(a, b) == IF a <= b THEN a ELSE b
AtLeast(a, b) == IF a >= b THEN a ELSE b

CostUnclamped(requested) == requested

Cost(requested) == AtLeast(1, AtMost(Burst, requested))

(* The refill at the head of take(): no refill, and no move of lastRefill,  *)
(* when the clock went back.                                                *)
RefilledMovingBack(t) ==
  LET b == bucket[t]
      elapsed == AtLeast(0, clock - b.lastRefill)
  IN IF ~b.seen THEN [seen |-> TRUE, tokens |-> Full, lastRefill |-> clock]
     ELSE [b EXCEPT !.tokens = AtMost(Full, @ + elapsed * Rate), !.lastRefill = clock]

Refilled(t) ==
  LET b == bucket[t]
      elapsed == AtLeast(0, clock - b.lastRefill)
  IN IF ~b.seen THEN [seen |-> TRUE, tokens |-> Full, lastRefill |-> clock]
     ELSE IF elapsed > 0
          THEN [b EXCEPT !.tokens = AtMost(Full, @ + elapsed * Rate), !.lastRefill = clock]
          ELSE b

(* Math.max(1, Math.ceil(deficit / refillPerSecond)), in seconds.           *)
RetryAfter(deficit) == AtLeast(1, (deficit + Rate * Scale - 1) \div (Rate * Scale))

-----------------------------------------------------------------------------
(* take(): refuse without debiting, or debit.                               *)

Admit(t, requested) ==
  LET b == Refilled(t)
      cost == Cost(requested)
  IN /\ window[t].admitted + cost <= MaxAdmitted
     /\ b.tokens >= cost * Scale
     /\ bucket' = [bucket EXCEPT ![t] = [b EXCEPT !.tokens = @ - cost * Scale]]
     /\ window' = [window EXCEPT ![t] =
                     [from |-> IF bucket[t].seen THEN @.from ELSE clock,
                      admitted |-> @.admitted + cost]]
     /\ promise' = [promise EXCEPT ![t] = NoPromise]
     /\ UNCHANGED <<clock, high>>

(* A promise is recorded when the clock is not behind the bucket's last     *)
(* refill: after a step back the deficit is counted from that refill, not   *)
(* from now.                                                                *)
Refuse(t, requested) ==
  LET b == Refilled(t)
      cost == Cost(requested)
  IN /\ b.tokens < cost * Scale
     /\ bucket' = [bucket EXCEPT ![t] = b]
     /\ promise' = [promise EXCEPT ![t] =
                      IF clock >= b.lastRefill
                      THEN [made |-> TRUE, cost |-> cost,
                            at |-> clock + Scale * RetryAfter(cost * Scale - b.tokens)]
                      ELSE NoPromise]
     /\ UNCHANGED <<clock, high, window>>

(* Time passes, or the clock is stepped.                                    *)
SetClock(c) ==
  /\ clock' = c
  /\ high' = AtLeast(high, c)
  /\ UNCHANGED <<bucket, window, promise>>

(* Observation starts anew at what the bucket knows.                        *)
OpenWindow(t) ==
  /\ bucket[t].seen /\ window[t].admitted > 0
  /\ window' = [window EXCEPT ![t] = [from |-> bucket[t].lastRefill, admitted |-> 0]]
  /\ UNCHANGED <<clock, high, bucket, promise>>

Next ==
  \/ \E t \in Tenant, r \in RouteCost : Admit(t, r) \/ Refuse(t, r)
  \/ \E t \in Tenant : OpenWindow(t)
  \/ \E c \in 0..MaxClock : SetClock(c)

Spec == Init /\ [][Next]_vars

-----------------------------------------------------------------------------
(* Properties.                                                              *)

(* In every window a tenant is admitted at most the burst plus the refill    *)
(* of the time that passed, however the clock is stepped meanwhile: stepping *)
(* back and forth grants the same time twice to nobody.                     *)
AdmittedBounded ==
  \A t \in Tenant :
    window[t].admitted * Scale <= Full + Rate * (high - window[t].from)

(* Retry-After is enough: the refused request is admitted at that time if    *)
(* nothing else of the tenant was, in particular a route that costs more     *)
(* than the burst is not refused for ever, and refusals cost nothing.       *)
RetryAfterSuffices ==
  \A t \in Tenant :
    (promise[t].made /\ clock >= promise[t].at) => Refilled(t).tokens >= promise[t].cost * Scale

=============================================================================
