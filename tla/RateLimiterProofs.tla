-------------------------- MODULE RateLimiterProofs --------------------------
(***************************************************************************)
(* The bound on what a tenant is admitted, and the promise of Retry-After,  *)
(* for every rate, burst, cost and clock resolution.                        *)
(***************************************************************************)
EXTENDS RateLimiter, TLAPS

(* Every token spent or left in the bucket was in the burst or was refilled  *)
(* for a stretch of time that no other refill covers.                        *)
Conserved(t) ==
  IF bucket[t].seen
  THEN /\ window[t].from <= bucket[t].lastRefill
       /\ bucket[t].lastRefill <= high
       /\ window[t].admitted * Scale + bucket[t].tokens
            <= Full + Rate * (bucket[t].lastRefill - window[t].from)
  ELSE window[t].admitted = 0 /\ window[t].from = 0 /\ bucket[t].tokens = Full

IInv ==
  /\ TypeOK
  /\ clock <= high
  /\ \A t \in Tenant : Conserved(t)

LEMMA ScaleFacts == Full \in Nat /\ \A n \in Nat : n * Scale \in Nat /\ Rate * n \in Nat
BY RateLimiterAssumption DEF Full

(* Refilling spends time once: what it adds is paid for by the advance of    *)
(* lastRefill.                                                               *)
LEMMA RefillConserves ==
  ASSUME IInv, NEW t \in Tenant
  PROVE  LET b == Refilled(t)
             from == IF bucket[t].seen THEN window[t].from ELSE clock
         IN /\ b \in Bucket /\ b.seen
            /\ from <= b.lastRefill /\ b.lastRefill <= high
            /\ window[t].admitted * Scale + b.tokens <= Full + Rate * (b.lastRefill - from)
<1> DEFINE old == bucket[t]
<1>1. /\ old \in Bucket /\ clock \in Nat /\ high \in Nat /\ clock <= high
      /\ window[t].from \in Nat /\ window[t].admitted \in Nat /\ Full \in Nat
      /\ Rate \in Nat /\ Scale \in Nat
  BY ScaleFacts, RateLimiterAssumption DEF IInv, TypeOK
<1>2. CASE ~old.seen
  <2>1. Refilled(t) = [seen |-> TRUE, tokens |-> Full, lastRefill |-> clock]
    BY <1>2 DEF Refilled
  <2>2. window[t].admitted = 0
    BY <1>2 DEF IInv, Conserved
  <2>3. Full \in 0..Full /\ Rate * (clock - clock) = 0 /\ 0 * Scale = 0
    BY <1>1
  <2> QED
    BY <1>1, <1>2, <2>1, <2>2, <2>3 DEF Bucket
<1>3. CASE old.seen /\ clock <= old.lastRefill
  <2>1. Refilled(t) = old
    BY <1>1, <1>3 DEF Refilled, AtLeast, Bucket
  <2> QED
    BY <1>1, <1>3, <2>1 DEF IInv, Conserved
<1>4. CASE old.seen /\ clock > old.lastRefill
  <2> DEFINE more == old.tokens + (clock - old.lastRefill) * Rate
             tokens == AtMost(Full, more)
  <2>0. old.lastRefill \in Nat /\ old.tokens \in 0..Full
    BY <1>1 DEF Bucket
  <2>1. Refilled(t) = [old EXCEPT !.tokens = tokens, !.lastRefill = clock]
    <3>1. AtLeast(0, clock - old.lastRefill) = clock - old.lastRefill /\ clock - old.lastRefill > 0
      BY <1>1, <1>4, <2>0 DEF AtLeast
    <3> QED
      BY <1>4, <3>1, Zenon DEF Refilled
  <2>2. (clock - old.lastRefill) * Rate \in Nat
    BY <1>1, <1>4, <2>0, ScaleFacts
  <2>3. tokens \in 0..Full /\ tokens <= more
    BY <1>1, <2>0, <2>2 DEF AtMost
  <2>4. /\ window[t].from <= old.lastRefill
        /\ window[t].admitted * Scale + old.tokens
             <= Full + Rate * (old.lastRefill - window[t].from)
    BY <1>4 DEF IInv, Conserved
  <2>5. Rate * (clock - window[t].from)
          = (clock - old.lastRefill) * Rate + Rate * (old.lastRefill - window[t].from)
    BY <1>1, <2>0
  <2>6. window[t].admitted * Scale \in Nat /\ Rate * (old.lastRefill - window[t].from) \in Nat
    BY <1>1, <2>0, <2>4, ScaleFacts
  <2>7. window[t].admitted * Scale + tokens <= Full + Rate * (clock - window[t].from)
    <3> DEFINE a == window[t].admitted * Scale
               x == (clock - old.lastRefill) * Rate
               y == Rate * (old.lastRefill - window[t].from)
    <3>1. a \in Nat /\ x \in Nat /\ y \in Nat /\ tokens \in Nat /\ tokens <= old.tokens + x
          /\ a + old.tokens <= Full + y /\ old.tokens \in Nat
      BY <2>0, <2>2, <2>3, <2>4, <2>6
    <3>2. Rate * (clock - window[t].from) = x + y
      BY <2>5
    <3> HIDE DEF a, x, y, tokens
    <3>3. a + tokens <= Full + (x + y)
      BY <1>1, <3>1
    <3> QED
      BY <3>2, <3>3 DEF a
  <2> HIDE DEF tokens
  <2>8. /\ Refilled(t).seen /\ Refilled(t).tokens = tokens /\ Refilled(t).lastRefill = clock
        /\ Refilled(t) \in Bucket
    BY <1>1, <1>4, <2>1, <2>3 DEF Bucket
  <2> QED
    BY <1>1, <1>4, <2>0, <2>4, <2>7, <2>8
<1> QED
  BY <1>1, <1>2, <1>3, <1>4 DEF Bucket

(* Math.ceil: in RetryAfter seconds the refill makes up for the deficit.     *)
LEMMA RetryAfterCovers ==
  ASSUME NEW d \in Nat
  PROVE  RetryAfter(d) \in Nat /\ Rate * (Scale * RetryAfter(d)) >= d
<1> DEFINE k == Rate * Scale
           a == d + k - 1
           r == RetryAfter(d)
<1>1. Rate \in Nat /\ Scale \in Nat /\ k \in Nat /\ k > 0
  BY RateLimiterAssumption
<1>2. /\ a \div k \in Int /\ k * (a \div k) > a - k
  <2> HIDE DEF k
  <2>1. a \in Int
    BY <1>1
  <2> HIDE DEF a
  <2> QED
    BY <1>1, <2>1
<1>3. r \in Nat /\ r >= a \div k
  BY <1>2 DEF RetryAfter, AtLeast
<1> HIDE DEF r
<1>4. k * r >= k * (a \div k)
  <2> HIDE DEF k, a
  <2> QED
    BY <1>1, <1>2, <1>3
<1>5. k * r \in Nat /\ k * r = Rate * (Scale * r)
  BY <1>1, <1>3
<1>6. k * r >= d
  <2> DEFINE q == k * (a \div k)
  <2>1. q \in Int /\ q > a - k /\ k * r >= q
    BY <1>1, <1>2, <1>4
  <2>2. a - k = d - 1
    <3> HIDE DEF k
    <3> QED BY <1>1
  <2> HIDE DEF q, a, k
  <2>3. k * r \in Nat
    BY <1>5
  <2> QED
    BY <2>1, <2>2, <2>3
<1> QED
  BY <1>3, <1>5, <1>6 DEF r

(* An unused limiter is full.                                                *)
LEMMA InitIInv == Init => IInv
<1> SUFFICES ASSUME Init PROVE IInv
  OBVIOUS
<1>1. clock \in Nat /\ high = clock /\ Full \in 0..Full
  BY RateLimiterAssumption, ScaleFacts DEF Init
<1>2. [seen |-> FALSE, tokens |-> Full, lastRefill |-> 0] \in Bucket
  BY <1>1 DEF Bucket
<1>3. TypeOK
  BY <1>1, <1>2 DEF Init, TypeOK, NoPromise
<1>4. \A t \in Tenant : Conserved(t)
  BY DEF Init, Conserved
<1> QED
  BY <1>1, <1>3, <1>4 DEF IInv

LEMMA NextIInv == IInv /\ [Next]_vars => IInv'
<1> SUFFICES ASSUME IInv, [Next]_vars PROVE IInv'
  OBVIOUS
<1>0. TypeOK /\ clock \in Nat /\ high \in Nat /\ clock <= high /\ \A t \in Tenant : Conserved(t)
  BY DEF IInv, TypeOK
<1>1. CASE UNCHANGED vars
  BY <1>0, <1>1 DEF vars, IInv, TypeOK, Conserved
<1>2. ASSUME NEW c \in 0..MaxClock, SetClock(c) PROVE IInv'
  <2>1. clock' = c /\ c \in Nat /\ high' \in Nat /\ high <= high' /\ c <= high'
    BY <1>0, <1>2, RateLimiterAssumption DEF SetClock, AtLeast
  <2>2. UNCHANGED <<bucket, window, promise>>
    BY <1>2 DEF SetClock
  <2>3. \A t \in Tenant : bucket[t].lastRefill \in Nat
    BY <1>0 DEF TypeOK, Bucket
  <2>4. \A t \in Tenant : Conserved(t)'
    BY <1>0, <2>1, <2>2, <2>3 DEF Conserved
  <2> QED
    BY <1>0, <2>1, <2>2, <2>4 DEF IInv, TypeOK
<1>3. ASSUME NEW t \in Tenant, OpenWindow(t) PROVE IInv'
  <2>0. /\ bucket[t].seen /\ bucket[t].lastRefill \in Nat /\ bucket[t].tokens \in 0..Full
        /\ bucket[t].lastRefill <= high /\ Full \in Nat
    BY <1>0, <1>3, ScaleFacts DEF OpenWindow, TypeOK, Bucket, Conserved
  <2>1. /\ window' = [window EXCEPT ![t] = [from |-> bucket[t].lastRefill, admitted |-> 0]]
        /\ UNCHANGED <<clock, high, bucket, promise>>
    BY <1>3 DEF OpenWindow
  <2>2. window' \in [Tenant -> [from : Nat, admitted : Nat]]
    BY <1>0, <2>0, <2>1 DEF TypeOK
  <2>3. Conserved(t)'
    <3>1. window'[t].from = bucket[t].lastRefill /\ window'[t].admitted = 0
      BY <1>0, <2>1 DEF TypeOK
    <3>2. 0 * Scale = 0 /\ Rate * (bucket[t].lastRefill - bucket[t].lastRefill) = 0
      BY <2>0, RateLimiterAssumption
    <3> QED
      BY <2>0, <2>1, <3>1, <3>2 DEF Conserved
  <2>4. \A u \in Tenant : u # t => Conserved(u)'
    BY <1>0, <2>1 DEF Conserved, TypeOK
  <2> QED
    BY <1>0, <2>1, <2>2, <2>3, <2>4 DEF IInv, TypeOK
<1>4. ASSUME NEW t \in Tenant, NEW r \in RouteCost, Admit(t, r) PROVE IInv'
  <2> DEFINE b == Refilled(t)
             cost == Cost(r)
             from == IF bucket[t].seen THEN window[t].from ELSE clock
             b2 == [b EXCEPT !.tokens = @ - cost * Scale]
  <2>0. cost \in Nat /\ cost * Scale \in Nat /\ Full \in Nat /\ Scale \in Nat
    BY RateLimiterAssumption, ScaleFacts DEF Cost, AtLeast, AtMost, RouteCost
  <2>1. /\ b.tokens >= cost * Scale
        /\ bucket' = [bucket EXCEPT ![t] = b2]
        /\ window' = [window EXCEPT ![t] = [from |-> from, admitted |-> window[t].admitted + cost]]
        /\ promise' = [promise EXCEPT ![t] = NoPromise]
        /\ UNCHANGED <<clock, high>>
    BY <1>4 DEF Admit
  <2>2. /\ b \in Bucket /\ b.seen /\ from <= b.lastRefill /\ b.lastRefill <= high
        /\ window[t].admitted * Scale + b.tokens <= Full + Rate * (b.lastRefill - from)
    BY RefillConserves
  <2>3. /\ window[t].from \in Nat /\ window[t].admitted \in Nat /\ from \in Nat
        /\ b.tokens \in 0..Full /\ b.lastRefill \in Nat
    BY <1>0, <2>2 DEF TypeOK, Bucket
  <2> HIDE DEF b, cost, from
  <2>4. /\ b2 \in Bucket /\ b2.seen /\ b2.lastRefill = b.lastRefill
        /\ b2.tokens = b.tokens - cost * Scale
    BY <2>0, <2>1, <2>2, <2>3 DEF Bucket
  <2>5. TypeOK'
    <3>1. bucket' \in [Tenant -> Bucket]
      <4> HIDE DEF b2
      <4> QED BY <1>0, <2>1, <2>4 DEF TypeOK
    <3>2. window' \in [Tenant -> [from : Nat, admitted : Nat]]
      BY <1>0, <2>0, <2>1, <2>3 DEF TypeOK
    <3>3. promise' \in [Tenant -> [made : BOOLEAN, cost : Nat, at : Nat]]
      BY <1>0, <2>1 DEF TypeOK, NoPromise
    <3> QED
      BY <1>0, <2>1, <3>1, <3>2, <3>3 DEF TypeOK
  <2> HIDE DEF b2
  <2>6. Conserved(t)'
    <3>1. /\ bucket'[t] = b2 /\ window'[t].from = from
          /\ window'[t].admitted = window[t].admitted + cost
      BY <1>0, <2>1 DEF TypeOK
    <3>2. (window[t].admitted + cost) * Scale = window[t].admitted * Scale + cost * Scale
      BY <2>0, <2>3
    <3>3. window[t].admitted * Scale \in Nat /\ Rate * (b.lastRefill - from) \in Nat
      BY <2>2, <2>3, ScaleFacts
    <3>4. (window[t].admitted + cost) * Scale + (b.tokens - cost * Scale)
             <= Full + Rate * (b.lastRefill - from)
      BY <2>0, <2>2, <2>3, <3>2, <3>3
    <3> QED
      BY <2>1, <2>2, <2>4, <3>1, <3>4 DEF Conserved
  <2>7. \A u \in Tenant : u # t => Conserved(u)'
    BY <1>0, <2>1 DEF Conserved, TypeOK
  <2> QED
    BY <1>0, <2>1, <2>5, <2>6, <2>7 DEF IInv
<1>5. ASSUME NEW t \in Tenant, NEW r \in RouteCost, Refuse(t, r) PROVE IInv'
  <2> DEFINE b == Refilled(t)
             cost == Cost(r)
             from == IF bucket[t].seen THEN window[t].from ELSE clock
             after == RetryAfter(cost * Scale - b.tokens)
  <2>0. cost \in Nat /\ cost * Scale \in Nat /\ cost * Scale <= Full /\ Scale \in Nat
    <3>1. cost \in Nat /\ cost <= Burst /\ Scale \in Nat /\ Burst \in Nat
      BY RateLimiterAssumption DEF Cost, AtLeast, AtMost, RouteCost
    <3> HIDE DEF cost
    <3>2. cost * Scale <= Burst * Scale
      BY <3>1
    <3> QED
      BY <3>1, <3>2, ScaleFacts DEF Full
  <2>1. /\ b.tokens < cost * Scale
        /\ bucket' = [bucket EXCEPT ![t] = b]
        /\ promise' = [promise EXCEPT ![t] =
              IF clock >= b.lastRefill
              THEN [made |-> TRUE, cost |-> cost, at |-> clock + Scale * after]
              ELSE NoPromise]
        /\ UNCHANGED <<clock, high, window>>
    BY <1>5 DEF Refuse
  <2>2. /\ b \in Bucket /\ b.seen /\ from <= b.lastRefill /\ b.lastRefill <= high
        /\ window[t].admitted * Scale + b.tokens <= Full + Rate * (b.lastRefill - from)
    BY RefillConserves
  <2>3. bucket[t].seen
    <3>1. CASE ~bucket[t].seen
      <4>1. b.tokens = Full
        BY <3>1 DEF Refilled
      <4> QED
        BY <2>0, <2>1, <4>1, ScaleFacts
    <3> QED
      BY <3>1
  <2>4. after \in Nat
    <3>1. cost * Scale - b.tokens \in Nat
      BY <2>0, <2>1, <2>2 DEF Bucket
    <3> QED
      BY <3>1, RetryAfterCovers
  <2> HIDE DEF b, cost, after
  <2>5. TypeOK'
    <3>1. Scale * after \in Nat
      BY <2>0, <2>4, ScaleFacts
    <3>2. promise' \in [Tenant -> [made : BOOLEAN, cost : Nat, at : Nat]]
      BY <1>0, <2>0, <2>1, <3>1 DEF TypeOK, NoPromise
    <3> QED
      BY <1>0, <2>1, <2>2, <3>2 DEF TypeOK
  <2>6. Conserved(t)'
    BY <1>0, <2>1, <2>2, <2>3 DEF Conserved, TypeOK
  <2>7. \A u \in Tenant : u # t => Conserved(u)'
    BY <1>0, <2>1 DEF Conserved, TypeOK
  <2> QED
    BY <1>0, <2>1, <2>5, <2>6, <2>7 DEF IInv
<1> QED
  BY <1>1, <1>2, <1>3, <1>4, <1>5 DEF Next

(* In every window a tenant is admitted at most burst + rate * time,         *)
(* whatever the clock does; and a bucket never leaves 0..burst.              *)
THEOREM RateIsBounded == Spec => [](TypeOK /\ AdmittedBounded)
<1>1. IInv => TypeOK /\ AdmittedBounded
  <2> SUFFICES ASSUME IInv, NEW t \in Tenant
               PROVE  window[t].admitted * Scale <= Full + Rate * (high - window[t].from)
    BY DEF IInv, AdmittedBounded
  <2>0. /\ Conserved(t) /\ Rate \in Nat /\ Scale \in Nat /\ Full \in Nat /\ high \in Nat
        /\ window[t].from \in Nat /\ window[t].admitted \in Nat
        /\ bucket[t].lastRefill \in Nat /\ bucket[t].tokens \in Nat
    BY RateLimiterAssumption, ScaleFacts DEF IInv, TypeOK, Bucket
  <2>1. CASE bucket[t].seen
    <3> DEFINE x == bucket[t].lastRefill - window[t].from
               y == high - bucket[t].lastRefill
    <3>1. x \in Nat /\ y \in Nat /\ high - window[t].from = x + y
          /\ window[t].admitted * Scale + bucket[t].tokens <= Full + Rate * x
      BY <2>0, <2>1 DEF Conserved
    <3> HIDE DEF x, y
    <3>2. Rate * (x + y) = Rate * x + Rate * y /\ Rate * x \in Nat /\ Rate * y \in Nat
      BY <2>0, <3>1, ScaleFacts
    <3>3. window[t].admitted * Scale \in Nat
      BY <2>0, ScaleFacts
    <3> QED
      BY <2>0, <3>1, <3>2, <3>3
  <2>2. CASE ~bucket[t].seen
    <3>1. window[t].admitted * Scale = 0 /\ Rate * (high - window[t].from) \in Nat
      BY <2>0, <2>2, ScaleFacts DEF Conserved
    <3> QED
      BY <2>0, <3>1
  <2> QED
    BY <2>1, <2>2
<1> QED
  BY <1>1, InitIInv, NextIInv, PTL DEF Spec

-----------------------------------------------------------------------------
(* Retry-After.                                                              *)

(* While a promise stands its tenant's bucket stays as the refusal left it:   *)
(* by the promised time the refill makes up for what was missing.            *)
Promised(t) ==
  promise[t].made =>
    /\ bucket[t].seen
    /\ bucket[t].lastRefill <= promise[t].at
    /\ promise[t].cost * Scale <= Full
    /\ bucket[t].tokens + Rate * (promise[t].at - bucket[t].lastRefill)
         >= promise[t].cost * Scale

AllPromised == \A t \in Tenant : Promised(t)

(* A refusal promises what the refill will keep.                             *)
LEMMA RefusePromises ==
  ASSUME IInv, NEW t \in Tenant, NEW r \in RouteCost, Refuse(t, r)
  PROVE  Promised(t)'
<1> DEFINE b == Refilled(t)
           cost == Cost(r)
           deficit == cost * Scale - b.tokens
           after == RetryAfter(deficit)
<1>1. cost \in Nat /\ cost * Scale \in Nat /\ cost * Scale <= Full /\ Scale \in Nat
      /\ Rate \in Nat /\ clock \in Nat
  <2>1. cost \in Nat /\ cost <= Burst /\ Scale \in Nat /\ Burst \in Nat
    BY RateLimiterAssumption DEF Cost, AtLeast, AtMost, RouteCost
  <2> HIDE DEF cost
  <2>2. cost * Scale <= Burst * Scale
    BY <2>1
  <2> QED
    BY <2>1, <2>2, ScaleFacts, RateLimiterAssumption DEF Full, IInv, TypeOK
<1>2. b \in Bucket /\ b.seen
  BY RefillConserves
<1>3. b.tokens \in Nat /\ b.lastRefill \in Nat
  BY <1>2, ScaleFacts DEF Bucket
<1>4. b.tokens < cost * Scale
  BY DEF Refuse
<1>5. deficit \in Nat
  <2> HIDE DEF b, cost
  <2> QED BY <1>1, <1>3, <1>4
<1>6. after \in Nat /\ Rate * (Scale * after) >= deficit
  BY <1>5, RetryAfterCovers
<1>7. /\ bucket'[t] = b
      /\ promise'[t] = IF clock >= b.lastRefill
                       THEN [made |-> TRUE, cost |-> cost, at |-> clock + Scale * after]
                       ELSE NoPromise
  BY DEF Refuse, IInv, TypeOK
<1>8. CASE clock >= b.lastRefill
  <2>1. b.lastRefill = clock
    <3>1. bucket[t] \in Bucket
      BY DEF IInv, TypeOK
    <3>2. bucket[t].lastRefill \in Nat
      BY <3>1 DEF Bucket
    <3>3. CASE ~bucket[t].seen
      BY <3>3 DEF Refilled
    <3>4. CASE bucket[t].seen /\ clock <= bucket[t].lastRefill
      <4>1. b = bucket[t]
        BY <1>1, <3>2, <3>4 DEF Refilled, AtLeast
      <4> QED BY <1>1, <1>8, <3>2, <3>4, <4>1
    <3>5. CASE bucket[t].seen /\ clock > bucket[t].lastRefill
      <4>1. AtLeast(0, clock - bucket[t].lastRefill) > 0
        BY <1>1, <3>2, <3>5 DEF AtLeast
      <4>2. b = [bucket[t] EXCEPT
                   !.tokens = AtMost(Full, @ + AtLeast(0, clock - bucket[t].lastRefill) * Rate),
                   !.lastRefill = clock]
        BY <3>5, <4>1, Zenon DEF Refilled
      <4> QED BY <3>1, <4>2 DEF Bucket
    <3> QED BY <1>1, <3>2, <3>3, <3>4, <3>5
  <2> HIDE DEF b, cost
  <2>2. /\ promise'[t].made /\ promise'[t].cost = cost /\ promise'[t].at = clock + Scale * after
    BY <1>7, <1>8
  <2> HIDE DEF after
  <2>3. Scale * after \in Nat
    BY <1>1, <1>6, ScaleFacts
  <2> DEFINE s == Scale * after
             p == Rate * s
             k == cost * Scale
  <2>4. /\ s \in Nat /\ p \in Nat /\ k \in Nat /\ p >= k - b.tokens
        /\ (clock + s) - clock = s
    BY <1>1, <1>6, <2>3, ScaleFacts
  <2> HIDE DEF s, p, k
  <2>5. b.tokens + p >= k
    BY <1>3, <2>4
  <2>6. b.tokens + Rate * ((clock + s) - b.lastRefill) >= k
    BY <2>1, <2>4, <2>5 DEF p
  <2>7. clock <= clock + s
    BY <1>1, <2>4
  <2> QED
    BY <1>1, <1>2, <1>7, <2>1, <2>2, <2>6, <2>7 DEF Promised, s, k
<1>9. CASE ~(clock >= b.lastRefill)
  BY <1>7, <1>9 DEF Promised, NoPromise
<1> QED
  BY <1>8, <1>9

LEMMA NextPromised == IInv /\ AllPromised /\ [Next]_vars => AllPromised'
<1> SUFFICES ASSUME IInv, AllPromised, [Next]_vars, NEW u \in Tenant PROVE Promised(u)'
  BY DEF AllPromised
<1>0. Promised(u) /\ bucket \in [Tenant -> Bucket] /\ DOMAIN promise = Tenant
  BY DEF AllPromised, IInv, TypeOK
<1>1. CASE bucket'[u] = bucket[u] /\ promise'[u] = promise[u]
  BY <1>0, <1>1 DEF Promised
<1>2. ASSUME NEW t \in Tenant, NEW r \in RouteCost, Admit(t, r) PROVE Promised(u)'
  <2>1. CASE u = t
    <3>1. ~promise'[u].made
      BY <1>0, <1>2, <2>1 DEF Admit, NoPromise
    <3> QED BY <3>1 DEF Promised
  <2>2. CASE u # t
    BY <1>0, <1>1, <1>2, <2>2 DEF Admit
  <2> QED BY <2>1, <2>2
<1>3. ASSUME NEW t \in Tenant, NEW r \in RouteCost, Refuse(t, r) PROVE Promised(u)'
  <2>1. CASE u = t
    BY <1>3, <2>1, RefusePromises
  <2>2. CASE u # t
    BY <1>0, <1>1, <1>3, <2>2 DEF Refuse
  <2> QED BY <2>1, <2>2
<1>4. CASE UNCHANGED <<bucket, promise>>
  BY <1>1, <1>4
<1> QED
  BY <1>2, <1>3, <1>4 DEF Next, OpenWindow, SetClock, vars

(* Once the promised time has come the refill covers the refused cost,       *)
(* however the clock was stepped in between.                                 *)
LEMMA PromiseKept ==
  ASSUME IInv, NEW t \in Tenant, Promised(t), promise[t].made, clock >= promise[t].at
  PROVE  Refilled(t).tokens >= promise[t].cost * Scale
<1> DEFINE old == bucket[t]
           need == promise[t].cost * Scale
           more == old.tokens + (clock - old.lastRefill) * Rate
<1>1. /\ old \in Bucket /\ old.tokens \in Nat /\ old.lastRefill \in Nat /\ clock \in Nat
      /\ promise[t].at \in Nat /\ Rate \in Nat /\ Full \in Nat /\ need \in Nat
  BY ScaleFacts, RateLimiterAssumption DEF IInv, TypeOK, Bucket
<1>2. /\ old.seen /\ old.lastRefill <= promise[t].at /\ need <= Full
      /\ old.tokens + Rate * (promise[t].at - old.lastRefill) >= need
  BY DEF Promised
<1>3. /\ (clock - old.lastRefill) * Rate \in Nat
      /\ (clock - old.lastRefill) * Rate >= Rate * (promise[t].at - old.lastRefill)
  <2> DEFINE x == promise[t].at - old.lastRefill
             y == clock - promise[t].at
  <2>1. x \in Nat /\ y \in Nat /\ clock - old.lastRefill = x + y
    BY <1>1, <1>2
  <2> HIDE DEF x, y
  <2>2. (x + y) * Rate = Rate * x + Rate * y /\ Rate * x \in Nat /\ Rate * y \in Nat
    BY <1>1, <2>1, ScaleFacts
  <2> QED BY <2>1, <2>2 DEF x
<1>4. more \in Nat /\ more >= need
  <2> DEFINE p == (clock - old.lastRefill) * Rate
             q == Rate * (promise[t].at - old.lastRefill)
  <2>1. p \in Nat /\ q \in Int /\ p >= q /\ old.tokens + q >= need
    BY <1>1, <1>2, <1>3
  <2> HIDE DEF p, q, need
  <2>2. old.tokens + p \in Nat /\ old.tokens + p >= need
    BY <1>1, <2>1
  <2> QED BY <2>2 DEF p
<1>5. CASE clock > old.lastRefill
  <2>1. AtLeast(0, clock - old.lastRefill) = clock - old.lastRefill /\ clock - old.lastRefill > 0
    BY <1>1, <1>5 DEF AtLeast
  <2>2. Refilled(t) = [old EXCEPT !.tokens = AtMost(Full, more), !.lastRefill = clock]
    BY <1>2, <2>1, Zenon DEF Refilled
  <2>3. Refilled(t).tokens = AtMost(Full, more)
    BY <1>1, <2>2 DEF Bucket
  <2> HIDE DEF more, need
  <2>4. AtMost(Full, more) >= need
    BY <1>1, <1>2, <1>4 DEF AtMost
  <2> QED BY <2>3, <2>4 DEF need
<1>6. CASE ~(clock > old.lastRefill)
  <2>1. clock = old.lastRefill
    <3>1. old.lastRefill <= promise[t].at
      BY <1>2
    <3> QED BY <1>1, <1>6, <3>1
  <2>2. Refilled(t) = old
    <3>1. old.seen /\ ~(AtLeast(0, clock - old.lastRefill) > 0)
      BY <1>1, <1>2, <2>1 DEF AtLeast
    <3> QED BY <3>1, Zenon DEF Refilled
  <2>3. more = old.tokens
    BY <1>1, <2>1
  <2> HIDE DEF more, need
  <2> QED BY <1>4, <2>2, <2>3 DEF need
<1> QED
  BY <1>5, <1>6

(* rate-limit.ts take(): a refused request that comes back after Retry-After  *)
(* seconds finds the tokens it needs, if the tenant was admitted nothing      *)
(* meanwhile, whatever its route costs and however the clock was stepped.     *)
THEOREM RetryAfterIsEnough == Spec => []RetryAfterSuffices
<1>1. Init => AllPromised
  BY DEF Init, AllPromised, Promised, NoPromise
<1>2. IInv /\ AllPromised => RetryAfterSuffices
  BY PromiseKept DEF AllPromised, RetryAfterSuffices
<1> QED
  BY <1>1, <1>2, InitIInv, NextIInv, NextPromised, PTL DEF Spec

=============================================================================
