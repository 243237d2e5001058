--------------------------- MODULE DispatcherProofs ---------------------------
(***************************************************************************)
(* Theorems about Dispatcher and SignedDelivery, for every number of        *)
(* deliveries, tenants, retries and ticks.                                  *)
(*                                                                          *)
(* The type invariant is inductive by itself.  The claims about rows hold   *)
(* while no call can outlive the tick that claimed it: either nothing       *)
(* throws (Faults = {}), or a tick claims one row only (Concurrency = 1).   *)
(***************************************************************************)
EXTENDS SignedDelivery, FiniteSetTheorems, SequenceTheorems, TLAPS

Calm == Faults = {} \/ Concurrency = 1

-----------------------------------------------------------------------------
(* Type correctness.                                                         *)

LEMMA CallTyped ==
  ASSUME TypeOK, NEW c \in calls
  PROVE  /\ c \in Call
         /\ c.d \in Delivery
         /\ row[c.d] \in Row
         /\ TenantOf[c.d] \in Tenant
         /\ cfg[TenantOf[c.d]] \in Config
BY DispatcherAssumption DEF TypeOK, Call

(* A call reads the event or the config: it goes on, or is to be abandoned.  *)
LEMMA ReadSteps ==
  ASSUME TypeOK, NEW c \in calls, ReadEvent(c) \/ ReadConfig(c)
  PROVE  /\ UNCHANGED <<clock, row, event, cfg, processVars, accepts, disturbances>>
         /\ \E c2 \in Call :
              /\ Advance(c, c2)
              /\ c2.d = c.d /\ c2.tick = c.tick /\ c2.att = c.att /\ c2.since = c.since
              /\ \/ c2.pc = "update" /\ c2.outcome = "failed" /\ c2.why = "abandoned"
                 \/ c2.pc = "config" /\ c2.outcome = c.outcome /\ c2.why = c.why
                 \/ /\ c2.pc = "post" /\ c2.outcome = c.outcome /\ c2.why = c.why
                    /\ c2.secret = cfg[TenantOf[c.d]].secret
<1> DEFINE secret == cfg[TenantOf[c.d]].secret
           Goes(c2) == /\ c2 \in Call
                       /\ c2.d = c.d /\ c2.tick = c.tick /\ c2.att = c.att /\ c2.since = c.since
<1>1. c \in Call /\ secret \in Nat
  BY CallTyped DEF Config
<1> HIDE DEF secret
<1>2. /\ Goes(Abandoned(c)) /\ Abandoned(c).pc = "update"
      /\ Abandoned(c).outcome = "failed" /\ Abandoned(c).why = "abandoned"
  BY <1>1 DEF Abandoned, Call
<1>3. \A c2 \in {[c EXCEPT !.pc = "config"]} :
        Goes(c2) /\ c2.pc = "config" /\ c2.outcome = c.outcome /\ c2.why = c.why
  BY <1>1 DEF Call
<1>4. \A c2 \in {[c EXCEPT !.pc = "post", !.secret = secret]} :
        /\ Goes(c2) /\ c2.pc = "post" /\ c2.outcome = c.outcome /\ c2.why = c.why
        /\ c2.secret = secret
  BY <1>1 DEF Call
<1>5. \/ Advance(c, Abandoned(c))
      \/ Advance(c, [c EXCEPT !.pc = "config"])
      \/ Advance(c, [c EXCEPT !.pc = "post", !.secret = secret])
  BY DEF ReadEvent, ReadConfig, secret
<1>6. UNCHANGED <<clock, row, event, cfg, processVars, accepts, disturbances>>
  BY DEF ReadEvent, ReadConfig
<1> QED
  BY <1>2, <1>3, <1>4, <1>5, <1>6 DEF secret

(* What updateDeliveryAttempt writes, column by column.                      *)
LEMMA UpdatedRowFields ==
  ASSUME NEW r \in Row, NEW c \in Call
  PROVE  /\ UpdatedRow(r, c) \in Row
         /\ UpdatedRow(r, c).attemptCount = r.attemptCount + 1
         /\ UpdatedRow(r, c).why = c.why
         /\ UpdatedRow(r, c).status = IF c.outcome = "retry" THEN r.status ELSE c.outcome
<1>1. /\ c.outcome \in Status \cup {"retry"}
      /\ c.next \in Nat /\ c.why \in {"none", "http", "abandoned"}
  BY DEF Call, Status
<1>2. /\ r = [status |-> r.status, attemptCount |-> r.attemptCount,
              nextAttemptAt |-> r.nextAttemptAt, why |-> r.why]
      /\ r.attemptCount \in Nat /\ r.attemptCount + 1 \in Nat
      /\ r.status \in Status /\ r.nextAttemptAt \in Nat
  BY DEF Row
<1>3. CASE c.outcome = "retry"
  <2>1. UpdatedRow(r, c) = [status |-> r.status, attemptCount |-> r.attemptCount + 1,
                            nextAttemptAt |-> c.next, why |-> c.why]
    BY <1>2, <1>3 DEF UpdatedRow
  <2> QED
    BY <1>1, <1>2, <1>3, <2>1 DEF Row
<1>4. CASE c.outcome # "retry"
  <2>1. UpdatedRow(r, c) = [status |-> c.outcome, attemptCount |-> r.attemptCount + 1,
                            nextAttemptAt |-> r.nextAttemptAt, why |-> c.why]
    BY <1>2, <1>4 DEF UpdatedRow
  <2> QED
    BY <1>1, <1>2, <1>4, <2>1 DEF Row
<1> QED
  BY <1>3, <1>4

(* Init establishes TypeOK: no row, no call, the dispatcher started.         *)
LEMMA InitTypeOK == Init => TypeOK
<1> SUFFICES ASSUME Init PROVE TypeOK
  OBVIOUS
<1>1. cfg \in [Tenant -> Config]
  BY DEF Init, Config
<1>2. accepts \in [Delivery -> 0..MaxAccepts]
  BY DispatcherAssumption DEF Init
<1> QED
  BY <1>1, <1>2 DEF Init, TypeOK, Row, Status

(* Every step of every action keeps TypeOK.                                  *)
LEMMA NextTypeOK == TypeOK /\ [Next]_vars => TypeOK'
<1> SUFFICES ASSUME TypeOK, [Next]_vars PROVE TypeOK'
  OBVIOUS
<1> USE DispatcherAssumption
<1>1. ASSUME UNCHANGED vars PROVE TypeOK'
  BY <1>1 DEF vars, TypeOK
<1>2. CASE TimePasses
  BY <1>2 DEF TimePasses, TypeOK, processVars
<1>3. ASSUME NEW d \in Delivery, Enqueue(d) PROVE TypeOK'
  BY <1>3 DEF Enqueue, TypeOK, processVars, Row, Status
<1>4. ASSUME NEW d \in Delivery, DeleteDelivery(d) PROVE TypeOK'
  <2>1. /\ row' = [row EXCEPT ![d] = [row[d] EXCEPT !.status = "deleted"]]
        /\ UNCHANGED <<clock, event, cfg, processVars, calls, accepts>>
        /\ disturbances' \in Nat
    BY <1>4 DEF DeleteDelivery, Disturb, TypeOK
  <2>2. [row[d] EXCEPT !.status = "deleted"] \in Row
    BY DEF TypeOK, Row, Status
  <2> QED
    BY <2>1, <2>2 DEF TypeOK, processVars
<1>5. ASSUME NEW d \in Delivery, DeleteEvent(d) PROVE TypeOK'
  <2>1. /\ row' = [row EXCEPT ![d] = [row[d] EXCEPT !.status = "deleted"]]
        /\ event' = [event EXCEPT ![d] = FALSE]
        /\ UNCHANGED <<clock, cfg, processVars, calls, accepts>>
        /\ disturbances' \in Nat
    BY <1>5 DEF DeleteEvent, Disturb, TypeOK
  <2>2. [row[d] EXCEPT !.status = "deleted"] \in Row
    BY DEF TypeOK, Row, Status
  <2> QED
    BY <2>1, <2>2 DEF TypeOK, processVars
<1>6. ASSUME NEW t \in Tenant, NEW active \in BOOLEAN, SetConfig(t, active) PROVE TypeOK'
  <2>1. cfg[t].secret \in Nat
    BY DEF TypeOK, Config
  <2>2. [isActive |-> active, secret |-> cfg[t].secret + 1,
         decryptable |-> TRUE] \in Config
    BY <2>1 DEF Config
  <2> QED
    BY <1>6, <2>2 DEF SetConfig, Disturb, TypeOK, processVars
<1>7. CASE StartTick
  <2>1. PICK S \in SUBSET Due : Claim(S)
    BY <1>7 DEF StartTick
  <2> DEFINE t == CHOOSE x \in FreshTick : TRUE
  <2>2. t \in TickId
    BY <1>7 DEF StartTick, FreshTick
  <2>3. \A d \in S : NewCall(d, t) \in Call
    BY <2>1, <2>2 DEF Due, NewCall, Call, TypeOK, Row, Config
  <2> QED
    BY <1>7, <2>1, <2>2, <2>3 DEF StartTick, Claim, TypeOK
<1>8. CASE TickDone
  BY <1>8 DEF TickDone, TypeOK
<1>9. ASSUME NEW c \in calls, Reject(c), disturbances' \in Nat PROVE TypeOK'
  BY <1>9 DEF Reject, TypeOK
<1>10. ASSUME NEW c \in calls, CallStep(c) PROVE TypeOK'
  <2>0. c \in Call /\ c.d \in Delivery /\ row[c.d] \in Row /\ cfg[TenantOf[c.d]] \in Config
    BY CallTyped
  <2> USE <2>0
  <2>1. ASSUME NEW c2 \in Call, Advance(c, c2) PROVE (calls \subseteq Call)'
    BY <2>1 DEF Advance, TypeOK
  <2>2. Abandoned(c) \in Call
    BY DEF Abandoned, Call
  <2>3. CASE ReadEvent(c)
    <3>1. [c EXCEPT !.pc = "config"] \in Call
      BY DEF Call
    <3> QED
      BY <2>3, <2>1, <2>2, <3>1 DEF ReadEvent, TypeOK, processVars
  <2>4. CASE ReadConfig(c)
    <3>1. [c EXCEPT !.pc = "post", !.secret = cfg[TenantOf[c.d]].secret] \in Call
      BY DEF Call, Config
    <3> QED
      BY <2>4, <2>1, <2>2, <3>1 DEF ReadConfig, TypeOK, processVars
  <2>5. CASE DecryptFails(c)
    BY <2>5, <1>9 DEF DecryptFails, TypeOK
  <2>6. ASSUME NEW accepted \in BOOLEAN, NEW ok \in BOOLEAN, Post(c, accepted, ok)
        PROVE  TypeOK'
    <3> DEFINE outcome == Outcome(c, ok)
               next == IF outcome = "retry" THEN clock + Schedule[c.att + 1] ELSE 0
               c2 == [c EXCEPT !.pc = "update", !.outcome = outcome, !.why = "http",
                               !.next = next]
    <3>1. c.att \in Nat
      BY DEF Call
    <3>2. outcome \in {"delivered", "retry", "failed"} /\ (outcome = "retry" => c.att < MaxRetries)
      BY <3>1 DEF Outcome
    <3>3. next \in Nat
      <4>1. CASE outcome = "retry"
        <5>1. c.att + 1 \in 1..Len(Schedule)
          BY <3>1, <3>2, <4>1
        <5>2. Schedule[c.att + 1] \in Nat
          BY <5>1
        <5> QED
          BY <4>1, <5>2 DEF TypeOK
      <4> QED
        BY <4>1
    <3>4. c2 \in Call
      <4> HIDE DEF outcome, next
      <4> QED BY <3>2, <3>3 DEF Call
    <3>5. Advance(c, c2)
      BY <2>6 DEF Post
    <3>6. accepts' \in [Delivery -> 0..MaxAccepts]
      BY <2>6 DEF Post, TypeOK
    <3> HIDE DEF c2
    <3> QED
      BY <2>6, <2>1, <3>4, <3>5, <3>6 DEF Post, TypeOK, processVars
  <2>7. CASE Update(c)
    <3>1. UpdatedRow(row[c.d], c) \in Row
      BY UpdatedRowFields
    <3> QED
      BY <2>7, <3>1 DEF Update, TypeOK, processVars
  <2> QED
    BY <1>10, <2>3, <2>4, <2>5, <2>6, <2>7 DEF CallStep
<1>11. ASSUME NEW c \in calls, QueryFails(c) PROVE TypeOK'
  BY <1>11, <1>9 DEF QueryFails, Disturb, TypeOK
<1>12. CASE Stop
  <2>1. disturbances' \in Nat
    BY <1>12 DEF Stop, Disturb, TypeOK
  <2> QED
    BY <1>12, <2>1, Zenon DEF Stop, TypeOK
<1>13. CASE Exit
  BY <1>13 DEF Exit, TypeOK
<1>14. CASE Crash
  <2>1. disturbances' \in Nat
    BY <1>14 DEF Crash, Disturb, TypeOK
  <2> QED
    BY <1>14, <2>1, Zenon DEF Crash, TypeOK
<1>15. CASE Boot
  BY <1>15 DEF Boot, TypeOK
<1> QED
  BY <1>1, <1>2, <1>3, <1>4, <1>5, <1>6, <1>7, <1>8, <1>10, <1>11, <1>12, <1>13, <1>14, <1>15
     DEF Next, Environment

(* Every reachable state of the dispatcher is well typed.                     *)
THEOREM TypeCorrect == Spec => []TypeOK
BY InitTypeOK, NextTypeOK, PTL DEF Spec

-----------------------------------------------------------------------------
(* The inductive invariant behind the claims about rows.                      *)

(* Every call in flight belongs to the tick that currentTick awaits.          *)
NoOrphan == \A c \in calls : c.tick = cur /\ tick = "active"

(* With WEBHOOK_DISPATCH_CONCURRENCY = 1 a call has no sibling.               *)
NoSibling == Concurrency = 1 => \A c1, c2 \in calls : c1 = c2

(* What a call carries to updateDeliveryAttempt.                              *)
CallOutcome ==
  \A c \in calls :
    /\ c.att <= MaxRetries
    /\ c.pc = "update" => c.outcome # "none"
    /\ c.outcome = "retry" => c.att < MaxRetries
    /\ c.outcome = "failed" => c.att >= MaxRetries \/ c.why = "abandoned"

(* A delivery not yet inserted has no event and no attempts.                  *)
Uninserted ==
  \A d \in Delivery : row[d].status = "none" => ~event[d] /\ row[d].attemptCount = 0

IInv ==
  /\ TypeOK
  /\ NoOrphan
  /\ NoSibling
  /\ OneCallPerDelivery
  /\ NoStaleSnapshot
  /\ CallOutcome
  /\ WithinBudget
  /\ FailedOnlyWhenSpent
  /\ Uninserted

(* LIMIT concurrency: a claim has at most that many rows.                     *)
LEMMA ClaimBounded ==
  ASSUME TypeOK, NEW S \in SUBSET Due, IsClaim(S)
  PROVE  IsFiniteSet(S) /\ Cardinality(S) \in Nat /\ Cardinality(S) <= Concurrency
<1>1. IsFiniteSet(Due) /\ IsFiniteSet(S)
  <2>1. Due \in SUBSET Delivery /\ S \in SUBSET Delivery
    BY DEF Due
  <2> QED
    BY <2>1, FS_Subset, DispatcherAssumption
<1>2. Cardinality(Due) \in Nat /\ Cardinality(S) \in Nat
  BY <1>1, FS_CardinalityType
<1>3. \A m, n \in Nat : Min({m, n}) <= m
  BY DEF Min
<1> QED
  BY <1>1, <1>2, <1>3, DispatcherAssumption DEF IsClaim

(* LIMIT 1: a claim has one row.                                              *)
LEMMA ClaimOfOne ==
  ASSUME TypeOK, NEW S \in SUBSET Due, IsClaim(S), Concurrency = 1
  PROVE  \A d, e \in S : d = e
<1> SUFFICES ASSUME NEW d \in S, NEW e \in S, d # e PROVE FALSE
  OBVIOUS
<1>1. IsFiniteSet(S) /\ Cardinality(S) \in Nat /\ Cardinality(S) <= 1
  BY ClaimBounded
<1>2. IsFiniteSet(S \ {d}) /\ Cardinality(S \ {d}) = Cardinality(S) - 1
  BY <1>1, FS_RemoveElement
<1>3. S \ {d} # {}
  OBVIOUS
<1>4. Cardinality(S \ {d}) \in Nat /\ Cardinality(S \ {d}) # 0
  BY <1>2, <1>3, FS_EmptySet, FS_CardinalityType
<1> QED
  BY <1>1, <1>2, <1>4

LEMMA InitIInv == Init => IInv
<1> SUFFICES ASSUME Init PROVE IInv
  OBVIOUS
<1>1. TypeOK
  BY InitTypeOK
<1>2. calls = {}
  BY DEF Init
<1>3. \A d \in Delivery :
        /\ row[d].status \in {"none", "pending"}
        /\ row[d].attemptCount = 0
        /\ row[d].status = "none" => ~event[d]
  BY DEF Init
<1>4. /\ NoOrphan /\ NoSibling /\ OneCallPerDelivery /\ NoStaleSnapshot /\ CallOutcome
  BY <1>2 DEF NoOrphan, NoSibling, OneCallPerDelivery, NoStaleSnapshot, CallOutcome
<1>5. WithinBudget
  BY <1>3, DispatcherAssumption DEF WithinBudget
<1>6. FailedOnlyWhenSpent /\ Uninserted
  BY <1>3 DEF FailedOnlyWhenSpent, Uninserted
<1> QED
  BY <1>1, <1>4, <1>5, <1>6 DEF IInv

(* A step that replaces one call by its successor keeps what IInv says of     *)
(* calls, provided the successor carries an outcome within the budget.        *)
LEMMA AdvanceIInv ==
  ASSUME IInv, TypeOK', NEW c \in calls, NEW c2 \in Call, Advance(c, c2),
         c2.d = c.d, c2.tick = c.tick, c2.att = c.att,
         c2.pc = "update" => c2.outcome # "none",
         c2.outcome = "retry" => c2.att < MaxRetries,
         c2.outcome = "failed" => c2.att >= MaxRetries \/ c2.why = "abandoned",
         UNCHANGED <<clock, row, event, tick, cur>>
  PROVE  IInv'
<1>0. calls' = (calls \ {c}) \cup {c2}
  BY DEF Advance
<1>1. NoOrphan'
  BY <1>0 DEF IInv, NoOrphan
<1>2. NoSibling'
  BY <1>0 DEF IInv, NoSibling
<1>3. OneCallPerDelivery'
  BY <1>0 DEF IInv, OneCallPerDelivery
<1>4. NoStaleSnapshot'
  BY <1>0 DEF IInv, NoStaleSnapshot
<1>5. CallOutcome'
  BY <1>0 DEF IInv, CallOutcome
<1> QED
  BY <1>1, <1>2, <1>3, <1>4, <1>5 DEF IInv, WithinBudget, FailedOnlyWhenSpent, Uninserted

(* The claim: no call is in flight when a tick starts, so every new call is   *)
(* the only one of its row and its snapshot is the row itself.                *)
LEMMA StartTickIInv ==
  ASSUME IInv, TypeOK', StartTick
  PROVE  IInv'
<1>1. PICK S \in SUBSET Due : IsClaim(S) /\ Claim(S)
  BY DEF StartTick
<1> DEFINE t == CHOOSE x \in FreshTick : TRUE
<1>2. calls = {}
  BY DEF StartTick, IInv, NoOrphan
<1>3. calls' = {NewCall(d, t) : d \in S} /\ cur' = t /\ tick' = "active"
  BY <1>1, <1>2 DEF Claim
<1>4. UNCHANGED <<clock, row, event>>
  BY DEF StartTick
<1>5. \A d \in S : /\ d \in Delivery /\ NewCall(d, t).d = d /\ NewCall(d, t).tick = t
                   /\ NewCall(d, t).pc = "event" /\ NewCall(d, t).outcome = "none"
                   /\ NewCall(d, t).att = row[d].attemptCount
                   /\ row[d].status = "pending" /\ row[d].nextAttemptAt <= clock
  BY <1>1 DEF NewCall, Due, Claimable
<1> HIDE DEF t
<1>6. NoOrphan'
  BY <1>3, <1>5 DEF NoOrphan
<1>7. NoSibling'
  <2>1. Concurrency = 1 => \A d, e \in S : d = e
    BY <1>1, ClaimOfOne DEF IInv
  <2> QED
    BY <1>3, <2>1 DEF NoSibling
<1>8. OneCallPerDelivery'
  BY <1>3, <1>5 DEF OneCallPerDelivery
<1>9. NoStaleSnapshot'
  BY <1>3, <1>4, <1>5 DEF NoStaleSnapshot
<1>10. CallOutcome'
  BY <1>3, <1>5 DEF IInv, WithinBudget, CallOutcome
<1> QED
  BY <1>4, <1>6, <1>7, <1>8, <1>9, <1>10 DEF IInv, WithinBudget, FailedOnlyWhenSpent, Uninserted

(* The write-back: the row is still as the call read it, so the count grows   *)
(* to the attempt just made and only the last one may fail the row.           *)
LEMMA UpdateIInv ==
  ASSUME IInv, TypeOK', NEW c \in calls, Update(c)
  PROVE  IInv'
<1>0. c \in Call /\ c.d \in Delivery /\ row[c.d] \in Row /\ c.att \in Nat
  BY CallTyped DEF IInv, Call
<1>1. calls' = calls \ {c} /\ UNCHANGED <<clock, event, tick, cur>>
  BY DEF Update, processVars
<1>2. \A k \in calls' : k \in calls /\ k.d # c.d
  BY <1>1 DEF IInv, OneCallPerDelivery
<1>3. \A d \in Delivery : d # c.d => row'[d] = row[d]
  BY <1>0 DEF Update, IInv, TypeOK
<1>4. NoOrphan' /\ NoSibling' /\ OneCallPerDelivery' /\ CallOutcome'
  BY <1>1, <1>2 DEF IInv, NoOrphan, NoSibling, OneCallPerDelivery, CallOutcome
<1>5. NoStaleSnapshot'
  <2>1. \A k \in calls' : k.d \in Delivery
    BY <1>2, CallTyped DEF IInv
  <2> QED
    BY <1>1, <1>2, <1>3, <2>1 DEF IInv, NoStaleSnapshot
<1>6. CASE row[c.d].status = "deleted"
  <2>1. row' = row
    BY <1>6 DEF Update
  <2> QED
    BY <1>1, <1>4, <1>5, <2>1 DEF IInv, WithinBudget, FailedOnlyWhenSpent, Uninserted
<1>7. CASE row[c.d].status # "deleted"
  <2>1. row'[c.d] = UpdatedRow(row[c.d], c)
    BY <1>0, <1>7 DEF Update, IInv, TypeOK
  <2>2. row[c.d].status = "pending" /\ row[c.d].attemptCount = c.att
    BY <1>7 DEF IInv, NoStaleSnapshot
  <2>3. /\ c.att <= MaxRetries
        /\ c.outcome # "none"
        /\ c.outcome = "retry" => c.att < MaxRetries
        /\ c.outcome = "failed" => c.att >= MaxRetries \/ c.why = "abandoned"
    BY DEF IInv, CallOutcome, Update
  <2>4. /\ row'[c.d].attemptCount = c.att + 1
        /\ row'[c.d].why = c.why
        /\ row'[c.d].status = IF c.outcome = "retry" THEN "pending" ELSE c.outcome
    BY <1>0, <2>1, <2>2, UpdatedRowFields
  <2>5. c.outcome \in {"delivered", "retry", "failed"}
    BY <1>0, <2>3 DEF Call
  <2>6. WithinBudget'
    BY <1>0, <1>3, <2>3, <2>4, <2>5, DispatcherAssumption DEF IInv, WithinBudget
  <2>7. FailedOnlyWhenSpent'
    BY <1>0, <1>3, <2>3, <2>4, <2>5, DispatcherAssumption DEF IInv, FailedOnlyWhenSpent
  <2>8. Uninserted'
    BY <1>1, <1>3, <2>4, <2>5 DEF IInv, Uninserted
  <2> QED
    BY <1>4, <1>5, <2>6, <2>7, <2>8 DEF IInv
<1> QED
  BY <1>6, <1>7

(* A rejected call leaves no orphan: nothing throws, or it had no sibling.    *)
LEMMA RejectIInv ==
  ASSUME IInv, TypeOK', Concurrency = 1, NEW c \in calls, Reject(c)
  PROVE  IInv'
<1>1. calls' = {}
  BY DEF Reject, IInv, NoSibling
<1> QED
  BY <1>1 DEF Reject, IInv, NoOrphan, NoSibling, OneCallPerDelivery, NoStaleSnapshot,
              CallOutcome, WithinBudget, FailedOnlyWhenSpent, Uninserted

LEMMA NextIInv ==
  ASSUME Calm, IInv, [Next]_vars
  PROVE  IInv'
<1> USE DispatcherAssumption
<1>0. TypeOK /\ TypeOK'
  BY NextTypeOK DEF IInv
<1>1. CASE UNCHANGED vars
  BY <1>0, <1>1 DEF vars, IInv, NoOrphan, NoSibling, OneCallPerDelivery, NoStaleSnapshot,
                    CallOutcome, WithinBudget, FailedOnlyWhenSpent, Uninserted
<1>2. CASE TimePasses
  <2>1. NoStaleSnapshot'
    <3>1. \A c \in calls : c.d \in Delivery /\ row[c.d].nextAttemptAt \in Nat
      BY <1>0, CallTyped DEF Row
    <3> QED
      BY <1>0, <1>2, <3>1 DEF TimePasses, IInv, NoStaleSnapshot, TypeOK
  <2> QED
    BY <1>0, <1>2, <2>1 DEF TimePasses, processVars, IInv, NoOrphan, NoSibling,
            OneCallPerDelivery, CallOutcome, WithinBudget, FailedOnlyWhenSpent, Uninserted
<1>3. ASSUME NEW d \in Delivery, Enqueue(d) \/ DeleteDelivery(d) \/ DeleteEvent(d)
      PROVE  IInv'
  <2>1. UNCHANGED <<clock, calls, tick, cur>>
    BY <1>3 DEF Enqueue, DeleteDelivery, DeleteEvent, processVars
  <2>2. \A e \in Delivery : e # d => row'[e] = row[e] /\ event'[e] = event[e]
    BY <1>0, <1>3 DEF Enqueue, DeleteDelivery, DeleteEvent, TypeOK
  <2>3. \/ /\ row[d].status = "none"
           /\ row'[d].status = "pending" /\ row'[d].attemptCount = 0
        \/ row'[d].status = "deleted" /\ row'[d].attemptCount = row[d].attemptCount
    <3>1. row[d] \in Row
      BY <1>0 DEF TypeOK
    <3>2. CASE Enqueue(d)
      BY <1>0, <3>2 DEF Enqueue, TypeOK
    <3>3. CASE DeleteDelivery(d) \/ DeleteEvent(d)
      <4>1. row'[d] = [row[d] EXCEPT !.status = "deleted"]
        BY <1>0, <3>3 DEF DeleteDelivery, DeleteEvent, TypeOK
      <4> QED
        BY <3>1, <4>1 DEF Row
    <3> QED
      BY <1>3, <3>2, <3>3
  <2>4. \A c \in calls : c.d \in Delivery
    BY <1>0, CallTyped
  <2>5. NoStaleSnapshot'
    <3>1. ASSUME NEW c \in calls, row'[c.d].status # "deleted" PROVE row'[c.d] = row[c.d]
      BY <2>2, <2>3, <2>4, <3>1 DEF IInv, NoStaleSnapshot
    <3> QED
      BY <2>1, <3>1 DEF IInv, NoStaleSnapshot
  <2>6. WithinBudget' /\ FailedOnlyWhenSpent' /\ Uninserted'
    BY <2>2, <2>3 DEF IInv, WithinBudget, FailedOnlyWhenSpent, Uninserted
  <2> QED
    BY <1>0, <2>1, <2>5, <2>6 DEF IInv, NoOrphan, NoSibling, OneCallPerDelivery, CallOutcome
<1>4. ASSUME NEW t \in Tenant, NEW active \in BOOLEAN, SetConfig(t, active) PROVE IInv'
  BY <1>0, <1>4 DEF SetConfig, processVars, IInv, NoOrphan, NoSibling, OneCallPerDelivery,
                    NoStaleSnapshot, CallOutcome, WithinBudget, FailedOnlyWhenSpent, Uninserted
<1>5. CASE StartTick
  BY <1>0, <1>5, StartTickIInv
<1>6. CASE TickDone
  <2>1. calls = {}
    BY <1>6 DEF TickDone, IInv, NoOrphan
  <2> QED
    BY <1>0, <1>6, <2>1 DEF TickDone, IInv, NoOrphan, NoSibling, OneCallPerDelivery,
            NoStaleSnapshot, CallOutcome, WithinBudget, FailedOnlyWhenSpent, Uninserted
<1>7. ASSUME NEW c \in calls, DecryptFails(c) \/ QueryFails(c) PROVE IInv'
  <2>1. Concurrency = 1 /\ Reject(c)
    BY <1>7 DEF DecryptFails, QueryFails, Calm
  <2> QED
    BY <1>0, <2>1, RejectIInv
<1>8. ASSUME NEW c \in calls, ReadEvent(c) \/ ReadConfig(c) PROVE IInv'
  <2>1. PICK c2 \in Call : Advance(c, c2) /\ c2.d = c.d /\ c2.tick = c.tick /\ c2.att = c.att
                          /\ \/ c2.outcome = "failed" /\ c2.why = "abandoned"
                             \/ c2.pc # "update" /\ c2.outcome = c.outcome /\ c2.why = c.why
    BY <1>0, <1>8, ReadSteps
  <2>2. /\ c2 \in Call /\ c2.d = c.d /\ c2.tick = c.tick /\ c2.att = c.att
        /\ \/ c2.outcome = "failed" /\ c2.why = "abandoned"
           \/ c2.pc # "update" /\ c2.outcome = c.outcome /\ c2.why = c.why
    BY <2>1
  <2>3. UNCHANGED <<clock, row, event, tick, cur>>
    BY <1>0, <1>8, ReadSteps DEF processVars
  <2>4. /\ c2.pc = "update" => c2.outcome # "none"
        /\ c2.outcome = "retry" => c2.att < MaxRetries
        /\ c2.outcome = "failed" => c2.att >= MaxRetries \/ c2.why = "abandoned"
    BY <2>2 DEF IInv, CallOutcome
  <2> QED
    BY <1>0, <2>1, <2>2, <2>3, <2>4, AdvanceIInv
<1>9. ASSUME NEW c \in calls, NEW accepted \in BOOLEAN, NEW ok \in BOOLEAN,
             Post(c, accepted, ok)
      PROVE  IInv'
  <2> DEFINE outcome == Outcome(c, ok)
             next == IF outcome = "retry" THEN clock + Schedule[c.att + 1] ELSE 0
             c2 == [c EXCEPT !.pc = "update", !.outcome = outcome, !.why = "http",
                             !.next = next]
  <2>0. c \in Call /\ c.att \in Nat
    BY <1>0, CallTyped DEF Call
  <2>1. /\ outcome \in {"delivered", "retry", "failed"}
        /\ outcome = "retry" => c.att < MaxRetries
        /\ outcome = "failed" => c.att >= MaxRetries
    BY <2>0 DEF Outcome
  <2>2. Advance(c, c2) /\ UNCHANGED <<clock, row, event, tick, cur>>
    BY <1>9 DEF Post, processVars
  <2>3. c2 \in Call
    BY <1>0, <2>2 DEF TypeOK, Advance
  <2>4. /\ c2.d = c.d /\ c2.tick = c.tick /\ c2.att = c.att /\ c2.outcome = outcome
    BY <2>0 DEF Call
  <2> HIDE DEF c2, outcome
  <2> QED
    BY <1>0, <2>1, <2>2, <2>3, <2>4, AdvanceIInv
<1>10. ASSUME NEW c \in calls, Update(c) PROVE IInv'
  BY <1>0, <1>10, UpdateIInv
<1>11. CASE Stop \/ Boot
  BY <1>0, <1>11 DEF Stop, Boot, IInv, NoOrphan, NoSibling, OneCallPerDelivery,
          NoStaleSnapshot, CallOutcome, WithinBudget, FailedOnlyWhenSpent, Uninserted
<1>12. CASE Exit \/ Crash
  BY <1>0, <1>12 DEF Exit, Crash, IInv, NoOrphan, NoSibling, OneCallPerDelivery,
          NoStaleSnapshot, CallOutcome, WithinBudget, FailedOnlyWhenSpent, Uninserted
<1> QED
  BY <1>1, <1>2, <1>3, <1>4, <1>5, <1>6, <1>7, <1>8, <1>9, <1>10, <1>11, <1>12
     DEF Next, Environment, CallStep

(* The inductive invariant holds throughout, whenever a call cannot outlive   *)
(* its tick.                                                                  *)
LEMMA CalmIInv ==
  ASSUME Calm
  PROVE  Spec => []IInv
<1>1. Init => IInv
  BY InitIInv
<1>2. IInv /\ [Next]_vars => IInv'
  BY NextIInv
<1> QED
  BY <1>1, <1>2, PTL DEF Spec

(* One dispatcher never has the same delivery row claimed twice.              *)
THEOREM NoDoubleClaim ==
  ASSUME Calm
  PROVE  Spec => []OneCallPerDelivery
<1>1. Spec => []IInv
  BY CalmIInv
<1>2. IInv => OneCallPerDelivery
  BY DEF IInv
<1> QED
  BY <1>1, <1>2, PTL

(* Every processOne writes back to a row still in the state it claimed:       *)
(* pending, due and at the attempt count it read.                             *)
THEOREM SnapshotStaysCurrent ==
  ASSUME Calm
  PROVE  Spec => []NoStaleSnapshot
<1>1. Spec => []IInv
  BY CalmIInv
<1>2. IInv => NoStaleSnapshot
  BY DEF IInv
<1> QED
  BY <1>1, <1>2, PTL

(* An acceptance more than before is paid for: by the attempt that is recorded,  *)
(* by the call that is to record it, or by what befell the process.            *)
LEMMA PaidFor ==
  ASSUME TypeOK, TypeOK', PostsCounted, NEW d \in Delivery,
         row'[d].status # "deleted" => row[d].status # "deleted",
         accepts'[d] = accepts[d],
         disturbances' >= disturbances,
         row'[d].attemptCount >= row[d].attemptCount,
         Unrecorded(d) => \/ Unrecorded(d)'
                          \/ row'[d].attemptCount > row[d].attemptCount
                          \/ disturbances' > disturbances
  PROVE  row'[d].status # "deleted" =>
           accepts'[d] <= row'[d].attemptCount + disturbances' + (IF Unrecorded(d)' THEN 1 ELSE 0)
<1>1. /\ row[d].attemptCount \in Nat /\ row'[d].attemptCount \in Nat
      /\ disturbances \in Nat /\ disturbances' \in Nat
      /\ accepts[d] \in Nat
  BY DispatcherAssumption DEF TypeOK, Row
<1>2. row[d].status # "deleted" =>
        accepts[d] <= row[d].attemptCount + disturbances + (IF Unrecorded(d) THEN 1 ELSE 0)
  BY DEF PostsCounted
<1> QED
  BY <1>1, <1>2

LEMMA NextPostsCounted ==
  ASSUME Calm, IInv, PostsCounted, [Next]_vars
  PROVE  PostsCounted'
<1>0. TypeOK /\ TypeOK'
  BY NextTypeOK DEF IInv
<1> SUFFICES ASSUME NEW d \in Delivery
             PROVE  row'[d].status # "deleted" =>
                      accepts'[d] <= row'[d].attemptCount + disturbances'
                                       + (IF Unrecorded(d)' THEN 1 ELSE 0)
  BY DEF PostsCounted
<1>a. /\ row[d] \in Row /\ row[d].attemptCount \in Nat /\ accepts[d] \in Nat
      /\ disturbances \in Nat
  BY <1>0, DispatcherAssumption DEF TypeOK, Row
<1>b. Disturb => disturbances' > disturbances
  BY <1>a DEF Disturb
<1>1. CASE UNCHANGED <<row, calls, accepts, disturbances>>
  BY <1>0, <1>a, <1>1, PaidFor DEF Unrecorded
<1>2. CASE Disturb /\ UNCHANGED <<row, accepts>>
  <2>1. /\ row'[d] = row[d] /\ accepts'[d] = accepts[d]
    BY <1>2
  <2>2. disturbances' > disturbances /\ disturbances' >= disturbances
    BY <1>a, <1>2 DEF Disturb
  <2>3. row'[d].attemptCount >= row[d].attemptCount
    BY <1>a, <2>1
  <2> QED
    BY <1>0, <2>1, <2>2, <2>3, PaidFor
<1>3. ASSUME NEW e \in Delivery, Enqueue(e) \/ DeleteDelivery(e) \/ DeleteEvent(e)
      PROVE  row'[d].status # "deleted" =>
               accepts'[d] <= row'[d].attemptCount + disturbances'
                                + (IF Unrecorded(d)' THEN 1 ELSE 0)
  <2>1. /\ UNCHANGED <<calls, accepts>> /\ disturbances' >= disturbances
    BY <1>a, <1>3 DEF Enqueue, DeleteDelivery, DeleteEvent, Disturb
  <2>2. \/ row'[d] = row[d]
        \/ row'[d].status = "deleted"
        \/ row[d].status = "none" /\ row'[d].attemptCount = 0
    <3>1. CASE Enqueue(e)
      BY <1>0, <3>1 DEF Enqueue, TypeOK
    <3>2. CASE DeleteDelivery(e) \/ DeleteEvent(e)
      <4>1. row' = [row EXCEPT ![e] = [row[e] EXCEPT !.status = "deleted"]]
        BY <1>0, <3>2 DEF DeleteDelivery, DeleteEvent, TypeOK
      <4>2. row[e] \in Row /\ row \in [Delivery -> Row]
        BY <1>0 DEF TypeOK
      <4> QED
        BY <4>1, <4>2 DEF Row
    <3> QED
      BY <1>3, <3>1, <3>2
  <2>3. row[d].status = "none" => row[d].attemptCount = 0
    BY DEF IInv, Uninserted
  <2> QED
    BY <1>0, <1>a, <2>1, <2>2, <2>3, PaidFor DEF Unrecorded
<1>4. CASE StartTick
  <2>1. UNCHANGED <<row, accepts, disturbances>> /\ calls \subseteq calls'
    BY <1>4 DEF StartTick, Claim
  <2> QED
    BY <1>0, <1>a, <2>1, PaidFor DEF Unrecorded
<1>5. ASSUME NEW c \in calls, DecryptFails(c)
      PROVE  row'[d].status # "deleted" =>
               accepts'[d] <= row'[d].attemptCount + disturbances'
                                + (IF Unrecorded(d)' THEN 1 ELSE 0)
  <2>1. UNCHANGED <<row, accepts, disturbances>> /\ calls' = calls \ {c} /\ c.pc = "config"
    BY <1>5 DEF DecryptFails, Reject
  <2>2. Unrecorded(d) => Unrecorded(d)'
    BY <2>1 DEF Unrecorded
  <2> QED
    BY <1>0, <1>a, <2>1, <2>2, PaidFor
<1>6. ASSUME NEW c \in calls, ReadEvent(c) \/ ReadConfig(c)
      PROVE  row'[d].status # "deleted" =>
               accepts'[d] <= row'[d].attemptCount + disturbances'
                                + (IF Unrecorded(d)' THEN 1 ELSE 0)
  <2>1. c.pc # "update" /\ UNCHANGED <<row, accepts, disturbances>>
    BY <1>6 DEF ReadEvent, ReadConfig
  <2>2. calls \ {c} \subseteq calls'
    BY <1>6 DEF ReadEvent, ReadConfig, Advance
  <2>3. Unrecorded(d) => Unrecorded(d)'
    BY <2>1, <2>2 DEF Unrecorded
  <2> QED
    BY <1>0, <1>a, <2>1, <2>3, PaidFor
<1>7. ASSUME NEW c \in calls, NEW accepted \in BOOLEAN, NEW ok \in BOOLEAN,
             Post(c, accepted, ok)
      PROVE  row'[d].status # "deleted" =>
               accepts'[d] <= row'[d].attemptCount + disturbances'
                                + (IF Unrecorded(d)' THEN 1 ELSE 0)
  <2>0. c \in Call /\ c.d \in Delivery /\ c.pc = "post"
    BY <1>0, <1>7, CallTyped DEF Post
  <2>1. UNCHANGED <<row, disturbances>> /\ calls \ {c} \subseteq calls'
    BY <1>7 DEF Post, Advance
  <2>2. accepts' = [accepts EXCEPT ![c.d] = IF accepted /\ @ < MaxAccepts THEN @ + 1 ELSE @]
    BY <1>7 DEF Post
  <2>3. CASE d = c.d
    <3>1. ~Unrecorded(d)
      BY <2>0, <2>3 DEF Unrecorded, IInv, OneCallPerDelivery
    <3>2. accepts'[d] <= accepts[d] + 1
      BY <1>0, <1>a, <2>2, <2>3 DEF TypeOK
    <3>3. Unrecorded(d)'
      <4> DEFINE outcome == Outcome(c, ok)
                 c2 == [c EXCEPT !.pc = "update", !.outcome = outcome, !.why = "http",
                         !.next = IF outcome = "retry" THEN clock + Schedule[c.att + 1] ELSE 0]
      <4>1. c2 \in calls'
        BY <1>7 DEF Post, Advance
      <4>2. c2.d = d /\ c2.pc = "update" /\ c2.why = "http"
        BY <2>0, <2>3 DEF Call
      <4> HIDE DEF c2
      <4> QED
        BY <4>1, <4>2 DEF Unrecorded
    <3>4. accepts'[d] \in Nat
      BY <1>0, DispatcherAssumption DEF TypeOK
    <3> QED
      BY <1>a, <2>1, <3>1, <3>2, <3>3, <3>4 DEF PostsCounted
  <2>4. CASE d # c.d
    <3>1. accepts'[d] = accepts[d]
      BY <1>0, <2>2, <2>4 DEF TypeOK
    <3>2. Unrecorded(d) => Unrecorded(d)'
      BY <2>1, <2>4 DEF Unrecorded
    <3> QED
      BY <1>0, <1>a, <2>1, <3>1, <3>2, PaidFor
  <2> QED
    BY <2>3, <2>4
<1>8. ASSUME NEW c \in calls, Update(c)
      PROVE  row'[d].status # "deleted" =>
               accepts'[d] <= row'[d].attemptCount + disturbances'
                                + (IF Unrecorded(d)' THEN 1 ELSE 0)
  <2>0. c \in Call /\ c.d \in Delivery /\ row[c.d] \in Row /\ row \in [Delivery -> Row]
    BY <1>0, CallTyped DEF TypeOK
  <2>1. UNCHANGED <<accepts, disturbances>> /\ calls' = calls \ {c}
    BY <1>8 DEF Update
  <2>2. CASE d # c.d
    <3>1. row'[d] = row[d]
      BY <1>8, <2>0, <2>2 DEF Update
    <3>2. Unrecorded(d) => Unrecorded(d)'
      BY <2>1, <2>2 DEF Unrecorded
    <3> QED
      BY <1>0, <1>a, <2>1, <3>1, <3>2, PaidFor
  <2>3. CASE d = c.d /\ row[d].status = "deleted"
    BY <1>8, <2>3 DEF Update
  <2>4. CASE d = c.d /\ row[d].status # "deleted"
    <3>1. row'[d] = UpdatedRow(row[d], c)
      BY <1>8, <2>0, <2>4 DEF Update
    <3>2. row'[d].attemptCount = row[d].attemptCount + 1
      BY <2>0, <2>4, <3>1, UpdatedRowFields
    <3> QED
      BY <1>0, <1>a, <2>1, <2>4, <3>2, PaidFor
  <2> QED
    BY <2>2, <2>3, <2>4
<1>9. CASE Exit
  <2>1. calls = {} /\ UNCHANGED <<row, accepts, disturbances>>
    BY <1>9 DEF Exit, IInv, NoOrphan
  <2> QED
    BY <1>0, <1>a, <2>1, PaidFor DEF Unrecorded
<1>10. ASSUME NEW c \in calls, QueryFails(c) PROVE Disturb /\ UNCHANGED <<row, accepts>>
  BY <1>10 DEF QueryFails, Reject
<1>11. CASE Stop \/ Crash \/ \E t \in Tenant, active \in BOOLEAN : SetConfig(t, active)
  <2>1. Disturb /\ UNCHANGED <<row, accepts>>
    BY <1>11 DEF Stop, Crash, SetConfig
  <2> QED
    BY <1>2, <2>1
<1>12. CASE TimePasses \/ TickDone \/ Boot \/ UNCHANGED vars
  <2>1. UNCHANGED <<row, calls, accepts, disturbances>>
    BY <1>12 DEF TimePasses, TickDone, Boot, vars
  <2> QED
    BY <1>1, <2>1
<1> QED
  BY <1>2, <1>3, <1>4, <1>5, <1>6, <1>7, <1>8, <1>9, <1>10, <1>11, <1>12
     DEF Next, Environment, CallStep

(* At most 1 + WEBHOOK_MAX_RETRIES attempts are recorded for a delivery, and  *)
(* the callback takes the event once per attempt on record, but for the one   *)
(* under way and one per crash or other disturbance.                          *)
THEOREM BudgetRespected ==
  ASSUME Calm
  PROVE  Spec => []AttemptBudget
<1>1. Init => IInv /\ PostsCounted
  <2>1. Init => PostsCounted
    <3> SUFFICES ASSUME Init PROVE PostsCounted
      OBVIOUS
    <3>1. disturbances = 0 /\ calls = {}
          /\ \A d \in Delivery : accepts[d] = 0 /\ row[d].attemptCount = 0
      BY DEF Init
    <3>2. \A d \in Delivery : ~Unrecorded(d)
      BY <3>1 DEF Unrecorded
    <3> QED
      BY <3>1, <3>2 DEF PostsCounted
  <2> QED
    BY <2>1, InitIInv
<1>2. IInv /\ PostsCounted /\ [Next]_vars => (IInv /\ PostsCounted)'
  BY NextIInv, NextPostsCounted
<1>3. IInv /\ PostsCounted => AttemptBudget
  BY DEF IInv, AttemptBudget
<1> QED
  BY <1>1, <1>2, <1>3, PTL DEF Spec

(* A delivery fails only with the budget spent, or the config or event gone.  *)
THEOREM FailureIsEarned ==
  ASSUME Calm
  PROVE  Spec => []FailedOnlyWhenSpent
<1>1. Spec => []IInv
  BY CalmIInv
<1>2. IInv => FailedOnlyWhenSpent
  BY DEF IInv
<1> QED
  BY <1>1, <1>2, PTL

-----------------------------------------------------------------------------
(* The dispatcher implements DeliveryLifecycle.                               *)

LEMMA InitImplements == Init => Life!LifeInit
BY DEF Init, Life!LifeInit

(* The write-back is a counted attempt of the row's lifecycle.                *)
LEMMA UpdateImplements ==
  ASSUME IInv, NEW c \in calls, Update(c)
  PROVE  Life!Attempt(c.d) \/ UNCHANGED row
<1>0. c \in Call /\ c.d \in Delivery /\ row[c.d] \in Row /\ row \in [Delivery -> Row]
  BY CallTyped DEF IInv, TypeOK
<1>1. CASE row[c.d].status = "deleted"
  BY <1>1 DEF Update
<1>2. CASE row[c.d].status # "deleted"
  <2> DEFINE r == UpdatedRow(row[c.d], c)
             s == IF c.outcome = "retry" THEN "pending" ELSE c.outcome
  <2>1. row' = [row EXCEPT ![c.d] = r]
    BY <1>2 DEF Update
  <2>2. row[c.d].status = "pending" /\ row[c.d].attemptCount = c.att
    BY <1>2 DEF IInv, NoStaleSnapshot
  <2>3. r.attemptCount = row[c.d].attemptCount + 1 /\ r.status = s
    BY <1>0, <2>2, UpdatedRowFields
  <2>4. s \in {"pending", "delivered", "failed"} /\ (s = "pending" => c.att < MaxRetries)
    BY <1>0 DEF IInv, CallOutcome, Update, Call
  <2> HIDE DEF r, s
  <2>5. [d \in Delivery |-> row'[d].status]
          = [[d \in Delivery |-> row[d].status] EXCEPT ![c.d] = s]
    BY <1>0, <2>1, <2>3
  <2>6. [d \in Delivery |-> row'[d].attemptCount]
          = [[d \in Delivery |-> row[d].attemptCount] EXCEPT ![c.d] = @ + 1]
    BY <1>0, <2>1, <2>3
  <2> QED
    BY <1>0, <2>2, <2>4, <2>5, <2>6 DEF Life!Attempt
<1> QED
  BY <1>1, <1>2

LEMMA NextImplements ==
  ASSUME IInv, [Next]_vars
  PROVE  [Life!LifeNext]_(Life!lifeVars)
<1>0. TypeOK
  BY DEF IInv
<1>1. ASSUME UNCHANGED row PROVE UNCHANGED Life!lifeVars
  BY <1>1 DEF Life!lifeVars
<1>2. ASSUME NEW d \in Delivery, Enqueue(d) PROVE Life!Create(d)
  <2>1. /\ [e \in Delivery |-> row'[e].status]
              = [[e \in Delivery |-> row[e].status] EXCEPT ![d] = "pending"]
        /\ [e \in Delivery |-> row'[e].attemptCount]
              = [e \in Delivery |-> row[e].attemptCount]
        /\ row[d].status = "none"
    <3>1. row[d].attemptCount = 0
      BY <1>2 DEF Enqueue, IInv, Uninserted
    <3> QED
      BY <1>0, <1>2, <3>1 DEF Enqueue, TypeOK
  <2> QED
    BY <2>1 DEF Life!Create
<1>3. ASSUME NEW d \in Delivery, DeleteDelivery(d) \/ DeleteEvent(d) PROVE Life!Delete(d)
  <2>1. row[d].status # "none"
    BY <1>3 DEF DeleteDelivery, DeleteEvent, IInv, Uninserted
  <2>2. row' = [row EXCEPT ![d].status = "deleted"]
    BY <1>3 DEF DeleteDelivery, DeleteEvent
  <2>3. /\ [e \in Delivery |-> row'[e].status]
              = [[e \in Delivery |-> row[e].status] EXCEPT ![d] = "deleted"]
        /\ [e \in Delivery |-> row'[e].attemptCount]
              = [e \in Delivery |-> row[e].attemptCount]
    BY <1>0, <2>2 DEF TypeOK, Row
  <2> QED
    BY <2>1, <2>3 DEF Life!Delete
<1>4. ASSUME NEW c \in calls, CallStep(c) \/ QueryFails(c)
      PROVE  UNCHANGED row \/ \E d \in Delivery : Life!Attempt(d)
  <2>1. CASE Update(c)
    BY <1>0, <2>1, UpdateImplements, CallTyped
  <2> QED
    BY <1>4, <2>1 DEF CallStep, ReadEvent, ReadConfig, DecryptFails, Post, QueryFails, Reject
<1>5. CASE \/ TimePasses \/ StartTick \/ TickDone \/ Stop \/ Exit \/ Crash \/ Boot
           \/ (\E t \in Tenant, active \in BOOLEAN : SetConfig(t, active)) \/ UNCHANGED vars
  BY <1>1, <1>5 DEF TimePasses, StartTick, TickDone, Stop, Exit, Crash, Boot, SetConfig, vars
<1> QED
  BY <1>1, <1>2, <1>3, <1>4, <1>5 DEF Next, Environment, Life!LifeNext

(* Every behaviour of the dispatcher is a behaviour of the delivery lifecycle. *)
THEOREM DispatcherImplementsLifecycle ==
  ASSUME Calm
  PROVE  Spec => ImplementsLifecycle
<1>1. Init => IInv /\ Life!LifeInit
  BY InitIInv, InitImplements
<1>2. IInv /\ [Next]_vars => IInv'
  BY NextIInv
<1>3. IInv /\ [Next]_vars => [Life!LifeNext]_(Life!lifeVars)
  BY NextImplements
<1> QED
  BY <1>1, <1>2, <1>3, PTL DEF Spec, ImplementsLifecycle, Life!LifeSpec

(* `delivered' and `failed' are final: no later write changes them.            *)
THEOREM TerminalStatusFinal ==
  ASSUME Calm
  PROVE  Spec => TerminalIsFinal
<1>1. Init => IInv
  BY InitIInv
<1>2. IInv /\ [Next]_vars => IInv'
  BY NextIInv
<1>3. IInv /\ [Next]_vars =>
        [\A d \in Delivery : row[d].status \in Terminal =>
            row'[d].status \in {row[d].status, "deleted"}]_vars
  <2> SUFFICES ASSUME IInv, [Next]_vars, NEW d \in Delivery, row[d].status \in Terminal
               PROVE  row'[d].status \in {row[d].status, "deleted"}
    OBVIOUS
  <2>1. CASE UNCHANGED row
    BY <2>1
  <2>2. ASSUME NEW e \in Delivery, Enqueue(e) \/ DeleteDelivery(e) \/ DeleteEvent(e)
        PROVE  row'[d].status \in {row[d].status, "deleted"}
    BY <2>2 DEF Enqueue, DeleteDelivery, DeleteEvent, IInv, TypeOK, Row, Terminal
  <2>3. ASSUME NEW c \in calls, Update(c) PROVE row'[d] = row[d]
    BY <2>3, CallTyped DEF Update, IInv, NoStaleSnapshot, TypeOK, Terminal
  <2> QED
    BY <2>1, <2>2, <2>3
       DEF Next, Environment, TimePasses, StartTick, TickDone, Stop, Exit, Crash, Boot, SetConfig,
           CallStep, ReadEvent, ReadConfig, DecryptFails, Post, QueryFails, Reject, vars
<1> QED
  BY <1>1, <1>2, <1>3, PTL DEF Spec, TerminalIsFinal

-----------------------------------------------------------------------------
(* What holds whatever throws.                                                *)

(* A call's claim-time secret is no newer than the configured one.             *)
SecretInv ==
  \A c \in calls : /\ c.since <= cfg[TenantOf[c.d]].secret
                   /\ c.pc = "post" => c.secret >= c.since

(* If acceptances are counted at all, a call that saw a 2xx found the event    *)
(* accepted.                                                                   *)
AcceptedInv ==
  MaxAccepts > 0 =>
    /\ DeliveredMeansAccepted
    /\ \A c \in calls : c.outcome = "delivered" => accepts[c.d] > 0

FaultInv == TypeOK /\ SecretInv /\ AcceptedInv

LEMMA InitFaultInv == Init => FaultInv
<1> SUFFICES ASSUME Init PROVE FaultInv
  OBVIOUS
<1>1. calls = {} /\ \A d \in Delivery : row[d].status \in {"none", "pending"}
  BY DEF Init
<1> QED
  BY <1>1, InitTypeOK DEF FaultInv, SecretInv, AcceptedInv, DeliveredMeansAccepted

(* A step that keeps rows, configs and accepts, and keeps or drops calls.      *)
LEMMA FrameFaultInv ==
  ASSUME FaultInv, TypeOK', calls' \subseteq calls, UNCHANGED <<row, cfg, accepts>>
  PROVE  FaultInv'
BY DEF FaultInv, SecretInv, AcceptedInv, DeliveredMeansAccepted

LEMMA NextFaultInv == FaultInv /\ [Next]_vars => FaultInv'
<1> SUFFICES ASSUME FaultInv, [Next]_vars PROVE FaultInv'
  OBVIOUS
<1> USE DispatcherAssumption
<1>0. TypeOK /\ TypeOK'
  BY NextTypeOK DEF FaultInv
<1>1. CASE UNCHANGED vars \/ TimePasses \/ TickDone \/ Stop \/ Exit \/ Crash \/ Boot
  BY <1>0, <1>1, FrameFaultInv DEF vars, TimePasses, TickDone, Stop, Exit, Crash, Boot
<1>2. ASSUME NEW c \in calls, DecryptFails(c) \/ QueryFails(c) PROVE FaultInv'
  BY <1>0, <1>2, FrameFaultInv DEF DecryptFails, QueryFails, Reject
<1>3. ASSUME NEW d \in Delivery, Enqueue(d) \/ DeleteDelivery(d) \/ DeleteEvent(d)
      PROVE  FaultInv'
  <2>1. UNCHANGED <<cfg, calls, accepts>>
    BY <1>3 DEF Enqueue, DeleteDelivery, DeleteEvent
  <2>2. \A e \in Delivery : row'[e].status = "delivered" => row[e].status = "delivered"
    <3> TAKE e \in Delivery
    <3>1. row[d] \in Row
      BY <1>0 DEF TypeOK
    <3>2. \/ row'[e] = row[e]
          \/ row'[e].status = "pending"
          \/ row'[e] = [row[e] EXCEPT !.status = "deleted"] /\ row[e] \in Row
      BY <1>0, <1>3, <3>1 DEF Enqueue, DeleteDelivery, DeleteEvent, TypeOK
    <3> QED
      BY <3>2 DEF Row
  <2> QED
    BY <1>0, <2>1, <2>2 DEF FaultInv, SecretInv, AcceptedInv, DeliveredMeansAccepted
<1>4. ASSUME NEW t \in Tenant, NEW active \in BOOLEAN, SetConfig(t, active) PROVE FaultInv'
  <2>1. UNCHANGED <<row, calls, accepts>>
    BY <1>4 DEF SetConfig
  <2>2. \A u \in Tenant : cfg'[u].secret >= cfg[u].secret
    BY <1>0, <1>4 DEF SetConfig, TypeOK, Config
  <2>3. \A c \in calls : c.since <= cfg'[TenantOf[c.d]].secret
    <3>1. \A c \in calls : /\ TenantOf[c.d] \in Tenant /\ c.since \in Nat
                           /\ cfg[TenantOf[c.d]].secret \in Nat
                           /\ cfg'[TenantOf[c.d]].secret \in Nat
      BY <1>0, CallTyped DEF TypeOK, Config, Call
    <3> QED
      BY <2>2, <3>1 DEF FaultInv, SecretInv
  <2> QED
    BY <1>0, <2>1, <2>3 DEF FaultInv, SecretInv, AcceptedInv, DeliveredMeansAccepted
<1>5. CASE StartTick
  <2>1. PICK S \in SUBSET Due : Claim(S)
    BY <1>5 DEF StartTick
  <2>2. UNCHANGED <<row, cfg, accepts>>
    BY <1>5 DEF StartTick
  <2>3. \A c \in calls' \ calls : /\ c.pc = "event" /\ c.outcome = "none"
                                  /\ c.since = cfg[TenantOf[c.d]].secret /\ c.since \in Nat
    BY <1>0, <2>1 DEF Claim, NewCall, Due, TypeOK, Config
  <2>4. \A c \in calls' \ calls : c.since <= cfg[TenantOf[c.d]].secret
    BY <2>3
  <2> QED
    BY <1>0, <2>2, <2>3, <2>4 DEF FaultInv, SecretInv, AcceptedInv, DeliveredMeansAccepted
<1>6. ASSUME NEW c \in calls, ReadEvent(c) \/ ReadConfig(c) PROVE FaultInv'
  <2>0. c \in Call /\ cfg[TenantOf[c.d]] \in Config
    BY <1>0, CallTyped
  <2>1. PICK c2 \in Call :
          /\ Advance(c, c2)
          /\ c2.d = c.d /\ c2.since = c.since
          /\ c2.outcome \in {c.outcome, "failed"}
          /\ c2.pc = "post" => c2.secret = cfg[TenantOf[c.d]].secret
    BY <1>0, <1>6, ReadSteps
  <2>2. /\ c2.d = c.d /\ c2.since = c.since
        /\ c2.outcome \in {c.outcome, "failed"}
        /\ c2.pc = "post" => c2.secret = cfg[TenantOf[c.d]].secret
    BY <2>1
  <2>3. UNCHANGED <<row, cfg, accepts>>
    BY <1>0, <1>6, ReadSteps
  <2>4. calls' = (calls \ {c}) \cup {c2}
    BY <2>1 DEF Advance
  <2>5. c.since \in Nat /\ cfg[TenantOf[c.d]].secret \in Nat /\ c.since <= cfg[TenantOf[c.d]].secret
    BY <1>0, <2>0 DEF Call, Config, FaultInv, SecretInv
  <2>6. SecretInv'
    BY <2>2, <2>3, <2>4, <2>5 DEF FaultInv, SecretInv
  <2>7. AcceptedInv'
    BY <2>2, <2>3, <2>4 DEF FaultInv, AcceptedInv, DeliveredMeansAccepted
  <2> QED
    BY <1>0, <2>6, <2>7 DEF FaultInv
<1>7. ASSUME NEW c \in calls, NEW accepted \in BOOLEAN, NEW ok \in BOOLEAN,
             Post(c, accepted, ok)
      PROVE  FaultInv'
  <2> DEFINE outcome == Outcome(c, ok)
             c2 == [c EXCEPT !.pc = "update", !.outcome = outcome, !.why = "http",
                     !.next = IF outcome = "retry" THEN clock + Schedule[c.att + 1] ELSE 0]
  <2>0. c \in Call /\ c.d \in Delivery
    BY <1>0, CallTyped
  <2>1. calls' = (calls \ {c}) \cup {c2} /\ UNCHANGED <<row, cfg>>
    BY <1>7 DEF Post, Advance
  <2>2. c2.d = c.d /\ c2.since = c.since /\ c2.pc = "update" /\ c2.outcome = outcome
    BY <2>0 DEF Call
  <2> DEFINE n == IF accepted /\ accepts[c.d] < MaxAccepts THEN accepts[c.d] + 1 ELSE accepts[c.d]
  <2>a. accepts' = [accepts EXCEPT ![c.d] = n] /\ (ok => accepted)
    BY <1>7 DEF Post
  <2>b. accepts \in [Delivery -> 0..MaxAccepts] /\ accepts[c.d] \in 0..MaxAccepts
    BY <1>0, <2>0 DEF TypeOK
  <2>c. (accepts[c.d] > 0 => n > 0) /\ (MaxAccepts > 0 /\ accepted => n > 0)
    BY <2>b
  <2>d. outcome = "delivered" => accepted
    BY <2>a DEF Outcome
  <2> HIDE DEF n
  <2>e. accepts'[c.d] = n /\ \A d \in Delivery : d # c.d => accepts'[d] = accepts[d]
    BY <2>0, <2>a, <2>b
  <2>3. \A d \in Delivery : accepts[d] > 0 => accepts'[d] > 0
    BY <2>c, <2>e
  <2>4. MaxAccepts > 0 /\ outcome = "delivered" => accepts'[c.d] > 0
    BY <2>c, <2>d, <2>e
  <2>5. \A k \in calls : k.d \in Delivery
    BY <1>0, CallTyped
  <2> HIDE DEF c2, outcome
  <2>6. SecretInv'
    BY <2>1, <2>2 DEF FaultInv, SecretInv
  <2>7. AcceptedInv'
    BY <2>1, <2>2, <2>3, <2>4, <2>5 DEF FaultInv, AcceptedInv, DeliveredMeansAccepted
  <2> QED
    BY <1>0, <2>6, <2>7 DEF FaultInv
<1>8. ASSUME NEW c \in calls, Update(c) PROVE FaultInv'
  <2>0. c \in Call /\ c.d \in Delivery /\ row[c.d] \in Row
    BY <1>0, CallTyped
  <2>1. calls' = calls \ {c} /\ UNCHANGED <<cfg, accepts>>
    BY <1>8 DEF Update
  <2>2. \A d \in Delivery : row'[d].status = "delivered" =>
          row[d].status = "delivered" \/ (d = c.d /\ c.outcome = "delivered")
    BY <1>0, <1>8, <2>0, UpdatedRowFields DEF Update, TypeOK
  <2> QED
    BY <1>0, <2>0, <2>1, <2>2 DEF FaultInv, SecretInv, AcceptedInv, DeliveredMeansAccepted
<1> QED
  BY <1>1, <1>2, <1>3, <1>4, <1>5, <1>6, <1>7, <1>8 DEF Next, Environment, CallStep

LEMMA AlwaysFaultInv == Spec => []FaultInv
BY InitFaultInv, NextFaultInv, PTL DEF Spec

(* Whatever throws or crashes, a row says delivered only when the callback     *)
(* accepted the event.                                                         *)
THEOREM NoFalseDelivery ==
  ASSUME MaxAccepts > 0
  PROVE  Spec => []DeliveredMeansAccepted
<1>1. FaultInv => DeliveredMeansAccepted
  BY DEF FaultInv, AcceptedInv
<1> QED
  BY <1>1, AlwaysFaultInv, PTL

(* Whatever throws or crashes, a POST is never signed with a secret replaced   *)
(* before the row was claimed.                                                 *)
THEOREM SecretNeverStale == Spec => []SecretIsCurrent
<1>1. FaultInv => SecretIsCurrent
  BY DEF FaultInv, SecretInv, SecretIsCurrent
<1> QED
  BY <1>1, AlwaysFaultInv, PTL

-----------------------------------------------------------------------------
(* The signature each attempt carries.                                        *)

(* A key that occurs once in a header is read from where it stands.            *)
LEMMA LastOfOnly ==
  ASSUME NEW h, NEW k, NEW n \in Nat, PartsOf(h, k) = {n}
  PROVE  LastOf(h, k) = h[n].value
<1>1. (CHOOSE i \in {n} : \A j \in {n} : i >= j) = n
  OBVIOUS
<1> QED
  BY <1>1 DEF LastOf

(* However the parts of a signed header are ordered, and whatever versions it  *)
(* names besides, the verifier reads the timestamp and the MAC of SignWebhook. *)
LEMMA HeaderReads ==
  ASSUME NEW secret \in Nat, NEW body \in Delivery, NEW t \in Nat,
         NEW h \in SameHeader(SignWebhook(secret, body, t))
  PROVE  /\ h # NoHeader
         /\ WellFormed(h)
         /\ LastOf(h, "t") = t
         /\ LastOf(h, "v1") = Mac(secret, t, body)
<1> DEFINE pt == Part("t", t)
           pv == Part("v1", Mac(secret, t, body))
           p0 == Part("v0", Unreadable)
           PartSet == [key : PartKey, value : PartValue \cup {Unreadable}]
<1>1. /\ pt \in PartSet /\ pv \in PartSet /\ p0 \in PartSet
      /\ pt.key = "t" /\ pt.value = t
      /\ pv.key = "v1" /\ pv.value = Mac(secret, t, body)
      /\ p0.key = "v0"
  <2>1. t \in PartValue /\ <<secret, t, body>> \in PartValue
    BY DEF PartValue
  <2> QED
    BY <2>1 DEF Part, Mac, PartKey
<1>2. /\ pt.value # Unreadable /\ pv.value # Unreadable
      /\ "t" # Unreadable /\ "v1" # Unreadable /\ "v0" # Unreadable
  BY <1>1, SigningAssumption DEF Mac, PartValue, PartKey
<1>3. h \in {<<pt, pv>>, <<pv, pt>>, Append(<<pt, pv>>, p0)}
  BY DEF SignWebhook, SameHeader
<1>4. h \in Seq(PartSet)
  <2>1. \A x, y \in PartSet : <<x, y>> \in Seq(PartSet)
    <3> HIDE DEF PartSet
    <3> QED OBVIOUS
  <2>2. <<pt, pv>> \in Seq(PartSet) /\ <<pv, pt>> \in Seq(PartSet)
    BY <1>1, <2>1, Zenon
  <2>3. Append(<<pt, pv>>, p0) \in Seq(PartSet)
    <3> HIDE DEF pt, pv, p0, PartSet
    <3> QED BY <1>1, <2>2, AppendProperties
  <2> QED
    BY <1>3, <2>2, <2>3, Zenon
<1> HIDE DEF pt, pv, p0, PartSet
<1>5. h # NoHeader
  BY <1>4, SigningAssumption DEF PartSet
<1>6. CASE h = <<pt, pv>>
  <2>1. PartsOf(h, "t") = {1} /\ PartsOf(h, "v1") = {2}
    BY <1>1, <1>6 DEF PartsOf
  <2> QED
    BY <1>1, <1>2, <1>5, <1>6, <2>1, LastOfOnly DEF WellFormed
<1>7. CASE h = <<pv, pt>>
  <2>1. PartsOf(h, "t") = {2} /\ PartsOf(h, "v1") = {1}
    BY <1>1, <1>7 DEF PartsOf
  <2> QED
    BY <1>1, <1>2, <1>5, <1>7, <2>1, LastOfOnly DEF WellFormed
<1>8. CASE h = Append(<<pt, pv>>, p0)
  <2>1. <<pt, pv>> \in Seq(PartSet) /\ Len(<<pt, pv>>) = 2
    BY <1>1
  <2>2. Len(h) = 3 /\ h[1] = pt /\ h[2] = pv /\ h[3] = p0
    BY <1>1, <1>8, <2>1, AppendProperties
  <2>3. DOMAIN h = {1, 2, 3}
    BY <1>4, <2>2
  <2>4. PartsOf(h, "t") = {1} /\ PartsOf(h, "v1") = {2}
    BY <1>1, <2>2, <2>3 DEF PartsOf
  <2> QED
    BY <1>1, <1>2, <1>5, <2>2, <2>3, <2>4, LastOfOnly DEF WellFormed
<1> QED
  BY <1>3, <1>6, <1>7, <1>8

(* signature.ts: every attempt verifies from the moment it is sent until       *)
(* MaxSkew later and never after, and only with its own body and secret.       *)
THEOREM AttemptsVerify == Spec => []EveryAttemptVerifies
<1>1. TypeOK => EveryAttemptVerifies
  <2> SUFFICES ASSUME TypeOK, NEW c \in calls,
                      NEW later \in 0 .. 2 * MaxSkew, NEW s \in 0 .. MaxDisturbances,
                      NEW d \in Delivery, NEW h \in SameHeader(SignedHeader(c))
               PROVE  (VerifyWebhookSignature(s, d, h, clock + later, MaxSkew) = "valid")
                        <=> (later <= MaxSkew /\ s = c.secret /\ d = c.d)
    BY DEF EveryAttemptVerifies
  <2>1. /\ c.d \in Delivery /\ c.secret \in Nat /\ clock \in Nat
        /\ later \in Nat /\ s \in Nat /\ MaxSkew \in Nat
    BY SigningAssumption, DispatcherAssumption DEF TypeOK, Call
  <2>2. /\ h # NoHeader /\ WellFormed(h)
        /\ LastOf(h, "t") = clock /\ LastOf(h, "v1") = Mac(c.secret, clock, c.d)
    BY <2>1, HeaderReads DEF SignedHeader
  <2>3. Distance(clock + later, clock) = later
    BY <2>1 DEF Distance
  <2>4. Mac(c.secret, clock, c.d) = Mac(s, clock, d) <=> s = c.secret /\ d = c.d
    BY DEF Mac
  <2> QED
    BY <2>1, <2>2, <2>3, <2>4 DEF VerifyWebhookSignature
<1> QED
  BY <1>1, TypeCorrect, PTL

=============================================================================
