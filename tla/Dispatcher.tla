------------------------------ MODULE Dispatcher ------------------------------
(***************************************************************************)
(* The outbound delivery loop: services/webhooks/dispatcher.ts (start, stop, *)
(* tick, processOne, runTickAndReschedule), services/webhooks/delivery.ts    *)
(* (attemptDelivery) and the webhook_deliveries / webhook_configs queries    *)
(* they use (claimPendingDeliveries, updateDeliveryAttempt,                  *)
(* getWebhookConfig, upsertWebhookConfig).                                   *)
(*                                                                           *)
(* Every await of processOne is a step of its own, so the rows, the config   *)
(* and the process itself may change between any two of them.  A processOne  *)
(* in flight is a record of `calls'; the tick that claimed it is Promise.all *)
(* over those calls, which settles at the first rejection and leaves the     *)
(* remaining calls running.                                                  *)
(***************************************************************************)
EXTENDS Integers, Sequences, FiniteSets, FiniteSetsExt

CONSTANTS
  Delivery,      \* ids of webhook_deliveries rows (ULIDs: never reused)
  Tenant,
  TenantOf,      \* tenant_id of each delivery
  MaxRetries,    \* WEBHOOK_MAX_RETRIES
  Schedule,      \* RETRY_SCHEDULE_SECONDS
  Concurrency,   \* WEBHOOK_DISPATCH_CONCURRENCY
  Faults,        \* what may make processOne throw: "db", "decrypt"
  Broken,        \* tenants whose stored secret does not decrypt
  Backlog,       \* rows pending when the server starts
  TickId,        \* bound: ticks that may have calls in flight at once
  MaxClock,      \* bound: time
  MaxAccepts,    \* bound: acceptances of a delivery that are counted
  MaxDisturbances \* bound: crashes, stops, failing queries, config changes and deletions

ASSUME DispatcherAssumption ==
  /\ TenantOf \in [Delivery -> Tenant]
  /\ MaxRetries \in Nat
  /\ Schedule \in Seq(Nat)
  /\ MaxRetries <= Len(Schedule)      \* config.ts: .lte(RETRY_SCHEDULE_SECONDS.length)
  /\ Concurrency \in Nat \ {0}
  /\ IsFiniteSet(Delivery)
  /\ Faults \subseteq {"db", "decrypt"}
  /\ Broken \subseteq Tenant
  /\ Broken # {} => "decrypt" \in Faults
  /\ Backlog \subseteq Delivery
  /\ MaxClock \in Nat /\ MaxAccepts \in Nat /\ MaxDisturbances \in Nat

VARIABLES
  clock,     \* Date.now()
  row,       \* webhook_deliveries
  event,     \* does the delivery's webhook_events row exist?
  cfg,       \* webhook_configs, one per tenant; no row reads like one not active
  up,        \* the server process runs
  running,   \* the dispatcher's `running' flag
  tick,      \* "active" while currentTick # null
  cur,       \* id of the tick currentTick awaits
  calls,     \* processOne calls in flight
  accepts,   \* times the tenant's callback accepted the delivery
  disturbances  \* how many so far of what MaxDisturbances bounds

vars == <<clock, row, event, cfg, up, running, tick, cur, calls, accepts, disturbances>>
processVars == <<up, running, tick, cur>>

Status == {"none", "pending", "delivered", "failed", "deleted"}
Terminal == {"delivered", "failed"}

Row == [status : Status, attemptCount : Nat, nextAttemptAt : Nat,
        why : {"none", "http", "abandoned"}]    \* why: what last_response_body says
Config == [isActive : BOOLEAN, secret : Nat, decryptable : BOOLEAN]

(* since is the config's secret when the row was claimed: history for SecretIsCurrent. *)
Call == [d : Delivery, tick : TickId, pc : {"event", "config", "post", "update"},
         att : Nat, since : Nat, secret : Nat,
         outcome : {"none", "delivered", "retry", "failed"}, next : Nat,
         why : {"none", "http", "abandoned"}]

TypeOK ==
  /\ clock \in Nat
  /\ row \in [Delivery -> Row]
  /\ event \in [Delivery -> BOOLEAN]
  /\ cfg \in [Tenant -> Config]
  /\ up \in BOOLEAN /\ running \in BOOLEAN
  /\ tick \in {"idle", "active"}
  /\ cur \in TickId
  /\ calls \subseteq Call
  /\ accepts \in [Delivery -> 0..MaxAccepts]
  /\ disturbances \in Nat

Init ==
  /\ clock = 0
  /\ row = [d \in Delivery |->
              [status |-> IF d \in Backlog THEN "pending" ELSE "none",
               attemptCount |-> 0, nextAttemptAt |-> 0, why |-> "none"]]
  /\ event = [d \in Delivery |-> d \in Backlog]
  /\ cfg = [t \in Tenant |->
              [isActive |-> TRUE, secret |-> 0, decryptable |-> t \notin Broken]]
  /\ up = TRUE /\ running = TRUE
  /\ tick = "idle"
  /\ cur \in TickId
  /\ calls = {}
  /\ accepts = [d \in Delivery |-> 0]
  /\ disturbances = 0

Disturb ==
  /\ disturbances < MaxDisturbances
  /\ disturbances' = disturbances + 1

-----------------------------------------------------------------------------
(* The rest of the system, as the dispatcher sees it.                       *)

TimePasses ==
  /\ clock < MaxClock
  /\ clock' = clock + 1
  /\ UNCHANGED <<row, event, cfg, processVars, calls, accepts, disturbances>>

(* enqueueWebhookDelivery for a newly persisted event.                       *)
Enqueue(d) ==
  /\ row[d].status = "none"
  /\ row' = [row EXCEPT ![d] =
               [status |-> "pending", attemptCount |-> 0, nextAttemptAt |-> clock, why |-> "none"]]
  /\ event' = [event EXCEPT ![d] = TRUE]
  /\ UNCHANGED <<clock, cfg, processVars, calls, accepts, disturbances>>

(* upsertWebhookConfig (webhook:set-config): new secret, new is_active.      *)
SetConfig(t, active) ==
  /\ Disturb
  /\ cfg' = [cfg EXCEPT ![t] = [isActive |-> active,
                                secret |-> cfg[t].secret + 1, decryptable |-> TRUE]]
  /\ UNCHANGED <<clock, row, event, processVars, calls, accepts>>

(* The retention sweep deletes the delivery first, the event after; deleting *)
(* the event cascades to the delivery.                                       *)
DeleteDelivery(d) ==
  /\ row[d].status \notin {"none", "deleted"}
  /\ Disturb
  /\ row' = [row EXCEPT ![d].status = "deleted"]
  /\ UNCHANGED <<clock, event, cfg, processVars, calls, accepts>>

DeleteEvent(d) ==
  /\ event[d]
  /\ Disturb
  /\ event' = [event EXCEPT ![d] = FALSE]
  /\ row' = [row EXCEPT ![d].status = "deleted"]
  /\ UNCHANGED <<clock, cfg, processVars, calls, accepts>>

-----------------------------------------------------------------------------
(* The tick: claim, run the calls, settle, re-arm the timer.                 *)

ClaimableAnyStatus(d) ==
  row[d].status \notin {"none", "deleted"} /\ row[d].nextAttemptAt <= clock

(* WHERE status = 'pending' AND next_attempt_at <= now.                      *)
Claimable(d) == row[d].status = "pending" /\ row[d].nextAttemptAt <= clock

Due == {d \in Delivery : Claimable(d)}

(* ORDER BY next_attempt_at LIMIT concurrency.                               *)
IsClaim(S) ==
  /\ Cardinality(S) = Min({Concurrency, Cardinality(Due)})
  /\ \A d \in S, e \in Due \ S : row[d].nextAttemptAt <= row[e].nextAttemptAt

NewCall(d, t) ==
  [d |-> d, tick |-> t, pc |-> "event", att |-> row[d].attemptCount,
   since |-> cfg[TenantOf[d]].secret, secret |-> 0,
   outcome |-> "none", next |-> 0, why |-> "none"]

FreshTick == {t \in TickId : \A c \in calls : c.tick # t}

Claim(S) ==
  LET t == CHOOSE x \in FreshTick : TRUE
  IN /\ calls' = calls \cup {NewCall(d, t) : d \in S}
     /\ cur' = t
     /\ tick' = "active"

StartTickOverlapping ==
  /\ up /\ running
  /\ FreshTick # {}
  /\ \E S \in SUBSET Due \ {{}} : IsClaim(S) /\ Claim(S)
  /\ UNCHANGED <<clock, row, event, cfg, up, running, accepts, disturbances>>

(* runTickAndReschedule fires; a tick that claims nothing changes nothing.   *)
StartTick ==
  /\ up /\ running /\ tick = "idle"
  /\ FreshTick # {}
  /\ \E S \in SUBSET Due \ {{}} : IsClaim(S) /\ Claim(S)
  /\ UNCHANGED <<clock, row, event, cfg, up, running, accepts, disturbances>>

(* Promise.all resolves: every call of the tick has returned.                *)
TickDone ==
  /\ tick = "active"
  /\ \A c \in calls : c.tick # cur
  /\ tick' = "idle"
  /\ UNCHANGED <<clock, row, event, cfg, up, running, cur, calls, accepts, disturbances>>

RejectUncaught(c) ==
  /\ calls' = calls \ {c}
  /\ tick' = IF c.tick = cur THEN "idle" ELSE tick
  /\ running' = FALSE
  /\ UNCHANGED <<clock, row, event, cfg, up, cur, accepts>>

(* A call rejects.  The tick awaiting it rejects at once, the error is       *)
(* logged, and the timer is re-armed; its other calls keep running.          *)
Reject(c) ==
  /\ calls' = calls \ {c}
  /\ tick' = IF c.tick = cur THEN "idle" ELSE tick
  /\ UNCHANGED <<clock, row, event, cfg, up, running, cur, accepts>>

Advance(c, c2) == calls' = (calls \ {c}) \cup {c2}

-----------------------------------------------------------------------------
(* processOne, one step per await.                                           *)

Abandoned(c) == [c EXCEPT !.pc = "update", !.outcome = "failed", !.why = "abandoned"]

ReadEvent(c) ==
  /\ c.pc = "event"
  /\ Advance(c, IF event[c.d] THEN [c EXCEPT !.pc = "config"] ELSE Abandoned(c))
  /\ UNCHANGED <<clock, row, event, cfg, processVars, accepts, disturbances>>

(* getWebhookConfig, then decryptString of the secret just read.             *)
ReadConfigStaleSecret(c) ==
  LET k == cfg[TenantOf[c.d]]
  IN /\ c.pc = "config"
     /\ k.isActive => k.decryptable
     /\ Advance(c, IF k.isActive
                   THEN [c EXCEPT !.pc = "post", !.secret = 0]
                   ELSE Abandoned(c))
     /\ UNCHANGED <<clock, row, event, cfg, processVars, accepts, disturbances>>

ReadConfig(c) ==
  LET k == cfg[TenantOf[c.d]]
  IN /\ c.pc = "config"
     /\ k.isActive => k.decryptable
     /\ Advance(c, IF k.isActive
                   THEN [c EXCEPT !.pc = "post", !.secret = k.secret]
                   ELSE Abandoned(c))
     /\ UNCHANGED <<clock, row, event, cfg, processVars, accepts, disturbances>>

(* decryptString throws: an unreadable secret_enc.                           *)
DecryptFails(c) ==
  LET k == cfg[TenantOf[c.d]]
  IN /\ "decrypt" \in Faults
     /\ c.pc = "config"
     /\ k.isActive /\ ~k.decryptable
     /\ Reject(c)
     /\ UNCHANGED disturbances

(* A query of processOne throws.                                             *)
QueryFails(c) ==
  /\ "db" \in Faults
  /\ c.pc \in {"event", "config", "update"}
  /\ Disturb
  /\ Reject(c)

OutcomeAcceptsAnything(c, ok) ==
  IF c.att <= MaxRetries THEN "delivered" ELSE "failed"

OutcomeOffByOne(c, ok) ==
  IF ok THEN "delivered" ELSE IF c.att > MaxRetries THEN "failed" ELSE "retry"

(* attemptDelivery: 2xx delivers; otherwise retry while the budget lasts.    *)
Outcome(c, ok) ==
  IF ok THEN "delivered" ELSE IF c.att >= MaxRetries THEN "failed" ELSE "retry"

(* The POST and its answer.  accepted: the callback processed the event; ok:  *)
(* Attesto saw a 2xx (an accepted event's answer may be lost to the timeout). *)
Post(c, accepted, ok) ==
  LET outcome == Outcome(c, ok)
  IN /\ c.pc = "post"
     /\ ok => accepted
     /\ accepts' = [accepts EXCEPT ![c.d] = IF accepted /\ @ < MaxAccepts THEN @ + 1 ELSE @]
     /\ Advance(c, [c EXCEPT !.pc = "update", !.outcome = outcome, !.why = "http",
                             !.next = IF outcome = "retry" THEN clock + Schedule[c.att + 1] ELSE 0])
     /\ UNCHANGED <<clock, row, event, cfg, processVars, disturbances>>

UpdatedRowUncounted(r, c) ==
  IF c.outcome = "retry"
  THEN [r EXCEPT !.attemptCount = @ + 1, !.why = c.why, !.nextAttemptAt = c.next]
  ELSE [r EXCEPT !.why = c.why, !.status = c.outcome]

(* The SET list of updateDeliveryAttempt.                                    *)
UpdatedRow(r, c) ==
  IF c.outcome = "retry"
  THEN [r EXCEPT !.attemptCount = @ + 1, !.why = c.why, !.nextAttemptAt = c.next]
  ELSE [r EXCEPT !.attemptCount = @ + 1, !.why = c.why, !.status = c.outcome]

(* updateDeliveryAttempt: WHERE id = ..., whatever the row's status is now;  *)
(* a deleted row is not found.                                               *)
Update(c) ==
  /\ c.pc = "update"
  /\ row' = IF row[c.d].status = "deleted" THEN row
            ELSE [row EXCEPT ![c.d] = UpdatedRow(@, c)]
  /\ calls' = calls \ {c}
  /\ UNCHANGED <<clock, event, cfg, processVars, accepts, disturbances>>

-----------------------------------------------------------------------------
(* Shutdown, crash, boot.                                                    *)

Stop ==
  /\ up /\ running
  /\ Disturb
  /\ running' = FALSE
  /\ UNCHANGED <<clock, row, event, cfg, up, tick, cur, calls, accepts>>

(* stop() has awaited currentTick; the pool is closed and the process exits. *)
Exit ==
  /\ up /\ ~running /\ tick = "idle"
  /\ up' = FALSE
  /\ calls' = {}
  /\ UNCHANGED <<clock, row, event, cfg, running, tick, cur, accepts, disturbances>>

Crash ==
  /\ up
  /\ Disturb
  /\ up' = FALSE /\ running' = FALSE
  /\ calls' = {}
  /\ tick' = "idle"
  /\ UNCHANGED <<clock, row, event, cfg, cur, accepts>>

(* runServer: createDispatcher(...) then dispatcher.start().                 *)
Boot ==
  /\ ~up
  /\ up' = TRUE /\ running' = TRUE
  /\ UNCHANGED <<clock, row, event, cfg, tick, cur, calls, accepts, disturbances>>

-----------------------------------------------------------------------------
CallStep(c) ==
  \/ ReadEvent(c)
  \/ ReadConfig(c)
  \/ DecryptFails(c)
  \/ \E accepted, ok \in BOOLEAN : Post(c, accepted, ok)
  \/ Update(c)

Environment ==
  \/ TimePasses
  \/ \E d \in Delivery : Enqueue(d) \/ DeleteDelivery(d) \/ DeleteEvent(d)
  \/ \E t \in Tenant, active \in BOOLEAN : SetConfig(t, active)

Next ==
  \/ Environment
  \/ StartTick
  \/ TickDone
  \/ \E c \in calls : CallStep(c) \/ QueryFails(c)
  \/ Stop \/ Exit \/ Crash \/ Boot

Spec == Init /\ [][Next]_vars

(* The event loop runs whatever is ready: timers, settled promises, every    *)
(* call's next query and its POST (bounded by the AbortController) complete; *)
(* the platform restarts a stopped process.  Nothing obliges the             *)
(* environment to act, and nothing obliges a query to fail.                  *)
Fairness ==
  /\ WF_vars(StartTick)
  /\ WF_vars(TickDone)
  /\ \A d \in Delivery, t \in TickId :
       WF_vars(\E c \in calls : c.d = d /\ c.tick = t /\ CallStep(c))
  /\ WF_vars(Exit)
  /\ WF_vars(Boot)

FairSpec == Spec /\ Fairness

-----------------------------------------------------------------------------
(* Properties.                                                               *)

(* dispatcher.ts:62-66: one dispatcher never has the same row claimed twice. *)
OneCallPerDelivery ==
  \A c1, c2 \in calls : c1.d = c2.d => c1 = c2

(* processOne acts on a snapshot taken at claim time; when it writes back,   *)
(* the row is still pending, due, and at the attempt count it read (unless   *)
(* it was deleted), so `attempt_count + 1' records exactly this attempt.     *)
NoStaleSnapshot ==
  \A c \in calls : row[c.d].status # "deleted" =>
    /\ row[c.d].status = "pending"
    /\ row[c.d].attemptCount = c.att
    /\ row[c.d].nextAttemptAt <= clock

(* The budget of recorded attempts; a row still pending has some left.       *)
WithinBudget ==
  \A d \in Delivery :
    /\ row[d].attemptCount <= MaxRetries + 1
    /\ row[d].status = "pending" => row[d].attemptCount <= MaxRetries

(* A POST whose attempt is not recorded yet.                                 *)
Unrecorded(d) == \E c \in calls : c.d = d /\ c.pc = "update" /\ c.why = "http"

PostsCounted ==
  \A d \in Delivery : row[d].status # "deleted" =>
    accepts[d] <= row[d].attemptCount + disturbances + (IF Unrecorded(d) THEN 1 ELSE 0)

(* delivery.ts: 1 + maxRetries recorded attempts in all.  And the callback   *)
(* takes an event no more often than there are attempts on record, but for   *)
(* the one under way and one for each time something befell the process, as  *)
(* when it died between the POST and the write-back.                         *)
AttemptBudget == WithinBudget /\ PostsCounted

(* A delivered or failed row keeps its status: no late writer revives it or  *)
(* turns a success into a failure.                                           *)
TerminalIsFinal ==
  [][\A d \in Delivery : row[d].status \in Terminal =>
        row'[d].status \in {row[d].status, "deleted"}]_vars

(* A row is marked delivered only if the tenant's callback took the event.   *)
DeliveredMeansAccepted ==
  \A d \in Delivery : row[d].status = "delivered" => accepts[d] > 0

(* A row is given up only with the budget spent, or because the tenant has   *)
(* no active config (or the event is gone) - whatever threw in between.      *)
FailedOnlyWhenSpent ==
  \A d \in Delivery : row[d].status = "failed" =>
    row[d].attemptCount > MaxRetries \/ row[d].why = "abandoned"

(* dispatcher.ts:72-75: the POST is signed with a secret no older than the   *)
(* one configured when the row was claimed.                                  *)
SecretIsCurrent ==
  \A c \in calls : c.pc = "post" => c.secret >= c.since

(* A row whose secret cannot be decrypted rejects its tick every time it is  *)
(* claimed, and keeps the oldest next_attempt_at.                            *)
Undecryptable ==
  {d \in Delivery : row[d].status = "pending" /\ ~cfg[TenantOf[d]].decryptable}

(* dispatcher.ts:105, 139.  While such rows are fewer than the concurrency,  *)
(* they cost the other tenants' rows their slots and their ticks, but no     *)
(* attempt: through crashes, stops, config changes, deletions and failing    *)
(* queries the dispatcher comes to a time when no other row is due (the      *)
(* deliveries are finitely many).                                            *)
HealthyIsAttempted ==
  Cardinality({d \in Delivery : TenantOf[d] \in Broken}) < Concurrency
    => []<>(\A d \in Delivery : Claimable(d) => d \in Undecryptable)

(* The dispatcher implements the lifecycle of DeliveryLifecycle.             *)
Life == INSTANCE DeliveryLifecycle WITH
          status <- [d \in Delivery |-> row[d].status],
          attempts <- [d \in Delivery |-> row[d].attemptCount]
ImplementsLifecycle == Life!LifeSpec

=============================================================================
