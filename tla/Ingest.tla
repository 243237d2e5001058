-------------------------------- MODULE Ingest --------------------------------
(***************************************************************************)
(* Inbound notifications: routes/webhooks.ts, the two receivers             *)
(* (apple-receiver.ts, google-receiver.ts), insertWebhookEventIdempotent    *)
(* and maybeEnqueueDeliveryForEvent.                                        *)
(*                                                                          *)
(* A request in progress is a handler; each of its queries is a step, so    *)
(* concurrent requests, tenant administration, retention sweeps and         *)
(* crashes fall between any two.  The stores redeliver until they see a     *)
(* 200 and may deliver a notification more than once.                       *)
(***************************************************************************)
EXTENDS Integers, FiniteSets

CONSTANTS
  Notification,  \* upstream notifications: (source, externalId) of a tenant
  Tenant,
  TenantOf,      \* the tenant each notification is addressed to
  SourceOf,      \* "apple" or "google"
  HomeOf,        \* the Apple environment that signed the notification
  InitialCreds,  \* the Apple credentials tenants start with
  Handler,       \* bound: requests in progress at once
  MaxDuplicates, \* bound: redeliveries nobody asked for
  MaxFaults,     \* bound: failed queries, lost answers and crashes
  MaxPurges,     \* bound: webhook_events rows deleted
  MaxAdmin       \* bound: tenant and config changes

Environments == {"production", "sandbox"}

(* apple_credentials: the configured environment, and whether the numeric App *)
(* ID is set.                                                                 *)
NoCreds == [environment |-> "none", appAppleId |-> FALSE]
Creds == [environment : Environments \cup {"auto"}, appAppleId : BOOLEAN] \cup {NoCreds}

ASSUME IngestAssumption ==
  /\ TenantOf \in [Notification -> Tenant]
  /\ SourceOf \in [Notification -> {"apple", "google"}]
  /\ HomeOf \in [Notification -> Environments]
  /\ InitialCreds \subseteq Creds
  /\ MaxDuplicates \in Nat /\ MaxFaults \in Nat /\ MaxPurges \in Nat /\ MaxAdmin \in Nat

VARIABLES
  tenant,    \* tenants
  creds,     \* apple_credentials
  audience,  \* is google_credentials there, with our audience?
  config,    \* webhook_configs
  events,    \* webhook_events rows: id and natural key
  nextId,    \* event ids handed out so far (ULIDs: never reused)
  queued,    \* deliveries ever inserted for each event id
  req,       \* requests in progress
  acked,     \* did the store get a 200 for the notification?
  inserted,  \* was a row ever inserted for the notification?
  budget     \* what is left of each bound

db == <<tenant, creds, audience, config>>
vars == <<db, events, nextId, queued, req, acked, inserted, budget>>

Idle == [pc |-> "idle"]
Request == [pc : {"tenant", "creds", "insert", "find", "findAgain", "config", "enqueue", "respond"},
            n : Notification, id : Nat]     \* id: the event's, 0 before it is known

(* Event ids in use.                                                        *)
EventId == 1..nextId

TypeOK ==
  /\ tenant \in [Tenant -> {"active", "inactive", "deleted"}]
  /\ creds \in [Tenant -> Creds]
  /\ audience \in [Tenant -> BOOLEAN]
  /\ config \in [Tenant -> {"none", "active", "inactive"}]
  /\ nextId \in Nat
  /\ events \subseteq [id : Nat, n : Notification]
  /\ queued \in [EventId -> Nat]
  /\ req \in [Handler -> Request \cup {Idle}]
  /\ acked \in [Notification -> BOOLEAN]
  /\ inserted \in [Notification -> BOOLEAN]
  /\ budget \in [duplicates : Nat, faults : Nat, purges : Nat, admin : Nat]

Init ==
  /\ tenant = [t \in Tenant |-> "active"]
  /\ creds \in [Tenant -> InitialCreds]
  /\ audience \in [Tenant -> BOOLEAN]
  /\ config \in [Tenant -> {"none", "active"}]
  /\ events = {} /\ nextId = 0 /\ queued = [i \in EventId |-> 0]
  /\ req = [h \in Handler |-> Idle]
  /\ acked = [n \in Notification |-> FALSE]
  /\ inserted = [n \in Notification |-> FALSE]
  /\ budget = [duplicates |-> MaxDuplicates, faults |-> MaxFaults,
               purges |-> MaxPurges, admin |-> MaxAdmin]

Busy(n) == \E h \in Handler : req[h] # Idle /\ req[h].n = n

-----------------------------------------------------------------------------
(* The store.  It redelivers what was not answered with a 200; a Pub/Sub      *)
(* replay or an overlapping retry comes on top.                               *)

(* The Apple route looks the tenant up first; the Google route first checks   *)
(* the OIDC token against the tenant's credentials.                           *)
FirstPc(n) == IF SourceOf[n] = "apple" THEN "tenant" ELSE "creds"

Arrive(h, n) ==
  /\ req[h] = Idle
  /\ req' = [req EXCEPT ![h] = [pc |-> FirstPc(n), n |-> n, id |-> 0]]

Deliver(h, n) ==
  /\ ~acked[n] /\ ~Busy(n)
  /\ Arrive(h, n)
  /\ UNCHANGED <<db, events, nextId, queued, acked, inserted, budget>>

Duplicate(h, n) ==
  /\ Busy(n) \/ acked[n]
  /\ budget.duplicates > 0
  /\ Arrive(h, n)
  /\ budget' = [budget EXCEPT !.duplicates = @ - 1]
  /\ UNCHANGED <<db, events, nextId, queued, acked, inserted>>

-----------------------------------------------------------------------------
(* The request, one step per query.                                           *)

Goto(h, pc) == req' = [req EXCEPT ![h].pc = pc]

FailWithOk(h) ==
  /\ req' = [req EXCEPT ![h] = Idle]
  /\ acked' = [acked EXCEPT ![req[h].n] = TRUE]
  /\ UNCHANGED <<db, events, nextId, queued, inserted, budget>>

(* Any thrown error: the error middleware answers with a non-2xx status.      *)
Fail(h) ==
  /\ req' = [req EXCEPT ![h] = Idle]
  /\ UNCHANGED <<db, events, nextId, queued, acked, inserted, budget>>

(* assertActiveTenant                                                         *)
CheckTenant(h) ==
  /\ req[h].pc = "tenant"
  /\ IF tenant[TenantOf[req[h].n]] = "active"
     THEN /\ Goto(h, IF SourceOf[req[h].n] = "apple" THEN "creds" ELSE "insert")
          /\ UNCHANGED <<db, events, nextId, queued, acked, inserted, budget>>
     ELSE Fail(h)

(* What a genuine payload says of its environment without verification: the   *)
(* truth, or nothing where the peek looks for it.                             *)
PeekAppleEnvironment(n) == {HomeOf[n], "none"}

ConfiguredEnvs(c) == IF c.environment = "auto" THEN Environments ELSE {c.environment}

(* A verifier of environment e accepts what e signed; without the App ID none *)
(* is made for production.                                                    *)
VerifiesIn(c, n, e) == HomeOf[n] = e /\ (e = "production" => c.appAppleId)

(* The peeked environment first if there are two, then the other one; without *)
(* a peek every configured one.                                               *)
VerifyWithEnvironments(c, n, hint) ==
  LET envs == ConfiguredEnvs(c)
      first == IF c.environment = "auto" /\ hint # "none" THEN {hint} ELSE envs
  IN  (\E e \in first : VerifiesIn(c, n, e)) \/ (\E e \in envs \ first : VerifiesIn(c, n, e))

(* getAppleCredentials, the preflight and the JWS: the credentials are read   *)
(* once and nothing else of the database afterwards.                          *)
AppleVerified(n, hint) ==
  LET c == creds[TenantOf[n]]
  IN  /\ c # NoCreds
      /\ ~(c.environment = "production" /\ ~c.appAppleId)
      /\ VerifyWithEnvironments(c, n, hint)

(* The signature: Apple's, or the OIDC token against google_credentials (see  *)
(* OidcVerifier).                                                             *)
CheckCreds(h) ==
  LET n == req[h].n
  IN  /\ req[h].pc = "creds"
      /\ \E hint \in PeekAppleEnvironment(n) :
           IF IF SourceOf[n] = "apple" THEN AppleVerified(n, hint) ELSE audience[TenantOf[n]]
           THEN /\ Goto(h, IF SourceOf[n] = "apple" THEN "insert" ELSE "tenant")
                /\ UNCHANGED <<db, events, nextId, queued, acked, inserted, budget>>
           ELSE Fail(h)

(* The natural key (tenant, source, external id) is taken.                    *)
Conflict(n) == \E e \in events : e.n = n

InsertRow(h) ==
  /\ nextId' = nextId + 1
  /\ events' = events \cup {[id |-> nextId + 1, n |-> req[h].n]}
  /\ queued' = [i \in 1..nextId + 1 |-> IF i = nextId + 1 THEN 0 ELSE queued[i]]
  /\ inserted' = [inserted EXCEPT ![req[h].n] = TRUE]
  /\ req' = [req EXCEPT ![h].pc = "config", ![h].id = nextId + 1]
  /\ UNCHANGED <<db, acked, budget>>

(* INSERT ... ON CONFLICT DO NOTHING: one statement, serialised by the unique *)
(* index.  The foreign key rejects the row of a deleted tenant.               *)
Insert(h) ==
  /\ req[h].pc = "insert"
  /\ \/ tenant[TenantOf[req[h].n]] = "deleted" /\ Fail(h)
     \/ /\ tenant[TenantOf[req[h].n]] # "deleted"
        /\ ~Conflict(req[h].n)
        /\ InsertRow(h)
     \/ /\ tenant[TenantOf[req[h].n]] # "deleted"
        /\ Conflict(req[h].n)
        /\ Goto(h, "find")
        /\ UNCHANGED <<db, events, nextId, queued, acked, inserted, budget>>

FindEnqueues(h) ==
  /\ req[h].pc \in {"find", "findAgain"}
  /\ \E e \in events : e.n = req[h].n /\ req' = [req EXCEPT ![h].pc = "config", ![h].id = e.id]
  /\ UNCHANGED <<db, events, nextId, queued, acked, inserted, budget>>

(* findExisting, and findExisting again 50 ms later: isNew = false.           *)
Find(h) ==
  /\ req[h].pc \in {"find", "findAgain"}
  /\ \E e \in events : e.n = req[h].n /\ req' = [req EXCEPT ![h].pc = "respond", ![h].id = e.id]
  /\ UNCHANGED <<db, events, nextId, queued, acked, inserted, budget>>

FindNothing(h) ==
  /\ req[h].pc = "find"
  /\ ~Conflict(req[h].n)
  /\ Goto(h, "findAgain")
  /\ UNCHANGED <<db, events, nextId, queued, acked, inserted, budget>>

(* webhook_idempotent_insert_race_degraded: the sentinel, isNew = false; its  *)
(* id is one nobody inserted.                                                 *)
Degrade(h) ==
  /\ req[h].pc = "findAgain"
  /\ ~Conflict(req[h].n)
  /\ Goto(h, "respond")
  /\ UNCHANGED <<db, events, nextId, queued, acked, inserted, budget>>

(* maybeEnqueueDeliveryForEvent: the config, then the insert, whose foreign   *)
(* key rejects it when the event row is gone.                                 *)
ReadConfig(h) ==
  /\ req[h].pc = "config"
  /\ Goto(h, IF config[TenantOf[req[h].n]] = "active" THEN "enqueue" ELSE "respond")
  /\ UNCHANGED <<db, events, nextId, queued, acked, inserted, budget>>

EnqueueUnlessAcked(h) ==
  /\ req[h].pc = "enqueue"
  /\ IF acked[req[h].n] \/ \E e \in events : e.id = req[h].id
     THEN /\ queued' = IF acked[req[h].n] THEN queued
                       ELSE [queued EXCEPT ![req[h].id] = @ + 1]
          /\ Goto(h, "respond")
          /\ UNCHANGED <<db, events, nextId, acked, inserted, budget>>
     ELSE Fail(h)

Enqueue(h) ==
  /\ req[h].pc = "enqueue"
  /\ IF \E e \in events : e.id = req[h].id
     THEN /\ queued' = [queued EXCEPT ![req[h].id] = @ + 1]
          /\ Goto(h, "respond")
          /\ UNCHANGED <<db, events, nextId, acked, inserted, budget>>
     ELSE Fail(h)

Respond(h) ==
  /\ req[h].pc = "respond"
  /\ acked' = [acked EXCEPT ![req[h].n] = TRUE]
  /\ req' = [req EXCEPT ![h] = Idle]
  /\ UNCHANGED <<db, events, nextId, queued, inserted, budget>>

-----------------------------------------------------------------------------
(* Failures.                                                                  *)

UseFault == budget.faults > 0 /\ budget' = [budget EXCEPT !.faults = @ - 1]

(* A query throws, or the 200 does not reach the store.                       *)
QueryFails(h) ==
  /\ req[h] # Idle
  /\ UseFault
  /\ req' = [req EXCEPT ![h] = Idle]
  /\ UNCHANGED <<db, events, nextId, queued, acked, inserted>>

Crash ==
  /\ UseFault
  /\ \E h \in Handler : req[h] # Idle
  /\ req' = [h \in Handler |-> Idle]
  /\ UNCHANGED <<db, events, nextId, queued, acked, inserted>>

-----------------------------------------------------------------------------
(* Administration and retention.                                              *)

UseAdmin == budget.admin > 0 /\ budget' = [budget EXCEPT !.admin = @ - 1]

(* tenant:deactivate                                                          *)
DeactivateTenant(t) ==
  /\ tenant[t] = "active"
  /\ UseAdmin
  /\ tenant' = [tenant EXCEPT ![t] = "inactive"]
  /\ UNCHANGED <<creds, audience, config, events, nextId, queued, req, acked, inserted>>

(* tenant:purge: the tenant row, cascading to everything it owns.             *)
DeleteTenant(t) ==
  /\ tenant[t] # "deleted"
  /\ UseAdmin
  /\ tenant' = [tenant EXCEPT ![t] = "deleted"]
  /\ creds' = [creds EXCEPT ![t] = NoCreds]
  /\ audience' = [audience EXCEPT ![t] = FALSE]
  /\ config' = [config EXCEPT ![t] = "none"]
  /\ events' = {e \in events : TenantOf[e.n] # t}
  /\ UNCHANGED <<nextId, queued, req, acked, inserted>>

(* apple:set-credentials, google:set-credentials, webhook:set-config.         *)
SetCreds(t, c) ==
  /\ tenant[t] # "deleted" /\ creds[t] # c
  /\ UseAdmin
  /\ creds' = [creds EXCEPT ![t] = c]
  /\ UNCHANGED <<tenant, audience, config, events, nextId, queued, req, acked, inserted>>

SetAudience(t) ==
  /\ tenant[t] # "deleted" /\ ~audience[t]
  /\ UseAdmin
  /\ audience' = [audience EXCEPT ![t] = TRUE]
  /\ UNCHANGED <<tenant, creds, config, events, nextId, queued, req, acked, inserted>>

SetConfig(t, c) ==
  /\ tenant[t] # "deleted" /\ config[t] # c
  /\ UseAdmin
  /\ config' = [config EXCEPT ![t] = c]
  /\ UNCHANGED <<tenant, creds, audience, events, nextId, queued, req, acked, inserted>>

(* The retention sweep, or the first deletes of tenant:purge.                 *)
PurgeEvent(e) ==
  /\ budget.purges > 0
  /\ budget' = [budget EXCEPT !.purges = @ - 1]
  /\ events' = events \ {e}
  /\ UNCHANGED <<db, nextId, queued, req, acked, inserted>>

-----------------------------------------------------------------------------
Step(h) ==
  \/ CheckTenant(h) \/ CheckCreds(h)
  \/ Insert(h) \/ Find(h) \/ FindNothing(h) \/ Degrade(h)
  \/ ReadConfig(h) \/ Enqueue(h)
  \/ Respond(h)

Admin ==
  \/ \E t \in Tenant : DeactivateTenant(t) \/ DeleteTenant(t) \/ SetAudience(t)
  \/ \E t \in Tenant, c \in Creds \ {NoCreds} : SetCreds(t, c)
  \/ \E t \in Tenant, c \in {"active", "inactive"} : SetConfig(t, c)
  \/ \E e \in events : PurgeEvent(e)

Next ==
  \/ \E h \in Handler, n \in Notification : Deliver(h, n) \/ Duplicate(h, n)
  \/ \E h \in Handler : Step(h) \/ QueryFails(h)
  \/ Crash
  \/ Admin

Spec == Init /\ [][Next]_vars

(* The stores retry what was not answered with a 200, and a request in        *)
(* progress runs to its end unless a fault stops it.                          *)
Fairness ==
  /\ \A n \in Notification : WF_vars(\E h \in Handler : Deliver(h, n))
  /\ \A h \in Handler : WF_vars(Step(h))

FairSpec == Spec /\ Fairness

-----------------------------------------------------------------------------
(* Properties.                                                                *)

(* No event is delivered twice because two requests raced, one was retried    *)
(* after a crash, or the store replayed it.                                   *)
OneDeliveryPerEvent == \A i \in EventId : queued[i] <= 1

(* A request between the insert of an event and the insert of its delivery.    *)
Owes(h, e) ==
  req[h].pc \in {"config", "enqueue"} /\ req[h].id = e.id /\ req[h].n = e.n

(* Events whose tenant wants deliveries and whose delivery nobody is to        *)
(* insert any more.                                                           *)
Undelivered ==
  {e \in events : /\ config[TenantOf[e.n]] = "active"
                  /\ queued[e.id] # 1
                  /\ \A h \in Handler : ~Owes(h, e)}

(* apple-receiver.ts:274, google-receiver.ts:161: only the request that         *)
(* inserted the row enqueues it; another one answers 200 without looking for a *)
(* delivery, and the store stops retrying, maybe before the first got there.   *)
(* Short of a failing query, a lost answer, a crash or a change of the tenant's *)
(* set-up no such race, replay or purge leaves an event without its delivery.  *)
OnlyFaultsLoseDeliveries ==
  budget.faults = MaxFaults /\ budget.admin = MaxAdmin => Undelivered = {}

(* routes/webhooks.ts:120-121: the store is told 200, and so stops retrying,   *)
(* only for a notification that was persisted.                                *)
AckedMeansPersisted == \A n \in Notification : acked[n] => inserted[n]

(* What the operator must have configured for a notification: for Apple its    *)
(* environment, with the App ID for production (preflight.ts).                 *)
Configured(n) ==
  LET t == TenantOf[n]
  IN  /\ tenant[t] = "active"
      /\ SourceOf[n] = "google" => audience[t]
      /\ SourceOf[n] = "apple" =>
           /\ creds[t].environment \in {HomeOf[n], "auto"}
           /\ HomeOf[n] = "production" => creds[t].appAppleId

(* Whatever fails on the way, a notification is persisted in the end if its    *)
(* tenant is at last configured for it: one refused before is not answered in  *)
(* a way that ends the store's retries, and the peek at the payload's          *)
(* environment is "purely a perf hint" (apple-receiver.ts:76) that no       *)
(* verdict depends on.                                                        *)
EventuallyPersisted ==
  \A n \in Notification : (<>[]Configured(n)) => <>inserted[n]

(* docs/reference/webhooks.md:219-221: each upstream event produces exactly    *)
(* one logical delivery.  Once the store was answered and no request for it    *)
(* is left, an event of a tenant with a callback all along has its delivery.   *)
ExactlyOneDelivery ==
  \A e \in events :
    (acked[e.n] /\ ~Busy(e.n) /\ budget.admin = MaxAdmin /\ config[TenantOf[e.n]] = "active")
      => queued[e.id] = 1

=============================================================================
