# Verification of attesto

attesto is a self-hosted service in front of the Apple App Store and Google Play.
Tenants ask it whether a purchase is valid; the stores push notifications to it,
which it stores, normalises and delivers to each tenant's callback. It runs as one
Deno process on one PostgreSQL database. These modules model the parts that keep
state or wait on something; TLC checks them on small instances and TLAPS proves the
safety properties for every instance.

    tlc -workers 2 -config Dispatcher.cfg MCDispatcher     # a run
    tlapm DispatcherProofs.tla                             # a proof

`PROJECT.json` lists components, runs, the lines behind each definition, the
hazards and the theorems. Paths below are relative to `src/app/`.

## 1. Inventory

| Part | State it keeps | Operations | What makes it correct |
|---|---|---|---|
| Webhook dispatcher (`services/webhooks/dispatcher.ts`, `delivery.ts`, `db/queries/webhooks.ts`) | `webhook_deliveries` rows; timer, running flag and current tick in memory | tick (claim a batch, `processOne` each), POST, row update, start, stop | no row worked on by two calls; bounded retries; terminal states final; nothing is "delivered" that was not accepted; healthy rows not starved by a broken one |
| Webhook ingest (`apple-receiver.ts`, `google-receiver.ts`, `enqueue.ts`, `routes/webhooks.ts`) | `webhook_events` with unique keys | verify, insert or find, enqueue, answer | at most one delivery per row, none missing short of a failure; 200 only for what is stored |
| Google purchase chain (`google-chain.ts`) | `google_purchase_chains` | record a link, walk to the root | key stays in the lineage, is the original token when links are on file; walks end |
| OIDC verification (`services/google/oidc-verifier.ts`), TTL cache (`lib/ttl-cache.ts`) | cached JWKS, in-flight load | verify a push token | published keys found, retired keys dropped, one fetch at a time, pushes get through |
| Authentication, lookups, voided purchases, audit (`middleware/auth.ts`, `routes/{apple,google,shared}.ts`, `services/{apple,google,audit}/*`) | `api_keys`, `tenants`, credentials, `validation_audit_log` | five lookups, a page and a scan of voided purchases, an unawaited audit insert | barred callers refused; no fault read as an answer; audit row says what the client was told |
| Rate limiter (`middleware/rate-limit.ts`, `route-costs.ts`) | a token bucket per tenant, in memory | admit, refuse | admitted cost bounded, Retry-After honest |
| Retention purge (`services/retention/purge.ts`, `db/batched-delete.ts`) | interval timer, in-flight sweep | sweep events (and by cascade deliveries), audit, chains | sweeps exclusive; only expired rows go; every expired row goes |
| Tenant erasure (`db/queries/tenant-purge.ts`, `cli/tenants.ts`) | none of its own: the tenant's rows | `tenant:purge` in batches, verification, report | "complete" means erased; re-running finishes |
| Credential loaders, Google OAuth (`*/credentials-loader.ts`, `oauth.ts`) | TTL caches of credentials and access tokens | load, exchange, share a load or an exchange | no dead token is sent; a replaced key can be deleted without a refusal and is out of use in bounded time |
| Apple JWS verification (`jws-verifier.ts`, `x5c-normalize.ts`) | verifier per bundle and environment | verify | a library; its outcomes matter |
| Normalisation and subject (`webhooks/normalize.ts`, `subject.ts`) | none: fields of `webhook_events` at receipt, the envelope at delivery | classify, extract | what is told at delivery is what was resolved at receipt; one vocabulary for both stores |
| Outbound signature (`webhooks/signature.ts`) | none | sign, parse, verify | each attempt verifies within the skew, and only then |
| Process lifecycle (`main.ts`) | the above | boot, shutdown | dispatcher and sweeps quiet before the pool closes |
| CLI (`cli/*`) | none: writes the tables | tenants, keys, credentials, webhooks, reports | its writes race with the server |
| Config, logging, health, encryption, schema | none or static | - | - |

**How they interact.** A notification is verified (OIDC or JWS), resolved to a subject
(for Google through the purchase chain), inserted into `webhook_events` and
enqueued. The dispatcher polls the deliveries, reads the event and the tenant's
config, POSTs, and writes the outcome back. Lookups go through authentication, the
limiter, a credentials loader and a store client, and leave an audit row. Retention
sweeps and `tenant:purge` delete under all of them, and the CLI, another process,
changes tenants, keys, credentials and configs at any time. The database is the only
shared state; no operation spans two statements in a transaction.

**What is hard.** Every `await` is a point where another request, tick, sweep or
command runs. Hence the hazards of `PROJECT.json`: rows claimed while an earlier
tick's call still runs; snapshots written back late; an event stored and its enqueue
lost; duplicates racing each other and the sweep; a cached key set evicted under a
shared fetch; audit rows written after the erasure that should have covered them;
scans cut at a cap; a token exchange begun with a key that has been replaced since;
a retry signed hours after its event; a crash between a POST and its record; clocks that step; one
failing table in front of healthy ones.

## 2. Modules and the code

One action is one step of the event loop between two awaits, or one statement of the
database. Names follow the source.

| Module | Models | State and actions |
|---|---|---|
| `DeliveryLifecycle` | what a delivery row promises (abstract) | `status`, `attempts` of each row: `Create`, `Attempt`, `Delete` |
| `Dispatcher` | dispatcher.ts, delivery.ts, the delivery queries, boot and shutdown of main.ts | `row`, `event`, `cfg` are tables; `running`, `tick`, `cur` the loop; `calls` the `processOne`s in flight with the snapshot each took. `StartTick`/`Claim`, `ReadEvent`, `ReadConfig`, `DecryptFails`, `QueryFails`, `Post`, `Update`, `TickDone`, `Stop`, `Exit`, `Crash`, `Boot`; beside them `Enqueue`, `SetConfig`, deletions, time |
| `Ingest` | both receivers, enqueue.ts, the event queries, routes/webhooks.ts | `events`, `queued`, tenant, credential and config rows, one request record per handler; `Deliver`, `Duplicate` (the store), `CheckTenant`, `CheckCreds` with `VerifyWithEnvironments`, `Insert`, `Find`, `FindNothing`, `ReadConfig`, `Enqueue`, `Respond`; faults, crash, admin, purge |
| `GoogleChain` | google-chain.ts and its call in google-receiver.ts | `linked` (Google's truth), `chain` (the table), one call per handler: `Fetch`, `RecordChainLink`, `Hop`, `Fallback`, `PurgeLink` |
| `TtlCache` | lib/ttl-cache.ts | operators on one key: an entry, an in-flight load |
| `OidcVerifier` | oidc-verifier.ts over `TtlCache` | `published`, `retiredAt` (Google), `cache`, `loads`, a check per request: `SelectKey`, `VerifyToken`, `CheckAudience`, `Respond`, `JwksAnswered`, `JwksLoaded`, `JwksFails`, rotation |
| `Lookup` | auth.ts, apple/google routes and services, environments.ts, clients' error mapping, voided-purchases.ts, validation-audit.ts, shared.ts, error.ts | key, tenant and audit tables, one record per request: `FindKey`, `GetTenant`, `TouchLastUsed`, `Admit`, `StartAppleLookup`, `AttemptEnvironment`, `StartGoogleLookup`, `GoogleGet`, `ListVoidedPurchases`, `FindVoidedPurchase`, `WriteAudit`; administration and crash |
| `CredentialCache` | google/credentials-loader.ts and oauth.ts over two `TtlCache`s, up to the GET of google/client.ts | `stored`, `replacedAt`, `deleted` (the operator and Google), `creds` with `loads`, `tokens` with `exchanges`, one record per request: `LoadCredentials`, `RowRead`, `RowLoaded`, `LoadFails`, `GetAccessToken`, `Granted`, `Exchanged`, `ExchangeRefused`, `ExchangeFails`, `SetCredentials`, `DeleteKey` |
| `Envelope` | normalize.ts, subject.ts, the receivers' persisted fields, buildPayload of delivery.ts | pure operators: the two maps as sets of entries, `NormalizeApple`, `NormalizeGoogle`, `Persisted`, `ExtractSubject`, `BuildPayload` |
| `Outbound` | `Ingest` with `Envelope` | no state of its own: every payload a stored event may stand for, over any `Text` and `Code` |
| `Signature` | signature.ts | pure operators: `SignWebhook`, `WellFormed`, `VerifyWebhookSignature` |
| `SignedDelivery` | `Dispatcher` with `Signature` | no state of its own: the header of each attempt |
| `RateLimiter` | rate-limit.ts, route-costs.ts | `bucket`, `clock`; `Admit`, `Refuse`, `SetClock`; `window` and `promise` observe |
| `RetentionPurge` | retention/purge.ts, batched-delete.ts, shutdown of main.ts | `rows` with their age, `timer`, `inFlight`, `sweep`: `Boot`, `TimerFires`, `Batch`, `BatchFails`, `Stop`, `Close`, `Crash` |
| `TenantErasure` | tenant-purge.ts, cli/tenants.ts, batched-delete.ts | `present`, counts of `rows`, requests: `StartPurge`, `DeleteBatch`, `DeleteChains`, `DeleteTenantRow`, `Verify`, `Interrupt` beside traffic |
| `*Proofs` | - | theorems about the modules they extend (`GoogleReceiverProofs`: `GoogleChain` and `OidcVerifier`, whose specification formulas are prefixed for it) |
| `MC*` | - | small instances for TLC |

`Dispatcher` is shown to implement `DeliveryLifecycle` (`ImplementsLifecycle`, with
`status` and `attempts` taken from `row`). `OidcVerifier` and `CredentialCache` compose
with `TtlCache`, the second with two caches, one filled from the other; `Outbound` puts
`Envelope` behind `Ingest`'s rows, `SignedDelivery` puts `Signature` behind
`Dispatcher`'s POSTs.
The other modules meet in the database: each takes the others' effect on the tables
it reads as environment actions (the sweep in `Ingest` and `GoogleChain`, the CLI
everywhere, ingest's inserts in `Dispatcher` and `RetentionPurge`).

An operator next to a definition whose name is a variation of it
(`OutcomeOffByOne`, `RunUnguarded`) is a mutation: the same code with a plausible
mistake. It is used by no specification; substituting it shows that the property it is
paired with in `PROJECT.json` notices.

Abstractions worth knowing:

* Payloads, ids and secrets are model values. A secret is a version number, so that
  "signed with an old secret" can be said.
* Time is a small integer. In `RetentionPurge` it counts days; in `RateLimiter` it and
  the tokens are fractions of `1/Scale`, exact where the code uses doubles.
* Whether a signature verifies is decided in `Ingest` by the environment Apple signed in
  against the tenant's configured environments and App ID (the peek included), and for
  Google by the tenant's audience; the key cache behind the latter is `OidcVerifier`. In
  `Lookup` a store's answer carries its verdict. Notifications are genuine.
* In `Envelope` a field is there, of the type the code asks for, or `Absent`; the map's own
  types and subtypes are spelled as the stores spell them, other strings are members of
  `Text`; an event is its kind, name and reason. `platformEvent` repeats the store's words and is left out.
* In `Signature` a header is the sequence of its parts and the HMAC is free: equal only for
  equal secret, timestamp and body.
* In `CredentialCache` a key is a model value and a token carries the key it was granted to
  and Google's own expiry. A unit of time is long beside the event loop: whoever can go on
  does so before it passes. Queries and exchanges last up to `MaxLatency`.
* In `Lookup` the limiter is a refusal that may happen at any time, credentials are any
  the tenant may have, and each store call returns any answer it can give.
* Dry runs, logging, metrics and wording are left out.

## 3. Runs

| Run | Question | Instance and why it is enough |
|---|---|---|
| `dispatcher` | With no throwing call: is a row ever worked on twice, written from a stale snapshot, attempted too often, accepted more often than attempts and disturbances explain, "delivered" untruly; does every attempt verify at the callback, and only within the skew; does the loop implement the lifecycle? | 2 rows, 1 tenant, 2 calls per tick, 1 retry, clock to 1, 3 disturbances (crashes, stops, secret rotations, deactivations, deletions) and 3 acceptances counted per row: two siblings in a tick, a restart while both run, and a POST repeated twice by crashes before it is recorded; skew 1 |
| `dispatcher_live` | With failing queries and an undecryptable secret: are the other rows still attempted, again and again? | 2 tenants: the row of the broken one, pending from the start, takes one of the 2 slots of every tick and rejects the tick; 2 rows of the healthy one, one pending and one enqueued at any time, compete for the other slot. Clock to 1, so that a failed attempt comes due again and due times differ; 1 disturbance of any kind |
| `dispatcher_overlap` | violation: see section 6 | the same with a throwing decrypt |
| `ingest` | At most one delivery, none missing unless something failed, honest 200, nothing lost for ever; for every payload behind a row, does the callback get the event and subject that were resolved? | an Apple production and a Google notification, 2 concurrent requests, a tenant with Apple credentials, without, or without the App ID, one duplicate, fault, purge and admin change: enough for a duplicate answered before the original has enqueued, a duplicate racing the original, and a row deleted between conflict and lookup. Payloads: every type and subtype of the Apple map and some unknown of each, notification numbers 0 to 21 of Google (`Code`, beyond the map on both sides), every field there or missing (a transaction without its original id included), two strings for a token, product or user (`Text`), so that a resolved root can differ from the token |
| `ingest_lost_delivery` | violation: see section 6 | one notification, one fault |
| `google_chain` | Lineage, root, termination | every link function on 3 tokens, cycles and self-links included, cap 2 (below, at and above the cap), 2 handlers, failing lookups, the sweep |
| `oidc_verifier` | Rotation under shared fetches | an RSA and an EC key, one of our pushes and one stranger's request, TTL 1, latency 1, 2 rotations, 1 failed fetch, 2 credential changes; two load ids so that a second fetch beside the first is possible |
| `lookup` | Barred callers, honest answers, audit, termination | every kind of request and every store answer, each environment hint, home and credential setting; voided lists of 1 to 4 pages (cap 3) that end, repeat or loop; 2 administrative changes, 1 crash. One request: requests share only tables that requests do not change, except `last_used_at` |
| `rate_limiter` | Bound on admission, honest Retry-After | one tenant (buckets are independent), rate 1 per 2 ticks, burst 2, a route of cost 3 above the burst, any clock step within 0..7 |
| `retention_purge` | Exclusion, quiet shutdown, only and all expired rows | 2 events with their deliveries by cascade, window 1; behind them an audit row without a window, which the sweep must leave and skip, and a chain link of window 1; batch 1 and cap 1 so that a backlog exceeds the cap, 1 fault, 1 restart. The theorems cover all windows |
| `credential_cache` | Is every token sent alive, is a key rotation seamless, when is the old key out of use? | 2 keys, 2 requests that share loads and exchanges, loader TTL 2, margin 2, latency 1, lifetimes 2 (at the margin: never usable from the cache) and 5, token TTL 8, clock to 8: past TTL, latency and the longest usable lifetime after a replacement at time 0, so the bound of `OldKeyRetires` is reached; 1 fault; symmetric in keys and requests |
| `tenant_erasure` | What survives a purge; does re-running finish? | 5 rows against batches of 2 and cap 2 (more than a run deletes, and a multiple plus a remainder), 2 lookups and 3 arrivals in flight, 2 interruptions |

`CHECK_DEADLOCK FALSE` is set where the instance's bounds let the system come to rest
(no more arrivals, clock at its end). `CredentialCache`'s run uses symmetry, which is sound
as it checks invariants only; `GoogleChain`, `RateLimiter` can always move.

**Named bounds.** `MaxClock`, `MaxDisturbances`, `MaxAccepts`, `MaxDuplicates`, `MaxFaults`,
`MaxPurges`, `MaxAdmin`, `MaxArrivals`, `MaxCrashes`, `MaxRestarts`, `MaxRotations`,
`MaxAdmitted` cap the environment only (`MaxAccepts` the history `accepts`); `Broken`,
`Backlog` and `Slots` choose what an instance starts with or may hold. `MaxRetries`, `Schedule`, `Concurrency`,
`MaxBatches`, `BatchSize`, `MaxChainDepth`, `MaxPages`, `Ttl`, `TokenTtl`, `Skew`, `Lifetimes`, `MaxSkew` are the code's (or Google's) own
constants with small values.

**Fairness.** Weak fairness only, and only of what the event loop, the platform or
another party owes:

* `Dispatcher`: the timer, the end of a tick, every call's next await (queries settle;
  the POST has an AbortController) and shutdown; a stopped process is started again
  (container restart policy). Failing is never obliged.
* `Ingest`: a request runs on; the stores retry what was not answered 200.
* `RetentionPurge`: the interval, each statement, shutdown, restart.
* `TenantErasure`: requests end; the operator repeats the command until it reports
  complete, as the report asks.
* `OidcVerifier`: a JWKS fetch ends one way or another, Pub/Sub redelivers. The fetch has
  no timeout of its own; that it ends is an assumption about the platform.
* `GoogleChain`, `Lookup`: queries settle and store calls have timeouts.

`CredentialCache`, `Signature` and `Envelope` state safety only and need no fairness.

`MaxLatency` in `OidcVerifier` and `CredentialCache` is an assumption on the network, as
neither fetch has a timeout: `RetiredKeyExpires` says latency plus TTL, and
`TokenAliveWhenSent` needs exchanges shorter than the refresh margin (the named assumption). A
fetch that never ends, or a grant that travels longer, is outside every property here.

## 4. Proofs

Each proof module extends the module or modules it is about; the constants carry only
the named assumptions of those modules. Every safety property of the runs is proved for
every value of the constants; of liveness, the half that needs no fairness. Each inductive
invariant `IInv` was checked by TLC on the instance of its run before it was proved, and
has the type invariant as its first conjunct, so type correctness of every component
follows (`TypeCorrect` states it for the dispatcher).

**DispatcherProofs.** `OneCallPerDelivery` is not inductive: whether a row can be
claimed again depends on whether any call outlives its tick. The invariant `IInv`
adds `NoOrphan` (a call in flight belongs to the current tick), `NoSibling` (with a concurrency
of one a call is alone), `NoStaleSnapshot`, `CallOutcome` (what a call is about to
write follows from its snapshot and the schedule), `WithinBudget`,
`FailedOnlyWhenSpent` and `Uninserted` (a row not inserted yet has no event
and no attempts). It is inductive under `Calm`: no call can throw, or one call per tick.
That condition is exactly what `dispatcher_overlap` shows to be necessary. From it follow
`NoDoubleClaim`, `SnapshotStaysCurrent`, `FailureIsEarned`, `TerminalStatusFinal` and, step by
step, `DispatcherImplementsLifecycle`. `BudgetRespected` adds `PostsCounted`, inductive on top
of it: an acceptance is paid for by the attempt on record (`Update`), by the call about to
record it, or by what befell the process (`PaidFor`). `TypeCorrect`,
`NoFalseDelivery`, `SecretNeverStale` and `AttemptsVerify` need no such condition: they hold
for every fault and concurrency through the weaker `FaultInv` (a call's secret is no older
than its claim and no newer than the row; a call with a 2xx found the event accepted, where acceptances are counted).
`AttemptsVerify` adds lemmas about `Signature`: in every header that says the same,
`LastOf` reads the timestamp and the MAC that `SignWebhook` wrote.

**IngestProofs.** `SingleDelivery`, `AckAfterInsert`, `OnlyFaultsLose`: for any number of
notifications, handlers and faults. `OwnersApart`: between the insert of an event and that of
its delivery there is one handler for it, and nothing is queued yet; the unique key makes
the insert exclusive. `PastInsert` and `EventsInserted` tie a handler past the insert, and
each row, to a notification that was persisted. `OnlyFaultsLose` follows, while the budgets of
faults and administration are untouched, the request that owes a delivery (`Owes`) until it
has inserted it; it is the reverse of `ingest_lost_delivery`. On `Outbound`, for any strings and numbers
a store may send: `ResolvedSubjectGoesOut` compares, payload by payload, the row a receiver
persists with the subject built from it; that a resolved key is never dropped rests on the
two files testing the same fields. `StoresShareVocabulary` needs of the Google maps that
each mapping is one of Apple's (`Shared`) or has a name no Apple mapping has (`GoogleOnly`),
or is a product's other than `charged`; an unknown subtype is `AppleFallback`.

**RateLimiterProofs.** `RateIsBounded`: for every rate, burst, cost and clock. `Conserved`:
what a window admitted plus what the bucket holds is at most the burst plus the refill
up to `lastRefill`, and `lastRefill` never exceeds the highest clock seen; refill and
admission keep the sum. `RetryAfterIsEnough`: `Promised` says that while a promise stands
the bucket and the refill up to the promised time cover the refused cost; it is made by
`RetryAfterCovers` (rounding up loses nothing) and kept because a refusal costs nothing.

**GoogleReceiverProofs**, on `GoogleChain`. `KeyStaysInLineage`: recorded links are Google's
links (`ChainIsTrue`), so a cursor never leaves a set that contains the token and is closed
under them. `FullLineageFindsRoot`: `Path` says that a walk that found its lineage on file
still does, that the tokens seen are as many as the hops, lie in the lineage, and lead
up to the cursor. `WalkEndsAtRoot` then excludes the early ends: a
repeated token would close a cycle without a root (`NoRootInACycle`), and the cap is
reached only with as many tokens seen as the lineage has. Lineages are given by closed
sets and compared by cardinality, which replaces the induction along the chain.

**GoogleReceiverProofs**, on `OidcVerifier`. `SingleLoad`: a load under way is the one
`inflight` names, and while there is one there is no entry (an entry is only stored by
the load's own end, and a load only begins after a lookup that found nothing). Hence
`OneFetch`. For `RotationIsCovered`, `Found` says what a check may rely on: while its key
stays published, a load answered after it began has the key. A check in its first
`select` either used an entry, and then no load was under way, or was woken by one, and
then none is; so the second round cannot join an answer that predates the check.
`LoadsInv` and `EntryInv` bound how long ago a key in a load or an entry can have been
retired, for `RetiredKeyIsDropped`. The operators of `TtlCache` enter through `CacheOps`
and `StoredKeys`.

**RetentionPurgeProofs.** `SweepIsExclusive` and `QuietWhenClosed` from `Guarded` (a running
sweep holds `inFlight`, a process that is down has none), `DeliveryHasEvent` and
`OnlyExpiredGoes` from `CutoffPast` (a sweep's cutoff is of the past) and `DeliveryAge` (a
delivery is as old as its event, so the cascade is covered by the event's age).

**TenantErasureProofs.** `LateRowsWereInFlight` and `CompleteReportIsTrue` count: a lookup
that authenticated before the tenants row went is still looking up, waiting to write, or in
the table again. `GoneForGood` bounds the first two once the tenant is gone, `Accounted`
all three past a short batch. `AuditAfterTenant` is the order of the phases on which both rest.

**CredentialCacheProofs.** The invariant follows a key from the row through the loader
(`LoadInv`), its cache (`CredsInv`), an exchange (`ExchangeInv`) and the token cache
(`TokensInv`) to the wire (`RequestInv`), and says of each place how long ago the key can have
been replaced. `TokenStillGood`, `PatientRotationIsSafe` and `ReplacedKeyRetires` are the last stage.

**LookupProofs.** One request's part: `Attempting` (environments already tried hold the purchase
only if they denied it) and `Scanning` (the pages read lead from the first to the cursor
and name no match) carry `LookupsAreHonest` and `ScanIsConclusive`. The other part relates
it to the tables: `BarrierInv` (what barred a request on arrival still does at the next
check it has to pass), `PreferenceInv` and `AuditInv` give `BarredNeverServed`,
`PreferenceDecides` and `AuditMatchesAnswer`.

**Work is bounded.** Four liveness properties have a half that needs no fairness: every own
step lowers a natural number that starts bounded, and no step of another actor raises it.
`WalkIsBounded` (at most `MaxChainDepth` + 2 steps, whatever is linked, unlinked or cyclic
meanwhile), `SweepIsBounded` (4 `MaxBatches` statements), `PurgeIsBounded` (3 `MaxBatches`
+ 3) and `RequestIsBounded` (`MaxPages` + 6 steps, for lists that loop; at most two
environments) state that, as action properties of the specifications without fairness. The
bounds inside them (`depth`, `batches` and `pages` below their caps, the environment index
within the list) are part of the invariants above. With it `EveryWalkEnds` and
`EveryRequestAnswered` depend only on the steps being taken, which is the fairness of section
3; `ExpiredEventuallyPurged` and `EventuallyComplete` also on sweeps, or runs of the command,
being started again for what one left behind.

**Assumptions on constants.** Beside types: `MaxRetries` within the schedule (config.ts);
windows of at least a day (config.ts); finite sets of deliveries, tokens and erasure
requests; in `CredentialCache` a positive loader TTL, a longest lifetime, and exchanges
within the refresh margin and every lifetime (section 3); in `Lookup` that a list's cursors
name its pages; in `SignedDelivery` that the marks for a missing header and an unreadable
part are not parts themselves; in `Envelope` that `Absent` is neither a string nor a subject.

**Only model-checked.** All liveness (fairness and ENABLED are out of the prover's
reach): `HealthyIsAttempted`, `EventuallyPersisted`, `EveryWalkEnds`,
`ExpiredEventuallyPurged`, `EventuallyComplete`, `PushGetsThrough`,
`EveryRequestAnswered`. The proofs contain no induction over data: chains are closed sets,
voided lists the pages read, and the maps of `Envelope` are sets of entries.

## 5. Not modelled

* The Apple verifier cache and the padding of its certificate chain (`jws-verifier.ts`,
  `x5c-normalize.ts`): a verifier is determined by its cache key, which holds every field of
  the credentials it is built from, and a failed construction is dropped. `Ingest` and
  `Lookup` decide its verdict from the credentials they read.
* Apple's credentials loader has the shape of Google's and no token behind it; only Google's
  is modelled. `Lookup` takes any credentials a loader may return.
* Cryptography (AES-GCM, HMAC, JWS chains, OCSP): platform and Apple's library. Only the
  outcomes are modelled.
* Schema migrations, pooling, configuration parsing, reports, statistics, logging,
  health, `webhook:ping`, `webhook:probe` and test notifications: I/O without state another
  component reads. A probe's notification comes back through `Ingest` as any other.
* The normalised answers of lookups (line items, renewal info): field-by-field copies.

## 6. Where the code does not do what is written

Two runs end in a violation, each of a sentence in the repository:

* `dispatcher_overlap`: the comment that ticks are serialised so that a row is not
  claimed twice (dispatcher.ts:62-64). `Promise.all` rejects at the first throwing
  `processOne`; its siblings run on into the next tick, which claims their rows.
* `ingest_lost_delivery`: "exactly one logical delivery" (docs/reference/webhooks.md:219-221).
  Insert and enqueue are two statements; after a failure between them the retry finds
  the row and enqueues nothing.

Smaller disagreements met while modelling; the modules follow the code:

* retention/purge.ts:146-148: "a failure in one table still leaves the others swept". The
  tables are awaited in a row without a catch (160-181), so a failing DELETE ends the sweep
  (`BatchFails`), and one that keeps failing keeps the tables behind it from being swept.
  `ExpiredEventuallyPurged` holds because `MaxFaults` bounds the failures, and says nothing of a
  table that fails for good.
* normalize.ts:58-64: a new Apple subtype takes event and reason from "the parent type's
  entry"; `DID_CHANGE_RENEWAL_STATUS` has no such entry, so there it becomes `unknown`.
  The comment at 162-164 says "(with reason: null)"; an unknown subtype of `SUBSCRIBED`
  gets `initial`. `OneVocabulary` is about the types that have an entry of their own.
* A `REFUND` of a one-time product is `subscription.refunded` with a subject of type
  `product` on Apple; Google's voided notification is `subscription.refunded` too and has
  no subject. Hence `SubjectIsTheResolvedOne` ties kind and subject for Google only.
* cli/webhooks.ts:352 lists events with the subject of the payload, without the
  `subject_key` override the delivery applies: after an upgrade the two differ.
* docs/self-host/maintenance.md:67-69: after about five minutes "new requests use the new
  key". The token cache is keyed by tenant and scope (oauth.ts:107), so tokens of the old
  key are sent for up to a lifetime more (docs/self-host/tenants.md says so of memory);
  deleting the old key then is safe all the same. `OldKeyRetires` and
  `RotationIsSeamless` state what holds.
* docs/guide/architecture.md:91-92 speaks of exactly-once delivery to the callback; POST
  and row update are two steps (dispatcher.ts:110-127), so a crash between them repeats it.
* db/queries/webhooks.ts:169-171 says of the sentinel row that the store will retry; the
  route answers 200 (routes/webhooks.ts:120-122). `Degrade` in `Ingest` is this path.
* dispatcher.ts:105: an undecryptable secret throws before anything is recorded, so its row keeps
  the oldest `next_attempt_at`. Fewer such rows than the concurrency delay the others and
  no more (`HealthyIsAttempted`, whose premise says so); as many as that starve every other
  tenant. No text promises otherwise.
* subject.ts:106: a transaction without `originalTransactionId` has no subject, but its
  `appAccountToken` is persisted all the same (apple-receiver.ts:260-271): the callback gets a user
  and a null subject. `SubjectIsTheResolvedOne` allows that case and no other; on Google's
  side it takes one kind of notification per message, as Google sends them.
* tenant-purge.ts:42-44: a tenant is "still fully present" or unable to authenticate; the
  batches (161-171) go before the tenant row (181).
* db/schema.ts:301-302 and google-chain.ts:111-113 promise the first-seen token as a
  stable key; the walk follows recorded links only and stops at the cap.
  `RootWhenOnFile` states the conditions under which it is true.
* environments.ts:46-48: null "when every environment reported not-found"; a 401 of
  production followed by a not-found of sandbox gives the same answer, and a missing
  `appAppleId` counts as such a 401 (apple/client.ts:158-178). `AnswerIsHonest` states
  what remains true.
* cli/credentials.ts lets an unset audience "skip aud enforcement"; the verifier refuses
  every push then (oidc-verifier.ts:313-319).
* apple/credentials-loader.ts:9-10 leaves invalidation to the caller; no caller does it.
* A failing token exchange or an unparsable body of Google becomes `INTERNAL_ERROR`, not
  `GOOGLE_API_ERROR`. Token and JWKS fetches have no timeout.

`RetryAfterSuffices` speaks of refusals made while the clock is not behind the bucket's
last refill: after a step back the deficit is counted from that refill.

## 7. Order of work, and what could follow

Modelled and proved in this order: `Dispatcher` with `DeliveryLifecycle`, `Ingest`,
`RateLimiter`, `GoogleChain`, `RetentionPurge`, `TenantErasure`, `TtlCache` with
`OidcVerifier`, `Lookup`; then `CredentialCache`, `Envelope` with `Outbound`, `Signature` with
`SignedDelivery`; then the proofs of section 4, the bounds on work last.

What a change of the code would call for first:

1. A catch around each row in `tick` (or `Promise.allSettled`) would make `Calm` unnecessary:
   `OneCallPerDelivery` and `dispatcher_overlap` then need no condition.
2. Insert and enqueue in one transaction would turn `ingest_lost_delivery` into a property
   that holds, with `OwnersApart` reduced to one step.
3. The Apple verifier cache, once it is keyed by less than all the fields it is built from.
