-------------------------------- MODULE Lookup --------------------------------
(***************************************************************************)
(* The authenticated lookup endpoints: POST /v1/apple/verify, /v1/apple/     *)
(* subscription-status and their Google counterparts with the voided-        *)
(* purchase scan.  One tenant's requests go through the auth middleware      *)
(* (middleware/auth.ts), the rate limiter, the body check and withAudit      *)
(* (routes/shared.ts) into the store lookups of services/apple and           *)
(* services/google, while an operator creates and revokes keys, changes the  *)
(* audit preference, deactivates or erases the tenant, and the process may   *)
(* die.  Every await is a step of its own.                                   *)
(*                                                                           *)
(* A request carries what it asks for and, unknown to the code, where the    *)
(* purchase really is: `home' for a purchase, `list' for Google's voided     *)
(* list (`at' is the page that names the token, 0 for none; `next' the       *)
(* cursor each page hands out, 0 for none).                                  *)
(***************************************************************************)
EXTENDS Integers, Sequences, FiniteSets

CONSTANTS
  Requests,      \* requests a client may send
  Keys,          \* API keys the operator may create
  Asks,          \* what a request may ask for
  AuditDefault,  \* ENABLE_VALIDATION_AUDIT_LOG
  MaxPages,      \* VOIDED_SCAN_MAX_PAGES
  MaxAdmin,      \* bound on admin commands
  MaxCrashes     \* bound on process deaths

NoKey == "no key"            \* a missing or malformed Authorization header
Null == "null"               \* SQL null, and no error code

Environments == {"production", "sandbox"}
AppleKinds == {"appleVerify", "appleStatus"}
GoogleKinds == {"googleVerify", "googleStatus"}
ScanKinds == {"voidedList", "voidedFind"}
Kinds == AppleKinds \cup GoogleKinds \cup ScanKinds \cup {"malformed"}

Ask == [kind : Kinds,
        hint : Environments \cup {Null},
        home : Environments \cup {"play", "nowhere"},
        list : [next : Seq(Nat), at : Nat]]

(* Decrypted credentials: Apple's configured environment, whether appAppleId *)
(* is set, and whether bundleId / packageName is the one asked for.  In      *)
(* their place: no row, a service-account JSON that does not parse, or a     *)
(* query or decryption that throws.                                          *)
Creds == [env : Environments \cup {"auto"}, appAppleId : BOOLEAN, mine : BOOLEAN]
NoCreds == {"missing", "corrupt", "throws"}

ASSUME LookupAssumption ==
  /\ \A a \in Asks : /\ a \in Ask
                     /\ DOMAIN a.list.next # {}
                     /\ \A p \in DOMAIN a.list.next : a.list.next[p] \in 0 .. Len(a.list.next)
  /\ NoKey \notin Keys
  /\ AuditDefault \in BOOLEAN
  /\ MaxPages \in Nat \ {0} /\ MaxAdmin \in Nat /\ MaxCrashes \in Nat

VARIABLES
  keys,     \* api_keys: absent, active or revoked
  stamped,  \* how often a key's last_used_at was written
  tenant,   \* the tenants row: present, is_active, audit_log_enabled
  req,      \* requests on the server
  audit,    \* per request, the recorder's fire-and-forget insert
  rows,     \* validation_audit rows, by the request that caused them
  hist,     \* what held since a request arrived (for the properties)
  admin,    \* admin commands so far
  crashes   \* process deaths so far

vars == <<keys, stamped, tenant, req, audit, rows, hist, admin, crashes>>
data == <<keys, stamped, tenant>>
bounds == <<admin, crashes>>

Preference == {"on", "off", Null}

(* routes/shared.ts, how a lookup ended: a value, an AppError, or some other  *)
(* thrown error; `where' is the environment a positive Apple answer names.   *)
Returned(code, where) == [how |-> "returned", code |-> code, where |-> where]
AppError(code) == [how |-> "app", code |-> code, where |-> Null]
OtherError == [how |-> "other", code |-> Null, where |-> Null]
NoOutcome == [how |-> "none", code |-> Null, where |-> Null]

Positive == {"VALID", "VOIDED", "NOT_VOIDED", "TRUNCATED"}   \* valid: true
Valid(o) == o.how = "returned" /\ o.code \in Positive

NoAsk == [kind |-> "malformed", hint |-> Null, home |-> "nowhere",
          list |-> [next |-> <<0>>, at |-> 0]]   \* before the body is read
NotLoaded == [env |-> Null, appAppleId |-> FALSE, mine |-> FALSE]
NewRequest == [pc |-> "idle", ask |-> NoAsk, key |-> NoKey, pref |-> Null,
               creds |-> NotLoaded, i |-> 1, denied |-> {}, cursor |-> 1, read |-> {},
               pages |-> 0, outcome |-> NoOutcome]
NoHistory == [barred |-> FALSE, reached |-> FALSE, prefs |-> {}]

Init ==
  /\ keys \in [Keys -> {"absent", "active"}]
  /\ stamped = [k \in Keys |-> 0]
  /\ tenant \in [present : {TRUE}, active : {TRUE}, pref : Preference]
  /\ req = [r \in Requests |-> NewRequest]
  /\ audit = [r \in Requests |-> "none"]
  /\ rows = [r \in Requests |-> << >>]
  /\ hist = [r \in Requests |-> NoHistory]
  /\ admin = 0
  /\ crashes = 0

----------------------------------------------------------------------------
(* The audit row of a lookup.                                                *)

AuditEnabledByEither(setting, default) == setting = "on" \/ default

(* auditEnabledForTenant: `tenantSetting ?? defaultEnabled'.                 *)
AuditEnabledForTenant(setting, default) ==
  IF setting = Null THEN default ELSE setting = "on"

ErrorCodeOfResult(o) ==
  IF o.how = "returned" /\ ~Valid(o) THEN o.code ELSE Null

(* withAudit: the precedence of errorCode.                                   *)
ErrorCode(o) ==
  CASE o.how = "app"   -> o.code
    [] o.how = "other" -> "INTERNAL_ERROR"
    [] OTHER           -> IF Valid(o) THEN Null ELSE o.code

(* The record handed to the recorder.                                        *)
Row(o) == [valid |-> Valid(o), errorCode |-> ErrorCode(o)]

(* What the client is sent: the domain result, or createErrorHandler's body. *)
Response(o) ==
  CASE o.how = "app"   -> [valid |-> FALSE, error |-> o.code]
    [] o.how = "other" -> [valid |-> FALSE, error |-> "INTERNAL_ERROR"]
    [] OTHER           -> [valid |-> Valid(o), error |-> IF Valid(o) THEN Null ELSE o.code]

(* Answered before the handler: auth, limiter and body check are not audited. *)
Refuse(r, o) ==
  /\ req' = [req EXCEPT ![r].pc = "done", ![r].outcome = o]
  /\ UNCHANGED <<audit, rows, hist, bounds>>

(* The app-wide report /google/voided-purchases does without withAudit.      *)
Audited(kind) == kind # "voidedList"

(* withAudit's finally.                                                      *)
Finish(r, o, q) ==
  /\ req' = [req EXCEPT ![r] = [q EXCEPT !.pc = "done", !.outcome = o]]
  /\ audit' = IF Audited(q.ask.kind) /\ AuditEnabledForTenant(q.pref, AuditDefault)
              THEN [audit EXCEPT ![r] = "pending"] ELSE audit
  /\ UNCHANGED <<data, rows, hist, bounds>>

Continue(r, q) ==
  /\ req' = [req EXCEPT ![r] = q]
  /\ UNCHANGED <<data, audit, rows, hist, bounds>>

(* The recorder's insert, after the answer or before it is sent; its failure *)
(* is logged and swallowed.                                                  *)
WriteAudit(r) ==
  /\ audit[r] = "pending"
  /\ \/ /\ rows' = [rows EXCEPT ![r] = Append(@, Row(req[r].outcome))]
        /\ audit' = [audit EXCEPT ![r] = "written"]
     \/ /\ audit' = [audit EXCEPT ![r] = "failed"]
        /\ rows' = rows
  /\ UNCHANGED <<data, req, hist, bounds>>

----------------------------------------------------------------------------
(* middleware/auth.ts, and what stands between it and the handler.           *)

Arrive(r, a, k) ==
  /\ req[r].pc = "idle"
  /\ IF k = NoKey
     THEN req' = [req EXCEPT ![r].pc = "done", ![r].outcome = AppError("UNAUTHENTICATED")]
     ELSE req' = [req EXCEPT ![r].pc = "key", ![r].ask = a, ![r].key = k]
  /\ hist' = [hist EXCEPT ![r] =
       [barred  |-> k = NoKey \/ keys[k] = "revoked" \/ ~tenant.present \/ ~tenant.active,
        reached |-> FALSE,
        prefs   |-> {tenant.pref}]]
  /\ UNCHANGED <<data, audit, rows, bounds>>

FindAnyKeyByHash(k) == keys[k] # "absent"

(* findActiveKeyByHash: the row with this hash and revoked_at IS NULL.       *)
FindActiveKeyByHash(k) == keys[k] = "active"

FindKey(r) ==
  /\ req[r].pc = "key"
  /\ UNCHANGED data
  /\ IF FindActiveKeyByHash(req[r].key)
     THEN /\ req' = [req EXCEPT ![r].pc = "tenant"]
          /\ UNCHANGED <<audit, rows, hist, bounds>>
     ELSE Refuse(r, AppError("UNAUTHENTICATED"))

(* c.set("auth", { tenant, apiKey }): the preference is read here, once.     *)
GetTenant(r) ==
  /\ req[r].pc = "tenant"
  /\ UNCHANGED data
  /\ IF tenant.present /\ tenant.active
     THEN /\ req' = [req EXCEPT ![r].pc = "touch", ![r].pref = tenant.pref]
          /\ UNCHANGED <<audit, rows, hist, bounds>>
     ELSE Refuse(r, AppError("UNAUTHENTICATED"))

(* A query of the middleware throws.                                         *)
AuthThrows(r) ==
  /\ req[r].pc \in {"key", "tenant"}
  /\ UNCHANGED data
  /\ Refuse(r, OtherError)

(* touchLastUsed: UPDATE ... WHERE id = k AND revoked_at IS NULL.            *)
Stamped(k) == [stamped EXCEPT ![k] = IF keys[k] = "active" THEN @ + 1 ELSE @]

(* A failed stamp is logged and the request goes on.                         *)
TouchLastUsed(r) ==
  /\ req[r].pc = "touch"
  /\ stamped' \in {Stamped(req[r].key), stamped}
  /\ req' = [req EXCEPT ![r].pc = "limit"]
  /\ UNCHANGED <<keys, tenant, audit, rows, hist, bounds>>

(* The limiter (see RateLimiter) and parseLookupBody, then the handler.      *)
Admit(r) ==
  /\ req[r].pc = "limit"
  /\ UNCHANGED data
  /\ \/ Refuse(r, AppError("RATE_LIMITED"))
     \/ /\ req[r].ask.kind = "malformed"
        /\ Refuse(r, AppError("INVALID_REQUEST"))
     \/ /\ req[r].ask.kind # "malformed"
        /\ req' = [req EXCEPT ![r].pc = "load"]
        /\ hist' = [hist EXCEPT ![r].reached = TRUE]
        /\ UNCHANGED <<audit, rows, bounds>>

----------------------------------------------------------------------------
(* services/apple: the environments of a lookup and its attempts.            *)

ResolveEnvironments(hint, configured) ==
  IF hint # Null THEN <<hint>>
  ELSE IF configured = "auto" THEN <<"production", "sandbox">> ELSE <<configured>>

RequiresProductionAppAppleId(envs, appAppleId) ==
  envs = <<"production">> /\ ~appAppleId

EnvironmentsOf(q) == ResolveEnvironments(q.ask.hint, q.creds.env)

(* What Apple may answer in environment e: the purchase where it lives (its  *)
(* JWS may be missing or fail to verify); elsewhere one of three error codes *)
(* or, for a status, an empty list; and anywhere a fault.                    *)
AppleAnswers(q, e) ==
  {"401", "404", "5xx", "timeout", "bad json"}
    \cup (IF q.ask.home = e THEN {"200", "200 no jws", "200 bad jws"}
          ELSE {"404/4040010", "404/4040005", "400/4000006"}
                 \cup IF q.ask.kind = "appleStatus" THEN {"200 empty"} ELSE {})

(* appleGet's two error classes; a body that does not parse throws neither.  *)
AppleGet(answer) ==
  CASE answer \in {"404/4040010", "404/4040005", "400/4000006"} -> "notFound"
    [] answer = "401"                       -> "denied"
    [] answer \in {"404", "5xx", "timeout"} -> "fault"
    [] answer = "bad json"                  -> "garbled"
    [] OTHER                                -> "body"

(* resolveVerifier comes after the GET: in production without appAppleId it  *)
(* throws a 401.                                                             *)
ResolveVerifier(q, e) ==
  IF e = "production" /\ ~q.creds.appAppleId THEN "denied" ELSE "verifier"

(* The body once a verifier is there.                                        *)
VerifyJws(answer) ==
  CASE answer \in {"200 no jws", "200 bad jws"} -> "fault"
    [] answer = "200 empty"                     -> "empty"
    [] OTHER                                    -> "found"

(* getTransaction: the GET, the JWS present, the verifier, its verdict.      *)
GetTransaction(q, e, answer) ==
  IF AppleGet(answer) # "body" THEN AppleGet(answer)
  ELSE IF answer = "200 no jws" THEN "fault"
  ELSE IF ResolveVerifier(q, e) = "denied" THEN "denied" ELSE VerifyJws(answer)

GetStatusesEmptyIsFound(q, e, answer) ==
  IF AppleGet(answer) # "body" THEN AppleGet(answer)
  ELSE IF ResolveVerifier(q, e) = "denied" THEN "denied"
  ELSE IF VerifyJws(answer) = "fault" THEN "fault" ELSE "found"

(* getSubscriptionStatuses: the verifier comes before the entries; no entry  *)
(* is "not found" to its caller.                                             *)
GetSubscriptionStatuses(q, e, answer) ==
  IF AppleGet(answer) # "body" THEN AppleGet(answer)
  ELSE IF ResolveVerifier(q, e) = "denied" THEN "denied"
  ELSE IF VerifyJws(answer) = "empty" THEN "notFound" ELSE VerifyJws(answer)

VerifyAppleTransaction(e, mine) ==
  IF mine THEN Returned("VALID", e) ELSE Returned("BUNDLE_ID_MISMATCH", Null)

(* The bundleId may be absent from a status response and is then not checked. *)
AppleStatusResults(e, mine) ==
  {VerifyAppleTransaction(e, mine), Returned("VALID", e)}

NotFoundCode(kind) ==
  CASE kind = "appleVerify"  -> "TRANSACTION_NOT_FOUND"
    [] kind = "googleVerify" -> "PURCHASE_NOT_FOUND"
    [] OTHER                 -> "SUBSCRIPTION_NOT_FOUND"

(* `i === environments.length - 1'.                                          *)
IsLast(q) == q.i = Len(EnvironmentsOf(q))

(* One turn of attemptAcrossEnvironments.                                    *)
AttemptEnvironment(r) ==
  LET q == req[r]
      e == EnvironmentsOf(q)[q.i]
      GoOn(d) == Continue(r, [q EXCEPT !.i = @ + 1, !.denied = d])
  IN  /\ q.pc = "apple"
      /\ \E answer \in AppleAnswers(q, e) :
           LET got == IF q.ask.kind = "appleVerify" THEN GetTransaction(q, e, answer)
                      ELSE GetSubscriptionStatuses(q, e, answer)
           IN  \/ /\ got = "found"
                  /\ \E o \in IF q.ask.kind = "appleVerify"
                              THEN {VerifyAppleTransaction(e, q.creds.mine)}
                              ELSE AppleStatusResults(e, q.creds.mine) : Finish(r, o, q)
               \/ got = "notFound" /\ ~IsLast(q) /\ GoOn(q.denied)
               \/ got = "notFound" /\ IsLast(q)
                    /\ Finish(r, Returned(NotFoundCode(q.ask.kind), Null), q)
               \/ got = "denied" /\ ~IsLast(q) /\ GoOn(q.denied \cup {e})
               \/ got = "denied" /\ IsLast(q) /\ Finish(r, AppError("APPLE_API_ERROR"), q)
               \/ got = "fault" /\ Finish(r, AppError("APPLE_API_ERROR"), q)
               \/ got = "garbled" /\ Finish(r, OtherError, q)

----------------------------------------------------------------------------
(* services/google: one GET, or the pages of the voided list.                *)

(* playGet's error classes; a body that does not parse and a failed OAuth    *)
(* exchange throw none of them.                                              *)
PlayGet(answer) ==
  CASE answer \in {"404", "410"}                   -> "notFound"
    [] answer = "429"                              -> "limited"
    [] answer \in {"401", "403", "5xx", "timeout"} -> "fault"
    [] answer \in {"bad json", "no token"}         -> "garbled"
    [] OTHER                                       -> "found"

PlayFaults == {PlayGet(a) : a \in {"429", "401", "403", "5xx", "timeout", "bad json", "no token"}}

(* mapGoogleApiError; null means the error is thrown on as it is.            *)
MapGoogleApiError(fault) ==
  CASE fault = "limited" -> AppError("RATE_LIMITED")
    [] fault = "fault"   -> AppError("GOOGLE_API_ERROR")
    [] OTHER             -> OtherError

GoogleGet(r) ==
  LET q == req[r]
  IN  /\ q.pc = "google"
      /\ \E got \in PlayFaults
                      \cup {PlayGet(a) : a \in IF q.ask.home = "play" THEN {"200"} ELSE {"404", "410"}} :
           \/ got = "found" /\ Finish(r, Returned("VALID", Null), q)
           \/ got = "notFound" /\ Finish(r, Returned(NotFoundCode(q.ask.kind), Null), q)
           \/ got \in PlayFaults /\ Finish(r, MapGoogleApiError(got), q)

(* rethrow: for the voided list a 404 or 410 is a fault of the app's access. *)
Rethrow(fault) ==
  IF fault = "notFound" THEN AppError("GOOGLE_API_ERROR") ELSE MapGoogleApiError(fault)

ListVoidedPurchases(r) ==
  /\ req[r].pc = "scan" /\ req[r].ask.kind = "voidedList"
  /\ \E o \in {Returned("VALID", Null)} \cup {Rethrow(f) : f \in PlayFaults \cup {"notFound"}} :
       Finish(r, o, req[r])

StuckIsExhausted(next, cursor, pages, late) ==
  IF next = 0 \/ next = cursor THEN "exhausted"
  ELSE IF late \/ pages = MaxPages THEN "stop" ELSE "page"

(* After a page without a match: the list is exhausted, or the scan stops at *)
(* a repeated cursor, the budget or the page cap, or it goes on.  The first  *)
(* page is asked for without a cursor, so its own cursor is not a repeat.    *)
AfterPage(next, cursor, pages, late) ==
  IF next = 0 THEN "exhausted"
  ELSE IF (pages > 1 /\ next = cursor) \/ late \/ pages = MaxPages THEN "stop" ELSE "page"

PageReadUncounted(q) == [q EXCEPT !.read = @ \cup {q.cursor}]

(* pagesScanned++.                                                           *)
PageRead(q) == [q EXCEPT !.pages = @ + 1, !.read = @ \cup {q.cursor}]

FindVoidedPurchase(r) ==
  LET q == req[r]
      list == q.ask.list
      q2 == PageRead(q)
  IN  /\ q.pc = "scan" /\ q.ask.kind = "voidedFind"
      /\ \/ \E f \in PlayFaults \cup {"notFound"} : Finish(r, Rethrow(f), q)
         \/ list.at = q.cursor /\ Finish(r, Returned("VOIDED", Null), q2)
         \/ /\ list.at # q.cursor
            /\ \E late \in BOOLEAN :
                 LET then == AfterPage(list.next[q.cursor], q.cursor, q2.pages, late)
                 IN  \/ then = "exhausted" /\ Finish(r, Returned("NOT_VOIDED", Null), q2)
                     \/ then = "stop" /\ Finish(r, Returned("TRUNCATED", Null), q2)
                     \/ then = "page"
                          /\ Continue(r, [q2 EXCEPT !.cursor = list.next[q.cursor]])

----------------------------------------------------------------------------
(* The handlers up to their first call to a store.  credentialsLoader.load   *)
(* may answer from its cache, so with any credentials the tenant has had.    *)

LoadFails(r) ==
  /\ req[r].pc = "load"
  /\ \E n \in NoCreds :
       /\ n = "corrupt" => req[r].ask.kind \notin AppleKinds
       /\ Finish(r, IF n = "throws" THEN OtherError ELSE AppError("CREDENTIALS_MISSING"), req[r])

StartAppleLookup(r) ==
  /\ req[r].pc = "load" /\ req[r].ask.kind \in AppleKinds
  /\ \E c \in Creds :
       LET q == [req[r] EXCEPT !.creds = c]
       IN  IF RequiresProductionAppAppleId(EnvironmentsOf(q), c.appAppleId)
           THEN Finish(r, AppError("CREDENTIALS_MISSING"), q)
           ELSE Continue(r, [q EXCEPT !.pc = "apple"])

PackageMismatch(r) == Finish(r, Returned("PACKAGE_NAME_MISMATCH", Null), req[r])

StartGoogleLookup(r) ==
  /\ req[r].pc = "load" /\ req[r].ask.kind \in GoogleKinds
  /\ PackageMismatch(r) \/ Continue(r, [req[r] EXCEPT !.pc = "google"])

PrepareVoided(r) ==
  /\ req[r].pc = "load" /\ req[r].ask.kind \in ScanKinds
  /\ PackageMismatch(r) \/ Continue(r, [req[r] EXCEPT !.pc = "scan"])

----------------------------------------------------------------------------
(* The operator's commands, and process death.                               *)

Administer ==
  /\ admin < MaxAdmin
  /\ admin' = admin + 1
  /\ UNCHANGED <<stamped, req, audit, rows, crashes>>

(* key:create; a tenant that is gone fails the foreign key.                  *)
CreateKey(k) ==
  /\ Administer
  /\ tenant.present /\ keys[k] = "absent"
  /\ keys' = [keys EXCEPT ![k] = "active"]
  /\ UNCHANGED <<tenant, hist>>

RevokeKey(k) ==
  /\ Administer
  /\ keys[k] = "active"
  /\ keys' = [keys EXCEPT ![k] = "revoked"]
  /\ UNCHANGED <<tenant, hist>>

(* tenant:set-audit-log.                                                     *)
SetTenantAuditLog(p) ==
  /\ Administer
  /\ tenant.present /\ p # tenant.pref
  /\ tenant' = [tenant EXCEPT !.pref = p]
  /\ hist' = [r \in Requests |->
       IF req[r].pc \in {"key", "tenant"}
       THEN [hist[r] EXCEPT !.prefs = @ \cup {p}]
       ELSE hist[r]]
  /\ UNCHANGED keys

DeactivateTenant ==
  /\ Administer
  /\ tenant.present /\ tenant.active
  /\ tenant' = [tenant EXCEPT !.active = FALSE]
  /\ UNCHANGED <<keys, hist>>

(* tenant:purge's delete of the tenants row cascades to its keys.            *)
DeleteTenant ==
  /\ Administer
  /\ tenant.present
  /\ tenant' = [tenant EXCEPT !.present = FALSE]
  /\ keys' = [k \in Keys |-> "absent"]
  /\ UNCHANGED hist

Crash ==
  /\ crashes < MaxCrashes
  /\ crashes' = crashes + 1
  /\ req' = [r \in Requests |->
       IF req[r].pc \in {"idle", "done"} THEN req[r] ELSE [req[r] EXCEPT !.pc = "lost"]]
  /\ audit' = [r \in Requests |-> IF audit[r] = "pending" THEN "failed" ELSE audit[r]]
  /\ UNCHANGED <<data, rows, hist, admin>>

Step(r) == \/ FindKey(r) \/ GetTenant(r) \/ AuthThrows(r) \/ TouchLastUsed(r)
           \/ Admit(r) \/ LoadFails(r) \/ StartAppleLookup(r) \/ StartGoogleLookup(r)
           \/ PrepareVoided(r) \/ AttemptEnvironment(r) \/ GoogleGet(r)
           \/ ListVoidedPurchases(r) \/ FindVoidedPurchase(r)

Next ==
  \/ \E r \in Requests :
       \/ \E a \in Asks, k \in Keys \cup {NoKey} : Arrive(r, a, k)
       \/ Step(r) \/ WriteAudit(r)
  \/ \E k \in Keys : CreateKey(k) \/ RevokeKey(k)
  \/ \E p \in Preference : SetTenantAuditLog(p)
  \/ DeactivateTenant \/ DeleteTenant \/ Crash

Spec == Init /\ [][Next]_vars

(* Queries settle, and every call to a store has a timeout.                  *)
FairSpec == Spec /\ \A r \in Requests : WF_vars(Step(r)) /\ WF_vars(WriteAudit(r))

----------------------------------------------------------------------------
Codes == Positive \cup {"UNAUTHENTICATED", "RATE_LIMITED", "INVALID_REQUEST",
  "CREDENTIALS_MISSING", "APPLE_API_ERROR", "GOOGLE_API_ERROR", "BUNDLE_ID_MISMATCH",
  "PACKAGE_NAME_MISMATCH", "TRANSACTION_NOT_FOUND", "PURCHASE_NOT_FOUND",
  "SUBSCRIPTION_NOT_FOUND", Null}
AuditRow == [valid : BOOLEAN, errorCode : Codes \cup {"INTERNAL_ERROR"}]

Outcome == [how : {"returned", "app", "other", "none"}, code : Codes,
            where : Environments \cup {Null}]
RequestState ==
  [pc : {"idle", "key", "tenant", "touch", "limit", "load", "apple", "google", "scan",
         "done", "lost"},
   ask : Asks \cup {NoAsk}, key : Keys \cup {NoKey}, pref : Preference,
   creds : Creds \cup {NotLoaded}, i : Nat, denied : SUBSET Environments,
   cursor : Nat, read : SUBSET Nat, pages : 0 .. MaxPages, outcome : Outcome]

(* The state has its type, and a scan reads no more pages than its cap.      *)
TypeOK ==
  /\ keys \in [Keys -> {"absent", "active", "revoked"}]
  /\ stamped \in [Keys -> Nat]
  /\ tenant \in [present : BOOLEAN, active : BOOLEAN, pref : Preference]
  /\ req \in [Requests -> RequestState]
  /\ audit \in [Requests -> {"none", "pending", "failed", "written"}]
  /\ rows \in [Requests -> Seq(AuditRow)]
  /\ hist \in [Requests -> [barred : BOOLEAN, reached : BOOLEAN, prefs : SUBSET Preference]]
  /\ admin \in Nat /\ crashes \in Nat

(* A key revoked, or a tenant deactivated or erased, before a request        *)
(* arrives: the request never reaches the handler, whatever else the         *)
(* operator and other requests do meanwhile (middleware/auth.ts:43-52).      *)
BarredIsRefused == \A r \in Requests : hist[r].barred => ~hist[r].reached

(* A positive Apple answer names the environment the purchase is in; "not    *)
(* found" is said only when the purchase is in none of the environments      *)
(* tried, or in one that answered 401 and was skipped for a later one        *)
(* (environments.ts:53-77); a mismatch only of what exists.  A Google answer *)
(* is positive or "not found" as the token is on file or not.  No fault is   *)
(* ever read as an answer.                                                   *)
AnswerIsHonest ==
  \A r \in Requests :
    LET q == req[r]
        o == q.outcome
        envs == EnvironmentsOf(q)
    IN  o.how = "returned" =>
          /\ q.ask.kind \in AppleKinds =>
               /\ Valid(o) => o.where = q.ask.home
               /\ o.code = NotFoundCode(q.ask.kind) =>
                    \A n \in 1 .. Len(envs) : q.ask.home = envs[n] =>
                      n < Len(envs) /\ envs[n] \in q.denied
               /\ o.code = "BUNDLE_ID_MISMATCH" => ~q.creds.mine /\ q.ask.home \in Environments
          /\ q.ask.kind \in GoogleKinds /\ o.code # "PACKAGE_NAME_MISMATCH" =>
               (Valid(o) <=> q.ask.home = "play")

(* `voided: false' with `truncated: false' means the whole list was read,    *)
(* from the first page to the one without a cursor, and names the token      *)
(* nowhere; `voided: true' means a page that was read names it               *)
(* (voided-purchases.ts:271-325).                                            *)
NegativeIsConclusive ==
  \A r \in Requests :
    LET q == req[r]
        list == q.ask.list
    IN  /\ q.outcome.code = "NOT_VOIDED" =>
             /\ 1 \in q.read /\ \E p \in q.read : list.next[p] = 0
             /\ \A p \in q.read : list.at # p /\ list.next[p] \in q.read \cup {0}
        /\ q.outcome.code = "VOIDED" => list.at \in q.read

(* One lookup leaves at most one audit row, only once it has its answer, and *)
(* the row says what the client was told: valid or not, and the same error   *)
(* code, for a domain outcome, an AppError and an unexpected error alike     *)
(* (routes/shared.ts:109-118 against middleware/error.ts).                   *)
AuditTellsTheAnswer ==
  \A r \in Requests :
    LET told == Response(req[r].outcome)
        Says(row) == row.valid = told.valid /\ row.errorCode = told.error
    IN  /\ Len(rows[r]) <= 1
        /\ rows[r] # << >> => req[r].pc = "done" /\ Says(rows[r][1])

(* The tenant's choice is honoured (validation-audit.ts:114-119): a row is   *)
(* written only if auditing was on for the tenant at some moment between the *)
(* request's arrival and its authentication, and a finished lookup leaves    *)
(* none, without a failed insert, only if it was off at some moment then.    *)
AuditPreferenceHonoured ==
  LET on == {"on"} \cup (IF AuditDefault THEN {Null} ELSE {})
  IN  \A r \in Requests :
        /\ audit[r] # "none" => hist[r].reached /\ hist[r].prefs \cap on # {}
        /\ hist[r].reached /\ req[r].pc = "done" /\ audit[r] = "none" =>
             hist[r].prefs \ on # {} \/ req[r].ask.kind = "voidedList"

(* Every request the server takes is answered, unless the process dies: no   *)
(* cursor a degenerate Play API hands back keeps the scan going.             *)
EveryRequestAnswered ==
  \A r \in Requests : req[r].pc = "key" ~> req[r].pc \in {"done", "lost"}
=============================================================================
