----------------------------- MODULE OidcVerifier -----------------------------
(***************************************************************************)
(* services/google/oidc-verifier.ts: verification of the OIDC token on a    *)
(* Pub/Sub push, over the JWKS cache of lib/ttl-cache.ts.                    *)
(*                                                                           *)
(* Google rotates its keys, checks of several pushes overlap and share one   *)
(* fetch, a fetch may fail, entries expire, and the tenant's audience is     *)
(* read from the database only after the signature was verified.  Pub/Sub    *)
(* redelivers a push, with a newly minted token, until it is acknowledged.   *)
(* The formulas of the specification are prefixed so that the module can be  *)
(* read together with GoogleChain, the other half of a Google push.          *)
(***************************************************************************)
EXTENDS TtlCache, FiniteSets

CONSTANTS
  Kid,           \* keys Google may come to publish
  Jwk,           \* kty, crv and use of each key
  FirstKids,     \* the keys published at the start
  Push,          \* messages Pub/Sub keeps redelivering to the tenant
  Stray,         \* other requests to the same route
  LoadId,        \* bound: fetches under way at one time
  Ttl,           \* JWKS_CACHE_TTL_MS
  Skew,          \* skewSeconds
  TokenLife,     \* Google: exp - iat
  MaxLatency,    \* a fetch is over in this time
  MaxClock,      \* bound: time
  MaxRotations,  \* bound: publications and retirements
  MaxFaults,     \* bound: failing fetches
  MaxAdmin       \* bound: google:set-credentials calls

Request == Push \cup Stray

RsaAlgs == {"RS256", "RS384", "RS512", "PS256", "PS384", "PS512"}
Curve == [ES256 |-> "P-256", ES384 |-> "P-384", ES512 |-> "P-521"]
Alg == RsaAlgs \cup DOMAIN Curve \cup {"HS256", "none"}

ASSUME OidcAssumption ==
  /\ Jwk \in [Kid -> [kty : {"RSA", "EC"}, crv : {"P-256", "P-384", "P-521", "absent"},
                      use : {"sig", "enc", "absent"}]]
  /\ FirstKids \subseteq Kid /\ FirstKids # {}
  /\ Push \cap Stray = {}
  /\ LoadId \subseteq Nat \ {NoLoad}
  /\ Ttl \in Nat /\ Skew \in Nat /\ TokenLife \in Nat /\ MaxLatency \in Nat
  /\ MaxClock \in Nat /\ MaxRotations \in Nat /\ MaxFaults \in Nat /\ MaxAdmin \in Nat
  /\ "unknown" \notin Kid

VARIABLES
  clock,       \* now()
  published,   \* the keys Google serves
  retiredAt,   \* when a key was retired, or Never
  rotations,   \* publications and retirements so far
  cache,       \* jwksCache, key "google"
  loads,       \* GETs of GOOGLE_JWKS_URL under way
  audience,    \* google_credentials.pubsub_audience of the tenant
  check,       \* verify() calls under way
  accepted,    \* pushes verified
  faults, admin

oidcVars == <<clock, published, retiredAt, rotations, cache, loads, audience,
              check, accepted, faults, admin>>
googleVars == <<published, retiredAt, rotations>>
cacheVars == <<cache, loads>>
worldVars == <<audience, accepted, faults, admin>>

Never == -1

IdToken == [kid : Kid \cup {"unknown"}, alg : Alg, signed : BOOLEAN,
            aud : {"ours", "other"}, exp : Nat]
Load == [id : LoadId, sent : Nat, keys : SUBSET Kid, answered : BOOLEAN]
Entry == [keys : SUBSET Kid, expiresAt : Nat]
NoCheck == [pc |-> "idle"]
(* steady: the token's key has been published since the call began (history). *)
Check == [pc : {"await", "select", "verify", "audience", "accepted", "refused"},
          token : IdToken, round : {1, 2}, load : LoadId \cup {NoLoad}, keys : SUBSET Kid,
          steady : BOOLEAN,
          reason : {"none", "malformed", "fetch", "unknown_kid", "signature", "expired", "audience"}]

OidcTypeOK ==
  /\ clock \in Nat
  /\ published \subseteq Kid
  /\ retiredAt \in [Kid -> Nat \cup {Never}]
  /\ rotations \in Nat
  /\ cache \in [entry : Entry \cup {NoEntry}, inflight : LoadId \cup {NoLoad}]
  /\ loads \subseteq Load
  /\ audience \in {"ours", "unset"}
  /\ check \in [Request -> Check \cup {NoCheck}]
  /\ accepted \subseteq Push
  /\ faults \in Nat /\ admin \in Nat

OidcInit ==
  /\ clock = 0
  /\ published = FirstKids
  /\ retiredAt = [k \in Kid |-> Never]
  /\ rotations = 0
  /\ cache = EmptyCache
  /\ loads = {}
  /\ audience = "ours"
  /\ check = [p \in Request |-> NoCheck]
  /\ accepted = {}
  /\ faults = 0 /\ admin = 0

-----------------------------------------------------------------------------
(* Google's keys, time and the tenant's configuration.                       *)

Publish(k) ==
  /\ rotations < MaxRotations
  /\ k \notin published /\ retiredAt[k] = Never
  /\ published' = published \cup {k}
  /\ rotations' = rotations + 1
  /\ UNCHANGED <<clock, retiredAt, cacheVars, check, worldVars>>

Retire(k) ==
  /\ rotations < MaxRotations
  /\ k \in published /\ published # {k}
  /\ published' = published \ {k}
  /\ retiredAt' = [retiredAt EXCEPT ![k] = clock]
  /\ rotations' = rotations + 1
  /\ check' = [p \in Request |->
                 IF check[p] # NoCheck /\ check[p].token.kid = k
                 THEN [check[p] EXCEPT !.steady = FALSE] ELSE check[p]]
  /\ UNCHANGED <<clock, cacheVars, worldVars>>

(* The GET has no timeout of its own; MaxLatency is the network's.           *)
TimePasses ==
  /\ clock < MaxClock
  /\ \A l \in loads : clock < l.sent + MaxLatency
  /\ clock' = clock + 1
  /\ UNCHANGED <<googleVars, cacheVars, check, worldVars>>

(* google:set-credentials without, or with, --pubsub-audience.  No row is    *)
(* refused like a row without an audience.                                   *)
SetCredentials(a) ==
  /\ admin < MaxAdmin
  /\ audience' = a /\ a # audience
  /\ admin' = admin + 1
  /\ UNCHANGED <<clock, googleVars, cacheVars, check, accepted, faults>>

-----------------------------------------------------------------------------
(* verify.                                                                   *)

NewCheck(token) ==
  [pc |-> "await", token |-> token, round |-> 1, load |-> NoLoad, keys |-> {},
   steady |-> token.kid \in published, reason |-> "none"]

Refused(c, why) == [c EXCEPT !.pc = "refused", !.reason = why, !.keys = {}]

FreshLoad == {l \in LoadId : \A x \in loads : x.id # l}

(* fetchJwks on the cache as verify leaves it, c: a live entry is returned,  *)
(* a load under way is joined, else a new one is sent.                       *)
FetchJwks(p, chk, c) ==
  IF Live(c, clock)
  THEN /\ check' = [check EXCEPT ![p] = [chk EXCEPT !.pc = "select", !.keys = c.entry.keys]]
       /\ cache' = c
       /\ UNCHANGED loads
  ELSE IF c.inflight # NoLoad
  THEN /\ check' = [check EXCEPT ![p] = [chk EXCEPT !.pc = "await", !.load = c.inflight]]
       /\ cache' = Looked(c, clock)
       /\ UNCHANGED loads
  ELSE LET l == CHOOSE x \in FreshLoad : TRUE IN
       /\ FreshLoad # {}
       /\ check' = [check EXCEPT ![p] = [chk EXCEPT !.pc = "await", !.load = l]]
       /\ cache' = Loading(Looked(c, clock), l)
       /\ loads' = loads \cup {[id |-> l, sent |-> clock, keys |-> {}, answered |-> FALSE]}

(* The family and curve deriveVerifyAlgorithm asks of a key.                 *)
AlgFits(alg, jwk) ==
  /\ jwk.use # "enc"
  /\ \/ alg \in RsaAlgs /\ jwk.kty = "RSA"
     \/ alg \in DOMAIN Curve /\ jwk.kty = "EC" /\ jwk.crv \in {"absent", Curve[alg]}

(* Pub/Sub pushes, or pushes again, with a token Google signs now.           *)
PushArrives(p) ==
  /\ p \notin accepted
  /\ check[p] = NoCheck
  /\ \E k \in published, a \in {"RS256", "ES256"} :
       /\ AlgFits(a, Jwk[k])
       /\ FetchJwks(p, NewCheck([kid |-> k, alg |-> a, signed |-> TRUE, aud |-> "ours",
                                 exp |-> clock + TokenLife]), cache)
  /\ UNCHANGED <<clock, googleVars, worldVars>>

(* Any other request: no usable token; a key Google does not have; a token   *)
(* not signed with its key; a token for another audience.                    *)
StrayArrives(p) ==
  LET token(k, signed, aud) ==
        [kid |-> k, alg |-> "RS256", signed |-> signed, aud |-> aud, exp |-> clock + TokenLife]
  IN /\ check[p] = NoCheck
     /\ \/ /\ check' = [check EXCEPT ![p] = Refused(NewCheck(token("unknown", FALSE, "other")),
                                                    "malformed")]
           /\ UNCHANGED <<cache, loads>>
        \/ FetchJwks(p, NewCheck(token("unknown", FALSE, "ours")), cache)
        \/ \E k \in Kid : FetchJwks(p, NewCheck(token(k, FALSE, "ours")), cache)
        \/ \E k \in published : FetchJwks(p, NewCheck(token(k, TRUE, "other")), cache)
     /\ UNCHANGED <<clock, googleVars, worldVars>>

(* Google answers with the keys of the moment; the answer travels.           *)
JwksAnswered(l) ==
  /\ ~l.answered
  /\ loads' = (loads \ {l}) \cup {[l EXCEPT !.keys = published, !.answered = TRUE]}
  /\ UNCHANGED <<clock, googleVars, cache, check, worldVars>>

Awaits(p, l) == check[p] # NoCheck /\ check[p].pc = "await" /\ check[p].load = l.id

(* The loader resolves: set, inflight.delete, and every sharer goes on.      *)
Install(l) ==
  /\ cache' = Settled(Stored(cache, [keys |-> l.keys], clock, Ttl))
  /\ loads' = loads \ {l}
  /\ check' = [p \in Request |->
                 IF Awaits(p, l)
                 THEN [check[p] EXCEPT !.pc = "select", !.load = NoLoad, !.keys = l.keys]
                 ELSE check[p]]
  /\ UNCHANGED <<clock, googleVars, worldVars>>

(* res.ok, and the body read.                                                *)
JwksLoaded(l) ==
  /\ l.answered
  /\ Install(l)

(* The fetch throws or is answered with an error: nothing is cached, finally *)
(* clears inflight, and every sharer fails.                                  *)
JwksFails(l) ==
  /\ faults < MaxFaults
  /\ faults' = faults + 1
  /\ cache' = Settled(cache)
  /\ loads' = loads \ {l}
  /\ check' = [p \in Request |->
                 IF Awaits(p, l) THEN [Refused(check[p], "fetch") EXCEPT !.load = NoLoad]
                 ELSE check[p]]
  /\ UNCHANGED <<clock, googleVars, audience, accepted, admin>>

SelectKeyOnce(p) ==
  /\ check[p] # NoCheck /\ check[p].pc = "select"
  /\ check' = [check EXCEPT ![p] = IF check[p].token.kid \in check[p].keys
                                   THEN [check[p] EXCEPT !.pc = "verify", !.keys = {}]
                                   ELSE Refused(check[p], "unknown_kid")]
  /\ UNCHANGED <<clock, googleVars, cacheVars, worldVars>>

(* jwks.keys.find; an unknown kid evicts the entry and fetches once more.    *)
SelectKey(p) ==
  LET chk == check[p]
  IN /\ chk # NoCheck /\ chk.pc = "select"
     /\ IF chk.token.kid \in chk.keys
        THEN check' = [check EXCEPT ![p].pc = "verify", ![p].keys = {}] /\ UNCHANGED <<cache, loads>>
        ELSE IF chk.round = 1
        THEN FetchJwks(p, [chk EXCEPT !.round = 2, !.keys = {}], Evicted(cache))
        ELSE check' = [check EXCEPT ![p] = Refused(chk, "unknown_kid")] /\ UNCHANGED <<cache, loads>>
     /\ UNCHANGED <<clock, googleVars, worldVars>>

(* verifySignature, and in the same turn the issuer and the times.           *)
VerifyToken(p) ==
  LET t == check[p].token
  IN /\ check[p] # NoCheck /\ check[p].pc = "verify"
     /\ check' = [check EXCEPT ![p] =
          IF ~(AlgFits(t.alg, Jwk[t.kid]) /\ t.signed) THEN Refused(@, "signature")
          ELSE IF clock - Skew > t.exp THEN Refused(@, "expired")
          ELSE [@ EXCEPT !.pc = "audience"]]
     /\ UNCHANGED <<clock, googleVars, cacheVars, worldVars>>

(* getGoogleCredentials and the comparison of aud with pubsub_audience.      *)
CheckAudience(p) ==
  /\ check[p] # NoCheck /\ check[p].pc = "audience"
  /\ check' = [check EXCEPT ![p] = IF check[p].token.aud = audience THEN [@ EXCEPT !.pc = "accepted"]
                                   ELSE Refused(@, "audience")]
  /\ UNCHANGED <<clock, googleVars, cacheVars, worldVars>>

(* The receiver goes on with an accepted push; a refusal is answered with an *)
(* error status, which Pub/Sub takes for a request to redeliver.             *)
Respond(p) ==
  /\ check[p] # NoCheck /\ check[p].pc \in {"accepted", "refused"}
  /\ accepted' = IF check[p].pc = "accepted" /\ p \in Push THEN accepted \cup {p} ELSE accepted
  /\ check' = [check EXCEPT ![p] = NoCheck]
  /\ UNCHANGED <<clock, googleVars, cacheVars, audience, faults, admin>>

CheckStep(p) == SelectKey(p) \/ VerifyToken(p) \/ CheckAudience(p) \/ Respond(p)

OidcNext ==
  \/ \E k \in Kid : Publish(k) \/ Retire(k)
  \/ TimePasses
  \/ \E a \in {"ours", "unset"} : SetCredentials(a)
  \/ \E p \in Push : PushArrives(p)
  \/ \E p \in Stray : StrayArrives(p)
  \/ \E l \in loads : JwksAnswered(l) \/ JwksLoaded(l) \/ JwksFails(l)
  \/ \E p \in Request : CheckStep(p)

OidcSpec == OidcInit /\ [][OidcNext]_oidcVars

(* The event loop runs what is ready, a fetch ends one way or the other, and *)
(* Pub/Sub redelivers what was not acknowledged.                             *)
Fairness ==
  /\ WF_oidcVars(\E l \in loads : JwksAnswered(l) \/ JwksLoaded(l))
  /\ \A p \in Request : WF_oidcVars(CheckStep(p))
  /\ \A p \in Push : WF_oidcVars(PushArrives(p))

OidcFairSpec == OidcSpec /\ Fairness

-----------------------------------------------------------------------------
(* Properties.                                                               *)

(* ttl-cache.ts:7-9: concurrent misses share one load, evictions between     *)
(* them or not: Google is asked by at most one call at a time.               *)
OneFetchAtATime == Cardinality(loads) <= 1

(* oidc-verifier.ts:22-23, 273-274: rotation is covered by the one refetch.  *)
(* No token is refused for an unknown key that Google has published ever     *)
(* since the check began, however old the cached set or the shared fetch.    *)
PublishedKeyIsFound ==
  \A p \in Request :
    (check[p] # NoCheck /\ check[p].pc = "refused" /\ check[p].reason = "unknown_kid")
      => ~check[p].steady

(* A retired key is served for less than the fetch's latency plus the TTL.   *)
RetiredKeyExpires ==
  Live(cache, clock) =>
    \A k \in cache.entry.keys :
      k \in published \/ clock < retiredAt[k] + MaxLatency + Ttl

(* A push Pub/Sub keeps redelivering is accepted in the end, through         *)
(* rotations, failing fetches and strangers' requests, if the tenant's       *)
(* audience is set for good.                                                 *)
PushGetsThrough ==
  (<>[](audience = "ours")) => \A p \in Push : <>(p \in accepted)
=============================================================================
