--------------------------- MODULE CredentialCache ---------------------------
(***************************************************************************)
(* How one tenant's Google lookups come by an access token: the credentials  *)
(* loader (google/credentials-loader.ts) and the token provider (oauth.ts),  *)
(* two caches of lib/ttl-cache.ts filled one from the other, up to the GET   *)
(* of google/client.ts that carries the token.                               *)
(*                                                                           *)
(* Meanwhile the operator, in another process, stores a new service-account  *)
(* key (google:set-credentials; nothing invalidates the loader) and deletes  *)
(* the replaced one at Google (docs/self-host/maintenance.md:54-72).  Loads  *)
(* and exchanges overlap requests, are shared by them, may fail, and take    *)
(* time in which everything else goes on.  The token cache is keyed by       *)
(* tenant and scope, not by key: a request that holds the new key may join   *)
(* an exchange the old one began.                                            *)
(***************************************************************************)
EXTENDS TtlCache

CONSTANTS
  Key,          \* service-account keys the operator may come to store
  NoRow,        \* no google_credentials row
  Request,      \* lookups of the tenant in progress at one time
  Ttl,          \* the loader's DEFAULT_TTL_MS
  TokenTtl,     \* ttlMs of the token cache, the "belt-and-braces" bound
  Skew,         \* REFRESH_SKEW_SECONDS
  Lifetimes,    \* the expires_in Google may answer
  MaxLatency,   \* a query or an exchange is over in this time
  MaxClock,     \* bound: time
  MaxFaults     \* bound: failing queries and exchanges

Longest == CHOOSE n \in Lifetimes : \A m \in Lifetimes : m <= n

ASSUME CredentialCacheAssumption ==
  /\ NoRow \notin Key
  /\ Lifetimes \subseteq Nat
  /\ \E n \in Lifetimes : \A m \in Lifetimes : m <= n
  /\ Ttl \in Nat \ {0} /\ TokenTtl \in Nat /\ Skew \in Nat /\ MaxLatency \in Nat
  /\ MaxClock \in Nat /\ MaxFaults \in Nat
  (* The exchange has no timeout of its own (oauth.ts:74): that it is over     *)
  (* within the refresh margin and every lifetime is asked of the network.     *)
  /\ MaxLatency <= Skew /\ \A n \in Lifetimes : MaxLatency < n

VARIABLES
  clock,       \* now()
  stored,      \* the key in the tenant's google_credentials row, or NoRow
  replacedAt,  \* when a key, or the absence of a row, was replaced, or Never
  deleted,     \* is a key deleted at Google, and was the operator patient about it?
  creds,       \* the loader's cache, key tenantId
  loads,       \* the loader's fetchFresh under way: at most one
  tokens,      \* the token cache, key tenant::scope
  exchanges,   \* the provider's fetchFresh under way: at most one
  req,         \* the requests
  faults

vars == <<clock, stored, replacedAt, deleted, creds, loads, tokens, exchanges, req, faults>>
world == <<clock, stored, replacedAt, deleted>>
loader == <<creds, loads>>
provider == <<tokens, exchanges>>

Never == -1
TheLoad == 1                     \* single flight: one id will do
Idle == [pc |-> "idle"]

Token == [key : Key, until : Nat]                    \* until: Google's own expiry
Load == [sent : Nat, key : Key \cup {NoRow}, read : BOOLEAN]
Exchange == [sent : Nat, key : Key, life : Nat, token : Token \cup {Idle}]

CachedKey == {NoEntry} \cup [key : Key \cup {NoRow}, expiresAt : Nat]
CachedToken == {NoEntry} \cup [token : Token, refreshAt : Int, expiresAt : Nat]
RequestState ==
  [pc : {"idle", "load", "token", "missing", "failed"}]
    \cup [pc : {"have"}, key : Key \cup {NoRow}]
    \cup [pc : {"failed", "refused"}, key : Key]
    \cup [pc : {"sent"}, token : Token]

Init ==
  /\ clock = 0
  /\ stored \in Key \cup {NoRow}
  /\ replacedAt = [k \in Key \cup {NoRow} |-> Never]
  /\ deleted = [k \in Key |-> "no"]
  /\ creds = EmptyCache /\ loads = {}
  /\ tokens = EmptyCache /\ exchanges = {}
  /\ req = [r \in Request |-> Idle]
  /\ faults = 0

-----------------------------------------------------------------------------
(* Time, and the operator.                                                   *)

(* A unit of time is long beside the turns of the event loop: whoever can go *)
(* on does so before it ends.                                                *)
Ready(r) == req[r].pc \in {"have", "sent", "missing", "failed", "refused"}

TimePasses ==
  /\ clock < MaxClock
  /\ \A r \in Request : ~Ready(r)
  /\ \A l \in loads \cup exchanges : clock < l.sent + MaxLatency
  /\ clock' = clock + 1
  /\ UNCHANGED <<stored, replacedAt, deleted, loader, provider, req, faults>>

(* google:set-credentials: the row is written by the command's own process.  *)
SetCredentials(k) ==
  /\ k # stored /\ replacedAt[k] = Never
  /\ stored' = k
  /\ replacedAt' = [replacedAt EXCEPT ![stored] = clock]
  /\ UNCHANGED <<clock, deleted, loader, provider, req, faults>>

(* Long enough for what was cached, loading or being exchanged to be over.   *)
Wait == Ttl + 2 * MaxLatency

(* The operator deletes a key at Google: one he replaced a while ago, or any *)
(* other, say because it leaked.                                             *)
DeleteKey(k) ==
  /\ deleted[k] = "no"
  /\ deleted' = [deleted EXCEPT ![k] =
       IF replacedAt[k] # Never /\ clock >= replacedAt[k] + Wait THEN "patient" ELSE "hasty"]
  /\ UNCHANGED <<clock, stored, replacedAt, loader, provider, req, faults>>

-----------------------------------------------------------------------------
(* load(tenantId).                                                           *)

LoadSliding(r) ==
  /\ req[r] = Idle
  /\ IF Live(creds, clock)
     THEN /\ req' = [req EXCEPT ![r] = [pc |-> "have", key |-> creds.entry.key]]
          /\ creds' = Stored(creds, creds.entry, clock, Ttl)
          /\ UNCHANGED loads
     ELSE /\ req' = [req EXCEPT ![r] = [pc |-> "load"]]
          /\ creds' = Loading(Looked(creds, clock), TheLoad)
          /\ loads' = IF creds.inflight # NoLoad THEN loads
                      ELSE {[sent |-> clock, key |-> NoRow, read |-> FALSE]}
  /\ UNCHANGED <<world, provider, faults>>

(* A live entry, the tombstone of a missing row included, is returned; a     *)
(* load under way is joined; else one is started.                            *)
LoadCredentials(r) ==
  /\ req[r] = Idle
  /\ IF Live(creds, clock)
     THEN /\ req' = [req EXCEPT ![r] = [pc |-> "have", key |-> creds.entry.key]]
          /\ UNCHANGED loader
     ELSE /\ req' = [req EXCEPT ![r] = [pc |-> "load"]]
          /\ creds' = Loading(Looked(creds, clock), TheLoad)
          /\ loads' = IF creds.inflight # NoLoad THEN loads
                      ELSE {[sent |-> clock, key |-> NoRow, read |-> FALSE]}
  /\ UNCHANGED <<world, provider, faults>>

Sharing(pc, then) == [r \in Request |-> IF req[r].pc = pc THEN then ELSE req[r]]

(* getGoogleCredentials sees the row of the moment; its answer travels and   *)
(* is decrypted and parsed.                                                  *)
RowRead(l) ==
  /\ ~l.read
  /\ loads' = {[l EXCEPT !.key = stored, !.read = TRUE]}
  /\ UNCHANGED <<world, creds, provider, req, faults>>

RowLoaded(l) ==
  /\ l.read
  /\ creds' = Settled(Stored(creds, [key |-> l.key], clock, Ttl))
  /\ loads' = {}
  /\ req' = Sharing("load", [pc |-> "have", key |-> l.key])
  /\ UNCHANGED <<world, provider, faults>>

(* The query, the decryption or JSON.parse throws: nothing is cached.        *)
LoadFails(l) ==
  /\ faults < MaxFaults
  /\ faults' = faults + 1
  /\ creds' = Settled(creds) /\ loads' = {}
  /\ req' = Sharing("load", [pc |-> "failed"])
  /\ UNCHANGED <<world, provider>>

-----------------------------------------------------------------------------
(* getAccessToken and the exchange.                                          *)

UsableWhileCached(c) == Live(c, clock)

(* `cached && cached.expiresAt > now()'.                                     *)
Usable(c) == Live(c, clock) /\ c.entry.refreshAt > clock

Sent(token) == [pc |-> "sent", token |-> token]

(* CREDENTIALS_MISSING without a row; else the cached token, or the exchange *)
(* under way, whichever key began it, or a new one with this request's key.  *)
GetAccessToken(r) ==
  LET key == req[r].key
      Awaiting == req' = [req EXCEPT ![r] = [pc |-> "token"]]
  IN /\ req[r].pc = "have"
     /\ \/ /\ key = NoRow
           /\ req' = [req EXCEPT ![r] = [pc |-> "missing"]]
           /\ UNCHANGED provider
        \/ /\ key # NoRow /\ Usable(tokens)
           /\ req' = [req EXCEPT ![r] = Sent(tokens.entry.token)]
           /\ UNCHANGED provider
        \/ /\ key # NoRow /\ ~Usable(tokens) /\ tokens.inflight # NoLoad
           /\ Awaiting
           /\ tokens' = Evicted(tokens)
           /\ UNCHANGED exchanges
        \/ /\ key # NoRow /\ ~Usable(tokens) /\ tokens.inflight = NoLoad
           /\ Awaiting
           /\ tokens' = Loading(Evicted(tokens), TheLoad)
           /\ exchanges' = {[sent |-> clock, key |-> key, life |-> 0, token |-> Idle]}
     /\ UNCHANGED <<world, loader, faults>>

(* Google grants a token of some lifetime for a key it still has.            *)
Granted(x) ==
  /\ x.token = Idle /\ deleted[x.key] = "no"
  /\ \E n \in Lifetimes :
       exchanges' = {[x EXCEPT !.life = n, !.token = [key |-> x.key, until |-> clock + n]]}
  /\ UNCHANGED <<world, loader, tokens, req, faults>>

RefreshAtExpiry(x) == clock + x.life

(* now() + (expires_in - REFRESH_SKEW_SECONDS), at the time of the answer; an *)
(* entry of a lifetime below the margin is never usable.                     *)
RefreshAt(x) == clock + x.life - Skew

(* The entry is stored and every sharer gets its token, however short-lived. *)
Exchanged(x) ==
  /\ x.token # Idle
  /\ tokens' = Settled(Stored(tokens, [token |-> x.token, refreshAt |-> RefreshAt(x)],
                              clock, TokenTtl))
  /\ exchanges' = {}
  /\ req' = Sharing("token", Sent(x.token))
  /\ UNCHANGED <<world, loader, faults>>

ExchangeEnds(x, then) ==
  /\ tokens' = Settled(tokens) /\ exchanges' = {}
  /\ req' = Sharing("token", [pc |-> then, key |-> x.key])
  /\ UNCHANGED <<world, loader>>

(* !response.ok: Google refuses a deleted key.                               *)
ExchangeRefused(x) ==
  /\ x.token = Idle /\ deleted[x.key] # "no"
  /\ ExchangeEnds(x, "refused")
  /\ UNCHANGED faults

(* The fetch throws, or the answer lacks access_token or expires_in.         *)
ExchangeFails(x) ==
  /\ faults < MaxFaults
  /\ faults' = faults + 1
  /\ ExchangeEnds(x, "failed")

(* The GET is on its way, or the request was answered; its answer is         *)
(* Lookup's matter.                                                          *)
Done(r) ==
  /\ req[r].pc \in {"sent", "missing", "failed", "refused"}
  /\ req' = [req EXCEPT ![r] = Idle]
  /\ UNCHANGED <<world, loader, provider, faults>>

-----------------------------------------------------------------------------
Next ==
  \/ TimePasses
  \/ \E k \in Key : SetCredentials(k) \/ DeleteKey(k)
  \/ \E r \in Request : LoadCredentials(r) \/ GetAccessToken(r) \/ Done(r)
  \/ \E l \in loads : RowRead(l) \/ RowLoaded(l) \/ LoadFails(l)
  \/ \E x \in exchanges : \/ Granted(x) \/ Exchanged(x)
                          \/ ExchangeRefused(x) \/ ExchangeFails(x)

Spec == Init /\ [][Next]_vars

-----------------------------------------------------------------------------
(* Properties.                                                               *)

(* The single flight of each cache is the load, or exchange, under way.      *)
TypeOK ==
  /\ clock \in Nat /\ faults \in Nat
  /\ stored \in Key \cup {NoRow}
  /\ deleted \in [Key -> {"no", "hasty", "patient"}]
  /\ replacedAt \in [Key \cup {NoRow} -> Nat \cup {Never}]
  /\ creds \in [entry : CachedKey, inflight : {NoLoad, TheLoad}]
  /\ tokens \in [entry : CachedToken, inflight : {NoLoad, TheLoad}]
  /\ loads \subseteq Load /\ \A l, m \in loads : l = m
  /\ exchanges \subseteq Exchange /\ \A x, y \in exchanges : x = y
  /\ (loads = {}) <=> (creds.inflight = NoLoad)
  /\ (exchanges = {}) <=> (tokens.inflight = NoLoad)
  /\ req \in [Request -> RequestState]

(* oauth.ts:3-5: a token is refreshed before Google's expiry.  Every token   *)
(* put on the wire, from the cache, from this request's exchange or from one *)
(* it shared, is still good at Google, for any lifetime Google grants and    *)
(* however long the grant travelled.                                         *)
TokenAliveWhenSent ==
  \A r \in Request : req[r].pc = "sent" => clock < req[r].token.until

(* docs/self-host/maintenance.md:54-72, the rotation of a service-account    *)
(* key.  An operator who waits the loader's TTL and the time of a query and  *)
(* an exchange sees no request refused for the key he deletes, whatever was  *)
(* cached, loading or shared when he replaced it; and a tenant set up that   *)
(* long ago is not told that its credentials are missing.                    *)
RotationIsSeamless ==
  \A r \in Request :
    /\ req[r].pc = "refused" => deleted[req[r].key] = "hasty"
    /\ (req[r].pc = "missing" /\ stored # NoRow) => clock < replacedAt[NoRow] + Ttl + MaxLatency

(* oauth.ts:98-120: the token cache does not know which key a token is of.   *)
(* A token of a replaced key is sent for less than the loader's TTL, a query *)
(* and an exchange plus the longest usable lifetime - not the five minutes   *)
(* of docs/self-host/maintenance.md:67-69, but not for ever either.          *)
OldKeyRetires ==
  \A r \in Request :
    (req[r].pc = "sent" /\ req[r].token.key # stored)
      => clock < replacedAt[req[r].token.key] + Wait
                 + IF Longest > Skew THEN Longest - Skew ELSE 0
=============================================================================
