------------------------ MODULE CredentialCacheProofs ------------------------
(***************************************************************************)
(* The rotation of a service-account key, and the life of a token, for      *)
(* every number of keys and requests and every time to live, lifetime,      *)
(* refresh margin and latency the assumption admits.                        *)
(*                                                                          *)
(* The invariant follows a key from the row through the loader, its cache,  *)
(* an exchange and the token cache to the wire, and says of each place how  *)
(* long ago the key can have been replaced at the latest.                   *)
(***************************************************************************)
EXTENDS CredentialCache, TLAPS

(* The key is the stored one, or was until less than `span' ago.             *)
Recent(k, span) ==
  k = stored \/ (replacedAt[k] # Never /\ clock < replacedAt[k] + span)

Slack == IF Longest > Skew THEN Longest - Skew ELSE 0

(* A key is stored once; a patient deletion waited.                          *)
HistoryInv ==
  /\ replacedAt[stored] = Never
  /\ \A k \in Key \cup {NoRow} : replacedAt[k] <= clock
  /\ \A k \in Key : deleted[k] = "patient" =>
       replacedAt[k] # Never /\ clock >= replacedAt[k] + Wait

(* A load has read a key that was stored after the load began.               *)
LoadInv ==
  \A l \in loads :
    /\ l.sent <= clock /\ clock <= l.sent + MaxLatency
    /\ l.read => l.key = stored \/ (replacedAt[l.key] # Never /\ l.sent <= replacedAt[l.key])

CredsInv ==
  Live(creds, clock) =>
    /\ creds.entry.expiresAt <= clock + Ttl
    /\ \/ creds.entry.key = stored
       \/ /\ replacedAt[creds.entry.key] # Never
          /\ creds.entry.expiresAt <= replacedAt[creds.entry.key] + Ttl + MaxLatency

(* An exchange began with a key that was recent then, and its token lives    *)
(* its lifetime from when it was granted.                                    *)
ExchangeInv ==
  \A x \in exchanges :
    /\ x.sent <= clock /\ clock <= x.sent + MaxLatency
    /\ \/ x.key = stored
       \/ replacedAt[x.key] # Never /\ x.sent < replacedAt[x.key] + Ttl + MaxLatency
    /\ x.token # Idle => /\ x.life \in Lifetimes
                         /\ x.token.key = x.key
                         /\ x.sent + x.life <= x.token.until

TokensInv ==
  Live(tokens, clock) =>
    /\ tokens.entry.refreshAt <= tokens.entry.token.until
    /\ tokens.entry.refreshAt <= clock + Longest - Skew
    /\ \/ tokens.entry.token.key = stored
       \/ /\ replacedAt[tokens.entry.token.key] # Never
          /\ tokens.entry.refreshAt < replacedAt[tokens.entry.token.key] + Wait + Longest - Skew

RequestInv(r) ==
  /\ req[r].pc = "have" => Recent(req[r].key, Ttl + MaxLatency)
  /\ req[r].pc = "missing" => Recent(NoRow, Ttl + MaxLatency)
  /\ req[r].pc = "refused" => deleted[req[r].key] = "hasty"
  /\ req[r].pc = "sent" => /\ clock < req[r].token.until
                           /\ Recent(req[r].token.key, Wait + Slack)

IInv ==
  /\ TypeOK
  /\ HistoryInv
  /\ LoadInv
  /\ CredsInv
  /\ ExchangeInv
  /\ TokensInv
  /\ \A r \in Request : RequestInv(r)

-----------------------------------------------------------------------------
(* Facts about the constants and the cache's operators.                      *)

LEMMA Constants ==
  /\ Ttl \in Nat /\ Ttl > 0 /\ TokenTtl \in Nat /\ Skew \in Nat /\ MaxLatency \in Nat
  /\ MaxLatency <= Skew /\ NoRow \notin Key
  /\ Longest \in Nat
  /\ \A n \in Lifetimes : n \in Nat /\ MaxLatency < n /\ n <= Longest
  /\ Slack \in Nat /\ Longest - Skew <= Slack
  /\ Wait \in Nat /\ Wait > 0 /\ Wait = Ttl + MaxLatency + MaxLatency
<1>1. Longest \in Lifetimes /\ \A n \in Lifetimes : n <= Longest
  BY CredentialCacheAssumption DEF Longest
<1>2. /\ Ttl \in Nat /\ Ttl > 0 /\ TokenTtl \in Nat /\ Skew \in Nat /\ MaxLatency \in Nat
      /\ MaxLatency <= Skew /\ NoRow \notin Key
      /\ \A n \in Lifetimes : n \in Nat /\ MaxLatency < n
  BY CredentialCacheAssumption
<1> QED
  BY <1>1, <1>2 DEF Slack, Wait

(* set of the loader's cache, and of the token cache.                        *)
LEMMA StoredKey ==
  ASSUME NEW c \in [entry : CachedKey, inflight : {NoLoad, TheLoad}],
         NEW k \in Key \cup {NoRow}, NEW now \in Nat
  PROVE  Stored(c, [key |-> k], now, Ttl)
           = [entry |-> [key |-> k, expiresAt |-> now + Ttl], inflight |-> c.inflight]
<1>1. DOMAIN [key |-> k] = {"key"}
  OBVIOUS
<1>2. [f \in {"key"} \cup {"expiresAt"} |-> IF f = "expiresAt" THEN now + Ttl ELSE [key |-> k][f]]
        = [key |-> k, expiresAt |-> now + Ttl]
  OBVIOUS
<1> QED
  BY <1>1, <1>2 DEF Stored

LEMMA StoredToken ==
  ASSUME NEW c \in [entry : CachedToken, inflight : {NoLoad, TheLoad}],
         NEW tok \in Token, NEW at \in Int, NEW now \in Nat
  PROVE  Stored(c, [token |-> tok, refreshAt |-> at], now, TokenTtl)
           = [entry |-> [token |-> tok, refreshAt |-> at, expiresAt |-> now + TokenTtl],
              inflight |-> c.inflight]
<1> DEFINE e == [token |-> tok, refreshAt |-> at]
<1>1. DOMAIN e = {"token", "refreshAt"}
  OBVIOUS
<1>2. [f \in {"token", "refreshAt"} \cup {"expiresAt"} |->
         IF f = "expiresAt" THEN now + TokenTtl ELSE e[f]]
        = [token |-> tok, refreshAt |-> at, expiresAt |-> now + TokenTtl]
  OBVIOUS
<1> QED
  BY <1>1, <1>2 DEF Stored

(* A live entry is not the absent one.                                       *)
LEMMA LiveEntries ==
  ASSUME TypeOK
  PROVE  /\ creds.entry.expiresAt \in Nat /\ tokens.entry.expiresAt \in Nat
         /\ Live(creds, clock) =>
              creds.entry \in [key : Key \cup {NoRow}, expiresAt : Nat]
         /\ Live(tokens, clock) =>
              tokens.entry \in [token : Token, refreshAt : Int, expiresAt : Nat]
<1>1. creds.entry \in CachedKey /\ tokens.entry \in CachedToken /\ clock \in Nat
  BY DEF TypeOK
<1>2. NoEntry.expiresAt = 0
  BY DEF NoEntry
<1> HIDE DEF NoEntry
<1>3. creds.entry.expiresAt \in Nat
  BY <1>1, <1>2 DEF CachedKey
<1>4. tokens.entry.expiresAt \in Nat
  BY <1>1, <1>2 DEF CachedToken
<1>5. Live(creds, clock) => creds.entry # NoEntry
  BY <1>1, <1>2 DEF Live
<1>6. Live(tokens, clock) => tokens.entry # NoEntry
  BY <1>1, <1>2 DEF Live
<1> QED
  BY <1>1, <1>3, <1>4, <1>5, <1>6 DEF CachedKey, CachedToken

LEMMA RequestTyped ==
  ASSUME TypeOK, NEW r \in Request
  PROVE  /\ req[r].pc = "have" => req[r].key \in Key \cup {NoRow}
         /\ req[r].pc = "refused" => req[r].key \in Key
         /\ req[r].pc = "sent" => req[r].token \in Token
BY DEF TypeOK, RequestState

-----------------------------------------------------------------------------
(* Type correctness.                                                         *)

LEMMA InitTypeOK == Init => TypeOK
<1> SUFFICES ASSUME Init PROVE TypeOK
  OBVIOUS
<1>1. EmptyCache = [entry |-> NoEntry, inflight |-> NoLoad]
  BY DEF EmptyCache
<1>2. Idle \in RequestState
  BY DEF Idle, RequestState
<1> QED
  BY <1>1, <1>2 DEF Init, TypeOK, CachedKey, CachedToken

(* A request's next state, and that of all who share a load or an exchange.  *)
LEMMA RequestMoves ==
  ASSUME TypeOK, NEW s \in RequestState
  PROVE  /\ \A r \in Request : [req EXCEPT ![r] = s] \in [Request -> RequestState]
         /\ \A pc : Sharing(pc, s) \in [Request -> RequestState]
BY DEF TypeOK, Sharing

LEMMA RequestStates ==
  /\ \A pc \in {"idle", "load", "token", "missing", "failed"} : [pc |-> pc] \in RequestState
  /\ \A k \in Key \cup {NoRow} : [pc |-> "have", key |-> k] \in RequestState
  /\ \A k \in Key, pc \in {"failed", "refused"} : [pc |-> pc, key |-> k] \in RequestState
  /\ \A t \in Token : Sent(t) \in RequestState
BY DEF RequestState, Sent

LEMMA NextTypeOK == TypeOK /\ [Next]_vars => TypeOK'
<1> SUFFICES ASSUME TypeOK, [Next]_vars PROVE TypeOK'
  OBVIOUS
<1> DEFINE KeyCache == [entry : CachedKey, inflight : {NoLoad, TheLoad}]
           TokenCache == [entry : CachedToken, inflight : {NoLoad, TheLoad}]
<1>0. creds \in KeyCache /\ tokens \in TokenCache /\ clock \in Nat /\ faults \in Nat
      /\ NoLoad # TheLoad
  BY DEF TypeOK, NoLoad, TheLoad
<1>a. /\ \A c \in KeyCache : Settled(c) \in KeyCache /\ Settled(c).inflight = NoLoad
      /\ \A c \in TokenCache : Settled(c) \in TokenCache /\ Settled(c).inflight = NoLoad
  BY DEF Settled
<1>b. /\ \A c \in KeyCache : /\ Loading(c, TheLoad) \in KeyCache
                              /\ Loading(c, TheLoad).inflight = TheLoad
      /\ \A c \in TokenCache : /\ Loading(c, TheLoad) \in TokenCache
                                /\ Loading(c, TheLoad).inflight = TheLoad
  BY DEF Loading
<1>c. /\ \A c \in TokenCache : Evicted(c) \in TokenCache /\ Evicted(c).inflight = c.inflight
      /\ \A c \in KeyCache : Looked(c, clock) \in KeyCache
  BY DEF Evicted, Looked, CachedToken, CachedKey
<1>1. CASE UNCHANGED vars
  BY <1>1 DEF vars, TypeOK
<1>2. CASE TimePasses
  BY <1>2 DEF TimePasses, TypeOK, loader, provider
<1>3. ASSUME NEW k \in Key, SetCredentials(k) PROVE TypeOK'
  BY <1>3 DEF SetCredentials, TypeOK, loader, provider
<1>4. ASSUME NEW k \in Key, DeleteKey(k) PROVE TypeOK'
  <2>1. deleted' \in [Key -> {"no", "hasty", "patient"}]
    BY <1>4 DEF DeleteKey, TypeOK
  <2> QED
    BY <1>4, <2>1 DEF DeleteKey, TypeOK, loader, provider
<1>5. ASSUME NEW r \in Request, LoadCredentials(r) PROVE TypeOK'
  <2>1. CASE Live(creds, clock)
    <3>1. creds.entry.key \in Key \cup {NoRow}
      BY <2>1, LiveEntries
    <3>2. req' = [req EXCEPT ![r] = [pc |-> "have", key |-> creds.entry.key]]
      BY <1>5, <2>1 DEF LoadCredentials
    <3>3. req' \in [Request -> RequestState]
      BY <3>1, <3>2, RequestStates, RequestMoves
    <3> QED
      BY <1>5, <2>1, <3>3 DEF LoadCredentials, TypeOK, world, loader, provider
  <2>2. CASE ~Live(creds, clock)
    <3>1. /\ req' = [req EXCEPT ![r] = [pc |-> "load"]]
          /\ creds' = Loading(Looked(creds, clock), TheLoad)
          /\ loads' = IF creds.inflight # NoLoad THEN loads
                      ELSE {[sent |-> clock, key |-> NoRow, read |-> FALSE]}
          /\ UNCHANGED <<world, provider, faults>>
      BY <1>5, <2>2 DEF LoadCredentials
    <3>2. req' \in [Request -> RequestState]
      BY <3>1, RequestStates, RequestMoves
    <3>3. creds' \in KeyCache /\ creds'.inflight = TheLoad
      BY <1>0, <1>b, <1>c, <3>1
    <3>4. loads' \subseteq Load /\ (\A l, m \in loads' : l = m) /\ loads' # {}
      <4>1. [sent |-> clock, key |-> NoRow, read |-> FALSE] \in Load
        BY <1>0 DEF Load
      <4> QED
        BY <3>1, <4>1 DEF TypeOK
    <3> QED
      BY <1>0, <3>1, <3>2, <3>3, <3>4 DEF TypeOK, world, provider
  <2> QED
    BY <2>1, <2>2
<1>6. ASSUME NEW r \in Request, GetAccessToken(r) PROVE TypeOK'
  <2>0. req[r].pc = "have" /\ req[r].key \in Key \cup {NoRow} /\ UNCHANGED <<world, loader, faults>>
    BY <1>6, RequestTyped DEF GetAccessToken
  <2>1. req' \in [Request -> RequestState]
    <3>1. Usable(tokens) => tokens.entry.token \in Token
      BY LiveEntries DEF Usable
    <3> QED
      BY <1>6, <3>1, RequestStates, RequestMoves DEF GetAccessToken
  <2>2. CASE UNCHANGED provider
    BY <2>0, <2>1, <2>2 DEF TypeOK, world, loader, provider
  <2>3. CASE tokens' = Evicted(tokens) /\ UNCHANGED exchanges
    <3>1. tokens' \in TokenCache /\ tokens'.inflight = tokens.inflight
      BY <1>0, <1>c, <2>3
    <3> QED
      BY <2>0, <2>1, <2>3, <3>1 DEF TypeOK, world, loader
  <2>4. CASE /\ req[r].key # NoRow
             /\ tokens' = Loading(Evicted(tokens), TheLoad)
             /\ exchanges' = {[sent |-> clock, key |-> req[r].key, life |-> 0, token |-> Idle]}
    <3>1. tokens' \in TokenCache /\ tokens'.inflight = TheLoad
      BY <1>0, <1>b, <1>c, <2>4
    <3>2. [sent |-> clock, key |-> req[r].key, life |-> 0, token |-> Idle] \in Exchange
      BY <1>0, <2>0, <2>4 DEF Exchange
    <3>3. exchanges' \subseteq Exchange /\ exchanges' # {} /\ \A x, y \in exchanges' : x = y
      BY <2>4, <3>2
    <3> QED
      BY <1>0, <2>0, <2>1, <3>1, <3>3 DEF TypeOK, world, loader
  <2> QED
    BY <1>6, <2>2, <2>3, <2>4 DEF GetAccessToken
<1>7. ASSUME NEW r \in Request, Done(r) PROVE TypeOK'
  <2>1. req' \in [Request -> RequestState]
    BY <1>7, RequestStates, RequestMoves DEF Done, Idle
  <2> QED
    BY <1>7, <2>1 DEF Done, TypeOK, world, loader, provider
<1>8. ASSUME NEW l \in loads, RowRead(l) PROVE TypeOK'
  <2>0. l \in Load /\ stored \in Key \cup {NoRow}
    BY DEF TypeOK
  <2>1. [l EXCEPT !.key = stored, !.read = TRUE] \in Load
    BY <2>0 DEF Load
  <2>2. loads' \subseteq Load /\ loads' # {} /\ \A k, m \in loads' : k = m
    BY <1>8, <2>1 DEF RowRead
  <2> QED
    BY <1>8, <2>2 DEF RowRead, TypeOK, world, provider
<1>9. ASSUME NEW l \in loads, RowLoaded(l) PROVE TypeOK'
  <2>0. l.key \in Key \cup {NoRow}
    BY DEF TypeOK, Load
  <2>1. req' \in [Request -> RequestState]
    BY <1>9, <2>0, RequestStates, RequestMoves DEF RowLoaded
  <2>2. creds' \in KeyCache /\ creds'.inflight = NoLoad
    <3>1. Stored(creds, [key |-> l.key], clock, Ttl) \in KeyCache
      <4>1. [key |-> l.key, expiresAt |-> clock + Ttl] \in CachedKey
        BY <1>0, <2>0, Constants DEF CachedKey
      <4>2. Stored(creds, [key |-> l.key], clock, Ttl)
              = [entry |-> [key |-> l.key, expiresAt |-> clock + Ttl], inflight |-> creds.inflight]
        BY <1>0, <2>0, StoredKey, Zenon
      <4>3. creds.inflight \in {NoLoad, TheLoad}
        BY <1>0
      <4> QED BY <4>1, <4>2, <4>3
    <3> QED
      BY <1>9, <1>a, <3>1 DEF RowLoaded
  <2> QED
    BY <1>9, <2>1, <2>2 DEF RowLoaded, TypeOK, world, provider
<1>10. ASSUME NEW l \in loads, LoadFails(l) PROVE TypeOK'
  <2>1. req' \in [Request -> RequestState]
    BY <1>10, RequestStates, RequestMoves DEF LoadFails
  <2>2. creds' \in KeyCache /\ creds'.inflight = NoLoad /\ faults' \in Nat
    BY <1>0, <1>10, <1>a DEF LoadFails
  <2> QED
    BY <1>10, <2>1, <2>2 DEF LoadFails, TypeOK, world, provider
<1>11. ASSUME NEW x \in exchanges, Granted(x) PROVE TypeOK'
  <2>1. PICK n \in Lifetimes :
          exchanges' = {[x EXCEPT !.life = n, !.token = [key |-> x.key, until |-> clock + n]]}
    BY <1>11 DEF Granted
  <2>2. x \in Exchange /\ n \in Nat
    BY Constants DEF TypeOK
  <2>3. [x EXCEPT !.life = n, !.token = [key |-> x.key, until |-> clock + n]] \in Exchange
    <3>1. x.key \in Key /\ clock + n \in Nat
      BY <1>0, <2>2 DEF Exchange
    <3>2. [key |-> x.key, until |-> clock + n] \in Token
      BY <3>1 DEF Token
    <3> HIDE DEF Token
    <3> QED BY <2>2, <3>2 DEF Exchange
  <2>4. exchanges' \subseteq Exchange /\ exchanges' # {} /\ \A y, z \in exchanges' : y = z
    BY <2>1, <2>3
  <2> QED
    BY <1>11, <2>4 DEF Granted, TypeOK, world, loader
<1>12. ASSUME NEW x \in exchanges, Exchanged(x) PROVE TypeOK'
  <2>0. x.token \in Token /\ RefreshAt(x) \in Int
    BY <1>0, <1>12, Constants DEF Exchanged, TypeOK, Exchange, RefreshAt
  <2>1. req' \in [Request -> RequestState]
    BY <1>12, <2>0, RequestStates, RequestMoves DEF Exchanged
  <2>2. tokens' \in TokenCache /\ tokens'.inflight = NoLoad
    <3>1. Stored(tokens, [token |-> x.token, refreshAt |-> RefreshAt(x)], clock, TokenTtl) \in TokenCache
      <4>1. [token |-> x.token, refreshAt |-> RefreshAt(x), expiresAt |-> clock + TokenTtl]
              \in CachedToken
        BY <1>0, <2>0, Constants DEF CachedToken
      <4>2. Stored(tokens, [token |-> x.token, refreshAt |-> RefreshAt(x)], clock, TokenTtl)
              = [entry |-> [token |-> x.token, refreshAt |-> RefreshAt(x),
                            expiresAt |-> clock + TokenTtl],
                 inflight |-> tokens.inflight]
        BY <1>0, <2>0, StoredToken, Zenon
      <4>3. tokens.inflight \in {NoLoad, TheLoad}
        BY <1>0
      <4> QED BY <4>1, <4>2, <4>3
    <3> QED
      BY <1>12, <1>a, <3>1 DEF Exchanged
  <2> QED
    BY <1>12, <2>1, <2>2 DEF Exchanged, TypeOK, world, loader
<1>13. ASSUME NEW x \in exchanges, ExchangeRefused(x) \/ ExchangeFails(x) PROVE TypeOK'
  <2>0. x.key \in Key
    BY DEF TypeOK, Exchange
  <2>1. req' \in [Request -> RequestState] /\ faults' \in Nat
    BY <1>0, <1>13, <2>0, RequestStates, RequestMoves DEF ExchangeRefused, ExchangeFails, ExchangeEnds
  <2>2. tokens' \in TokenCache /\ tokens'.inflight = NoLoad /\ exchanges' = {}
    BY <1>0, <1>13, <1>a DEF ExchangeRefused, ExchangeFails, ExchangeEnds
  <2> QED
    BY <1>13, <2>1, <2>2 DEF ExchangeRefused, ExchangeFails, ExchangeEnds, TypeOK, world, loader
<1> QED
  BY <1>1, <1>2, <1>3, <1>4, <1>5, <1>6, <1>7, <1>8, <1>9, <1>10, <1>11, <1>12, <1>13 DEF Next

-----------------------------------------------------------------------------
(* What a load and an exchange leave in the caches.                          *)

LEMMA LoadedEntry ==
  ASSUME TypeOK, NEW l \in loads, RowLoaded(l)
  PROVE  /\ creds'.entry.key = l.key /\ creds'.entry.expiresAt = clock + Ttl
         /\ l.key \in Key \cup {NoRow}
<1>1. /\ creds \in [entry : CachedKey, inflight : {NoLoad, TheLoad}]
      /\ l.key \in Key \cup {NoRow} /\ clock \in Nat
  BY DEF TypeOK, Load
<1>2. Stored(creds, [key |-> l.key], clock, Ttl)
        = [entry |-> [key |-> l.key, expiresAt |-> clock + Ttl], inflight |-> creds.inflight]
  BY <1>1, StoredKey, Zenon
<1> QED
  BY <1>1, <1>2 DEF RowLoaded, Settled

LEMMA ExchangedEntry ==
  ASSUME TypeOK, NEW x \in exchanges, Exchanged(x)
  PROVE  /\ tokens'.entry.token = x.token /\ tokens'.entry.refreshAt = RefreshAt(x)
         /\ x.token \in Token
<1>1. /\ tokens \in [entry : CachedToken, inflight : {NoLoad, TheLoad}]
      /\ x.token \in Token /\ clock \in Nat /\ RefreshAt(x) \in Int
  BY Constants DEF TypeOK, Exchange, Exchanged, RefreshAt
<1>2. Stored(tokens, [token |-> x.token, refreshAt |-> RefreshAt(x)], clock, TokenTtl)
        = [entry |-> [token |-> x.token, refreshAt |-> RefreshAt(x),
                      expiresAt |-> clock + TokenTtl],
           inflight |-> tokens.inflight]
  BY <1>1, StoredToken, Zenon
<1> QED
  BY <1>1, <1>2 DEF Exchanged, Settled

-----------------------------------------------------------------------------
LEMMA InitIInv == Init => IInv
<1> SUFFICES ASSUME Init PROVE IInv
  OBVIOUS
<1>1. TypeOK
  BY InitTypeOK
<1>2. HistoryInv
  <2>1. \A k \in Key \cup {NoRow} : replacedAt[k] = Never
    BY DEF Init
  <2>2. \A k \in Key : deleted[k] # "patient"
    BY DEF Init
  <2> QED BY <1>1, <2>1, <2>2 DEF HistoryInv, TypeOK, Never, Init
<1>3. ~Live(creds, clock) /\ ~Live(tokens, clock) /\ loads = {} /\ exchanges = {}
  BY DEF Init, Live, EmptyCache, NoEntry
<1>4. \A r \in Request : RequestInv(r)
  BY DEF Init, Idle, RequestInv
<1> QED
  BY <1>1, <1>2, <1>3, <1>4 DEF IInv, LoadInv, CredsInv, ExchangeInv, TokensInv

(* Time passes only while nobody holds a key or a token, and no load or      *)
(* exchange is at its limit.                                                 *)
LEMMA TimeIInv ==
  ASSUME IInv, TypeOK', TimePasses
  PROVE  IInv'
<1>0. /\ TypeOK /\ clock \in Nat /\ clock' = clock + 1
      /\ UNCHANGED <<stored, replacedAt, deleted, creds, loads, tokens, exchanges, req>>
  BY DEF IInv, TypeOK, TimePasses, loader, provider
<1>1. HistoryInv'
  <2>1. \A k \in Key \cup {NoRow} : replacedAt[k] \in Int
    BY <1>0 DEF TypeOK, Never
  <2> QED BY <1>0, <2>1, Constants DEF IInv, HistoryInv, Wait
<1>2. LoadInv' /\ ExchangeInv'
  <2>1. \A l \in loads \cup exchanges : l.sent \in Nat /\ clock < l.sent + MaxLatency
    BY <1>0 DEF TimePasses, TypeOK, Load, Exchange
  <2>2. LoadInv'
    BY <1>0, <2>1, Constants DEF IInv, LoadInv
  <2>3. ExchangeInv'
    BY <1>0, <2>1, Constants DEF IInv, ExchangeInv
  <2> QED BY <2>2, <2>3
<1>3. CredsInv'
  <2>1. Live(creds, clock)' => Live(creds, clock)
    BY <1>0, LiveEntries DEF Live
  <2> QED BY <1>0, <2>1, LiveEntries, Constants DEF IInv, CredsInv
<1>4. TokensInv'
  <2>1. Live(tokens, clock)' => Live(tokens, clock)
    BY <1>0, LiveEntries DEF Live
  <2> QED BY <1>0, <2>1, LiveEntries, Constants DEF IInv, TokensInv
<1>5. \A r \in Request : RequestInv(r)'
  BY <1>0 DEF TimePasses, Ready, RequestInv
<1> QED
  BY <1>1, <1>2, <1>3, <1>4, <1>5 DEF IInv

(* Storing a new key makes the old one a key replaced just now.              *)
LEMMA SetCredentialsIInv ==
  ASSUME IInv, TypeOK', NEW k \in Key, SetCredentials(k)
  PROVE  IInv'
<1> DEFINE Any == Key \cup {NoRow}
<1>0. /\ TypeOK /\ clock \in Nat /\ stored \in Any /\ stored' = k /\ k # stored
      /\ replacedAt[k] = Never /\ replacedAt[stored] = Never
      /\ \A j \in Any : replacedAt[j] \in Int /\ replacedAt[j] <= clock
      /\ UNCHANGED <<clock, deleted, creds, loads, tokens, exchanges, req>>
  BY DEF IInv, TypeOK, SetCredentials, loader, provider, HistoryInv, Never
<1>1. \A j \in Any : replacedAt'[j] = IF j = stored THEN clock ELSE replacedAt[j]
  BY <1>0 DEF SetCredentials, TypeOK
<1>2. \A j \in Any, t \in Int :
        t <= clock /\ (j = stored \/ (replacedAt[j] # Never /\ t <= replacedAt[j]))
          => replacedAt'[j] # Never /\ t <= replacedAt'[j]
  BY <1>0, <1>1 DEF Never
<1>3. \A j \in Any, n \in Int : n > 0 /\ Recent(j, n) => Recent(j, n)'
  BY <1>0, <1>1 DEF Recent, Never
<1>4. HistoryInv'
  BY <1>0, <1>1 DEF IInv, HistoryInv, Never
<1>5. LoadInv'
  <2>1. \A l \in loads : l.sent \in Nat /\ l.key \in Any
    BY <1>0 DEF TypeOK, Load
  <2> QED BY <1>0, <1>2, <2>1 DEF IInv, LoadInv
<1>6. CredsInv'
  <2> SUFFICES ASSUME Live(creds, clock) PROVE CredsInv'
    BY <1>0 DEF CredsInv
  <2>1. creds.entry.key \in Any /\ creds.entry.expiresAt \in Nat
    BY <1>0, LiveEntries
  <2> DEFINE t == creds.entry.expiresAt - Ttl - MaxLatency
  <2>2. t \in Int /\ t <= clock
    BY <1>0, <2>1, Constants DEF IInv, CredsInv
  <2>3. creds.entry.key = stored
        \/ (replacedAt[creds.entry.key] # Never /\ t <= replacedAt[creds.entry.key])
    BY <1>0, <2>1, Constants DEF IInv, CredsInv
  <2> HIDE DEF t
  <2>4. replacedAt'[creds.entry.key] # Never /\ t <= replacedAt'[creds.entry.key]
    BY <1>2, <2>1, <2>2, <2>3
  <2>5. replacedAt'[creds.entry.key] \in Int
    BY <1>0, <1>1, <2>1
  <2>6. creds.entry.expiresAt <= replacedAt'[creds.entry.key] + Ttl + MaxLatency
    BY <2>1, <2>4, <2>5, Constants DEF t
  <2> QED BY <1>0, <2>4, <2>6 DEF IInv, CredsInv
<1>7. ExchangeInv'
  <2> SUFFICES ASSUME NEW x \in exchanges
               PROVE  \/ x.key = k
                      \/ replacedAt'[x.key] # Never /\ x.sent < replacedAt'[x.key] + Ttl + MaxLatency
    BY <1>0 DEF IInv, ExchangeInv
  <2>1. x.sent \in Nat /\ x.key \in Any
    BY <1>0 DEF TypeOK, Exchange
  <2>2. /\ x.sent <= clock
        /\ \/ x.key = stored
           \/ replacedAt[x.key] # Never /\ x.sent < replacedAt[x.key] + Ttl + MaxLatency
    BY Zenon DEF IInv, ExchangeInv
  <2> QED BY <1>0, <1>1, <2>1, <2>2, Constants DEF Never
<1>8. TokensInv'
  <2> SUFFICES ASSUME Live(tokens, clock) PROVE TokensInv'
    BY <1>0 DEF TokensInv
  <2> DEFINE e == tokens.entry
  <2>1. e.token.key \in Any /\ e.refreshAt \in Int
    BY <1>0, LiveEntries DEF Token
  <2>2. /\ e.refreshAt <= clock + Longest - Skew
        /\ \/ e.token.key = stored
           \/ /\ replacedAt[e.token.key] # Never
              /\ e.refreshAt < replacedAt[e.token.key] + Wait + Longest - Skew
    BY DEF IInv, TokensInv
  <2>3. /\ replacedAt'[e.token.key] # Never
        /\ e.refreshAt < replacedAt'[e.token.key] + Wait + Longest - Skew
    BY <1>0, <1>1, <2>1, <2>2, Constants DEF Never
  <2> QED BY <1>0, <2>3 DEF IInv, TokensInv
<1>9. ASSUME NEW r \in Request PROVE RequestInv(r)'
  <2>1. /\ Ttl + MaxLatency \in Int /\ Ttl + MaxLatency > 0
        /\ Wait + Slack \in Int /\ Wait + Slack > 0
    BY Constants
  <2>2. req[r].pc = "sent" => req[r].token.key \in Any
    BY <1>0, RequestTyped DEF Token
  <2> QED
    BY <1>0, <1>3, <2>1, <2>2, RequestTyped DEF IInv, RequestInv
<1> QED
  BY <1>4, <1>5, <1>6, <1>7, <1>8, <1>9 DEF IInv

(* A patient deletion is of a key replaced long ago, so of none still used.  *)
LEMMA DeleteKeyIInv ==
  ASSUME IInv, TypeOK', NEW k \in Key, DeleteKey(k)
  PROVE  IInv'
<1>0. /\ TypeOK /\ deleted[k] = "no"
      /\ UNCHANGED <<clock, stored, replacedAt, creds, loads, tokens, exchanges, req>>
  BY DEF IInv, DeleteKey, loader, provider
<1>1. /\ \A j \in Key : j # k => deleted'[j] = deleted[j]
      /\ deleted'[k] = "patient" => replacedAt[k] # Never /\ clock >= replacedAt[k] + Wait
  BY <1>0 DEF DeleteKey, TypeOK
<1>2. HistoryInv'
  BY <1>0, <1>1 DEF IInv, HistoryInv
<1>3. LoadInv' /\ CredsInv' /\ ExchangeInv' /\ TokensInv'
  BY <1>0 DEF IInv, LoadInv, CredsInv, ExchangeInv, TokensInv, Live
<1>4. ASSUME NEW r \in Request PROVE RequestInv(r)'
  BY <1>0, <1>1, RequestTyped DEF IInv, RequestInv, Recent
<1> QED
  BY <1>2, <1>3, <1>4 DEF IInv

-----------------------------------------------------------------------------
(* The steps of requests, loads and exchanges leave the world alone.         *)
LEMMA WorldFrame ==
  ASSUME IInv, TypeOK', UNCHANGED world
  PROVE  /\ HistoryInv'
         /\ UNCHANGED loads => LoadInv'
         /\ UNCHANGED creds => CredsInv'
         /\ UNCHANGED exchanges => ExchangeInv'
         /\ UNCHANGED tokens => TokensInv'
         /\ \A r \in Request : req'[r] = req[r] => RequestInv(r)'
<1>1. UNCHANGED <<clock, stored, replacedAt, deleted>>
  BY DEF world
<1>2. HistoryInv' /\ (UNCHANGED loads => LoadInv') /\ (UNCHANGED exchanges => ExchangeInv')
  BY <1>1 DEF IInv, HistoryInv, LoadInv, ExchangeInv
<1>3. (UNCHANGED creds => CredsInv') /\ (UNCHANGED tokens => TokensInv')
  BY <1>1 DEF IInv, CredsInv, TokensInv, Live
<1>4. \A r \in Request : req'[r] = req[r] => RequestInv(r)'
  BY <1>1 DEF IInv, RequestInv, Recent
<1> QED
  BY <1>2, <1>3, <1>4

(* A request at none of the four places the invariant speaks of.             *)
LEMMA Unremarkable ==
  ASSUME NEW r, req'[r].pc \notin {"have", "missing", "refused", "sent"}
  PROVE  RequestInv(r)'
BY DEF RequestInv

(* From the loader's cache, a key replaced less than a TTL and a query ago.  *)
LEMMA LoadCredentialsIInv ==
  ASSUME IInv, TypeOK', NEW r \in Request, LoadCredentials(r)
  PROVE  IInv'
<1>0. /\ TypeOK /\ clock \in Nat /\ UNCHANGED world /\ UNCHANGED <<tokens, exchanges>>
      /\ UNCHANGED <<clock, stored, replacedAt>>
  BY DEF IInv, TypeOK, LoadCredentials, provider, world
<1>1. CASE Live(creds, clock)
  <2>1. UNCHANGED <<creds, loads>> /\ req' = [req EXCEPT ![r] = [pc |-> "have", key |-> creds.entry.key]]
    BY <1>1 DEF LoadCredentials, loader
  <2>2. creds.entry.key \in Key \cup {NoRow} /\ creds.entry.expiresAt \in Nat
    BY <1>0, <1>1, LiveEntries
  <2>3. Recent(creds.entry.key, Ttl + MaxLatency)'
    <3>1. replacedAt[creds.entry.key] \in Int
      BY <1>0, <2>2 DEF TypeOK, Never
    <3>2. clock < creds.entry.expiresAt
      BY <1>0, <1>1, <2>2 DEF Live
    <3> QED
      BY <1>0, <1>1, <2>1, <2>2, <3>1, <3>2, Constants DEF IInv, CredsInv, Recent
  <2>4. RequestInv(r)'
    <3>1. req'[r].pc = "have" /\ req'[r].key = creds.entry.key
      BY <1>0, <2>1 DEF TypeOK
    <3> QED BY <2>1, <2>3, <3>1 DEF RequestInv, Recent
  <2>5. \A q \in Request : q # r => req'[q] = req[q]
    BY <1>0, <2>1 DEF TypeOK
  <2> QED
    BY <1>0, <2>1, <2>4, <2>5, WorldFrame DEF IInv
<1>2. CASE ~Live(creds, clock)
  <2>1. /\ req' = [req EXCEPT ![r] = [pc |-> "load"]]
        /\ creds' = Loading(Looked(creds, clock), TheLoad)
        /\ loads' = IF creds.inflight # NoLoad THEN loads
                    ELSE {[sent |-> clock, key |-> NoRow, read |-> FALSE]}
    BY <1>2 DEF LoadCredentials
  <2>2. CredsInv'
    <3>1. creds'.entry = NoEntry
      BY <1>0, <1>2, <2>1 DEF Loading, Looked, TypeOK
    <3>2. ~Live(creds, clock)'
      BY <1>0, <3>1 DEF Live, NoEntry
    <3> QED BY <3>2 DEF CredsInv
  <2>3. LoadInv'
    <3>1. CASE creds.inflight # NoLoad
      BY <1>0, <2>1, <3>1, WorldFrame
    <3>2. CASE creds.inflight = NoLoad
      <4>1. \A l \in loads' : l.sent = clock /\ ~l.read
        BY <2>1, <3>2
      <4> QED BY <1>0, <4>1, Constants DEF LoadInv
    <3> QED BY <3>1, <3>2
  <2>4. RequestInv(r)'
    <3>1. req'[r].pc = "load"
      BY <1>0, <2>1 DEF TypeOK
    <3> QED BY <3>1, Unremarkable
  <2>5. \A q \in Request : q # r => req'[q] = req[q]
    BY <1>0, <2>1 DEF TypeOK
  <2> QED
    BY <1>0, <2>2, <2>3, <2>4, <2>5, WorldFrame DEF IInv
<1> QED
  BY <1>1, <1>2

(* From the token cache, a token before its refresh and its key's last       *)
(* possible use; else an exchange begins, or is joined.                      *)
LEMMA GetAccessTokenIInv ==
  ASSUME IInv, TypeOK', NEW r \in Request, GetAccessToken(r)
  PROVE  IInv'
<1>0. /\ TypeOK /\ clock \in Nat /\ UNCHANGED world /\ UNCHANGED <<creds, loads>>
      /\ UNCHANGED <<clock, stored, replacedAt, deleted>>
      /\ req[r].pc = "have" /\ req[r].key \in Key \cup {NoRow}
  BY RequestTyped DEF IInv, TypeOK, GetAccessToken, loader, world
<1>1. Recent(req[r].key, Ttl + MaxLatency)
  BY <1>0 DEF IInv, RequestInv
<1>2. ASSUME NEW s, req' = [req EXCEPT ![r] = s]
      PROVE  req'[r] = s /\ \A q \in Request : q # r => req'[q] = req[q]
  BY <1>0, <1>2 DEF TypeOK
<1>3. CASE req[r].key = NoRow /\ UNCHANGED provider /\ req' = [req EXCEPT ![r] = [pc |-> "missing"]]
  <2>1. req'[r].pc = "missing" /\ \A q \in Request : q # r => req'[q] = req[q]
    BY <1>2, <1>3
  <2>2. RequestInv(r)'
    BY <1>0, <1>1, <1>3, <2>1 DEF RequestInv, Recent
  <2> QED
    BY <1>0, <1>3, <2>1, <2>2, WorldFrame DEF IInv, provider
<1>4. CASE /\ Usable(tokens) /\ UNCHANGED provider
           /\ req' = [req EXCEPT ![r] = Sent(tokens.entry.token)]
  <2> DEFINE e == tokens.entry
  <2>1. req'[r] = Sent(e.token) /\ \A q \in Request : q # r => req'[q] = req[q]
    BY <1>2, <1>4
  <2>2. /\ e.token \in Token /\ e.refreshAt \in Int /\ e.refreshAt > clock
        /\ e.token.until \in Nat /\ e.token.key \in Key
    BY <1>0, <1>4, LiveEntries DEF Usable, Token
  <2>3. /\ e.refreshAt <= e.token.until
        /\ \/ e.token.key = stored
           \/ /\ replacedAt[e.token.key] # Never
              /\ e.refreshAt < replacedAt[e.token.key] + Wait + Longest - Skew
    BY <1>4, Zenon DEF IInv, TokensInv, Usable
  <2>4. replacedAt[e.token.key] \in Int
    BY <1>0, <2>2 DEF TypeOK, Never
  <2>5. clock < e.token.until /\ Recent(e.token.key, Wait + Slack)
    BY <1>0, <2>2, <2>3, <2>4, Constants DEF Recent
  <2>6. RequestInv(r)'
    <3>1. req'[r].pc = "sent" /\ req'[r].token = e.token
      BY <2>1 DEF Sent
    <3> QED BY <1>0, <1>4, <2>5, <3>1 DEF RequestInv, Recent, provider
  <2> QED
    BY <1>0, <1>4, <2>1, <2>6, WorldFrame DEF IInv, provider
<1>5. CASE /\ req[r].key # NoRow
           /\ req' = [req EXCEPT ![r] = [pc |-> "token"]]
           /\ \/ tokens' = Evicted(tokens) /\ UNCHANGED exchanges
              \/ /\ tokens' = Loading(Evicted(tokens), TheLoad)
                 /\ exchanges' = {[sent |-> clock, key |-> req[r].key, life |-> 0, token |-> Idle]}
  <2>1. req'[r].pc = "token" /\ \A q \in Request : q # r => req'[q] = req[q]
    BY <1>2, <1>5
  <2>2. RequestInv(r)'
    BY <2>1, Unremarkable
  <2>3. TokensInv'
    <3>1. tokens'.entry = NoEntry
      BY <1>0, <1>5 DEF Evicted, Loading, TypeOK
    <3>2. ~Live(tokens, clock)'
      BY <1>0, <3>1 DEF Live, NoEntry
    <3> QED BY <3>2 DEF TokensInv
  <2>4. ExchangeInv'
    <3>1. CASE UNCHANGED exchanges
      BY <1>0, <3>1, WorldFrame
    <3>2. CASE exchanges' = {[sent |-> clock, key |-> req[r].key, life |-> 0, token |-> Idle]}
      <4>1. \A x \in exchanges' : x.sent = clock /\ x.key = req[r].key /\ x.token = Idle
        BY <3>2
      <4>2. replacedAt[req[r].key] \in Int
        BY <1>0 DEF TypeOK, Never
      <4> QED BY <1>0, <1>1, <4>1, <4>2, Constants DEF ExchangeInv, Recent
    <3> QED BY <1>5, <3>1, <3>2
  <2> QED
    BY <1>0, <2>1, <2>2, <2>3, <2>4, WorldFrame DEF IInv
<1> QED
  BY <1>3, <1>4, <1>5 DEF GetAccessToken

(* All who share a load or an exchange move together.                        *)
LEMMA SharersMove ==
  ASSUME IInv, TypeOK', UNCHANGED world, NEW pc, NEW s, req' = Sharing(pc, s),
         \A q \in Request : req'[q] = s => RequestInv(q)'
  PROVE  \A q \in Request : RequestInv(q)'
<1> TAKE q \in Request
<1>1. req'[q] = s \/ req'[q] = req[q]
  BY DEF Sharing
<1> QED
  BY <1>1, WorldFrame

LEMMA LoadIInv ==
  ASSUME IInv, TypeOK', NEW l \in loads, RowRead(l) \/ RowLoaded(l) \/ LoadFails(l)
  PROVE  IInv'
<1>0. /\ TypeOK /\ clock \in Nat /\ UNCHANGED world /\ UNCHANGED <<tokens, exchanges>>
      /\ UNCHANGED <<clock, stored, replacedAt>>
      /\ l.sent \in Nat /\ l.sent <= clock /\ clock <= l.sent + MaxLatency
  BY DEF IInv, TypeOK, RowRead, RowLoaded, LoadFails, provider, world, LoadInv, Load
<1>1. CASE RowRead(l)
  <2>1. UNCHANGED <<creds, req>> /\ loads' = {[l EXCEPT !.key = stored, !.read = TRUE]}
    BY <1>1 DEF RowRead
  <2>2. \A m \in loads' : m.sent = l.sent /\ m.key = stored
    BY <1>0, <2>1 DEF TypeOK, Load
  <2>3. LoadInv'
    BY <1>0, <2>2 DEF LoadInv
  <2> QED
    BY <1>0, <2>1, <2>3, WorldFrame DEF IInv
<1>2. CASE RowLoaded(l)
  <2>1. /\ loads' = {} /\ req' = Sharing("load", [pc |-> "have", key |-> l.key])
        /\ l.read
    BY <1>2 DEF RowLoaded
  <2>2. /\ creds'.entry.key = l.key /\ creds'.entry.expiresAt = clock + Ttl
        /\ l.key \in Key \cup {NoRow}
    BY <1>0, <1>2, LoadedEntry
  <2>3. replacedAt[l.key] \in Int
    BY <1>0, <2>2 DEF TypeOK, Never
  <2>4. l.key = stored \/ (replacedAt[l.key] # Never /\ l.sent <= replacedAt[l.key])
    BY <2>1 DEF IInv, LoadInv
  <2>5. CredsInv'
    BY <1>0, <2>2, <2>3, <2>4, Constants DEF CredsInv
  <2>6. Recent(l.key, Ttl + MaxLatency)'
    BY <1>0, <2>3, <2>4, Constants DEF Recent
  <2>7. \A q \in Request : req'[q] = [pc |-> "have", key |-> l.key] => RequestInv(q)'
    <3> SUFFICES ASSUME NEW q \in Request, req'[q] = [pc |-> "have", key |-> l.key]
                 PROVE  RequestInv(q)'
      OBVIOUS
    <3>1. req'[q].pc = "have" /\ req'[q].key = l.key
      OBVIOUS
    <3> QED BY <1>0, <2>6, <3>1 DEF RequestInv, Recent
  <2>8. \A q \in Request : RequestInv(q)'
    BY <1>0, <2>1, <2>7, SharersMove
  <2>9. LoadInv'
    BY <2>1 DEF LoadInv
  <2> QED
    BY <1>0, <2>5, <2>8, <2>9, WorldFrame DEF IInv
<1>3. CASE LoadFails(l)
  <2>1. loads' = {} /\ creds' = Settled(creds) /\ req' = Sharing("load", [pc |-> "failed"])
    BY <1>3 DEF LoadFails
  <2>2. CredsInv'
    <3>1. creds'.entry = creds.entry
      BY <1>0, <2>1 DEF Settled, TypeOK
    <3> QED BY <1>0, <3>1 DEF IInv, CredsInv, Live
  <2>3. \A q \in Request : req'[q] = [pc |-> "failed"] => RequestInv(q)'
    BY Unremarkable
  <2>4. \A q \in Request : RequestInv(q)'
    BY <1>0, <2>1, <2>3, SharersMove
  <2>5. LoadInv'
    BY <2>1 DEF LoadInv
  <2> QED
    BY <1>0, <2>2, <2>4, <2>5, WorldFrame DEF IInv
<1> QED
  BY <1>1, <1>2, <1>3

LEMMA ExchangeIInv ==
  ASSUME IInv, TypeOK', NEW x \in exchanges,
         Granted(x) \/ Exchanged(x) \/ ExchangeRefused(x) \/ ExchangeFails(x)
  PROVE  IInv'
<1>0. /\ TypeOK /\ clock \in Nat /\ UNCHANGED world /\ UNCHANGED <<creds, loads>>
      /\ UNCHANGED <<clock, stored, replacedAt, deleted>>
      /\ x \in Exchange /\ x.sent \in Nat /\ x.key \in Key /\ replacedAt[x.key] \in Int
  <2>1. TypeOK /\ clock \in Nat /\ x \in Exchange
    BY DEF IInv, TypeOK
  <2>2. x.sent \in Nat /\ x.key \in Key
    BY <2>1 DEF Exchange
  <2>3. replacedAt[x.key] \in Int
    BY <2>1, <2>2 DEF TypeOK, Never
  <2>4. UNCHANGED world /\ UNCHANGED loader
    BY DEF Granted, Exchanged, ExchangeRefused, ExchangeFails, ExchangeEnds
  <2> QED BY <2>1, <2>2, <2>3, <2>4 DEF world, loader
<1>1. /\ x.sent <= clock /\ clock <= x.sent + MaxLatency
      /\ \/ x.key = stored
         \/ replacedAt[x.key] # Never /\ x.sent < replacedAt[x.key] + Ttl + MaxLatency
      /\ x.token # Idle => /\ x.life \in Lifetimes
                           /\ x.token.key = x.key
                           /\ x.sent + x.life <= x.token.until
  BY Zenon DEF IInv, ExchangeInv
<1>2. CASE Granted(x)
  <2>1. UNCHANGED <<tokens, req>>
    BY <1>2 DEF Granted
  <2>2. PICK n \in Lifetimes :
          exchanges' = {[x EXCEPT !.life = n, !.token = [key |-> x.key, until |-> clock + n]]}
    BY <1>2 DEF Granted
  <2>3. \A y \in exchanges' : /\ y.sent = x.sent /\ y.key = x.key /\ y.life = n
                              /\ y.token.key = x.key /\ y.token.until = clock + n
    <3> DEFINE tok == [key |-> x.key, until |-> clock + n]
    <3>1. tok.key = x.key /\ tok.until = clock + n
      OBVIOUS
    <3> HIDE DEF tok
    <3>2. exchanges' = {[x EXCEPT !.life = n, !.token = tok]}
      BY <2>2 DEF tok
    <3>3. \A y \in exchanges' : y.sent = x.sent /\ y.key = x.key /\ y.life = n /\ y.token = tok
      BY <1>0, <3>2 DEF Exchange
    <3> QED BY <3>1, <3>3
  <2>4. x.sent + n <= clock + n
    BY <1>0, <1>1, Constants
  <2>5. ExchangeInv'
    BY <1>0, <1>1, <2>3, <2>4 DEF ExchangeInv
  <2> QED
    BY <1>0, <2>1, <2>5, WorldFrame DEF IInv
<1>3. CASE Exchanged(x)
  <2>1. exchanges' = {} /\ req' = Sharing("token", Sent(x.token)) /\ x.token # Idle
    BY <1>3 DEF Exchanged
  <2>2. /\ tokens'.entry.token = x.token /\ tokens'.entry.refreshAt = clock + x.life - Skew
        /\ x.token \in Token
    BY <1>0, <1>3, ExchangedEntry DEF RefreshAt
  <2>3. /\ x.life \in Nat /\ MaxLatency < x.life /\ x.life <= Longest
        /\ x.token.key = x.key /\ x.token.until \in Nat /\ x.sent + x.life <= x.token.until
    BY <1>1, <2>1, <2>2, Constants DEF Token
  <2>4. TokensInv'
    <3>1. clock + x.life - Skew <= x.token.until
      BY <1>0, <1>1, <2>3, Constants
    <3>2. clock + x.life - Skew <= clock + Longest - Skew
      BY <1>0, <2>3, Constants
    <3>3. \/ x.key = stored
          \/ replacedAt[x.key] # Never
             /\ clock + x.life - Skew < replacedAt[x.key] + Wait + Longest - Skew
      BY <1>0, <1>1, <2>3, Constants
    <3> QED BY <1>0, <2>2, <2>3, <3>1, <3>2, <3>3 DEF TokensInv
  <2>5. clock < x.token.until /\ Recent(x.token.key, Wait + Slack)
    <3>1. clock < x.token.until
      BY <1>0, <1>1, <2>3, Constants
    <3>2. x.key = stored \/ (replacedAt[x.key] # Never /\ clock < replacedAt[x.key] + (Wait + Slack))
      BY <1>0, <1>1, Constants
    <3> QED BY <2>3, <3>1, <3>2 DEF Recent
  <2>6. \A q \in Request : req'[q] = Sent(x.token) => RequestInv(q)'
    <3> SUFFICES ASSUME NEW q \in Request, req'[q] = Sent(x.token) PROVE RequestInv(q)'
      OBVIOUS
    <3>1. req'[q].pc = "sent" /\ req'[q].token = x.token
      BY DEF Sent
    <3> QED BY <1>0, <2>5, <3>1 DEF RequestInv, Recent
  <2>7. \A q \in Request : RequestInv(q)'
    BY <1>0, <2>1, <2>6, SharersMove
  <2>8. ExchangeInv'
    BY <2>1 DEF ExchangeInv
  <2> QED
    BY <1>0, <2>4, <2>7, <2>8, WorldFrame DEF IInv
<1>4. ASSUME NEW then \in {"refused", "failed"}, ExchangeEnds(x, then),
             then = "refused" => deleted[x.key] # "no"
      PROVE  IInv'
  <2>1. /\ exchanges' = {} /\ tokens' = Settled(tokens)
        /\ req' = Sharing("token", [pc |-> then, key |-> x.key])
    BY <1>4 DEF ExchangeEnds
  <2>2. TokensInv'
    <3>1. tokens'.entry = tokens.entry
      BY <1>0, <2>1 DEF Settled, TypeOK
    <3> QED BY <1>0, <3>1 DEF IInv, TokensInv, Live
  <2>3. deleted[x.key] # "patient"
    <3> SUFFICES ASSUME deleted[x.key] = "patient" PROVE FALSE
      OBVIOUS
    <3>1. replacedAt[x.key] # Never /\ clock >= replacedAt[x.key] + Wait
      BY <1>0 DEF IInv, HistoryInv
    <3>2. x.key # stored
      BY <1>0, <3>1 DEF IInv, HistoryInv
    <3> QED BY <1>0, <1>1, <3>1, <3>2, Constants
  <2>4. then = "refused" => deleted[x.key] = "hasty"
    BY <1>0, <1>4, <2>3 DEF TypeOK
  <2>5. \A q \in Request : req'[q] = [pc |-> then, key |-> x.key] => RequestInv(q)'
    <3> SUFFICES ASSUME NEW q \in Request, req'[q] = [pc |-> then, key |-> x.key]
                 PROVE  RequestInv(q)'
      OBVIOUS
    <3>1. req'[q].pc = then /\ req'[q].key = x.key
      OBVIOUS
    <3> QED BY <1>0, <1>4, <2>4, <3>1 DEF RequestInv
  <2>6. \A q \in Request : RequestInv(q)'
    BY <1>0, <2>1, <2>5, SharersMove
  <2>7. ExchangeInv'
    BY <2>1 DEF ExchangeInv
  <2> QED
    BY <1>0, <2>2, <2>6, <2>7, WorldFrame DEF IInv
<1> QED
  BY <1>2, <1>3, <1>4 DEF ExchangeRefused, ExchangeFails

LEMMA NextIInv == IInv /\ [Next]_vars => IInv'
<1> SUFFICES ASSUME IInv, [Next]_vars PROVE IInv'
  OBVIOUS
<1>0. TypeOK /\ TypeOK'
  BY NextTypeOK DEF IInv
<1>1. CASE UNCHANGED vars
  BY <1>0, <1>1, WorldFrame DEF vars, world, IInv
<1>2. ASSUME NEW r \in Request, Done(r) PROVE IInv'
  <2>1. /\ UNCHANGED world /\ UNCHANGED <<creds, loads, tokens, exchanges>>
        /\ req' = [req EXCEPT ![r] = Idle]
    BY <1>2 DEF Done, loader, provider
  <2>2. req'[r] = Idle /\ \A q \in Request : q # r => req'[q] = req[q]
    BY <1>0, <2>1 DEF TypeOK
  <2>3. RequestInv(r)'
    BY <2>2, Unremarkable DEF Idle
  <2> QED
    BY <1>0, <2>1, <2>2, <2>3, WorldFrame DEF IInv
<1> QED
  BY <1>0, <1>1, <1>2, TimeIInv, SetCredentialsIInv, DeleteKeyIInv, LoadCredentialsIInv,
     GetAccessTokenIInv, LoadIInv, ExchangeIInv DEF Next

LEMMA AlwaysIInv == Spec => []IInv
BY InitIInv, NextIInv, PTL DEF Spec

-----------------------------------------------------------------------------
(* oauth.ts: every token put on the wire is still good at Google, for any    *)
(* lifetime and any latency within the refresh margin.                       *)
THEOREM TokenStillGood == Spec => []TokenAliveWhenSent
<1>1. IInv => TokenAliveWhenSent
  BY DEF IInv, RequestInv, TokenAliveWhenSent
<1> QED
  BY <1>1, AlwaysIInv, PTL

(* The rotation of maintenance.md: after the loader's TTL, a query and an     *)
(* exchange, deleting the replaced key refuses no request.                   *)
THEOREM PatientRotationIsSafe == Spec => []RotationIsSeamless
<1>1. IInv => RotationIsSeamless
  <2> SUFFICES ASSUME IInv, NEW r \in Request
               PROVE  /\ req[r].pc = "refused" => deleted[req[r].key] = "hasty"
                      /\ (req[r].pc = "missing" /\ stored # NoRow) =>
                           clock < replacedAt[NoRow] + Ttl + MaxLatency
    BY DEF RotationIsSeamless
  <2>1. RequestInv(r) /\ clock \in Nat /\ replacedAt[NoRow] \in Int
    BY DEF IInv, TypeOK, Never
  <2> QED
    BY <2>1, Constants DEF RequestInv, Recent
<1> QED
  BY <1>1, AlwaysIInv, PTL

(* oauth.ts: a token of a replaced key is not sent for ever, whoever shared   *)
(* the exchange that fetched it.                                             *)
THEOREM ReplacedKeyRetires == Spec => []OldKeyRetires
<1>1. IInv => OldKeyRetires
  <2> SUFFICES ASSUME IInv, NEW r \in Request, req[r].pc = "sent", req[r].token.key # stored
               PROVE  clock < replacedAt[req[r].token.key] + Wait
                              + IF Longest > Skew THEN Longest - Skew ELSE 0
    BY DEF OldKeyRetires
  <2> DEFINE k == req[r].token.key
  <2>1. k \in Key /\ clock \in Nat /\ Recent(k, Wait + Slack)
    BY RequestTyped DEF IInv, TypeOK, RequestInv, Token
  <2>2. replacedAt[k] \in Int
    BY <2>1 DEF IInv, TypeOK, Never
  <2>3. clock < replacedAt[k] + (Wait + Slack)
    BY <2>1 DEF Recent
  <2> HIDE DEF k
  <2>4. clock < replacedAt[k] + Wait + Slack
    BY <2>1, <2>2, <2>3, Constants
  <2> QED
    BY <2>4 DEF Slack, k
<1> QED
  BY <1>1, AlwaysIInv, PTL

=============================================================================
