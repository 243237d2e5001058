------------------------------- MODULE TtlCache -------------------------------
(***************************************************************************)
(* lib/ttl-cache.ts: one key of a cache made by createTtlCache, as pure      *)
(* operators on a record [entry, inflight].  An entry is a record with its   *)
(* value in fields of its own and expiresAt; inflight is the id of the       *)
(* loader call whose promise is shared, or NoLoad.                           *)
(***************************************************************************)
EXTENDS Integers

NoLoad == 0
NoEntry == [expiresAt |-> 0]
EmptyCache == [entry |-> NoEntry, inflight |-> NoLoad]

LiveForever(c, now) == c.entry # NoEntry

(* get returns a value: an entry is there and `expiresAt <= now' is false.   *)
Live(c, now) == c.entry.expiresAt > now

(* get deletes an entry it finds expired.                                    *)
Looked(c, now) == IF Live(c, now) THEN c ELSE [c EXCEPT !.entry = NoEntry]

(* set: the entry lives ttl from now, the time the loader resolved.          *)
Stored(c, e, now, ttl) ==
  [c EXCEPT !.entry = [f \in DOMAIN e \cup {"expiresAt"} |->
                         IF f = "expiresAt" THEN now + ttl ELSE e[f]]]

EvictedWithLoad(c) == EmptyCache

(* delete: the entry only; a load under way stays shared.                    *)
Evicted(c) == [c EXCEPT !.entry = NoEntry]

(* inflight.set and inflight.delete of loadOrFetch.                          *)
Loading(c, l) == [c EXCEPT !.inflight = l]

SettledByValueOnly(c) == c

Settled(c) == [c EXCEPT !.inflight = NoLoad]
=============================================================================
