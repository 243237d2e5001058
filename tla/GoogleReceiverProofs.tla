------------------------- MODULE GoogleReceiverProofs -------------------------
(***************************************************************************)
(* Theorems about the two parts google-receiver.ts rests on.  GoogleChain:   *)
(* no walk leaves the lineage of the token it started from, and one whose    *)
(* lineage is on file ends at its root, for any finite set of tokens, any    *)
(* links Google may report (cycles included), any number of concurrent       *)
(* handlers and any depth cap.  OidcVerifier: key rotation under shared      *)
(* fetches, for any keys, requests, TTL and latency.                         *)
(***************************************************************************)
EXTENDS GoogleChain, OidcVerifier, FiniteSetTheorems, TLAPS

-----------------------------------------------------------------------------
(* The purchase chain.                                                       *)

(* google_purchase_chains holds nothing but what Google reported.           *)
ChainIsTrue == \A t \in Token : chain[t] # None => chain[t] = linked[t]

(* Every closed set that holds a call's token holds its cursor.             *)
CursorInLineage ==
  \A h \in Handler : Busy(h) =>
    \A C \in SUBSET Token : (work[h].token \in C /\ Closed(C)) => work[h].cursor \in C

KeyInLineage ==
  \A h \in Handler : work[h].pc = "done" =>
    \A C \in SUBSET Token : (work[h].token \in C /\ Closed(C)) => work[h].key \in C

IInv == TypeOK /\ ChainIsTrue /\ CursorInLineage /\ KeyInLineage

-----------------------------------------------------------------------------
(* The initial states satisfy the invariant.                                *)
LEMMA InitIInv == Init => IInv
<1> SUFFICES ASSUME Init PROVE IInv
  OBVIOUS
<1>1. TypeOK
  BY GoogleChainAssumption DEF Init, TypeOK
<1>2. ChainIsTrue /\ CursorInLineage /\ KeyInLineage
  BY DEF Init, ChainIsTrue, CursorInLineage, KeyInLineage, Busy, Idle
<1> QED BY <1>1, <1>2 DEF IInv

(* A handler that stops with a key of every closed set its token is in, and *)
(* touches nothing else, keeps the invariant.                               *)
LEMMA ReturnIInv ==
  ASSUME IInv, NEW h \in Handler, Busy(h), NEW key \in Token, NEW full \in BOOLEAN,
         \A C \in SUBSET Token : (work[h].token \in C /\ Closed(C)) => key \in C,
         Return(h, key, full)
  PROVE  IInv'
<1>1. work[h] \in Call
  BY DEF IInv, TypeOK, Busy, Call, Result, Idle
<1>2. TypeOK'
  BY <1>1 DEF IInv, TypeOK, Return, Call, Result
<1>3. ChainIsTrue'
  BY DEF IInv, ChainIsTrue, Return
<1>4. CursorInLineage'
  BY <1>1 DEF IInv, TypeOK, CursorInLineage, Return, Busy, Closed
<1>5. KeyInLineage'
  BY <1>1 DEF IInv, TypeOK, KeyInLineage, Return, Busy, Closed
<1> QED BY <1>2, <1>3, <1>4, <1>5 DEF IInv

(* Every step preserves the invariant.                                      *)
LEMMA NextIInv == IInv /\ [Next]_vars => IInv'
<1> SUFFICES ASSUME IInv, [Next]_vars PROVE IInv'
  OBVIOUS
<1> USE DEF IInv
<1>a. ASSUME NEW h \in Handler, Busy(h) PROVE work[h] \in Call
  BY <1>a DEF TypeOK, Busy, Call, Result, Idle
<1>1. ASSUME NEW h \in Handler, NEW t \in Token, Receive(h, t) PROVE IInv'
  <2>1. TypeOK'
    BY <1>1, GoogleChainAssumption DEF Receive, TypeOK, Call
  <2>2. ChainIsTrue'
    BY <1>1 DEF Receive, ChainIsTrue
  <2>3. CursorInLineage'
    BY <1>1 DEF Receive, TypeOK, CursorInLineage, Busy, Closed
  <2>4. KeyInLineage'
    BY <1>1 DEF Receive, TypeOK, KeyInLineage, Busy, Closed
  <2> QED BY <2>1, <2>2, <2>3, <2>4
<1>2. ASSUME NEW h \in Handler, Fallback(h) PROVE IInv'
  <2>1. Busy(h) /\ work[h] \in Call
    BY <1>2, <1>a DEF Fallback
  <2>2. work[h].token \in Token
    BY <2>1 DEF Call
  <2> QED BY <1>2, <2>1, <2>2, ReturnIInv DEF Fallback
(* a handler that keeps its token and its cursor and goes on *)
<1>3. ASSUME NEW h \in Handler, NEW pc \in {"record", "walk"}, NEW full \in BOOLEAN, Busy(h),
             chain' \in [Token -> Token \cup {None}], ChainIsTrue', linked' = linked,
             work' = [work EXCEPT ![h].pc = pc, ![h].full = full]
      PROVE  IInv'
  <2>1. work[h] \in Call
    BY <1>3, <1>a
  <2>2. TypeOK'
    BY <1>3, <2>1 DEF TypeOK, Call
  <2>3. CursorInLineage'
    BY <1>3, <2>1 DEF TypeOK, CursorInLineage, Busy, Closed, Call
  <2>4. KeyInLineage'
    BY <1>3, <2>1 DEF TypeOK, KeyInLineage, Busy, Closed, Call
  <2> QED BY <1>3, <2>2, <2>3, <2>4
<1>b. ASSUME NEW h \in Handler, NEW file PROVE OnFile(work[h].token, file) \in BOOLEAN
  BY DEF OnFile
<1>4. ASSUME NEW h \in Handler, Fetch(h) PROVE IInv'
  <2>1. Busy(h) /\ work[h] \in Call
    BY <1>4, <1>a DEF Fetch, Busy
  <2>2. chain' \in [Token -> Token \cup {None}] /\ ChainIsTrue' /\ linked' = linked
    BY <1>4 DEF Fetch, TypeOK, ChainIsTrue
  <2>3. CASE NeedsRecord(work[h].token)
    <3>1. work' = [work EXCEPT ![h].pc = "record", ![h].full = work[h].full]
      BY <1>4, <2>1, <2>3 DEF Fetch, TypeOK, Call
    <3>2. work[h].full \in BOOLEAN
      BY <2>1 DEF Call
    <3> QED BY <1>3, <2>1, <2>2, <3>1, <3>2
  <2>4. CASE ~NeedsRecord(work[h].token)
    BY <1>3, <1>4, <1>b, <2>1, <2>2, <2>4 DEF Fetch, BeginWalk
  <2> QED BY <2>3, <2>4
<1>5. ASSUME NEW h \in Handler, RecordChainLink(h) PROVE IInv'
  <2>1. Busy(h) /\ work[h] \in Call
    BY <1>5, <1>a DEF RecordChainLink, Busy
  <2>2. work[h].token \in Token
    BY <2>1 DEF Call
  <2>3. chain' \in [Token -> Token \cup {None}] /\ linked' = linked
    BY <1>5, <2>2 DEF RecordChainLink, TypeOK
  <2>4. ChainIsTrue'
    BY <1>5, <2>2 DEF RecordChainLink, TypeOK, ChainIsTrue
  <2> QED BY <1>3, <1>5, <1>b, <2>1, <2>3, <2>4 DEF RecordChainLink, BeginWalk
<1>6. ASSUME NEW h \in Handler, Hop(h) PROVE IInv'
  <2> DEFINE c == work[h]
             prev == chain[c.cursor]
  <2>1. Busy(h) /\ c \in Call
    BY <1>6, <1>a DEF Hop, Busy
  <2>2. c.cursor \in Token /\ c.full \in BOOLEAN /\ prev \in Token \cup {None}
    BY <2>1 DEF Call, TypeOK
  <2>3. \A C \in SUBSET Token : (c.token \in C /\ Closed(C)) => c.cursor \in C
    BY <2>1 DEF CursorInLineage
  <2>4. ASSUME prev # None PROVE prev \in Token /\ prev = linked[c.cursor]
    BY <2>2, <2>4 DEF ChainIsTrue
  <2>5. ASSUME prev # None, NEW C \in SUBSET Token, c.token \in C, Closed(C) PROVE prev \in C
    BY <2>3, <2>4, <2>5 DEF Closed
  <2>6. CASE prev = None \/ prev \in c.seen
    BY <1>6, <2>1, <2>2, <2>3, <2>6, ReturnIInv DEF Hop
  <2>7. CASE prev # None /\ prev \notin c.seen /\ c.depth + 1 = MaxChainDepth
    <3>1. Return(h, prev, c.full)
      BY <1>6, <2>7 DEF Hop
    <3> QED BY <2>1, <2>2, <2>4, <2>5, <2>7, <3>1, ReturnIInv
  <2>8. CASE prev # None /\ prev \notin c.seen /\ c.depth + 1 # MaxChainDepth
    <3>1. /\ work' = [work EXCEPT ![h].cursor = prev, ![h].seen = @ \cup {prev},
                                  ![h].depth = @ + 1]
          /\ linked' = linked /\ chain' = chain
      BY <1>6, <2>8 DEF Hop
    <3>2. c.pc = "walk"
      BY <1>6 DEF Hop
    <3>3. c.depth + 1 \in 0..(MaxChainDepth - 1)
      <4>1. c.depth \in 0..(MaxChainDepth - 1)
        BY <2>1 DEF Call
      <4> QED BY <2>8, <4>1, GoogleChainAssumption
    <3>4. TypeOK'
      BY <2>1, <2>4, <2>8, <3>1, <3>2, <3>3 DEF TypeOK, Call
    <3>5. ChainIsTrue'
      BY <3>1 DEF ChainIsTrue
    <3>6. CursorInLineage'
      BY <2>1, <2>5, <2>8, <3>1 DEF TypeOK, CursorInLineage, Busy, Closed, Call
    <3>7. KeyInLineage'
      BY <2>1, <3>1, <3>2 DEF TypeOK, KeyInLineage, Closed, Call
    <3> QED BY <3>4, <3>5, <3>6, <3>7
  <2> QED BY <2>6, <2>7, <2>8
<1>7. ASSUME NEW t \in Token, PurgeLink(t) PROVE IInv'
  <2> DEFINE w(g) == IF Busy(g) THEN [work[g] EXCEPT !.full = FALSE] ELSE work[g]
  <2>0. /\ work' = [g \in Handler |-> w(g)] /\ linked' = linked
        /\ chain' = [chain EXCEPT ![t] = None]
    BY <1>7 DEF PurgeLink
  <2>1. TypeOK'
    <3>1. \A g \in Handler : Busy(g) => work[g] \in Call /\ w(g) \in Call
      BY <1>a DEF Busy, Call
    <3>2. \A g \in Handler : ~Busy(g) => w(g) = work[g]
      OBVIOUS
    <3> HIDE DEF w
    <3> QED BY <2>0, <3>1, <3>2 DEF TypeOK
  <2>2. ChainIsTrue'
    BY <1>7 DEF PurgeLink, TypeOK, ChainIsTrue
  <2>3. CursorInLineage'
    BY <1>7, <1>a DEF PurgeLink, TypeOK, CursorInLineage, Busy, Closed, Call
  <2>4. KeyInLineage'
    BY <1>7, <1>a DEF PurgeLink, TypeOK, KeyInLineage, Busy, Closed, Call
  <2> QED BY <2>1, <2>2, <2>3, <2>4
<1>8. CASE UNCHANGED vars
  BY <1>8 DEF vars, TypeOK, ChainIsTrue, CursorInLineage, KeyInLineage, Busy, Closed
<1> QED BY <1>1, <1>2, <1>4, <1>5, <1>6, <1>7, <1>8 DEF Next, Step

(* google-chain.ts resolveToRoot: subject.key is always a purchase the      *)
(* notified token continues, whatever is recorded, purged or failing while  *)
(* the walk runs.                                                           *)
THEOREM KeyStaysInLineage == Spec => []SameLineage
<1>1. IInv => SameLineage
  BY DEF IInv, SameLineage, resolved, KeyInLineage
<1> QED BY <1>1, InitIInv, NextIInv, PTL DEF Spec

-----------------------------------------------------------------------------
(* A walk's tokens so far: a path of the lineage from the token to the      *)
(* cursor, one longer than the loop has turned.  While full holds, every    *)
(* link of the lineage is still on file.                                    *)
Path(c, file) ==
  /\ IsFiniteSet(c.seen) /\ Cardinality(c.seen) = c.depth + 1
  /\ c.token \in c.seen /\ c.cursor \in c.seen
  /\ c.seen \subseteq Lineage(c.token)
  /\ \A x \in c.seen : x # c.cursor => linked[x] \in c.seen
  /\ c.full => OnFile(c.token, file)

WalkInv == \A h \in Handler : Busy(h) => Path(work[h], chain)

(* RootWhenOnFile, of one result.                                           *)
Rooted(e) ==
  (e.full /\ Acyclic(e.token) /\ Cardinality(Lineage(e.token)) <= MaxChainDepth + 1)
    => linked[e.key] = None

RootInv == \A h \in Handler : work[h].pc = "done" => Rooted(work[h])

LEMMA LineageFacts ==
  ASSUME TypeOK, NEW t \in Token
  PROVE  /\ t \in Lineage(t) /\ Lineage(t) \subseteq Token /\ IsFiniteSet(Lineage(t))
         /\ \A x \in Lineage(t) : linked[x] # None => linked[x] \in Lineage(t)
         /\ \A D \in SUBSET Token : t \in D /\ Closed(D) => Lineage(t) \subseteq D
<1>1. t \in Lineage(t) /\ Lineage(t) \subseteq Token
  BY DEF Lineage
<1>2. IsFiniteSet(Lineage(t))
  BY <1>1, GoogleChainAssumption, FS_Subset
<1>3. \A x \in Lineage(t) : linked[x] # None => linked[x] \in Lineage(t)
  BY DEF Lineage, Closed, TypeOK
<1>4. \A D \in SUBSET Token : t \in D /\ Closed(D) => Lineage(t) \subseteq D
  BY DEF Lineage
<1> QED BY <1>1, <1>2, <1>3, <1>4

(* A path closed in itself has no root, so a lineage with a root leaves it. *)
LEMMA NoRootInACycle ==
  ASSUME IInv, NEW c \in Call, Path(c, chain), Acyclic(c.token), linked[c.cursor] \in c.seen
  PROVE  FALSE
<1>1. TypeOK /\ c.token \in Token /\ c.seen \subseteq Token
  BY DEF IInv, Call
<1>2. \A x \in c.seen : linked[x] \in c.seen
  BY DEF Path
<1>3. Closed(c.seen)
  BY <1>2 DEF Closed
<1>4. Lineage(c.token) \subseteq c.seen
  BY <1>1, <1>3, LineageFacts DEF Path
<1>5. PICK r \in Lineage(c.token) : linked[r] = None
  BY DEF Acyclic
<1> QED BY <1>1, <1>2, <1>4, <1>5, GoogleChainAssumption

(* What Hop returns at a root, at a token seen before and at the depth cap. *)
LEMMA WalkEndsAtRoot ==
  ASSUME IInv, NEW c \in Call, Path(c, chain), c.full, Acyclic(c.token),
         Cardinality(Lineage(c.token)) <= MaxChainDepth + 1
  PROVE  LET prev == chain[c.cursor]
         IN  /\ prev = None \/ prev \in c.seen => linked[c.cursor] = None
             /\ prev # None /\ prev \notin c.seen /\ c.depth + 1 = MaxChainDepth =>
                  linked[prev] = None
<1> DEFINE prev == chain[c.cursor]
           L == Lineage(c.token)
<1>1. /\ TypeOK /\ c.token \in Token /\ c.cursor \in Token /\ c.seen \subseteq Token
      /\ c.depth \in Nat /\ MaxChainDepth \in Nat
  BY GoogleChainAssumption DEF IInv, Call
<1>2. /\ L \subseteq Token /\ IsFiniteSet(L)
      /\ \A x \in L : linked[x] # None => linked[x] \in L
  BY <1>1, LineageFacts
<1>3. c.cursor \in c.seen /\ c.cursor \in L
  BY DEF Path
<1>4. c.cursor = linked[c.cursor] \/ prev = linked[c.cursor]
  BY <1>3 DEF Path, OnFile
<1>5. linked[c.cursor] \notin c.seen
  BY NoRootInACycle
<1>6. prev = linked[c.cursor]
  BY <1>3, <1>4, <1>5
<1>7. ASSUME prev # None, prev \notin c.seen, c.depth + 1 = MaxChainDepth
      PROVE  linked[prev] = None
  <2> DEFINE S == c.seen \cup {prev}
  <2>1. prev \in L
    BY <1>2, <1>3, <1>6, <1>7
  <2>2. S \subseteq L
    BY <2>1 DEF Path
  <2>3. IsFiniteSet(S) /\ Cardinality(S) = MaxChainDepth + 1
    <3>1. IsFiniteSet(c.seen) /\ Cardinality(c.seen) = MaxChainDepth
      BY <1>7 DEF Path
    <3> QED BY <1>7, <3>1, FS_AddElement
  <2>4. Cardinality(L) \in Nat /\ Cardinality(S) <= Cardinality(L)
    BY <1>2, <2>2, FS_Subset, FS_CardinalityType
  <2>5. S = L
    <3>1. Cardinality(S) = Cardinality(L)
      BY <1>1, <2>3, <2>4
    <3> QED BY <1>2, <2>2, <3>1, FS_Subset
  <2>6. PICK r \in L : linked[r] = None
    BY DEF Acyclic
  <2>7. ASSUME r \in c.seen PROVE FALSE
    <3>1. r # c.cursor
      BY <1>6, <1>7, <2>6
    <3>2. linked[r] \in Token
      BY <1>1, <2>7, <3>1 DEF Path
    <3> QED BY <2>6, <3>2, GoogleChainAssumption
  <2> QED BY <2>5, <2>6, <2>7
<1> QED BY <1>5, <1>6, <1>7

-----------------------------------------------------------------------------
(* The path and the results survive every step.                             *)

LEMMA InitWalk == Init => WalkInv /\ RootInv
BY DEF Init, WalkInv, RootInv, Busy, Idle

(* linked never changes, so lineages and what was said of them stay.        *)
LEMMA WalkNext ==
  ASSUME linked' = linked,
         \A h \in Handler : Busy(h)' => Path(work'[h], chain'),
         \A h \in Handler : work'[h].pc = "done" => Rooted(work'[h])
  PROVE  WalkInv' /\ RootInv'
<1>1. ASSUME NEW h \in Handler, Path(work'[h], chain') PROVE Path(work[h], chain)'
  BY <1>1 DEF Path, OnFile, Lineage, Closed
<1>2. ASSUME NEW h \in Handler, Rooted(work'[h]) PROVE Rooted(work[h])'
  BY <1>2 DEF Rooted, Acyclic, Lineage, Closed
<1> QED BY <1>1, <1>2 DEF WalkInv, RootInv

(* Links on file stay on file unless the sweep takes one.                   *)
LEMMA PathKept ==
  ASSUME NEW c, NEW file, Path(c, chain),
         c.full => (OnFile(c.token, chain) => OnFile(c.token, file))
  PROVE  Path(c, file)
BY DEF Path

(* One handler moves, or returns, and links are only added.                 *)
LEMMA HandlerWalk ==
  ASSUME TypeOK, WalkInv, RootInv, linked' = linked, NEW h \in Handler, NEW c,
         work' = [work EXCEPT ![h] = c],
         \A t \in Token : OnFile(t, chain) => OnFile(t, chain'),
         c.pc \in {"fetch", "record", "walk"} => Path(c, chain'),
         c.pc = "done" => Rooted(c)
  PROVE  WalkInv' /\ RootInv'
<1>1. work'[h] = c /\ \A g \in Handler : g # h => work'[g] = work[g]
  BY DEF TypeOK
<1>2. ASSUME NEW g \in Handler, Busy(g)' PROVE Path(work'[g], chain')
  <2>1. CASE g = h
    BY <1>1, <1>2, <2>1 DEF Busy
  <2>2. CASE g # h
    <3>1. Busy(g) /\ work'[g] = work[g]
      BY <1>1, <1>2, <2>2 DEF Busy
    <3>2. Path(work[g], chain) /\ work[g].token \in Token
      BY <3>1 DEF WalkInv, TypeOK, Busy, Call, Result, Idle
    <3> QED BY <3>1, <3>2, PathKept
  <2> QED BY <2>1, <2>2
<1>3. ASSUME NEW g \in Handler, work'[g].pc = "done" PROVE Rooted(work'[g])
  BY <1>1, <1>3 DEF RootInv
<1> QED BY <1>2, <1>3, WalkNext

LEMMA NextWalk == IInv /\ WalkInv /\ RootInv /\ [Next]_vars => WalkInv' /\ RootInv'
<1> SUFFICES ASSUME IInv, WalkInv, RootInv, [Next]_vars PROVE WalkInv' /\ RootInv'
  OBVIOUS
<1>0. TypeOK /\ ChainIsTrue
  BY DEF IInv
<1>a. ASSUME NEW h \in Handler, Busy(h) PROVE work[h] \in Call /\ Path(work[h], chain)
  BY <1>0, <1>a DEF TypeOK, Busy, Call, Result, Idle, WalkInv
<1>1. ASSUME NEW h \in Handler, NEW t \in Token, Receive(h, t) PROVE WalkInv' /\ RootInv'
  <2> DEFINE c == [pc |-> "fetch", token |-> t, cursor |-> t, seen |-> {t}, depth |-> 0,
                   full |-> FALSE]
  <2>1. Path(c, chain)
    <3>1. IsFiniteSet({t}) /\ Cardinality({t}) = 1 /\ t \in Lineage(t)
      BY <1>0, FS_Singleton, LineageFacts
    <3>2. /\ c.token = t /\ c.cursor = t /\ c.seen = {t} /\ c.depth = 0 /\ ~c.full
      OBVIOUS
    <3> HIDE DEF c
    <3> QED BY <3>1, <3>2 DEF Path
  <2> QED
    BY <1>0, <1>1, <2>1, HandlerWalk DEF Receive
(* a handler that returns *)
<1>2. ASSUME NEW h \in Handler, NEW key, NEW full, Return(h, key, full),
             Rooted([pc |-> "done", token |-> work[h].token, key |-> key, full |-> full])
      PROVE  WalkInv' /\ RootInv'
  BY <1>0, <1>2, HandlerWalk DEF Return
<1>3. ASSUME NEW h \in Handler, Fallback(h) PROVE WalkInv' /\ RootInv'
  BY <1>2, <1>3 DEF Fallback, Rooted
(* a handler that begins its walk, or goes to record its link *)
<1>4. ASSUME NEW h \in Handler, Busy(h), linked' = linked,
             NEW pc \in {"record", "walk"}, NEW full \in BOOLEAN,
             \A t \in Token : OnFile(t, chain) => OnFile(t, chain'),
             full => OnFile(work[h].token, chain'),
             work' = [work EXCEPT ![h].pc = pc, ![h].full = full]
      PROVE  WalkInv' /\ RootInv'
  <2> DEFINE c == [work[h] EXCEPT !.pc = pc, !.full = full]
  <2>1. work[h] \in Call /\ Path(work[h], chain)
    BY <1>4, <1>a
  <2>2. /\ c.pc = pc /\ c.full = full /\ c.token = work[h].token /\ c.cursor = work[h].cursor
        /\ c.seen = work[h].seen /\ c.depth = work[h].depth
    BY <2>1 DEF Call
  <2>3. work' = [work EXCEPT ![h] = c]
    BY <1>0, <1>4 DEF TypeOK
  <2> HIDE DEF c
  <2>4. Path(c, chain')
    BY <1>4, <2>1, <2>2 DEF Path
  <2> QED
    BY <1>0, <1>4, <2>2, <2>3, <2>4, HandlerWalk
<1>5. ASSUME NEW h \in Handler, Fetch(h) PROVE WalkInv' /\ RootInv'
  <2>1. Busy(h) /\ work[h] \in Call /\ Path(work[h], chain) /\ chain' = chain /\ linked' = linked
    BY <1>5, <1>a DEF Fetch, Busy
  <2>2. CASE NeedsRecord(work[h].token)
    <3>1. work' = [work EXCEPT ![h].pc = "record", ![h].full = work[h].full]
      BY <1>0, <1>5, <2>1, <2>2 DEF Fetch, TypeOK, Call
    <3>2. work[h].full \in BOOLEAN /\ (work[h].full => OnFile(work[h].token, chain))
      BY <2>1 DEF Call, Path
    <3> QED BY <1>4, <2>1, <3>1, <3>2
  <2>3. CASE ~NeedsRecord(work[h].token)
    <3>1. OnFile(work[h].token, chain) \in BOOLEAN
      BY DEF OnFile
    <3> QED BY <1>4, <1>5, <2>1, <2>3, <3>1 DEF Fetch, BeginWalk
  <2> QED BY <2>2, <2>3
<1>6. ASSUME NEW h \in Handler, RecordChainLink(h) PROVE WalkInv' /\ RootInv'
  <2>1. Busy(h) /\ work[h] \in Call /\ linked' = linked
    BY <1>6, <1>a DEF RecordChainLink, Busy
  <2>2. work[h].token \in Token
    BY <2>1 DEF Call
  <2>3. \A t \in Token : OnFile(t, chain) => OnFile(t, chain')
    <3> SUFFICES ASSUME NEW x \in Token, chain[x] = linked[x] PROVE chain'[x] = linked[x]
      BY DEF OnFile, Lineage
    <3> QED BY <1>0, <1>6, <2>2 DEF RecordChainLink, TypeOK
  <2>4. /\ work' = [work EXCEPT ![h].pc = "walk", ![h].full = OnFile(work[h].token, chain')]
        /\ OnFile(work[h].token, chain') \in BOOLEAN
    BY <1>6 DEF RecordChainLink, BeginWalk, OnFile
  <2> QED BY <1>4, <2>1, <2>3, <2>4
<1>7. ASSUME NEW h \in Handler, Hop(h) PROVE WalkInv' /\ RootInv'
  <2> DEFINE c == work[h]
             prev == chain[c.cursor]
  <2>1. Busy(h) /\ c \in Call /\ Path(c, chain) /\ c.pc = "walk"
    BY <1>7, <1>a DEF Hop, Busy
  <2>2. /\ c.cursor \in Token /\ c.token \in Token /\ c.depth \in Nat
        /\ c.cursor \in c.seen /\ c.cursor \in Lineage(c.token)
    BY <2>1, GoogleChainAssumption DEF Call, Path
  <2>3. CASE prev = None \/ prev \in c.seen
    <3>1. Return(h, c.cursor, c.full)
      BY <1>7, <2>3 DEF Hop
    <3>2. Rooted([pc |-> "done", token |-> c.token, key |-> c.cursor, full |-> c.full])
      BY <2>1, <2>3, WalkEndsAtRoot DEF Rooted
    <3> QED BY <1>2, <3>1, <3>2
  <2>4. CASE prev # None /\ prev \notin c.seen /\ c.depth + 1 = MaxChainDepth
    <3>1. Return(h, prev, c.full)
      BY <1>7, <2>4 DEF Hop
    <3>2. Rooted([pc |-> "done", token |-> c.token, key |-> prev, full |-> c.full])
      BY <2>1, <2>4, WalkEndsAtRoot DEF Rooted
    <3> QED BY <1>2, <3>1, <3>2
  <2>5. CASE prev # None /\ prev \notin c.seen /\ c.depth + 1 # MaxChainDepth
    <3> DEFINE seen == c.seen \cup {prev}
               depth == c.depth + 1
               c2 == [c EXCEPT !.cursor = prev, !.seen = seen, !.depth = depth]
    <3>1. /\ work' = [work EXCEPT ![h] = c2] /\ linked' = linked /\ chain' = chain
      BY <1>0, <1>7, <2>5 DEF Hop, TypeOK
    <3>2. /\ c2.cursor = prev /\ c2.seen = seen /\ c2.depth = depth
          /\ c2.token = c.token /\ c2.full = c.full /\ c2.pc = "walk"
      BY <2>1 DEF Call
    <3>3. prev = linked[c.cursor] /\ prev \in Lineage(c.token)
      BY <1>0, <2>2, <2>5, LineageFacts DEF ChainIsTrue
    <3>4. IsFiniteSet(seen) /\ Cardinality(seen) = depth + 1
      <4>1. IsFiniteSet(c.seen) /\ Cardinality(c.seen) = c.depth + 1
        BY <2>1 DEF Path
      <4>2. IsFiniteSet(seen) /\ Cardinality(seen) = Cardinality(c.seen) + 1
        BY <2>5, <4>1, FS_AddElement
      <4> QED BY <4>1, <4>2
    <3>5. \A x \in seen : x # prev => linked[x] \in seen
      BY <2>1, <3>3 DEF Path
    <3> HIDE DEF c2
    <3>6. Path(c2, chain)
      BY <2>1, <3>2, <3>3, <3>4, <3>5 DEF Path
    <3> QED
      BY <1>0, <3>1, <3>2, <3>6, HandlerWalk
  <2> QED BY <2>3, <2>4, <2>5
<1>8. ASSUME NEW t \in Token, PurgeLink(t) PROVE WalkInv' /\ RootInv'
  <2>1. /\ linked' = linked
        /\ work' = [h \in Handler |-> IF Busy(h) THEN [work[h] EXCEPT !.full = FALSE] ELSE work[h]]
    BY <1>8 DEF PurgeLink
  <2>2. ASSUME NEW h \in Handler, Busy(h)' PROVE Path(work'[h], chain')
    <3>1. Busy(h)
      BY <2>1, <2>2 DEF Busy
    <3>2. work[h] \in Call /\ Path(work[h], chain) /\ work'[h] = [work[h] EXCEPT !.full = FALSE]
      BY <1>a, <2>1, <3>1
    <3>3. /\ ~work'[h].full /\ work'[h].token = work[h].token /\ work'[h].cursor = work[h].cursor
          /\ work'[h].seen = work[h].seen /\ work'[h].depth = work[h].depth
      BY <3>2 DEF Call
    <3> QED BY <3>2, <3>3 DEF Path
  <2>3. ASSUME NEW h \in Handler, work'[h].pc = "done" PROVE Rooted(work'[h])
    <3>1. ~Busy(h)
      <4>1. ASSUME Busy(h) PROVE work'[h].pc # "done"
        BY <1>a, <2>1, <4>1 DEF Busy, Call
      <4> QED BY <2>3, <4>1
    <3> QED BY <2>1, <2>3, <3>1 DEF RootInv
  <2> QED BY <2>1, <2>2, <2>3, WalkNext
<1>9. CASE UNCHANGED vars
  <2>1. linked' = linked /\ chain' = chain /\ work' = work
    BY <1>9 DEF vars
  <2>2. \A h \in Handler : Busy(h)' => Busy(h)
    BY <2>1 DEF Busy
  <2> QED BY <2>1, <2>2, WalkNext DEF WalkInv, RootInv
<1> QED BY <1>1, <1>3, <1>5, <1>6, <1>7, <1>8, <1>9 DEF Next, Step

(* google-chain.ts resolveToRoot: with the lineage on file and at most      *)
(* MAX_CHAIN_DEPTH links long the walk ends at the original purchase, so an *)
(* upgraded subscription keeps its key; the bound is inclusive.             *)
THEOREM FullLineageFindsRoot == Spec => []RootWhenOnFile
<1>1. IInv /\ WalkInv /\ RootInv => RootWhenOnFile
  BY DEF RootInv, Rooted, RootWhenOnFile, resolved
<1>2. Spec => [](IInv /\ WalkInv /\ RootInv)
  BY InitIInv, InitWalk, NextIInv, NextWalk, PTL DEF Spec
<1> QED BY <1>1, <1>2, PTL

-----------------------------------------------------------------------------
(* Steps a notification's resolution still has: the Play call, the record of *)
(* its link and MAX_CHAIN_DEPTH turns of the loop.                           *)
TurnsLeft(c) ==
  CASE c.pc = "fetch"  -> MaxChainDepth + 2
    [] c.pc = "record" -> MaxChainDepth + 1
    [] c.pc = "walk"   -> MaxChainDepth - c.depth
    [] OTHER           -> 0

(* Its own step takes one off, and nobody else's puts one on.                *)
WalkAdvances ==
  \A h \in Handler : /\ TurnsLeft(work[h]) \in 0..(MaxChainDepth + 2)
                     /\ Step(h) => TurnsLeft(work'[h]) < TurnsLeft(work[h])
                     /\ Busy(h) => TurnsLeft(work'[h]) <= TurnsLeft(work[h])

LEMMA TurnsBounded ==
  ASSUME TypeOK, NEW h \in Handler
  PROVE  /\ TurnsLeft(work[h]) \in 0..(MaxChainDepth + 2)
         /\ Busy(h) => TurnsLeft(work[h]) > 0
<1> USE GoogleChainAssumption
<1>1. CASE Busy(h)
  <2>1. work[h] \in Call
    BY <1>1 DEF TypeOK, Busy, Call, Result, Idle
  <2> QED BY <1>1, <2>1 DEF TurnsLeft, Busy, Call
<1>2. CASE ~Busy(h)
  BY <1>2 DEF TurnsLeft, Busy
<1> QED BY <1>1, <1>2

LEMMA StepAdvances ==
  ASSUME TypeOK, NEW h \in Handler, Step(h)
  PROVE  /\ TurnsLeft(work'[h]) < TurnsLeft(work[h]) /\ TurnsLeft(work'[h]) \in Int
         /\ \A g \in Handler : g # h => work'[g] = work[g]
<1> USE GoogleChainAssumption
<1> DEFINE c == work[h]
<1>1. Busy(h) /\ c \in Call
  BY DEF Step, Fetch, RecordChainLink, Hop, Busy, TypeOK, Call, Result, Idle
<1>2. c.depth \in 0..(MaxChainDepth - 1) /\ TurnsLeft(c) > 0
  BY <1>1, TurnsBounded DEF Call
<1>3. \A g \in Handler : g # h => work'[g] = work[g]
  BY DEF Step, Fetch, RecordChainLink, Hop, BeginWalk, Return, TypeOK
<1>4. \/ work'[h].pc = "done"
      \/ c.pc = "fetch" /\ work'[h].pc = "record"
      \/ c.pc \in {"fetch", "record"} /\ work'[h].pc = "walk" /\ work'[h].depth = c.depth
      \/ c.pc = "walk" /\ work'[h].pc = "walk" /\ work'[h].depth = c.depth + 1
  <2>1. CASE Fetch(h)
    BY <1>1, <2>1 DEF Fetch, BeginWalk, TypeOK, Call
  <2>2. CASE RecordChainLink(h)
    BY <1>1, <2>2 DEF RecordChainLink, BeginWalk, TypeOK, Call
  <2>3. CASE Hop(h)
    BY <1>1, <2>3 DEF Hop, Return, TypeOK, Call
  <2> QED BY <2>1, <2>2, <2>3 DEF Step
<1>5. TurnsLeft(work'[h]) < TurnsLeft(c) /\ TurnsLeft(work'[h]) \in Int
  BY <1>2, <1>4 DEF TurnsLeft
<1> QED BY <1>3, <1>5

(* google-chain.ts: however other handlers and the sweep change the links    *)
(* under a walk, cycles included, every turn brings it nearer its end, of    *)
(* which there are MAX_CHAIN_DEPTH; EveryWalkEnds adds that turns are taken. *)
THEOREM WalkIsBounded == Spec => [][WalkAdvances]_vars
<1>1. ASSUME TypeOK, Next PROVE WalkAdvances
  <2> SUFFICES ASSUME NEW h \in Handler
               PROVE  /\ Step(h) => TurnsLeft(work'[h]) < TurnsLeft(work[h])
                      /\ Busy(h) => TurnsLeft(work'[h]) <= TurnsLeft(work[h])
    BY <1>1, TurnsBounded DEF WalkAdvances
  <2>1. Step(h) => TurnsLeft(work'[h]) < TurnsLeft(work[h])
    BY <1>1, StepAdvances
  <2>2. ASSUME Busy(h) PROVE TurnsLeft(work'[h]) <= TurnsLeft(work[h])
    <3>1. work[h] \in Call /\ TurnsLeft(work[h]) \in Nat
      BY <1>1, <2>2, TurnsBounded DEF TypeOK, Busy, Call, Result, Idle
    <3>2. ASSUME NEW g \in Handler, Step(g) PROVE TurnsLeft(work'[h]) <= TurnsLeft(work[h])
      <4>1. CASE g = h
        <5>1. TurnsLeft(work'[h]) < TurnsLeft(work[h]) /\ TurnsLeft(work'[h]) \in Int
          BY <1>1, <3>2, <4>1, StepAdvances
        <5> QED BY <3>1, <5>1
      <4>2. CASE g # h
        BY <1>1, <3>1, <3>2, <4>2, StepAdvances
      <4> QED BY <4>1, <4>2
    <3>3. ASSUME NEW g \in Handler, NEW t \in Token, Receive(g, t)
          PROVE  TurnsLeft(work'[h]) <= TurnsLeft(work[h])
      BY <1>1, <2>2, <3>1, <3>3 DEF Receive, TypeOK
    <3>4. ASSUME NEW g \in Handler, Fallback(g)
          PROVE  TurnsLeft(work'[h]) <= TurnsLeft(work[h])
      <4>1. work'[h] = work[h] \/ work'[h].pc = "done"
        BY <1>1, <3>4 DEF Fallback, Return, TypeOK
      <4> QED BY <3>1, <4>1 DEF TurnsLeft
    <3>5. ASSUME NEW t \in Token, PurgeLink(t)
          PROVE  TurnsLeft(work'[h]) <= TurnsLeft(work[h])
      <4>1. work'[h].pc = work[h].pc /\ work'[h].depth = work[h].depth
        BY <2>2, <3>1, <3>5 DEF PurgeLink, Call
      <4> QED BY <3>1, <4>1 DEF TurnsLeft
    <3> QED BY <1>1, <3>2, <3>3, <3>4, <3>5 DEF Next
  <2> QED BY <2>1, <2>2
<1>2. IInv /\ [Next]_vars => [WalkAdvances]_vars
  BY <1>1 DEF IInv
<1> QED BY <1>2, InitIInv, NextIInv, PTL DEF Spec

-----------------------------------------------------------------------------
(* The OIDC verifier.                                                        *)

(* A load under way is the one inflight names, alone, and while there is one *)
(* there is no entry.                                                        *)
SingleLoad(c, ls) ==
  IF c.inflight = NoLoad THEN ls = {}
  ELSE c.entry = NoEntry /\ \E l \in ls : ls = {l} /\ l.id = c.inflight

(* A key that is no longer published was retired while the load was under    *)
(* way, or less than a latency and a TTL before its entry expires.           *)
LoadsInv(ls, pub, ret, now) ==
  \A l \in ls :
    /\ l.sent <= now /\ now <= l.sent + MaxLatency
    /\ \A k \in l.keys : k \in pub \/ l.sent <= ret[k]

EntryInv(e, pub, ret, now) ==
  e # NoEntry =>
    /\ e.expiresAt <= now + Ttl
    /\ \A k \in e.keys : k \in pub \/ e.expiresAt <= ret[k] + MaxLatency + Ttl

(* A key published since a check c began is among the keys of any load that  *)
(* began since, and c's second round looks at such a load.                   *)
Found(c, pub, ls) ==
  c # NoCheck =>
    /\ c.steady => c.token.kid \in pub
    /\ c.steady /\ ((c.pc = "select" /\ c.round = 1) \/ (c.pc = "await" /\ c.round = 2)) =>
         \A l \in ls : l.answered => c.token.kid \in l.keys
    /\ c.steady /\ c.pc = "select" /\ c.round = 2 => c.token.kid \in c.keys
    /\ c.pc = "refused" /\ c.reason = "unknown_kid" => ~c.steady

OidcIInv ==
  /\ OidcTypeOK
  /\ SingleLoad(cache, loads)
  /\ LoadsInv(loads, published, retiredAt, clock)
  /\ EntryInv(cache.entry, published, retiredAt, clock)
  /\ \A p \in Request : Found(check[p], published, loads)

LEMMA OidcConstants ==
  /\ NoLoad \notin LoadId /\ NoLoad \in Nat
  /\ Ttl \in Nat /\ MaxLatency \in Nat /\ TokenLife \in Nat
  /\ FirstKids \subseteq Kid /\ "unknown" \notin Kid
BY OidcAssumption DEF NoLoad

CacheState == [entry : Entry \cup {NoEntry}, inflight : LoadId \cup {NoLoad}]

(* What the operations of ttl-cache.ts do to a JWKS cache.                   *)
LEMMA CacheOps ==
  ASSUME NEW c \in CacheState, NEW now \in Nat
  PROVE  /\ Live(c, now) => c.entry \in Entry /\ c.entry # NoEntry /\ now < c.entry.expiresAt
         /\ ~Live(c, now) => Looked(c, now) = [entry |-> NoEntry, inflight |-> c.inflight]
         /\ Evicted(c) = [entry |-> NoEntry, inflight |-> c.inflight]
         /\ ~Live(Evicted(c), now)
         /\ Settled(c) = [entry |-> c.entry, inflight |-> NoLoad]
         /\ \A l \in LoadId : Loading(c, l) = [entry |-> c.entry, inflight |-> l]
<1>1. NoEntry.expiresAt = 0
  BY DEF NoEntry
<1>2. c.entry \in Entry \cup {NoEntry}
  BY DEF CacheState
<1> HIDE DEF NoEntry
<1>3. Live(c, now) => c.entry \in Entry /\ c.entry # NoEntry /\ now < c.entry.expiresAt
  <2>1. c.entry \in Entry => c.entry.expiresAt \in Nat
    BY DEF Entry
  <2> QED BY <1>1, <1>2, <2>1 DEF Live
<1>4. /\ ~Live(c, now) => Looked(c, now) = [entry |-> NoEntry, inflight |-> c.inflight]
      /\ Evicted(c) = [entry |-> NoEntry, inflight |-> c.inflight]
      /\ Settled(c) = [entry |-> c.entry, inflight |-> NoLoad]
      /\ \A l \in LoadId : Loading(c, l) = [entry |-> c.entry, inflight |-> l]
  BY DEF CacheState, Looked, Evicted, Settled, Loading
<1>5. ~Live(Evicted(c), now)
  BY <1>1, <1>4 DEF Live
<1> QED BY <1>3, <1>4, <1>5

(* set by the loader of fetchJwks.                                           *)
LEMMA StoredKeys ==
  ASSUME NEW c \in CacheState, NEW ks \in SUBSET Kid, NEW now \in Nat
  PROVE  /\ [keys |-> ks, expiresAt |-> now + Ttl] \in Entry
         /\ Settled(Stored(c, [keys |-> ks], now, Ttl))
              = [entry |-> [keys |-> ks, expiresAt |-> now + Ttl], inflight |-> NoLoad]
<1>1. DOMAIN [keys |-> ks] = {"keys"}
  OBVIOUS
<1>2. [f \in {"keys"} \cup {"expiresAt"} |-> IF f = "expiresAt" THEN now + Ttl ELSE [keys |-> ks][f]]
        = [keys |-> ks, expiresAt |-> now + Ttl]
  OBVIOUS
<1>3. Stored(c, [keys |-> ks], now, Ttl)
        = [entry |-> [keys |-> ks, expiresAt |-> now + Ttl], inflight |-> c.inflight]
  BY <1>1, <1>2 DEF Stored, CacheState
<1>4. [keys |-> ks, expiresAt |-> now + Ttl] \in Entry
  BY OidcConstants DEF Entry
<1> QED BY <1>3, <1>4 DEF Settled

(* What is known of a check stays so while its key stays published and every *)
(* load answered meanwhile has the keys of the moment.                       *)
LEMMA FoundKept ==
  ASSUME NEW c, NEW pub, NEW ls, Found(c, pub, ls), NEW pub2, NEW ls2,
         c # NoCheck /\ c.steady => c.token.kid \in pub2,
         \A l \in ls2 : l.answered => l \in ls \/ pub \subseteq l.keys
  PROVE  Found(c, pub2, ls2)
BY DEF Found

LEMMA OidcInitIInv == OidcInit => OidcIInv
<1> SUFFICES ASSUME OidcInit PROVE OidcIInv
  OBVIOUS
<1>1. cache.entry = NoEntry /\ cache.inflight = NoLoad /\ loads = {}
  BY DEF OidcInit, EmptyCache
<1>2. OidcTypeOK
  BY OidcConstants DEF OidcInit, OidcTypeOK, EmptyCache
<1>3. \A p \in Request : Found(check[p], published, loads)
  BY DEF OidcInit, Found
<1> QED
  BY <1>1, <1>2, <1>3 DEF OidcIInv, SingleLoad, LoadsInv, EntryInv

-----------------------------------------------------------------------------
(* fetchJwks, in the first round or the second.                              *)
LEMMA FetchJwksIInv ==
  ASSUME OidcIInv, NEW p \in Request, NEW chk \in Check, NEW c \in CacheState,
         c.inflight = cache.inflight, c.entry \in {cache.entry, NoEntry},
         chk.steady => chk.token.kid \in published,
         chk.round = 2 => /\ ~Live(c, clock)
                          /\ chk.steady => \A l \in loads : l.answered => chk.token.kid \in l.keys,
         FetchJwks(p, chk, c), UNCHANGED <<clock, googleVars, worldVars>>
  PROVE  OidcIInv'
<1>0. /\ OidcTypeOK /\ clock \in Nat /\ cache \in CacheState
      /\ UNCHANGED <<clock, published, retiredAt, rotations, audience, accepted, faults, admin>>
      /\ SingleLoad(cache, loads) /\ LoadsInv(loads, published, retiredAt, clock)
      /\ EntryInv(cache.entry, published, retiredAt, clock)
      /\ \A q \in Request : Found(check[q], published, loads)
  BY DEF OidcIInv, OidcTypeOK, CacheState, googleVars, worldVars
<1>1. SingleLoad(c, loads) /\ EntryInv(c.entry, published, retiredAt, clock)
  <2>1. SingleLoad(c, loads)
    BY <1>0 DEF SingleLoad
  <2>2. EntryInv(c.entry, published, retiredAt, clock)
    BY <1>0 DEF EntryInv
  <2> QED BY <2>1, <2>2
(* the check goes on as chk2, with the cache c2 and the loads ls2 *)
<1>2. ASSUME NEW chk2 \in Check, NEW c2 \in CacheState, NEW ls2 \in SUBSET Load,
             check' = [check EXCEPT ![p] = chk2], cache' = c2, loads' = ls2,
             SingleLoad(c2, ls2), LoadsInv(ls2, published, retiredAt, clock),
             EntryInv(c2.entry, published, retiredAt, clock),
             Found(chk2, published, ls2), \A l \in ls2 : l.answered => l \in loads
      PROVE  OidcIInv'
  <2>1. check'[p] = chk2 /\ \A q \in Request : q # p => check'[q] = check[q]
    BY <1>0, <1>2 DEF OidcTypeOK
  <2>2. ASSUME NEW q \in Request PROVE Found(check'[q], published', loads')
    <3>1. CASE q = p
      BY <1>0, <1>2, <2>1, <3>1
    <3>2. CASE q # p
      <4>1. Found(check[q], published, loads)
        BY <1>0
      <4>2. check[q] # NoCheck /\ check[q].steady => check[q].token.kid \in published
        BY <4>1 DEF Found
      <4>3. Found(check[q], published, ls2)
        BY <1>2, <4>1, <4>2, FoundKept
      <4> QED BY <1>0, <1>2, <2>1, <3>2, <4>3
    <3> QED BY <3>1, <3>2
  <2>3. OidcTypeOK'
    BY <1>0, <1>2 DEF OidcTypeOK, CacheState
  <2> QED BY <1>0, <1>2, <2>2, <2>3 DEF OidcIInv
<1>3. CASE Live(c, clock)
  <2> DEFINE chk2 == [chk EXCEPT !.pc = "select", !.keys = c.entry.keys]
  <2>1. c.entry \in Entry /\ c.entry # NoEntry
    BY <1>0, <1>3, CacheOps
  <2>2. loads = {}
    BY <1>1, <2>1 DEF SingleLoad
  <2>3. c.entry.keys \in SUBSET Kid
    BY <2>1 DEF Entry
  <2>4. /\ chk2 \in Check /\ chk2.pc = "select" /\ chk2.round = chk.round
        /\ chk2.steady = chk.steady /\ chk2.token = chk.token
    BY <2>3 DEF Check
  <2>5. chk.round # 2
    BY <1>3
  <2>6. check' = [check EXCEPT ![p] = chk2] /\ cache' = c /\ loads' = loads
    BY <1>3 DEF FetchJwks
  <2> HIDE DEF chk2
  <2>7. Found(chk2, published, loads)
    BY <2>2, <2>4, <2>5 DEF Found
  <2> QED BY <1>0, <1>1, <1>2, <2>2, <2>4, <2>6, <2>7 DEF OidcTypeOK
<1>4. CASE ~Live(c, clock) /\ c.inflight # NoLoad
  <2> DEFINE chk2 == [chk EXCEPT !.pc = "await", !.load = c.inflight]
             c2 == [entry |-> NoEntry, inflight |-> c.inflight]
  <2>1. /\ chk2 \in Check /\ chk2.pc = "await" /\ chk2.round = chk.round
        /\ chk2.steady = chk.steady /\ chk2.token = chk.token
    BY DEF Check, CacheState
  <2>2. c2 \in CacheState /\ c2.entry = NoEntry /\ c2.inflight = c.inflight
    BY DEF CacheState
  <2>3. check' = [check EXCEPT ![p] = chk2] /\ cache' = c2 /\ loads' = loads
    BY <1>0, <1>4, CacheOps DEF FetchJwks
  <2> HIDE DEF chk2, c2
  <2>4. SingleLoad(c2, loads) /\ EntryInv(c2.entry, published, retiredAt, clock)
    BY <1>1, <2>2 DEF SingleLoad, EntryInv
  <2>5. Found(chk2, published, loads)
    BY <2>1 DEF Found
  <2> QED BY <1>0, <1>2, <2>1, <2>2, <2>3, <2>4, <2>5 DEF OidcTypeOK
<1>5. CASE ~Live(c, clock) /\ c.inflight = NoLoad
  <2> DEFINE l == CHOOSE x \in FreshLoad : TRUE
             new == [id |-> l, sent |-> clock, keys |-> {}, answered |-> FALSE]
             chk2 == [chk EXCEPT !.pc = "await", !.load = l]
             c2 == [entry |-> NoEntry, inflight |-> l]
  <2>1. /\ FreshLoad # {} /\ check' = [check EXCEPT ![p] = chk2]
        /\ cache' = Loading(Looked(c, clock), l) /\ loads' = loads \cup {new}
    BY <1>5 DEF FetchJwks
  <2>2. l \in LoadId /\ l # NoLoad
    BY <2>1, OidcConstants DEF FreshLoad
  <2> HIDE DEF l
  <2>3. loads = {}
    BY <1>1, <1>5 DEF SingleLoad
  <2>4. new \in Load /\ new.id = l /\ new.sent = clock /\ new.keys = {} /\ ~new.answered
    BY <1>0, <2>2 DEF Load
  <2>5. /\ chk2 \in Check /\ chk2.pc = "await" /\ chk2.round = chk.round
        /\ chk2.steady = chk.steady /\ chk2.token = chk.token
    BY <2>2 DEF Check
  <2>6. c2 \in CacheState /\ c2.entry = NoEntry /\ c2.inflight = l
    BY <2>2 DEF CacheState
  <2>7. cache' = c2
    <3>1. Looked(c, clock) = [entry |-> NoEntry, inflight |-> c.inflight]
      BY <1>0, <1>5, CacheOps
    <3>2. [entry |-> NoEntry, inflight |-> c.inflight] \in CacheState
      BY DEF CacheState
    <3> QED BY <1>0, <2>1, <2>2, <3>1, <3>2, CacheOps
  <2> HIDE DEF new, chk2, c2
  <2>8. loads' = {new}
    BY <2>1, <2>3
  <2>9. SingleLoad(c2, {new}) /\ EntryInv(c2.entry, published, retiredAt, clock)
    BY <2>2, <2>4, <2>6 DEF SingleLoad, EntryInv
  <2>10. LoadsInv({new}, published, retiredAt, clock)
    BY <1>0, <2>4, OidcConstants DEF LoadsInv
  <2>11. Found(chk2, published, {new})
    BY <2>4, <2>5 DEF Found
  <2> QED BY <1>2, <2>1, <2>4, <2>5, <2>6, <2>7, <2>8, <2>9, <2>10, <2>11
<1> QED BY <1>3, <1>4, <1>5

-----------------------------------------------------------------------------
(* Google, time, and the tenant's row.                                       *)
LEMMA WorldIInv ==
  ASSUME OidcIInv,
         \/ \E k \in Kid : Publish(k) \/ Retire(k)
         \/ TimePasses
         \/ \E a \in {"ours", "unset"} : SetCredentials(a)
  PROVE  OidcIInv'
<1>0. /\ OidcTypeOK /\ clock \in Nat /\ cache \in CacheState
      /\ retiredAt \in [Kid -> Nat \cup {Never}] /\ loads \subseteq Load
      /\ SingleLoad(cache, loads) /\ LoadsInv(loads, published, retiredAt, clock)
      /\ EntryInv(cache.entry, published, retiredAt, clock)
      /\ \A q \in Request : Found(check[q], published, loads)
  BY DEF OidcIInv, OidcTypeOK, CacheState
<1>1. /\ \A l \in loads : l.sent \in Nat /\ l.keys \subseteq Kid
      /\ cache.entry # NoEntry => cache.entry.expiresAt \in Nat /\ cache.entry.keys \subseteq Kid
  <2>1. \A l \in loads : l.sent \in Nat /\ l.keys \subseteq Kid
    BY <1>0 DEF Load
  <2>2. cache.entry \in Entry \cup {NoEntry}
    BY <1>0 DEF CacheState
  <2>3. cache.entry # NoEntry => cache.entry.expiresAt \in Nat /\ cache.entry.keys \subseteq Kid
    BY <2>2 DEF Entry
  <2> QED BY <2>1, <2>3
<1>2. \A q \in Request : check[q] # NoCheck /\ check[q].steady => check[q].token.kid \in published
  BY <1>0 DEF Found
<1>3. ASSUME NEW k \in Kid, Publish(k) PROVE OidcIInv'
  <2>1. /\ published' = published \cup {k} /\ rotations' = rotations + 1
        /\ UNCHANGED <<clock, retiredAt, cache, loads, check, audience, accepted, faults, admin>>
    BY <1>3 DEF Publish, cacheVars, worldVars
  <2>2. OidcTypeOK'
    BY <1>0, <2>1 DEF OidcTypeOK
  <2>3. LoadsInv(loads', published', retiredAt', clock')
    BY <1>0, <2>1 DEF LoadsInv
  <2>4. EntryInv(cache'.entry, published', retiredAt', clock')
    BY <1>0, <2>1 DEF EntryInv
  <2>5. ASSUME NEW q \in Request PROVE Found(check'[q], published', loads')
    <3>1. Found(check[q], published, loads)
      BY <1>0
    <3>2. check[q] # NoCheck /\ check[q].steady => check[q].token.kid \in published'
      BY <1>2, <2>1
    <3>3. Found(check[q], published', loads)
      BY <3>1, <3>2, FoundKept
    <3> QED BY <2>1, <3>3
  <2>6. SingleLoad(cache', loads')
    BY <1>0, <2>1
  <2> QED BY <2>2, <2>3, <2>4, <2>5, <2>6 DEF OidcIInv
<1>4. ASSUME NEW k \in Kid, Retire(k) PROVE OidcIInv'
  <2>1. /\ published' = published \ {k} /\ rotations' = rotations + 1
        /\ retiredAt' = [retiredAt EXCEPT ![k] = clock]
        /\ check' = [q \in Request |->
                       IF check[q] # NoCheck /\ check[q].token.kid = k
                       THEN [check[q] EXCEPT !.steady = FALSE] ELSE check[q]]
        /\ UNCHANGED <<clock, cache, loads, audience, accepted, faults, admin>>
    BY <1>4 DEF Retire, cacheVars, worldVars
  <2>2. \A j \in Kid : retiredAt'[j] = IF j = k THEN clock ELSE retiredAt[j]
    BY <1>0, <2>1
  <2>3. LoadsInv(loads', published', retiredAt', clock')
    BY <1>0, <1>1, <2>1, <2>2 DEF LoadsInv
  <2>4. EntryInv(cache'.entry, published', retiredAt', clock')
    <3> SUFFICES ASSUME cache.entry # NoEntry
                 PROVE  /\ cache.entry.expiresAt <= clock + Ttl
                        /\ \A j \in cache.entry.keys :
                             \/ j \in published'
                             \/ cache.entry.expiresAt <= retiredAt'[j] + MaxLatency + Ttl
      BY <2>1 DEF EntryInv
    <3>1. /\ cache.entry.expiresAt <= clock + Ttl
          /\ \A j \in cache.entry.keys :
               \/ j \in published
               \/ cache.entry.expiresAt <= retiredAt[j] + MaxLatency + Ttl
      BY <1>0 DEF EntryInv
    <3>2. cache.entry.expiresAt <= clock + MaxLatency + Ttl
      BY <1>0, <1>1, <3>1, OidcConstants
    <3> QED BY <1>1, <2>1, <2>2, <3>1, <3>2
  <2>5. ASSUME NEW q \in Request
        PROVE  Found(check'[q], published', loads') /\ check'[q] \in Check \cup {NoCheck}
    <3>1. Found(check[q], published, loads) /\ check[q] \in Check \cup {NoCheck}
      BY <1>0 DEF OidcTypeOK
    <3>2. CASE check[q] # NoCheck /\ check[q].token.kid = k
      <4> DEFINE c2 == [check[q] EXCEPT !.steady = FALSE]
      <4>1. c2 \in Check /\ ~c2.steady
        BY <3>1, <3>2 DEF Check
      <4>2. check'[q] = c2
        BY <2>1, <3>2
      <4> HIDE DEF c2
      <4> QED BY <4>1, <4>2 DEF Found
    <3>3. CASE ~(check[q] # NoCheck /\ check[q].token.kid = k)
      <4>1. check'[q] = check[q]
        BY <2>1, <3>3
      <4>2. check[q] # NoCheck /\ check[q].steady => check[q].token.kid \in published'
        BY <1>2, <2>1, <3>3
      <4>3. Found(check[q], published', loads)
        BY <3>1, <4>2, FoundKept
      <4> QED BY <2>1, <3>1, <4>1, <4>3
    <3> QED BY <3>2, <3>3
  <2>6. check' \in [Request -> Check \cup {NoCheck}]
    BY <2>1, <2>5
  <2>7. retiredAt' \in [Kid -> Nat \cup {Never}]
    BY <1>0, <2>1
  <2>8. OidcTypeOK'
    BY <1>0, <2>1, <2>6, <2>7 DEF OidcTypeOK
  <2>9. SingleLoad(cache', loads')
    BY <1>0, <2>1
  <2> QED BY <2>3, <2>4, <2>5, <2>8, <2>9 DEF OidcIInv
<1>5. CASE TimePasses
  <2>1. /\ clock' = clock + 1 /\ \A l \in loads : clock < l.sent + MaxLatency
        /\ UNCHANGED <<published, retiredAt, rotations, cache, loads, check,
                       audience, accepted, faults, admin>>
    BY <1>5 DEF TimePasses, googleVars, cacheVars, worldVars
  <2>2. OidcTypeOK'
    BY <1>0, <2>1 DEF OidcTypeOK
  <2>3. LoadsInv(loads', published', retiredAt', clock')
    BY <1>0, <1>1, <2>1, OidcConstants DEF LoadsInv
  <2>4. EntryInv(cache'.entry, published', retiredAt', clock')
    BY <1>0, <1>1, <2>1, OidcConstants DEF EntryInv
  <2>5. \A q \in Request : Found(check'[q], published', loads')
    BY <1>0, <2>1
  <2>6. SingleLoad(cache', loads')
    BY <1>0, <2>1
  <2> QED BY <2>2, <2>3, <2>4, <2>5, <2>6 DEF OidcIInv
<1>6. ASSUME NEW a \in {"ours", "unset"}, SetCredentials(a) PROVE OidcIInv'
  <2>1. /\ audience' = a /\ admin' = admin + 1
        /\ UNCHANGED <<clock, published, retiredAt, rotations, cache, loads, check, accepted, faults>>
    BY <1>6 DEF SetCredentials, googleVars, cacheVars
  <2>2. OidcTypeOK'
    BY <1>0, <2>1 DEF OidcTypeOK
  <2> QED BY <1>0, <2>1, <2>2 DEF OidcIInv
<1> QED BY <1>3, <1>4, <1>5, <1>6

(* A step of one check that leaves the cache and the loads alone.            *)
LEMMA CheckMovesIInv ==
  ASSUME OidcIInv, NEW p \in Request, NEW chk \in Check \cup {NoCheck},
         check' = [check EXCEPT ![p] = chk], Found(chk, published, loads), accepted' \subseteq Push,
         UNCHANGED <<clock, googleVars, cacheVars, audience, faults, admin>>
  PROVE  OidcIInv'
<1>1. /\ UNCHANGED <<clock, published, retiredAt, rotations, cache, loads, audience, faults, admin>>
      /\ check \in [Request -> Check \cup {NoCheck}]
  BY DEF OidcIInv, OidcTypeOK, googleVars, cacheVars
<1>2. check' \in [Request -> Check \cup {NoCheck}]
  BY <1>1
<1>3. OidcTypeOK'
  BY <1>1, <1>2 DEF OidcIInv, OidcTypeOK
<1>4. \A q \in Request : Found(check'[q], published', loads')
  BY <1>1 DEF OidcIInv
<1> QED BY <1>1, <1>3, <1>4 DEF OidcIInv

LEMMA NewCheckFacts ==
  ASSUME OidcIInv, NEW k \in Kid \cup {"unknown"}, NEW a \in Alg, NEW signed \in BOOLEAN,
         NEW aud \in {"ours", "other"}, NEW t,
         t = [kid |-> k, alg |-> a, signed |-> signed, aud |-> aud, exp |-> clock + TokenLife]
  PROVE  /\ NewCheck(t) \in Check /\ NewCheck(t).round = 1
         /\ NewCheck(t).steady => NewCheck(t).token.kid \in published
<1>1. clock + TokenLife \in Nat
  BY OidcConstants DEF OidcIInv, OidcTypeOK
<1>2. t \in IdToken /\ t.kid = k
  BY <1>1 DEF IdToken
<1> DEFINE b == t.kid \in published
<1>3. b \in BOOLEAN
  OBVIOUS
<1>4. NewCheck(t) = [pc |-> "await", token |-> t, round |-> 1, load |-> NoLoad, keys |-> {},
                     steady |-> b, reason |-> "none"]
  BY DEF NewCheck
<1>5. NewCheck(t).token = t /\ NewCheck(t).round = 1 /\ NewCheck(t).steady = b
  BY <1>4
<1>6. NewCheck(t).steady => NewCheck(t).token.kid \in published
  BY <1>5
<1> HIDE DEF b
<1>7. NewCheck(t) \in Check
  BY <1>2, <1>3, <1>4 DEF Check
<1> QED BY <1>5, <1>6, <1>7

(* A request starts verify.                                                  *)
LEMMA ArrivesIInv ==
  ASSUME OidcIInv,
         \/ \E p \in Push : PushArrives(p)
         \/ \E p \in Stray : StrayArrives(p)
  PROVE  OidcIInv'
<1>0. cache \in CacheState /\ published \subseteq Kid /\ accepted \subseteq Push
  BY DEF OidcIInv, OidcTypeOK, CacheState
<1>1. {"RS256", "ES256"} \subseteq Alg
  BY DEF Alg, RsaAlgs, Curve
<1>2. ASSUME NEW p \in Request, NEW k \in Kid \cup {"unknown"}, NEW a \in Alg,
             NEW signed \in BOOLEAN, NEW aud \in {"ours", "other"},
             FetchJwks(p, NewCheck([kid |-> k, alg |-> a, signed |-> signed, aud |-> aud,
                                    exp |-> clock + TokenLife]), cache),
             UNCHANGED <<clock, googleVars, worldVars>>
      PROVE  OidcIInv'
  <2> DEFINE t == [kid |-> k, alg |-> a, signed |-> signed, aud |-> aud, exp |-> clock + TokenLife]
             chk == NewCheck(t)
  <2>1. FetchJwks(p, chk, cache)
    BY <1>2
  <2>2. chk.steady => chk.token.kid \in published
    BY NewCheckFacts
  <2>3. chk \in Check /\ chk.round = 1
    BY NewCheckFacts
  <2> HIDE DEF chk
  <2> QED BY <1>0, <1>2, <2>1, <2>2, <2>3, FetchJwksIInv
<1>3. ASSUME NEW p \in Push, PushArrives(p) PROVE OidcIInv'
  <2>1. UNCHANGED <<clock, googleVars, worldVars>>
    BY <1>3 DEF PushArrives
  <2>2. PICK k \in published, a \in {"RS256", "ES256"} :
          FetchJwks(p, NewCheck([kid |-> k, alg |-> a, signed |-> TRUE, aud |-> "ours",
                                 exp |-> clock + TokenLife]), cache)
    BY <1>3 DEF PushArrives
  <2>3. p \in Request /\ k \in Kid \cup {"unknown"} /\ a \in Alg
    BY <1>0, <1>1 DEF Request
  <2> QED BY <1>2, <2>1, <2>2, <2>3
<1>4. ASSUME NEW p \in Stray, StrayArrives(p) PROVE OidcIInv'
  <2> DEFINE token(k, signed, aud) ==
        [kid |-> k, alg |-> "RS256", signed |-> signed, aud |-> aud, exp |-> clock + TokenLife]
  <2>1. p \in Request /\ "RS256" \in Alg /\ UNCHANGED <<clock, googleVars, worldVars>>
    BY <1>1, <1>4 DEF Request, StrayArrives
  <2>2. \/ /\ check' = [check EXCEPT ![p] = Refused(NewCheck(token("unknown", FALSE, "other")), "malformed")]
           /\ UNCHANGED <<cache, loads>>
        \/ FetchJwks(p, NewCheck(token("unknown", FALSE, "ours")), cache)
        \/ \E k \in Kid : FetchJwks(p, NewCheck(token(k, FALSE, "ours")), cache)
        \/ \E k \in published : FetchJwks(p, NewCheck(token(k, TRUE, "other")), cache)
    BY <1>4 DEF StrayArrives
  <2>3. CASE /\ check' = [check EXCEPT ![p] = Refused(NewCheck(token("unknown", FALSE, "other")), "malformed")]
             /\ UNCHANGED <<cache, loads>>
    <3> DEFINE chk == NewCheck(token("unknown", FALSE, "other"))
    <3>1. chk \in Check
      BY <2>1, NewCheckFacts
    <3>2. chk.steady => chk.token.kid \in published
      BY <2>1, NewCheckFacts
    <3> HIDE DEF chk
    <3> DEFINE chk2 == Refused(chk, "malformed")
    <3>3. /\ chk2 \in Check /\ chk2.pc = "refused" /\ chk2.reason = "malformed"
          /\ chk2.steady = chk.steady /\ chk2.token = chk.token
      BY <3>1 DEF Check, Refused
    <3>4. check' = [check EXCEPT ![p] = chk2]
      BY <2>3 DEF chk
    <3> HIDE DEF chk2
    <3>5. Found(chk2, published, loads)
      BY <3>2, <3>3 DEF Found
    <3>6. accepted' \subseteq Push /\ UNCHANGED <<clock, googleVars, cacheVars, audience, faults, admin>>
      BY <1>0, <2>1, <2>3 DEF worldVars, cacheVars
    <3> QED BY <2>1, <3>3, <3>4, <3>5, <3>6, CheckMovesIInv
  <2>4. CASE FetchJwks(p, NewCheck(token("unknown", FALSE, "ours")), cache)
    BY <1>2, <2>1, <2>4
  <2>5. ASSUME NEW k \in Kid, FetchJwks(p, NewCheck(token(k, FALSE, "ours")), cache)
        PROVE  OidcIInv'
    BY <1>2, <2>1, <2>5
  <2>6. ASSUME NEW k \in published, FetchJwks(p, NewCheck(token(k, TRUE, "other")), cache)
        PROVE  OidcIInv'
    BY <1>0, <1>2, <2>1, <2>6
  <2> QED BY <2>2, <2>3, <2>4, <2>5, <2>6
<1> QED BY <1>3, <1>4


(* The answer to a load under way, its arrival, and its failure.             *)
LEMMA LoadIInv ==
  ASSUME OidcIInv, NEW l \in loads, JwksAnswered(l) \/ JwksLoaded(l) \/ JwksFails(l)
  PROVE  OidcIInv'
<1>0. /\ OidcTypeOK /\ clock \in Nat /\ cache \in CacheState /\ published \subseteq Kid
      /\ loads \subseteq Load /\ check \in [Request -> Check \cup {NoCheck}]
      /\ SingleLoad(cache, loads) /\ LoadsInv(loads, published, retiredAt, clock)
      /\ \A q \in Request : Found(check[q], published, loads)
  BY DEF OidcIInv, OidcTypeOK, CacheState
<1>1. /\ loads = {l} /\ cache.entry = NoEntry /\ cache.inflight = l.id /\ cache.inflight # NoLoad
  BY <1>0 DEF SingleLoad
<1>2. l \in Load /\ l.keys \subseteq Kid /\ l.id \in LoadId /\ l.sent \in Nat
  BY <1>0 DEF Load
<1>3. /\ l.sent <= clock /\ clock <= l.sent + MaxLatency
      /\ \A k \in l.keys : k \in published \/ l.sent <= retiredAt[k]
  BY <1>0 DEF LoadsInv
<1>4. \A q \in Request : check[q] # NoCheck /\ check[q].steady => check[q].token.kid \in published
  BY <1>0 DEF Found
<1>5. CASE JwksAnswered(l)
  <2> DEFINE l2 == [l EXCEPT !.keys = published, !.answered = TRUE]
  <2>1. l2 \in Load /\ l2.id = l.id /\ l2.sent = l.sent /\ l2.keys = published /\ l2.answered
    BY <1>0, <1>2 DEF Load
  <2>2. /\ loads' = (loads \ {l}) \cup {l2}
        /\ UNCHANGED <<clock, published, retiredAt, rotations, cache, check,
                       audience, accepted, faults, admin>>
    BY <1>5 DEF JwksAnswered, googleVars, worldVars
  <2> HIDE DEF l2
  <2>3. loads' = {l2}
    BY <1>1, <2>2
  <2>4. OidcTypeOK'
    BY <1>0, <2>1, <2>2, <2>3 DEF OidcTypeOK
  <2>5. SingleLoad(cache', loads')
    BY <1>1, <2>1, <2>2, <2>3 DEF SingleLoad
  <2>6. LoadsInv(loads', published', retiredAt', clock')
    BY <1>3, <2>1, <2>2, <2>3 DEF LoadsInv
  <2>7. EntryInv(cache'.entry, published', retiredAt', clock')
    BY <2>2 DEF OidcIInv
  <2>8. ASSUME NEW q \in Request PROVE Found(check'[q], published', loads')
    <3>1. Found(check[q], published, loads)
      BY <1>0
    <3>2. \A x \in {l2} : x.answered => x \in loads \/ published \subseteq x.keys
      BY <2>1
    <3>3. check[q] # NoCheck /\ check[q].steady => check[q].token.kid \in published
      BY <1>4
    <3>4. Found(check[q], published, {l2})
      BY <3>1, <3>2, <3>3, FoundKept
    <3> QED BY <2>2, <2>3, <3>4
  <2> QED BY <2>4, <2>5, <2>6, <2>7, <2>8 DEF OidcIInv
(* The load is over, and its sharers go on.                                  *)
<1>6. ASSUME NEW e \in Entry \cup {NoEntry}, EntryInv(e, published, retiredAt, clock),
             cache' = [entry |-> e, inflight |-> NoLoad], loads' = loads \ {l},
             check' \in [Request -> Check \cup {NoCheck}], faults' \in Nat,
             UNCHANGED <<clock, published, retiredAt, rotations, audience, accepted, admin>>,
             \A q \in Request : \/ Awaits(q, l) /\ Found(check'[q], published, {})
                                \/ check'[q] = check[q]
      PROVE  OidcIInv'
  <2>1. loads' = {} /\ cache'.entry = e /\ cache'.inflight = NoLoad /\ cache' \in CacheState
    BY <1>1, <1>6 DEF CacheState
  <2>2. OidcTypeOK'
    BY <1>0, <1>6, <2>1 DEF OidcTypeOK, CacheState
  <2>3. ASSUME NEW q \in Request PROVE Found(check'[q], published', loads')
    <3>1. Found(check[q], published, {})
      <4>1. Found(check[q], published, loads)
        BY <1>0
      <4>2. check[q] # NoCheck /\ check[q].steady => check[q].token.kid \in published
        BY <1>4
      <4> QED BY <4>1, <4>2, FoundKept
    <3> QED BY <1>6, <2>1, <3>1
  <2>4. SingleLoad(cache', loads') /\ LoadsInv(loads', published', retiredAt', clock')
    BY <2>1 DEF SingleLoad, LoadsInv
  <2>5. EntryInv(cache'.entry, published', retiredAt', clock')
    BY <1>6, <2>1
  <2> QED BY <2>2, <2>3, <2>4, <2>5 DEF OidcIInv
<1>7. CASE JwksLoaded(l)
  <2> DEFINE e == [keys |-> l.keys, expiresAt |-> clock + Ttl]
  <2>1. /\ l.answered /\ cache' = Settled(Stored(cache, [keys |-> l.keys], clock, Ttl))
        /\ loads' = loads \ {l}
        /\ check' = [q \in Request |->
                       IF Awaits(q, l)
                       THEN [check[q] EXCEPT !.pc = "select", !.load = NoLoad, !.keys = l.keys]
                       ELSE check[q]]
        /\ UNCHANGED <<clock, published, retiredAt, rotations, audience, accepted, faults, admin>>
    BY <1>7 DEF JwksLoaded, Install, googleVars, worldVars
  <2>2. e \in Entry /\ cache' = [entry |-> e, inflight |-> NoLoad]
    BY <1>0, <1>2, <2>1, StoredKeys
  <2>3. e.keys = l.keys /\ e.expiresAt = clock + Ttl
    OBVIOUS
  <2> HIDE DEF e
  <2>4. EntryInv(e, published, retiredAt, clock)
    <3>1. ASSUME NEW k \in l.keys, k \notin published
          PROVE  clock + Ttl <= retiredAt[k] + MaxLatency + Ttl
      <4>1. retiredAt[k] \in Nat \cup {Never}
        BY <1>0, <1>2 DEF OidcTypeOK
      <4> QED BY <1>0, <1>2, <1>3, <3>1, <4>1, OidcConstants DEF Never
    <3>2. clock + Ttl <= clock + Ttl
      BY <1>0, OidcConstants
    <3> QED BY <2>3, <3>1, <3>2 DEF EntryInv
  <2>5. ASSUME NEW q \in Request
        PROVE  /\ check'[q] \in Check \cup {NoCheck}
               /\ \/ Awaits(q, l) /\ Found(check'[q], published, {})
                  \/ check'[q] = check[q]
    <3>1. CASE Awaits(q, l)
      <4> DEFINE chk == [check[q] EXCEPT !.pc = "select", !.load = NoLoad, !.keys = l.keys]
      <4>1. check[q] \in Check /\ check[q] # NoCheck /\ check[q].pc = "await"
        BY <1>0, <3>1 DEF Awaits
      <4>2. /\ chk \in Check /\ chk.pc = "select" /\ chk.keys = l.keys /\ chk.round = check[q].round
            /\ chk.steady = check[q].steady /\ chk.token = check[q].token
        BY <1>2, <4>1 DEF Check
      <4>3. check'[q] = chk
        BY <2>1, <3>1
      <4> HIDE DEF chk
      <4>4. Found(check[q], published, loads)
        BY <1>0
      <4>5. chk.steady /\ chk.round = 2 => chk.token.kid \in chk.keys
        BY <2>1, <4>1, <4>2, <4>4 DEF Found
      <4>6. chk.steady => chk.token.kid \in published
        BY <1>4, <4>1, <4>2
      <4>7. Found(chk, published, {})
        BY <4>2, <4>5, <4>6 DEF Found
      <4> QED BY <3>1, <4>2, <4>3, <4>7
    <3>2. CASE ~Awaits(q, l)
      BY <1>0, <2>1, <3>2
    <3> QED BY <3>1, <3>2
  <2>6. check' \in [Request -> Check \cup {NoCheck}] /\ faults' \in Nat
    BY <1>0, <2>1, <2>5 DEF OidcTypeOK
  <2> QED BY <1>6, <2>1, <2>2, <2>4, <2>5, <2>6
<1>8. CASE JwksFails(l)
  <2>1. /\ cache' = Settled(cache) /\ loads' = loads \ {l} /\ faults' = faults + 1
        /\ check' = [q \in Request |->
                       IF Awaits(q, l) THEN [Refused(check[q], "fetch") EXCEPT !.load = NoLoad]
                       ELSE check[q]]
        /\ UNCHANGED <<clock, published, retiredAt, rotations, audience, accepted, admin>>
    BY <1>8 DEF JwksFails, googleVars
  <2>2. cache' = [entry |-> NoEntry, inflight |-> NoLoad]
    BY <1>0, <1>1, <2>1, CacheOps
  <2>3. EntryInv(NoEntry, published, retiredAt, clock)
    BY DEF EntryInv
  <2>4. ASSUME NEW q \in Request
        PROVE  /\ check'[q] \in Check \cup {NoCheck}
               /\ \/ Awaits(q, l) /\ Found(check'[q], published, {})
                  \/ check'[q] = check[q]
    <3>1. CASE Awaits(q, l)
      <4> DEFINE chk == [Refused(check[q], "fetch") EXCEPT !.load = NoLoad]
      <4>1. check[q] \in Check /\ check[q] # NoCheck
        BY <1>0, <3>1 DEF Awaits
      <4>2. /\ chk \in Check /\ chk.pc = "refused" /\ chk.reason = "fetch"
            /\ chk.steady = check[q].steady /\ chk.token = check[q].token
        BY <4>1 DEF Check, Refused
      <4>3. check'[q] = chk
        BY <2>1, <3>1
      <4> HIDE DEF chk
      <4>4. chk.steady => chk.token.kid \in published
        BY <1>4, <4>1, <4>2
      <4>5. Found(chk, published, {})
        BY <4>2, <4>4 DEF Found
      <4> QED BY <3>1, <4>2, <4>3, <4>5
    <3>2. CASE ~Awaits(q, l)
      BY <1>0, <2>1, <3>2
    <3> QED BY <3>1, <3>2
  <2>5. check' \in [Request -> Check \cup {NoCheck}] /\ faults' \in Nat
    BY <1>0, <2>1, <2>4 DEF OidcTypeOK
  <2> QED BY <1>6, <2>1, <2>2, <2>3, <2>4, <2>5
<1> QED BY <1>5, <1>7, <1>8


(* The steps of one verify call.                                             *)
LEMMA CheckStepIInv ==
  ASSUME OidcIInv, NEW p \in Request, CheckStep(p)
  PROVE  OidcIInv'
<1> DEFINE chk == check[p]
<1>0. /\ cache \in CacheState /\ clock \in Nat /\ accepted \subseteq Push
      /\ chk \in Check \cup {NoCheck} /\ Found(chk, published, loads)
  BY DEF OidcIInv, OidcTypeOK, CacheState
<1>1. chk # NoCheck
  BY DEF CheckStep, SelectKey, VerifyToken, CheckAudience, Respond
<1>2. chk \in Check /\ (chk.steady => chk.token.kid \in published)
  BY <1>0, <1>1 DEF Found
(* the check goes on as chk2, which is not a refusal of a known key *)
<1>3. ASSUME NEW chk2 \in Check, check' = [check EXCEPT ![p] = chk2],
             chk2.pc \in {"verify", "audience", "accepted", "refused"},
             chk2.steady = chk.steady, chk2.token = chk.token,
             chk2.pc = "refused" /\ chk2.reason = "unknown_kid" => ~chk.steady,
             UNCHANGED <<clock, googleVars, cacheVars, worldVars>>
      PROVE  OidcIInv'
  <2>1. Found(chk2, published, loads)
    BY <1>2, <1>3 DEF Found
  <2>2. accepted' \subseteq Push /\ UNCHANGED <<clock, googleVars, cacheVars, audience, faults, admin>>
    BY <1>0, <1>3 DEF worldVars
  <2> QED BY <1>3, <2>1, <2>2, CheckMovesIInv
<1>4. ASSUME NEW why \in {"unknown_kid", "signature", "expired", "audience"}
      PROVE  /\ Refused(chk, why) \in Check /\ Refused(chk, why).pc = "refused"
             /\ Refused(chk, why).reason = why
             /\ Refused(chk, why).steady = chk.steady /\ Refused(chk, why).token = chk.token
  BY <1>2 DEF Check, Refused
<1>5. ASSUME NEW pc \in {"audience", "accepted"}
      PROVE  /\ [chk EXCEPT !.pc = pc] \in Check /\ [chk EXCEPT !.pc = pc].pc = pc
             /\ [chk EXCEPT !.pc = pc].steady = chk.steady
             /\ [chk EXCEPT !.pc = pc].token = chk.token
  BY <1>2 DEF Check
<1>6. CASE SelectKey(p)
  <2>1. chk.pc = "select" /\ UNCHANGED <<clock, googleVars, worldVars>>
    BY <1>6 DEF SelectKey
  <2>2. CASE chk.token.kid \in chk.keys
    <3> DEFINE chk2 == [chk EXCEPT !.pc = "verify", !.keys = {}]
    <3>1. check' = [check EXCEPT ![p].pc = "verify", ![p].keys = {}] /\ UNCHANGED <<cache, loads>>
      BY <1>6, <2>2 DEF SelectKey
    <3>2. check' = [check EXCEPT ![p] = chk2]
      BY <3>1 DEF OidcIInv, OidcTypeOK
    <3>3. /\ chk2 \in Check /\ chk2.pc = "verify"
          /\ chk2.steady = chk.steady /\ chk2.token = chk.token
      BY <1>2 DEF Check
    <3> HIDE DEF chk2
    <3> QED BY <1>3, <2>1, <3>1, <3>2, <3>3 DEF cacheVars
  <2>3. CASE chk.token.kid \notin chk.keys /\ chk.round = 1
    <3> DEFINE chk2 == [chk EXCEPT !.round = 2, !.keys = {}]
               c == Evicted(cache)
    <3>1. FetchJwks(p, chk2, c)
      BY <1>6, <2>3 DEF SelectKey
    <3>2. chk2 \in Check /\ chk2.round = 2 /\ chk2.steady = chk.steady /\ chk2.token = chk.token
      BY <1>2 DEF Check
    <3>3. c = [entry |-> NoEntry, inflight |-> cache.inflight] /\ ~Live(c, clock)
      BY <1>0, CacheOps
    <3>4. c \in CacheState /\ c.entry = NoEntry /\ c.inflight = cache.inflight
      BY <1>0, <3>3 DEF CacheState
    <3>5. chk.steady => \A l \in loads : l.answered => chk.token.kid \in l.keys
      BY <1>0, <1>1, <2>1, <2>3 DEF Found
    <3> HIDE DEF chk2, c
    <3> QED BY <1>2, <2>1, <3>1, <3>2, <3>3, <3>4, <3>5, FetchJwksIInv
  <2>4. CASE chk.token.kid \notin chk.keys /\ chk.round # 1
    <3>1. check' = [check EXCEPT ![p] = Refused(chk, "unknown_kid")] /\ UNCHANGED <<cache, loads>>
      BY <1>6, <2>4 DEF SelectKey
    <3>2. chk.round = 2
      BY <1>2, <2>4 DEF Check
    <3>3. ~chk.steady
      BY <1>0, <1>1, <2>1, <2>4, <3>2 DEF Found
    <3> QED BY <1>3, <1>4, <2>1, <3>1, <3>3 DEF cacheVars
  <2> QED BY <2>2, <2>3, <2>4
<1>7. CASE VerifyToken(p)
  <2>1. UNCHANGED <<clock, googleVars, cacheVars, worldVars>>
    BY <1>7 DEF VerifyToken
  <2>2. \/ check' = [check EXCEPT ![p] = Refused(chk, "signature")]
        \/ check' = [check EXCEPT ![p] = Refused(chk, "expired")]
        \/ check' = [check EXCEPT ![p] = [chk EXCEPT !.pc = "audience"]]
    BY <1>7 DEF VerifyToken
  <2>3. CASE check' = [check EXCEPT ![p] = Refused(chk, "signature")]
    BY <1>3, <1>4, <2>1, <2>3
  <2>4. CASE check' = [check EXCEPT ![p] = Refused(chk, "expired")]
    BY <1>3, <1>4, <2>1, <2>4
  <2>5. CASE check' = [check EXCEPT ![p] = [chk EXCEPT !.pc = "audience"]]
    BY <1>3, <1>5, <2>1, <2>5
  <2> QED BY <2>2, <2>3, <2>4, <2>5
<1>8. CASE CheckAudience(p)
  <2>1. UNCHANGED <<clock, googleVars, cacheVars, worldVars>>
    BY <1>8 DEF CheckAudience
  <2>2. \/ check' = [check EXCEPT ![p] = [chk EXCEPT !.pc = "accepted"]]
        \/ check' = [check EXCEPT ![p] = Refused(chk, "audience")]
    BY <1>8 DEF CheckAudience
  <2>3. CASE check' = [check EXCEPT ![p] = [chk EXCEPT !.pc = "accepted"]]
    BY <1>3, <1>5, <2>1, <2>3
  <2>4. CASE check' = [check EXCEPT ![p] = Refused(chk, "audience")]
    BY <1>3, <1>4, <2>1, <2>4
  <2> QED BY <2>2, <2>3, <2>4
<1>9. CASE Respond(p)
  <2>1. /\ check' = [check EXCEPT ![p] = NoCheck] /\ accepted' \subseteq Push
        /\ UNCHANGED <<clock, googleVars, cacheVars, audience, faults, admin>>
    BY <1>0, <1>9 DEF Respond
  <2>2. Found(NoCheck, published, loads)
    BY DEF Found
  <2> QED BY <2>1, <2>2, CheckMovesIInv
<1> QED BY <1>6, <1>7, <1>8, <1>9 DEF CheckStep

LEMMA OidcNextIInv == OidcIInv /\ [OidcNext]_oidcVars => OidcIInv'
<1> SUFFICES ASSUME OidcIInv, [OidcNext]_oidcVars PROVE OidcIInv'
  OBVIOUS
<1>1. CASE \/ \E k \in Kid : Publish(k) \/ Retire(k)
           \/ TimePasses
           \/ \E a \in {"ours", "unset"} : SetCredentials(a)
  BY <1>1, WorldIInv
<1>2. CASE (\E p \in Push : PushArrives(p)) \/ \E p \in Stray : StrayArrives(p)
  BY <1>2, ArrivesIInv
<1>3. CASE \E l \in loads : JwksAnswered(l) \/ JwksLoaded(l) \/ JwksFails(l)
  BY <1>3, LoadIInv
<1>4. CASE \E p \in Request : CheckStep(p)
  BY <1>4, CheckStepIInv
<1>5. CASE UNCHANGED oidcVars
  BY <1>5 DEF OidcIInv, OidcTypeOK, oidcVars
<1> QED BY <1>1, <1>2, <1>3, <1>4, <1>5 DEF OidcNext

LEMMA OidcInvariant == OidcSpec => []OidcIInv
BY OidcInitIInv, OidcNextIInv, PTL DEF OidcSpec

(* ttl-cache.ts:55-78: whatever the checks, evictions, failures and expiries *)
(* in between, at most one fetch of Google's keys is under way.              *)
THEOREM OneFetch == OidcSpec => []OneFetchAtATime
<1>1. OidcIInv => OneFetchAtATime
  <2> SUFFICES ASSUME OidcIInv PROVE Cardinality(loads) <= 1
    BY DEF OneFetchAtATime
  <2>1. SingleLoad(cache, loads)
    BY DEF OidcIInv
  <2>2. CASE loads = {}
    <3>1. Cardinality(loads) = 0
      BY <2>2, FS_EmptySet
    <3> QED BY <3>1
  <2>3. CASE loads # {}
    <3>1. PICK l \in loads : loads = {l}
      BY <2>1, <2>3 DEF SingleLoad
    <3>2. Cardinality(loads) = 1
      BY <3>1, FS_Singleton
    <3> QED BY <3>2
  <2> QED BY <2>2, <2>3
<1> QED BY <1>1, OidcInvariant, PTL

(* oidc-verifier.ts, verify: the one eviction and refetch covers every       *)
(* rotation.  A token whose key Google has published since its check began   *)
(* is not refused for an unknown key, even when the second round joins a     *)
(* fetch another check sent.                                                 *)
THEOREM RotationIsCovered == OidcSpec => []PublishedKeyIsFound
<1>1. OidcIInv => PublishedKeyIsFound
  BY DEF OidcIInv, Found, PublishedKeyIsFound
<1> QED BY <1>1, OidcInvariant, PTL

(* oidc-verifier.ts, fetchJwks: an entry of the cache vouches for a retired  *)
(* key for less than one fetch's latency and one TTL after its retirement.   *)
THEOREM RetiredKeyIsDropped == OidcSpec => []RetiredKeyExpires
<1>1. OidcIInv => RetiredKeyExpires
  <2> SUFFICES ASSUME OidcIInv, Live(cache, clock), NEW k \in cache.entry.keys, k \notin published
               PROVE  clock < retiredAt[k] + MaxLatency + Ttl
    BY DEF RetiredKeyExpires
  <2>1. cache \in CacheState /\ clock \in Nat /\ retiredAt \in [Kid -> Nat \cup {Never}]
    BY DEF OidcIInv, OidcTypeOK, CacheState
  <2>2. cache.entry \in Entry /\ cache.entry # NoEntry /\ clock < cache.entry.expiresAt
    BY <2>1, CacheOps
  <2>3. cache.entry.expiresAt <= retiredAt[k] + MaxLatency + Ttl
    BY <2>2 DEF OidcIInv, EntryInv
  <2>4. cache.entry.expiresAt \in Nat /\ retiredAt[k] \in Int
    BY <2>1, <2>2 DEF Entry, Never
  <2> QED BY <2>1, <2>2, <2>3, <2>4, OidcConstants
<1> QED BY <1>1, OidcInvariant, PTL
=============================================================================
