------------------------------ MODULE GoogleChain ------------------------------
(***************************************************************************)
(* The canonical subject.key of a Google subscription notification:         *)
(* resolveSubscriptionFields of google-receiver.ts with recordChainLink and *)
(* resolveToRoot of google-chain.ts, over google_purchase_chains of one     *)
(* tenant (the tenant is part of every key, so tenants do not interact).    *)
(*                                                                          *)
(* Several notifications are resolved at once.  Each query is a step: links *)
(* are recorded by other handlers and deleted by the retention sweep        *)
(* between two reads of one walk.                                           *)
(***************************************************************************)
EXTENDS Integers, FiniteSets

CONSTANTS
  Token,          \* purchase tokens
  None,           \* no predecessor
  Worlds,         \* what Google may say: functions of Token to its linkedPurchaseToken
  Handler,        \* notifications being resolved at once
  MaxChainDepth,  \* MAX_CHAIN_DEPTH
  Faults,         \* may a Play call or a query fail?
  Purging         \* is GOOGLE_CHAIN_RETENTION_DAYS set?

ASSUME GoogleChainAssumption ==
  /\ None \notin Token /\ IsFiniteSet(Token)
  /\ Worlds \subseteq [Token -> Token \cup {None}]
  /\ MaxChainDepth \in Nat \ {0}
  /\ Faults \in BOOLEAN /\ Purging \in BOOLEAN

VARIABLES
  linked,    \* Google's linkedPurchaseToken of each token (immutable)
  chain,     \* google_purchase_chains: current_token -> previous_token
  work       \* resolveSubscriptionFields calls in progress, and the last result of each handler

vars == <<linked, chain, work>>

Idle == [pc |-> "idle"]

(* full is history: when the walk began every link of the token's lineage was *)
(* on file, and none was deleted since.                                       *)
Call == [pc : {"fetch", "record", "walk"}, token : Token, cursor : Token,
         seen : SUBSET Token, depth : 0..(MaxChainDepth - 1), full : BOOLEAN]
Result == [pc : {"done"}, token : Token, key : Token, full : BOOLEAN]

TypeOK ==
  /\ linked \in [Token -> Token \cup {None}]
  /\ chain \in [Token -> Token \cup {None}]
  /\ work \in [Handler -> Call \cup Result \cup {Idle}]

Init ==
  /\ linked \in Worlds
  /\ chain = [t \in Token |-> None]
  /\ work = [h \in Handler |-> Idle]

-----------------------------------------------------------------------------
(* A set of tokens that holds the predecessor of each of its members.        *)
Closed(C) == \A t \in C : linked[t] # None => linked[t] \in C

(* The purchases a token continues, itself included: the least closed set.   *)
Lineage(t) ==
  {x \in Token : \A C \in SUBSET Token : (t \in C /\ Closed(C)) => x \in C}

OnFile(t, file) == \A x \in Lineage(t) : x = linked[x] \/ file[x] = linked[x]

(* No token of the lineage continues itself, directly or not.                *)
Acyclic(t) == \E r \in Lineage(t) : linked[r] = None

-----------------------------------------------------------------------------
Busy(h) == work[h].pc \in {"fetch", "record", "walk"}

(* A subscription notification for t arrives; its handler loads credentials. *)
Receive(h, t) ==
  /\ ~Busy(h)
  /\ work' = [work EXCEPT ![h] = [pc |-> "fetch", token |-> t, cursor |-> t,
                                  seen |-> {t}, depth |-> 0, full |-> FALSE]]
  /\ UNCHANGED <<linked, chain>>

Return(h, key, full) ==
  /\ work' = [work EXCEPT ![h] = [pc |-> "done", token |-> work[h].token,
                                  key |-> key, full |-> full]]
  /\ UNCHANGED <<linked, chain>>

(* No credentials, or anything of the try block throws: the raw token.       *)
Fallback(h) ==
  /\ Faults
  /\ Busy(h)
  /\ Return(h, work[h].token, FALSE)

(* recordChainLink is called when Google names a predecessor; it returns at  *)
(* once for a token linked to itself.                                        *)
NeedsRecord(t) == linked[t] \notin {None, t}

BeginWalk(h, file) ==
  work' = [work EXCEPT ![h].pc = "walk", ![h].full = OnFile(work[h].token, file)]

(* client.getPurchase answers: readLinkedPurchaseToken of it is linked[t].   *)
Fetch(h) ==
  /\ work[h].pc = "fetch"
  /\ IF NeedsRecord(work[h].token)
     THEN work' = [work EXCEPT ![h].pc = "record"]
     ELSE BeginWalk(h, chain)
  /\ UNCHANGED <<linked, chain>>

RecordReversed(h) ==
  LET t == work[h].token
      file == IF chain[linked[t]] = None THEN [chain EXCEPT ![linked[t]] = t] ELSE chain
  IN /\ work[h].pc = "record"
     /\ chain' = file
     /\ BeginWalk(h, file)
     /\ UNCHANGED linked

(* INSERT ... ON CONFLICT (tenant_id, current_token) DO NOTHING.             *)
RecordChainLink(h) ==
  LET t == work[h].token
      file == IF chain[t] = None THEN [chain EXCEPT ![t] = linked[t]] ELSE chain
  IN /\ work[h].pc = "record"
     /\ chain' = file
     /\ BeginWalk(h, file)
     /\ UNCHANGED linked

HopUnguarded(h) ==
  LET prev == chain[work[h].cursor]
  IN /\ work[h].pc = "walk"
     /\ IF prev = None THEN Return(h, work[h].cursor, work[h].full)
        ELSE /\ work' = [work EXCEPT ![h].cursor = prev]
             /\ UNCHANGED <<linked, chain>>

HopOneShort(h) ==
  LET c == work[h]
      prev == chain[c.cursor]
  IN /\ c.pc = "walk"
     /\ IF prev = None \/ prev \in c.seen \/ c.depth + 1 = MaxChainDepth
        THEN Return(h, c.cursor, c.full)
        ELSE /\ work' = [work EXCEPT ![h].cursor = prev, ![h].seen = @ \cup {prev},
                                     ![h].depth = @ + 1]
             /\ UNCHANGED <<linked, chain>>

(* One turn of resolveToRoot's loop: read the cursor's link; stop at a root  *)
(* and at a token seen before; after MaxChainDepth turns return the deepest. *)
Hop(h) ==
  LET c == work[h]
      prev == chain[c.cursor]
  IN /\ c.pc = "walk"
     /\ IF prev = None \/ prev \in c.seen THEN Return(h, c.cursor, c.full)
        ELSE IF c.depth + 1 = MaxChainDepth THEN Return(h, prev, c.full)
        ELSE /\ work' = [work EXCEPT ![h].cursor = prev, ![h].seen = @ \cup {prev},
                                     ![h].depth = @ + 1]
             /\ UNCHANGED <<linked, chain>>

(* purgeGoogleChains deletes an expired link (created_at, LIMIT, no order).  *)
PurgeLink(t) ==
  /\ Purging
  /\ chain[t] # None
  /\ chain' = [chain EXCEPT ![t] = None]
  /\ work' = [h \in Handler |->
                IF Busy(h) THEN [work[h] EXCEPT !.full = FALSE] ELSE work[h]]
  /\ UNCHANGED linked

-----------------------------------------------------------------------------
Step(h) == Fetch(h) \/ RecordChainLink(h) \/ Hop(h)

Next ==
  \/ \E h \in Handler, t \in Token : Receive(h, t)
  \/ \E h \in Handler : Step(h) \/ Fallback(h)
  \/ \E t \in Token : PurgeLink(t)

Spec == Init /\ [][Next]_vars

(* A request in progress is run to its end: the Play call has a timeout and  *)
(* queries return.                                                           *)
FairSpec == Spec /\ \A h \in Handler : WF_vars(Step(h))

-----------------------------------------------------------------------------
(* Properties.                                                               *)

resolved == {work[h] : h \in {x \in Handler : work[x].pc = "done"}}

(* google-chain.ts: whatever is recorded, deleted or failing meanwhile, and  *)
(* even if Google's links form a cycle, the key is a purchase the token      *)
(* continues - never one of another subscription.                            *)
SameLineage ==
  \A e \in resolved : \A C \in SUBSET Token : (e.token \in C /\ Closed(C)) => e.key \in C

(* Once every link of a lineage is on file (and the sweep leaves it alone) a  *)
(* walk within MAX_CHAIN_DEPTH ends at the original token, so upgrades keep   *)
(* the integrator's key; the bound is inclusive.                              *)
RootWhenOnFile ==
  \A e \in resolved :
    (e.full /\ Acyclic(e.token) /\ Cardinality(Lineage(e.token)) <= MaxChainDepth + 1)
      => linked[e.key] = None

(* No walk spins, on cycles included: every notification gets its key.       *)
EveryWalkEnds == \A h \in Handler : Busy(h) ~> ~Busy(h)
=============================================================================
