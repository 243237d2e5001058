----------------------------- MODULE LookupProofs -----------------------------
(***************************************************************************)
(* Theorems about the lookup endpoints, for every number of requests, keys  *)
(* and admin commands, every voided list and every page cap.                *)
(***************************************************************************)
EXTENDS Lookup, SequenceTheorems, TLAPS

(* The states of a request before its first call to a store, and during.     *)
Fresh == {"idle", "key", "tenant", "touch", "limit", "load"}
Serving == {"load", "apple", "google", "scan"}
Authenticated == {"touch", "limit"} \cup Serving

-----------------------------------------------------------------------------
(* What holds of a request by itself.                                        *)

(* AnswerIsHonest, of one request q that ended in o.                         *)
Honest(q, o) ==
  o.how = "returned" =>
    /\ q.ask.kind \in AppleKinds =>
         /\ Valid(o) => o.where = q.ask.home
         /\ o.code = NotFoundCode(q.ask.kind) =>
              \A n \in 1 .. Len(EnvironmentsOf(q)) : q.ask.home = EnvironmentsOf(q)[n] =>
                n < Len(EnvironmentsOf(q)) /\ EnvironmentsOf(q)[n] \in q.denied
         /\ o.code = "BUNDLE_ID_MISMATCH" => ~q.creds.mine /\ q.ask.home \in Environments
    /\ q.ask.kind \in GoogleKinds /\ o.code # "PACKAGE_NAME_MISMATCH" =>
         (Valid(o) <=> q.ask.home = "play")

(* NegativeIsConclusive, of one request.                                     *)
Conclusive(q, o) ==
  /\ o.code = "NOT_VOIDED" =>
       /\ 1 \in q.read /\ \E p \in q.read : q.ask.list.next[p] = 0
       /\ \A p \in q.read : q.ask.list.at # p /\ q.ask.list.next[p] \in q.read \cup {0}
  /\ o.code = "VOIDED" => q.ask.list.at \in q.read

(* The environments already tried hold the purchase only if they denied it.  *)
Attempting(q) ==
  q.pc = "apple" =>
    /\ q.ask.kind \in AppleKinds /\ q.creds \in Creds
    /\ q.i \in 1 .. Len(EnvironmentsOf(q))
    /\ \A n \in 1 .. (q.i - 1) : q.ask.home = EnvironmentsOf(q)[n] =>
         EnvironmentsOf(q)[n] \in q.denied

(* The pages read so far lead from the first to the cursor and name no match. *)
Scanning(q) ==
  q.pc = "scan" =>
    /\ q.ask.kind \in ScanKinds
    /\ q.pages < MaxPages
    /\ q.cursor \in DOMAIN q.ask.list.next
    /\ 1 \in q.read \cup {q.cursor}
    /\ \A p \in q.read : q.ask.list.at # p /\ q.ask.list.next[p] \in q.read \cup {q.cursor}

Starting(q) ==
  q.pc \in Fresh => q.i = 1 /\ q.denied = {} /\ q.cursor = 1 /\ q.read = {} /\ q.pages = 0

RequestInv(q) ==
  /\ Starting(q)
  /\ Attempting(q)
  /\ q.pc = "google" => q.ask.kind \in GoogleKinds
  /\ Scanning(q)
  /\ q.pc # "done" => q.outcome = NoOutcome
  /\ Honest(q, q.outcome)
  /\ Conclusive(q, q.outcome)

-----------------------------------------------------------------------------
(* What relates a request to the tenant, its keys and the audit table.       *)

(* What barred a request on arrival still does where it is looked at next.   *)
BarrierInv(r) ==
  /\ req[r].pc \in {"key", "tenant", "touch"} => req[r].key \in Keys
  /\ req[r].pc = "key" /\ hist[r].barred =>
       keys[req[r].key] = "revoked" \/ ~tenant.present \/ ~tenant.active
  /\ req[r].pc = "tenant" /\ hist[r].barred => ~tenant.present \/ ~tenant.active
  /\ req[r].pc \in Authenticated => ~hist[r].barred
  /\ hist[r].barred => ~hist[r].reached

On == {"on"} \cup (IF AuditDefault THEN {Null} ELSE {})

PreferenceInv(r) ==
  /\ req[r].pc \in {"key", "tenant"} => tenant.pref \in hist[r].prefs
  /\ req[r].pc \in Authenticated => req[r].pref \in hist[r].prefs
  /\ req[r].pc \in Serving => hist[r].reached
  /\ hist[r].reached => req[r].pc \in Serving \cup {"done", "lost"}
  /\ audit[r] # "none" => hist[r].reached /\ hist[r].prefs \cap On # {}
  /\ hist[r].reached /\ req[r].pc = "done" /\ audit[r] = "none" =>
       hist[r].prefs \ On # {} \/ req[r].ask.kind = "voidedList"

AuditInv(r) ==
  /\ audit[r] # "none" => req[r].pc = "done"
  /\ rows[r] = IF audit[r] = "written" THEN <<Row(req[r].outcome)>> ELSE << >>

IInv ==
  /\ TypeOK
  /\ \A r \in Requests : /\ RequestInv(req[r])
                         /\ BarrierInv(r)
                         /\ PreferenceInv(r)
                         /\ AuditInv(r)

-----------------------------------------------------------------------------
(* Facts about the data.                                                     *)

LEMMA AskFacts ==
  ASSUME NEW a \in Asks \cup {NoAsk}
  PROVE  /\ a.list.next \in Seq(Nat) /\ 1 \in DOMAIN a.list.next
         /\ \A p \in DOMAIN a.list.next : a.list.next[p] = 0 \/ a.list.next[p] \in DOMAIN a.list.next
         /\ DOMAIN a.list.next \subseteq Nat
         /\ a.hint \in Environments \cup {Null}
<1>1. CASE a \in Asks
  <2>1. /\ a \in Ask /\ DOMAIN a.list.next # {}
        /\ \A p \in DOMAIN a.list.next : a.list.next[p] \in 0 .. Len(a.list.next)
    BY <1>1, LookupAssumption
  <2>2. a.list.next \in Seq(Nat) /\ a.hint \in Environments \cup {Null}
    BY <2>1 DEF Ask
  <2>3. DOMAIN a.list.next = 1 .. Len(a.list.next) /\ Len(a.list.next) \in Nat
    BY <2>2
  <2> QED BY <2>1, <2>2, <2>3
<1>2. CASE a = NoAsk
  <2>1. a.list.next = <<0>> /\ a.hint = Null
    BY <1>2 DEF NoAsk
  <2> QED BY <2>1
<1> QED BY <1>1, <1>2

(* resolveEnvironments gives one or two environments.                        *)
LEMMA EnvironmentFacts ==
  ASSUME NEW q \in RequestState, q.creds \in Creds
  PROVE  /\ EnvironmentsOf(q) \in Seq(Environments)
         /\ Len(EnvironmentsOf(q)) \in Nat /\ Len(EnvironmentsOf(q)) >= 1
         /\ Len(EnvironmentsOf(q)) <= 2
         /\ \A n \in 1 .. Len(EnvironmentsOf(q)) : EnvironmentsOf(q)[n] \in Environments
<1>1. q.ask.hint \in Environments \cup {Null} /\ q.creds.env \in Environments \cup {"auto"}
  BY AskFacts DEF RequestState, Creds
<1>2. EnvironmentsOf(q) \in {<<"production">>, <<"sandbox">>, <<"production", "sandbox">>}
  BY <1>1 DEF EnvironmentsOf, ResolveEnvironments, Environments
<1>3. CASE EnvironmentsOf(q) = <<"production">>
  BY <1>3 DEF Environments
<1>4. CASE EnvironmentsOf(q) = <<"sandbox">>
  BY <1>4 DEF Environments
<1>5. CASE EnvironmentsOf(q) = <<"production", "sandbox">>
  BY <1>5 DEF Environments
<1> QED BY <1>2, <1>3, <1>4, <1>5

LEMMA OutcomeFacts ==
  /\ NoOutcome \in Outcome /\ OtherError \in Outcome
  /\ \A c \in Codes : AppError(c) \in Outcome
  /\ \A c \in Codes, w \in Environments \cup {Null} : Returned(c, w) \in Outcome
BY DEF NoOutcome, OtherError, AppError, Returned, Outcome, Codes

(* An error is neither a domain answer nor a verdict on the voided list.     *)
LEMMA ErrorsSayNothing ==
  ASSUME NEW o, o.how # "returned", o.code \notin {"NOT_VOIDED", "VOIDED"}, NEW q
  PROVE  Honest(q, o) /\ Conclusive(q, o)
BY DEF Honest, Conclusive

LEMMA NothingSaidYet ==
  ASSUME NEW q
  PROVE  Honest(q, NoOutcome) /\ Conclusive(q, NoOutcome)
<1>1. NoOutcome.how # "returned" /\ NoOutcome.code \notin {"NOT_VOIDED", "VOIDED"}
  BY DEF NoOutcome, Null
<1> QED BY <1>1, ErrorsSayNothing

LEMMA RowFacts ==
  ASSUME NEW o \in Outcome
  PROVE  Row(o) \in AuditRow
<1>1. o.code \in Codes /\ Null \in Codes
  BY DEF Outcome, Codes
<1>2. ErrorCode(o) \in Codes \cup {"INTERNAL_ERROR"}
  BY <1>1 DEF ErrorCode
<1>3. Valid(o) \in BOOLEAN
  BY DEF Valid
<1> QED BY <1>2, <1>3 DEF Row, AuditRow

-----------------------------------------------------------------------------
(* What every kind of step does to a request.                                *)

(* Requests other than the one that moves.                                   *)
LEMMA OthersKeep ==
  ASSUME IInv, NEW u \in Requests, req'[u] = req[u], audit'[u] = audit[u], rows'[u] = rows[u],
         hist'[u] = hist[u], UNCHANGED <<keys, tenant>>
  PROVE  RequestInv(req'[u]) /\ BarrierInv(u)' /\ PreferenceInv(u)' /\ AuditInv(u)'
BY DEF IInv, BarrierInv, PreferenceInv, AuditInv

LEMMA FinishIInv ==
  ASSUME IInv, NEW r \in Requests, req[r].pc \in Serving,
         NEW q \in RequestState, q.ask = req[r].ask, q.pref = req[r].pref,
         NEW o \in Outcome, Honest(q, o), Conclusive(q, o), Finish(r, o, q)
  PROVE  IInv'
<1> DEFINE q2 == [q EXCEPT !.pc = "done", !.outcome = o]
<1>0. /\ TypeOK /\ UNCHANGED <<keys, stamped, tenant, rows, hist, admin, crashes>>
      /\ req' = [req EXCEPT ![r] = q2]
      /\ RequestInv(req[r]) /\ BarrierInv(r) /\ PreferenceInv(r) /\ AuditInv(r)
  BY DEF IInv, Finish, data, bounds
<1>1. /\ q2 \in RequestState /\ q2.pc = "done" /\ q2.outcome = o /\ q2.ask = q.ask
      /\ q2.creds = q.creds /\ q2.denied = q.denied /\ q2.read = q.read
  BY DEF RequestState
<1> HIDE DEF q2
<1>2. req'[r] = q2 /\ \A u \in Requests : u # r => req'[u] = req[u]
  BY <1>0 DEF TypeOK
<1>3. RequestInv(q2)
  <2>1. EnvironmentsOf(q2) = EnvironmentsOf(q)
    BY <1>1 DEF EnvironmentsOf
  <2>2. Honest(q2, o)
    BY <1>1, <2>1 DEF Honest
  <2>3. Conclusive(q2, o)
    BY <1>1 DEF Conclusive
  <2> QED
    BY <1>1, <2>2, <2>3 DEF RequestInv, Starting, Attempting, Scanning, Fresh
<1>4. /\ audit[r] = "none"
      /\ audit' \in [Requests -> {"none", "pending", "failed", "written"}]
      /\ audit'[r] = IF Audited(q.ask.kind) /\ AuditEnabledForTenant(q.pref, AuditDefault)
                     THEN "pending" ELSE "none"
      /\ \A u \in Requests : u # r => audit'[u] = audit[u]
  BY <1>0 DEF AuditInv, Serving, Finish, TypeOK
<1>5. TypeOK'
  BY <1>0, <1>1, <1>4 DEF TypeOK
<1>6. BarrierInv(r)'
  BY <1>0, <1>1, <1>2 DEF BarrierInv, Authenticated, Serving
<1>7. PreferenceInv(r)'
  <2>1. q.pref \in hist[r].prefs /\ hist[r].reached /\ q.pref \in Preference
    BY <1>0 DEF PreferenceInv, Authenticated, RequestState
  <2>2. AuditEnabledForTenant(q.pref, AuditDefault) <=> q.pref \in On
    BY <2>1, LookupAssumption DEF AuditEnabledForTenant, On, Preference, Null
  <2> QED
    BY <1>0, <1>1, <1>2, <1>4, <2>1, <2>2 DEF PreferenceInv, Authenticated, Serving, Audited
<1>8. AuditInv(r)'
  BY <1>0, <1>1, <1>2, <1>4 DEF AuditInv
<1> QED
  BY <1>0, <1>2, <1>3, <1>4, <1>5, <1>6, <1>7, <1>8, OthersKeep DEF IInv

LEMMA ContinueIInv ==
  ASSUME IInv, NEW r \in Requests, req[r].pc \in Serving,
         NEW q \in RequestState, q.pc \in {"apple", "google", "scan"},
         q.ask = req[r].ask, q.pref = req[r].pref, RequestInv(q), Continue(r, q)
  PROVE  IInv'
<1>0. /\ TypeOK /\ UNCHANGED <<keys, stamped, tenant, rows, hist, audit, admin, crashes>>
      /\ req' = [req EXCEPT ![r] = q]
      /\ BarrierInv(r) /\ PreferenceInv(r) /\ AuditInv(r)
  BY DEF IInv, Continue, data, bounds
<1>1. req'[r] = q /\ \A u \in Requests : u # r => req'[u] = req[u]
  BY <1>0 DEF TypeOK
<1>2. TypeOK'
  BY <1>0 DEF TypeOK
<1>3. BarrierInv(r)' /\ PreferenceInv(r)'
  BY <1>0, <1>1 DEF BarrierInv, PreferenceInv, Authenticated, Serving
<1>4. AuditInv(r)'
  BY <1>0, <1>1 DEF AuditInv, Serving
<1> QED
  BY <1>0, <1>1, <1>2, <1>3, <1>4, OthersKeep DEF IInv

LEMMA RefuseIInv ==
  ASSUME IInv, NEW r \in Requests, req[r].pc \in {"key", "tenant", "limit"},
         NEW o \in Outcome, o.how # "returned", o.code \notin {"NOT_VOIDED", "VOIDED"},
         Refuse(r, o), UNCHANGED data
  PROVE  IInv'
<1> DEFINE q2 == [req[r] EXCEPT !.pc = "done", !.outcome = o]
<1>0. /\ TypeOK /\ UNCHANGED <<keys, stamped, tenant, rows, hist, audit, admin, crashes>>
      /\ req[r] \in RequestState
      /\ BarrierInv(r) /\ PreferenceInv(r) /\ AuditInv(r)
  BY DEF IInv, Refuse, data, bounds, TypeOK
<1>1. q2 \in RequestState /\ q2.pc = "done" /\ q2.outcome = o
  BY <1>0 DEF RequestState
<1>2. req' = [req EXCEPT ![r] = q2]
  BY <1>0 DEF Refuse, TypeOK
<1> HIDE DEF q2
<1>3. req'[r] = q2 /\ \A u \in Requests : u # r => req'[u] = req[u]
  BY <1>0, <1>2 DEF TypeOK
<1>4. TypeOK'
  BY <1>0, <1>1, <1>2 DEF TypeOK
<1>5. RequestInv(q2)
  <2>1. Honest(q2, o) /\ Conclusive(q2, o)
    BY ErrorsSayNothing
  <2> QED
    BY <1>1, <2>1 DEF RequestInv, Starting, Attempting, Scanning, Fresh
<1>6. BarrierInv(r)' /\ PreferenceInv(r)'
  BY <1>0, <1>1, <1>3 DEF BarrierInv, PreferenceInv, Authenticated, Serving
<1>7. AuditInv(r)'
  BY <1>0, <1>1, <1>3 DEF AuditInv
<1> QED
  BY <1>0, <1>3, <1>4, <1>5, <1>6, <1>7, OthersKeep DEF IInv

-----------------------------------------------------------------------------
(* Init, and the way through the middleware.                                 *)

LEMMA NewRequestInv ==
  /\ NewRequest \in RequestState /\ NewRequest.pc = "idle"
  /\ RequestInv(NewRequest)
<1>1. NewRequest \in RequestState
  BY LookupAssumption, OutcomeFacts
     DEF NewRequest, RequestState, Preference, NotLoaded
<1>2. Honest(NewRequest, NoOutcome) /\ Conclusive(NewRequest, NoOutcome)
  BY NothingSaidYet
<1> QED
  BY <1>1, <1>2 DEF NewRequest, RequestInv, Starting, Attempting, Scanning, Fresh

LEMMA InitIInv == Init => IInv
<1> SUFFICES ASSUME Init PROVE IInv
  OBVIOUS
<1>1. TypeOK
  <2>1. NoHistory \in [barred : BOOLEAN, reached : BOOLEAN, prefs : SUBSET Preference]
    BY DEF NoHistory
  <2>2. tenant \in [present : BOOLEAN, active : BOOLEAN, pref : Preference]
    BY DEF Init
  <2>3. << >> \in Seq(AuditRow)
    OBVIOUS
  <2> QED
    BY <2>1, <2>2, <2>3, NewRequestInv DEF Init, TypeOK
<1>2. ASSUME NEW r \in Requests
      PROVE  RequestInv(req[r]) /\ BarrierInv(r) /\ PreferenceInv(r) /\ AuditInv(r)
  <2>1. req[r] = NewRequest /\ audit[r] = "none" /\ rows[r] = << >> /\ hist[r] = NoHistory
    BY DEF Init
  <2> QED
    BY <2>1, NewRequestInv
       DEF BarrierInv, PreferenceInv, AuditInv, NoHistory, Authenticated, Serving
<1> QED BY <1>1, <1>2 DEF IInv

(* Request r moves on and the tables stay as they are.                       *)
LEMMA MoveIInv ==
  ASSUME IInv, NEW r \in Requests, NEW q \in RequestState, RequestInv(q),
         req' = [req EXCEPT ![r] = q], stamped' \in [Keys -> Nat],
         UNCHANGED <<keys, tenant, audit, rows, admin, crashes>>,
         NEW h \in [barred : BOOLEAN, reached : BOOLEAN, prefs : SUBSET Preference],
         hist' = [hist EXCEPT ![r] = h],
         BarrierInv(r)', PreferenceInv(r)', AuditInv(r)'
  PROVE  IInv'
<1>1. TypeOK
  BY DEF IInv
<1>2. TypeOK'
  BY <1>1 DEF TypeOK
<1>3. /\ req'[r] = q
      /\ \A u \in Requests : u # r => req'[u] = req[u] /\ hist'[u] = hist[u]
  BY <1>1 DEF TypeOK
<1>4. ASSUME NEW u \in Requests
      PROVE  RequestInv(req'[u]) /\ BarrierInv(u)' /\ PreferenceInv(u)' /\ AuditInv(u)'
  BY <1>3, OthersKeep
<1> QED BY <1>2, <1>4 DEF IInv

(* A step from one state before the stores to the next.                      *)
LEMMA FreshStep ==
  ASSUME NEW q \in RequestState, RequestInv(q), q.pc \in Fresh,
         NEW q2 \in RequestState, q2.pc \in Fresh, q2.outcome = q.outcome,
         q2.i = q.i, q2.denied = q.denied, q2.cursor = q.cursor, q2.read = q.read,
         q2.pages = q.pages
  PROVE  RequestInv(q2)
<1>1. q2.outcome = NoOutcome
  BY DEF RequestInv, Fresh
<1>2. Honest(q2, NoOutcome) /\ Conclusive(q2, NoOutcome)
  BY NothingSaidYet
<1> QED
  BY <1>1, <1>2 DEF RequestInv, Starting, Attempting, Scanning, Fresh

LEMMA ArriveIInv ==
  ASSUME IInv, NEW r \in Requests, NEW a \in Asks, NEW k \in Keys \cup {NoKey}, Arrive(r, a, k)
  PROVE  IInv'
<1> DEFINE bar == k = NoKey \/ keys[k] = "revoked" \/ ~tenant.present \/ ~tenant.active
           h == [barred |-> bar, reached |-> FALSE, prefs |-> {tenant.pref}]
<1>0. /\ TypeOK /\ UNCHANGED <<keys, stamped, tenant, rows, audit, admin, crashes>>
      /\ req[r] \in RequestState /\ req[r].pc = "idle" /\ RequestInv(req[r])
      /\ BarrierInv(r) /\ PreferenceInv(r) /\ AuditInv(r)
      /\ tenant.pref \in Preference /\ stamped' \in [Keys -> Nat]
  BY DEF IInv, Arrive, data, bounds, TypeOK
<1>1. bar \in BOOLEAN
  OBVIOUS
<1>2. /\ hist' = [hist EXCEPT ![r] = h]
      /\ h \in [barred : BOOLEAN, reached : BOOLEAN, prefs : SUBSET Preference]
      /\ ~h.reached /\ h.barred = bar /\ h.prefs = {tenant.pref}
  BY <1>0, <1>1 DEF Arrive
<1> HIDE DEF h
<1>3. hist'[r] = h
  BY <1>0, <1>2 DEF TypeOK
<1>4. audit[r] = "none" /\ rows[r] = << >>
  BY <1>0 DEF AuditInv
<1>5. CASE k = NoKey
  <2> DEFINE o == AppError("UNAUTHENTICATED")
             q == [req[r] EXCEPT !.pc = "done", !.outcome = o]
  <2>1. o \in Outcome /\ o.how # "returned" /\ o.code \notin {"NOT_VOIDED", "VOIDED"}
    BY OutcomeFacts DEF AppError, Codes
  <2> HIDE DEF o
  <2>2. q \in RequestState /\ q.pc = "done" /\ q.outcome = o
    BY <1>0, <2>1 DEF RequestState
  <2>3. req' = [req EXCEPT ![r] = q]
    BY <1>0, <1>5 DEF Arrive, TypeOK, o
  <2> HIDE DEF q
  <2>4. req'[r] = q
    BY <1>0, <2>3 DEF TypeOK
  <2>5. RequestInv(q)
    BY <2>1, <2>2, ErrorsSayNothing DEF RequestInv, Starting, Attempting, Scanning, Fresh
  <2>6. BarrierInv(r)' /\ PreferenceInv(r)' /\ AuditInv(r)'
    BY <1>0, <1>2, <1>3, <1>4, <2>2, <2>4
       DEF BarrierInv, PreferenceInv, AuditInv, Authenticated, Serving
  <2> QED
    BY <1>0, <1>2, <2>2, <2>3, <2>5, <2>6, MoveIInv
<1>6. CASE k # NoKey
  <2> DEFINE q == [req[r] EXCEPT !.pc = "key", !.ask = a, !.key = k]
  <2>1. /\ q \in RequestState /\ q.pc = "key" /\ q.key = k /\ q.outcome = req[r].outcome
        /\ q.i = req[r].i /\ q.denied = req[r].denied /\ q.cursor = req[r].cursor
        /\ q.read = req[r].read /\ q.pages = req[r].pages
    BY <1>0 DEF RequestState
  <2>2. req' = [req EXCEPT ![r] = q]
    BY <1>0, <1>6 DEF Arrive, TypeOK
  <2> HIDE DEF q
  <2>3. req'[r] = q
    BY <1>0, <2>2 DEF TypeOK
  <2>4. RequestInv(q)
    BY <1>0, <2>1, FreshStep DEF Fresh
  <2>5. BarrierInv(r)' /\ PreferenceInv(r)' /\ AuditInv(r)'
    BY <1>0, <1>2, <1>3, <1>4, <1>6, <2>1, <2>3
       DEF BarrierInv, PreferenceInv, AuditInv, Authenticated, Serving
  <2> QED
    BY <1>0, <1>2, <2>1, <2>2, <2>4, <2>5, MoveIInv
<1> QED BY <1>5, <1>6

(* The three steps of the middleware that let a request pass.                *)
LEMMA PassIInv ==
  ASSUME IInv, NEW r \in Requests, NEW q \in RequestState,
         req' = [req EXCEPT ![r] = q], stamped' \in [Keys -> Nat],
         UNCHANGED <<keys, tenant, audit, rows, hist, admin, crashes>>,
         req[r].pc \in {"key", "tenant", "touch"}, q.pc \in {"tenant", "touch", "limit"},
         q.key = req[r].key, q.ask = req[r].ask, q.outcome = req[r].outcome,
         q.i = req[r].i, q.denied = req[r].denied, q.cursor = req[r].cursor,
         q.read = req[r].read, q.pages = req[r].pages,
         BarrierInv(r)', PreferenceInv(r)'
  PROVE  IInv'
<1>0. /\ TypeOK /\ req[r] \in RequestState /\ RequestInv(req[r]) /\ AuditInv(r)
  BY DEF IInv, TypeOK
<1>1. RequestInv(q)
  BY <1>0, FreshStep DEF Fresh
<1>2. req'[r] = q
  BY <1>0 DEF TypeOK
<1>3. AuditInv(r)'
  BY <1>0, <1>2 DEF AuditInv
<1>4. hist' = [hist EXCEPT ![r] = hist[r]]
      /\ hist[r] \in [barred : BOOLEAN, reached : BOOLEAN, prefs : SUBSET Preference]
  BY <1>0 DEF TypeOK
<1> QED
  BY <1>1, <1>3, <1>4, MoveIInv

LEMMA FindKeyIInv ==
  ASSUME IInv, NEW r \in Requests, FindKey(r)
  PROVE  IInv'
<1>0. /\ TypeOK /\ req[r] \in RequestState /\ req[r].pc = "key" /\ UNCHANGED data
      /\ BarrierInv(r) /\ PreferenceInv(r)
  BY DEF IInv, FindKey, TypeOK
<1>1. CASE FindActiveKeyByHash(req[r].key)
  <2> DEFINE q == [req[r] EXCEPT !.pc = "tenant"]
  <2>1. /\ q \in RequestState /\ q.pc = "tenant" /\ q.key = req[r].key /\ q.ask = req[r].ask
        /\ q.outcome = req[r].outcome /\ q.i = req[r].i /\ q.denied = req[r].denied
        /\ q.cursor = req[r].cursor /\ q.read = req[r].read /\ q.pages = req[r].pages
    BY <1>0 DEF RequestState
  <2>2. /\ req' = [req EXCEPT ![r] = q]
        /\ UNCHANGED <<keys, stamped, tenant, audit, rows, hist, admin, crashes>>
        /\ stamped' \in [Keys -> Nat]
    BY <1>0, <1>1 DEF FindKey, TypeOK, data, bounds
  <2> HIDE DEF q
  <2>3. req'[r] = q
    BY <1>0, <2>2 DEF TypeOK
  <2>4. BarrierInv(r)' /\ PreferenceInv(r)'
    BY <1>0, <1>1, <2>1, <2>2, <2>3
       DEF BarrierInv, PreferenceInv, FindActiveKeyByHash, Authenticated, Serving
  <2> QED
    BY <1>0, <2>1, <2>2, <2>4, PassIInv
<1>2. CASE ~FindActiveKeyByHash(req[r].key)
  <2>1. /\ AppError("UNAUTHENTICATED") \in Outcome /\ AppError("UNAUTHENTICATED").how # "returned"
        /\ AppError("UNAUTHENTICATED").code \notin {"NOT_VOIDED", "VOIDED"}
    BY OutcomeFacts DEF AppError, Codes
  <2> QED
    BY <1>0, <1>2, <2>1, RefuseIInv DEF FindKey
<1> QED BY <1>1, <1>2

LEMMA GetTenantIInv ==
  ASSUME IInv, NEW r \in Requests, GetTenant(r)
  PROVE  IInv'
<1>0. /\ TypeOK /\ req[r] \in RequestState /\ req[r].pc = "tenant" /\ UNCHANGED data
      /\ BarrierInv(r) /\ PreferenceInv(r)
  BY DEF IInv, GetTenant, TypeOK
<1>1. CASE tenant.present /\ tenant.active
  <2> DEFINE q == [req[r] EXCEPT !.pc = "touch", !.pref = tenant.pref]
  <2>1. /\ q \in RequestState /\ q.pc = "touch" /\ q.key = req[r].key /\ q.ask = req[r].ask
        /\ q.outcome = req[r].outcome /\ q.i = req[r].i /\ q.denied = req[r].denied
        /\ q.cursor = req[r].cursor /\ q.read = req[r].read /\ q.pages = req[r].pages
        /\ q.pref = tenant.pref
    BY <1>0 DEF RequestState, TypeOK
  <2>2. /\ req' = [req EXCEPT ![r] = q]
        /\ UNCHANGED <<keys, stamped, tenant, audit, rows, hist, admin, crashes>>
        /\ stamped' \in [Keys -> Nat]
    BY <1>0, <1>1 DEF GetTenant, TypeOK, data, bounds
  <2> HIDE DEF q
  <2>3. req'[r] = q
    BY <1>0, <2>2 DEF TypeOK
  <2>4. BarrierInv(r)' /\ PreferenceInv(r)'
    BY <1>0, <1>1, <2>1, <2>2, <2>3
       DEF BarrierInv, PreferenceInv, Authenticated, Serving
  <2> QED
    BY <1>0, <2>1, <2>2, <2>4, PassIInv
<1>2. CASE ~(tenant.present /\ tenant.active)
  <2>1. /\ AppError("UNAUTHENTICATED") \in Outcome /\ AppError("UNAUTHENTICATED").how # "returned"
        /\ AppError("UNAUTHENTICATED").code \notin {"NOT_VOIDED", "VOIDED"}
    BY OutcomeFacts DEF AppError, Codes
  <2> QED
    BY <1>0, <1>2, <2>1, RefuseIInv DEF GetTenant
<1> QED BY <1>1, <1>2

LEMMA AuthThrowsIInv ==
  ASSUME IInv, NEW r \in Requests, AuthThrows(r)
  PROVE  IInv'
<1>1. /\ OtherError \in Outcome /\ OtherError.how # "returned"
      /\ OtherError.code \notin {"NOT_VOIDED", "VOIDED"}
  BY OutcomeFacts DEF OtherError, Null
<1> QED
  BY <1>1, RefuseIInv DEF AuthThrows

LEMMA TouchLastUsedIInv ==
  ASSUME IInv, NEW r \in Requests, TouchLastUsed(r)
  PROVE  IInv'
<1> DEFINE q == [req[r] EXCEPT !.pc = "limit"]
<1>0. /\ TypeOK /\ req[r] \in RequestState /\ req[r].pc = "touch"
      /\ BarrierInv(r) /\ PreferenceInv(r)
      /\ UNCHANGED <<keys, tenant, audit, rows, hist, admin, crashes>>
      /\ req[r].key \in Keys
  BY DEF IInv, TouchLastUsed, TypeOK, BarrierInv, bounds
<1>1. /\ q \in RequestState /\ q.pc = "limit" /\ q.key = req[r].key /\ q.ask = req[r].ask
      /\ q.outcome = req[r].outcome /\ q.i = req[r].i /\ q.denied = req[r].denied
      /\ q.cursor = req[r].cursor /\ q.read = req[r].read /\ q.pages = req[r].pages
      /\ q.pref = req[r].pref
  BY <1>0 DEF RequestState
<1>2. req' = [req EXCEPT ![r] = q]
  BY <1>0 DEF TouchLastUsed, TypeOK
<1> HIDE DEF q
<1>3. req'[r] = q
  BY <1>0, <1>2 DEF TypeOK
<1>4. stamped' \in [Keys -> Nat]
  <2>1. Stamped(req[r].key) \in [Keys -> Nat]
    BY <1>0 DEF Stamped, TypeOK
  <2> QED BY <1>0, <2>1 DEF TouchLastUsed, TypeOK
<1>5. BarrierInv(r)' /\ PreferenceInv(r)'
  BY <1>0, <1>1, <1>3 DEF BarrierInv, PreferenceInv, Authenticated, Serving
<1> QED
  BY <1>0, <1>1, <1>2, <1>4, <1>5, PassIInv

LEMMA AdmitIInv ==
  ASSUME IInv, NEW r \in Requests, Admit(r)
  PROVE  IInv'
<1>0. /\ TypeOK /\ req[r] \in RequestState /\ req[r].pc = "limit" /\ UNCHANGED data
      /\ RequestInv(req[r]) /\ BarrierInv(r) /\ PreferenceInv(r) /\ AuditInv(r)
  BY DEF IInv, Admit, TypeOK
<1>1. \A c \in {"RATE_LIMITED", "INVALID_REQUEST"} :
        /\ AppError(c) \in Outcome /\ AppError(c).how # "returned"
        /\ AppError(c).code \notin {"NOT_VOIDED", "VOIDED"}
  BY OutcomeFacts DEF AppError, Codes
<1>2. CASE Refuse(r, AppError("RATE_LIMITED"))
  BY <1>0, <1>1, <1>2, RefuseIInv
<1>3. CASE Refuse(r, AppError("INVALID_REQUEST"))
  BY <1>0, <1>1, <1>3, RefuseIInv
<1>4. CASE /\ req' = [req EXCEPT ![r].pc = "load"]
           /\ hist' = [hist EXCEPT ![r].reached = TRUE]
           /\ UNCHANGED <<audit, rows, bounds>>
  <2> DEFINE q == [req[r] EXCEPT !.pc = "load"]
             h == [hist[r] EXCEPT !.reached = TRUE]
  <2>1. /\ q \in RequestState /\ q.pc = "load" /\ q.key = req[r].key /\ q.ask = req[r].ask
        /\ q.outcome = req[r].outcome /\ q.i = req[r].i /\ q.denied = req[r].denied
        /\ q.cursor = req[r].cursor /\ q.read = req[r].read /\ q.pages = req[r].pages
        /\ q.pref = req[r].pref
    BY <1>0 DEF RequestState
  <2>2. /\ h \in [barred : BOOLEAN, reached : BOOLEAN, prefs : SUBSET Preference]
        /\ h.barred = hist[r].barred /\ h.reached /\ h.prefs = hist[r].prefs
    BY <1>0 DEF TypeOK
  <2>3. /\ req' = [req EXCEPT ![r] = q] /\ hist' = [hist EXCEPT ![r] = h]
        /\ UNCHANGED <<keys, stamped, tenant, audit, rows, admin, crashes>>
        /\ stamped' \in [Keys -> Nat]
    BY <1>0, <1>4 DEF TypeOK, data, bounds
  <2> HIDE DEF q, h
  <2>4. req'[r] = q /\ hist'[r] = h
    BY <1>0, <2>3 DEF TypeOK
  <2>5. RequestInv(q)
    BY <1>0, <2>1, FreshStep DEF Fresh
  <2>6. BarrierInv(r)' /\ PreferenceInv(r)' /\ AuditInv(r)'
    BY <1>0, <2>1, <2>2, <2>3, <2>4
       DEF BarrierInv, PreferenceInv, AuditInv, Authenticated, Serving
  <2> QED
    BY <1>0, <2>1, <2>2, <2>3, <2>5, <2>6, MoveIInv
<1> QED
  BY <1>2, <1>3, <1>4 DEF Admit

-----------------------------------------------------------------------------
(* The handlers up to their first call to a store.                           *)

(* An error ends a lookup.                                                   *)
LEMMA ErrorIInv ==
  ASSUME IInv, NEW r \in Requests, req[r].pc \in Serving,
         NEW q \in RequestState, q.ask = req[r].ask, q.pref = req[r].pref,
         NEW o \in Outcome, o.how # "returned", o.code \notin {"NOT_VOIDED", "VOIDED"},
         Finish(r, o, q)
  PROVE  IInv'
BY ErrorsSayNothing, FinishIInv

LEMMA ErrorFacts ==
  /\ OtherError \in Outcome /\ OtherError.how # "returned"
  /\ OtherError.code \notin {"NOT_VOIDED", "VOIDED"}
  /\ \A c \in {"CREDENTIALS_MISSING", "APPLE_API_ERROR", "GOOGLE_API_ERROR", "RATE_LIMITED"} :
       /\ AppError(c) \in Outcome /\ AppError(c).how # "returned"
       /\ AppError(c).code \notin {"NOT_VOIDED", "VOIDED"}
BY OutcomeFacts DEF OtherError, Null, AppError, Codes

LEMMA LoadFailsIInv ==
  ASSUME IInv, NEW r \in Requests, LoadFails(r)
  PROVE  IInv'
<1>0. req[r] \in RequestState /\ req[r].pc \in Serving
  BY DEF IInv, LoadFails, TypeOK, Serving
<1>1. Finish(r, OtherError, req[r]) \/ Finish(r, AppError("CREDENTIALS_MISSING"), req[r])
  BY DEF LoadFails
<1> QED
  BY <1>0, <1>1, ErrorFacts, ErrorIInv

LEMMA StartAppleLookupIInv ==
  ASSUME IInv, NEW r \in Requests, StartAppleLookup(r)
  PROVE  IInv'
<1>0. /\ req[r] \in RequestState /\ req[r].pc = "load" /\ RequestInv(req[r])
      /\ req[r].ask.kind \in AppleKinds
  BY DEF IInv, StartAppleLookup, TypeOK
<1>1. PICK c \in Creds :
        LET q == [req[r] EXCEPT !.creds = c]
        IN  IF RequiresProductionAppAppleId(EnvironmentsOf(q), c.appAppleId)
            THEN Finish(r, AppError("CREDENTIALS_MISSING"), q)
            ELSE Continue(r, [q EXCEPT !.pc = "apple"])
  BY DEF StartAppleLookup
<1> DEFINE q == [req[r] EXCEPT !.creds = c]
           q2 == [q EXCEPT !.pc = "apple"]
<1>2. q \in RequestState /\ q.ask = req[r].ask /\ q.pref = req[r].pref
  BY <1>0 DEF RequestState
<1>3. /\ q2 \in RequestState /\ q2.ask = req[r].ask /\ q2.pref = req[r].pref /\ q2.pc = "apple"
      /\ q2.creds = c /\ q2.i = req[r].i /\ q2.outcome = req[r].outcome
  BY <1>0 DEF RequestState
<1>4. Finish(r, AppError("CREDENTIALS_MISSING"), q) \/ Continue(r, q2)
  BY <1>1
<1> HIDE DEF q, q2
<1>5. RequestInv(q2)
  <2>1. q2.i = 1 /\ q2.outcome = NoOutcome
    BY <1>0, <1>3 DEF RequestInv, Starting, Fresh
  <2>2. Honest(q2, NoOutcome) /\ Conclusive(q2, NoOutcome)
    BY NothingSaidYet
  <2>3. Attempting(q2)
    BY <1>0, <1>3, <2>1, EnvironmentFacts DEF Attempting
  <2> QED
    BY <1>3, <2>1, <2>2, <2>3 DEF RequestInv, Starting, Scanning, Fresh
<1>6. CASE Finish(r, AppError("CREDENTIALS_MISSING"), q)
  BY <1>0, <1>2, <1>6, ErrorFacts, ErrorIInv DEF Serving
<1>7. CASE Continue(r, q2)
  BY <1>0, <1>3, <1>5, <1>7, ContinueIInv DEF Serving
<1> QED BY <1>4, <1>6, <1>7

(* A package that is not the tenant's says nothing of the purchase.          *)
LEMMA PackageMismatchIInv ==
  ASSUME IInv, NEW r \in Requests, req[r].pc \in Serving,
         req[r].ask.kind \notin AppleKinds, PackageMismatch(r)
  PROVE  IInv'
<1> DEFINE o == Returned("PACKAGE_NAME_MISMATCH", Null)
<1>1. o \in Outcome /\ o.code = "PACKAGE_NAME_MISMATCH"
  BY OutcomeFacts DEF Returned, Codes
<1>2. req[r] \in RequestState
  BY DEF IInv, TypeOK
<1>3. Honest(req[r], o) /\ Conclusive(req[r], o)
  BY <1>1 DEF Honest, Conclusive
<1> QED
  BY <1>1, <1>2, <1>3, FinishIInv DEF PackageMismatch

(* The first call to Google's stores.                                        *)
LEMMA StartGoogleIInv ==
  ASSUME IInv, NEW r \in Requests, req[r].pc = "load", NEW to \in {"google", "scan"},
         to = "google" => req[r].ask.kind \in GoogleKinds,
         to = "scan" => req[r].ask.kind \in ScanKinds,
         Continue(r, [req[r] EXCEPT !.pc = to])
  PROVE  IInv'
<1> DEFINE q == [req[r] EXCEPT !.pc = to]
<1>0. req[r] \in RequestState /\ RequestInv(req[r])
  BY DEF IInv, TypeOK
<1>1. /\ q \in RequestState /\ q.ask = req[r].ask /\ q.pref = req[r].pref /\ q.pc = to
      /\ q.cursor = req[r].cursor /\ q.read = req[r].read /\ q.pages = req[r].pages
      /\ q.outcome = req[r].outcome /\ Continue(r, q)
  BY <1>0 DEF RequestState
<1> HIDE DEF q
<1>2. q.outcome = NoOutcome /\ q.cursor = 1 /\ q.read = {} /\ q.pages = 0
  BY <1>0, <1>1 DEF RequestInv, Starting, Fresh
<1>3. Honest(q, NoOutcome) /\ Conclusive(q, NoOutcome)
  BY NothingSaidYet
<1>4. 1 \in DOMAIN q.ask.list.next
  BY <1>1, AskFacts DEF RequestState
<1>5. RequestInv(q)
  BY <1>1, <1>2, <1>3, <1>4, LookupAssumption
     DEF RequestInv, Starting, Attempting, Scanning, Fresh
<1> QED
  BY <1>1, <1>5, ContinueIInv DEF Serving

LEMMA StartGoogleLookupIInv ==
  ASSUME IInv, NEW r \in Requests, StartGoogleLookup(r)
  PROVE  IInv'
<1>1. /\ req[r].pc = "load" /\ req[r].ask.kind \in GoogleKinds
      /\ PackageMismatch(r) \/ Continue(r, [req[r] EXCEPT !.pc = "google"])
  BY DEF StartGoogleLookup
<1>2. req[r].ask.kind \notin AppleKinds
  BY <1>1 DEF GoogleKinds, AppleKinds
<1> QED
  BY <1>1, <1>2, PackageMismatchIInv, StartGoogleIInv DEF Serving

LEMMA PrepareVoidedIInv ==
  ASSUME IInv, NEW r \in Requests, PrepareVoided(r)
  PROVE  IInv'
<1>1. /\ req[r].pc = "load" /\ req[r].ask.kind \in ScanKinds
      /\ PackageMismatch(r) \/ Continue(r, [req[r] EXCEPT !.pc = "scan"])
  BY DEF PrepareVoided
<1>2. req[r].ask.kind \notin AppleKinds
  BY <1>1 DEF ScanKinds, AppleKinds
<1> QED
  BY <1>1, <1>2, PackageMismatchIInv, StartGoogleIInv DEF Serving

-----------------------------------------------------------------------------
(* Apple: what an attempt learns about the environment it tried.             *)

AppleGot(q, e, answer) ==
  IF q.ask.kind = "appleVerify" THEN GetTransaction(q, e, answer)
  ELSE GetSubscriptionStatuses(q, e, answer)

LEMMA AttemptTells ==
  ASSUME NEW q, q.ask.kind \in AppleKinds, NEW e, NEW answer \in AppleAnswers(q, e)
  PROVE  /\ AppleGot(q, e, answer) = "found" => q.ask.home = e
         /\ AppleGot(q, e, answer) = "notFound" => q.ask.home # e
<1>1. CASE q.ask.home = e
  <2>1. answer \in {"401", "404", "5xx", "timeout", "bad json", "200", "200 no jws", "200 bad jws"}
    BY <1>1 DEF AppleAnswers
  <2>2. AppleGet(answer) # "notFound" /\ VerifyJws(answer) \notin {"empty", "notFound"}
    BY <2>1 DEF AppleGet, VerifyJws
  <2>3. AppleGot(q, e, answer) # "notFound"
    BY <2>2 DEF AppleGot, GetTransaction, GetSubscriptionStatuses
  <2> QED BY <1>1, <2>3
<1>2. CASE q.ask.home # e
  <2>1. \/ answer \in {"401", "404", "5xx", "timeout", "bad json",
                       "404/4040010", "404/4040005", "400/4000006"}
        \/ answer = "200 empty" /\ q.ask.kind # "appleVerify"
    BY <1>2 DEF AppleAnswers
  <2>2. CASE answer = "200 empty" /\ q.ask.kind # "appleVerify"
    <3>1. AppleGet(answer) = "body" /\ VerifyJws(answer) = "empty"
      BY <2>2 DEF AppleGet, VerifyJws
    <3> QED BY <1>2, <2>2, <3>1 DEF AppleGot, GetSubscriptionStatuses
  <2>3. CASE answer # "200 empty"
    <3>1. AppleGet(answer) \notin {"body", "found"}
      BY <2>1, <2>3 DEF AppleGet
    <3> QED BY <1>2, <3>1 DEF AppleGot, GetTransaction, GetSubscriptionStatuses
  <2> QED BY <2>1, <2>2, <2>3
<1> QED BY <1>1, <1>2

LEMMA AttemptEnvironmentIInv ==
  ASSUME IInv, NEW r \in Requests, AttemptEnvironment(r)
  PROVE  IInv'
<1> DEFINE q == req[r]
           envs == EnvironmentsOf(q)
           e == envs[q.i]
           On1(d) == [q EXCEPT !.i = @ + 1, !.denied = d]
<1>0. /\ q \in RequestState /\ q.pc = "apple" /\ q.pc \in Serving /\ RequestInv(q)
  BY DEF IInv, AttemptEnvironment, TypeOK, Serving
<1>1. /\ q.ask.kind \in AppleKinds /\ q.creds \in Creds /\ q.i \in 1 .. Len(envs)
      /\ \A n \in 1 .. (q.i - 1) : q.ask.home = envs[n] => envs[n] \in q.denied
      /\ q.outcome = NoOutcome
  BY <1>0 DEF RequestInv, Attempting
<1>2. /\ Len(envs) \in Nat /\ e \in Environments
  BY <1>0, <1>1, EnvironmentFacts
<1>3. PICK answer \in AppleAnswers(q, e) :
        \/ /\ AppleGot(q, e, answer) = "found"
           /\ \E o \in IF q.ask.kind = "appleVerify"
                       THEN {VerifyAppleTransaction(e, q.creds.mine)}
                       ELSE AppleStatusResults(e, q.creds.mine) : Finish(r, o, q)
        \/ AppleGot(q, e, answer) = "notFound" /\ ~IsLast(q) /\ Continue(r, On1(q.denied))
        \/ AppleGot(q, e, answer) = "notFound" /\ IsLast(q)
             /\ Finish(r, Returned(NotFoundCode(q.ask.kind), Null), q)
        \/ AppleGot(q, e, answer) = "denied" /\ ~IsLast(q) /\ Continue(r, On1(q.denied \cup {e}))
        \/ Finish(r, AppError("APPLE_API_ERROR"), q)
        \/ Finish(r, OtherError, q)
  BY DEF AttemptEnvironment, AppleGot
<1>4. /\ AppleGot(q, e, answer) = "found" => q.ask.home = e
      /\ AppleGot(q, e, answer) = "notFound" => q.ask.home # e
  BY <1>1, AttemptTells
<1>5. NotFoundCode(q.ask.kind) \in {"TRANSACTION_NOT_FOUND", "SUBSCRIPTION_NOT_FOUND"}
  BY <1>1 DEF NotFoundCode, AppleKinds
<1>6. q.ask.kind \notin GoogleKinds
  BY <1>1 DEF AppleKinds, GoogleKinds
<1>7. CASE /\ AppleGot(q, e, answer) = "found"
           /\ \E o \in IF q.ask.kind = "appleVerify"
                       THEN {VerifyAppleTransaction(e, q.creds.mine)}
                       ELSE AppleStatusResults(e, q.creds.mine) : Finish(r, o, q)
  <2>1. PICK o : /\ Finish(r, o, q)
                 /\ \/ o = Returned("VALID", e)
                    \/ o = Returned("BUNDLE_ID_MISMATCH", Null) /\ ~q.creds.mine
    BY <1>7 DEF VerifyAppleTransaction, AppleStatusResults
  <2>2. /\ o \in Outcome /\ o.code \in {"VALID", "BUNDLE_ID_MISMATCH"}
        /\ o.code = "VALID" => o.where = e
        /\ o.code = "BUNDLE_ID_MISMATCH" => ~q.creds.mine
    BY <1>2, <2>1, OutcomeFacts DEF Returned, Codes, Positive
  <2>3. Valid(o) => o.code = "VALID"
    BY <2>2 DEF Valid, Positive
  <2>4. Honest(q, o) /\ Conclusive(q, o)
    BY <1>2, <1>4, <1>5, <1>6, <1>7, <2>2, <2>3 DEF Honest, Conclusive
  <2> QED
    BY <1>0, <2>1, <2>2, <2>4, FinishIInv
<1>8. CASE /\ AppleGot(q, e, answer) = "notFound" /\ IsLast(q)
           /\ Finish(r, Returned(NotFoundCode(q.ask.kind), Null), q)
  <2> DEFINE o == Returned(NotFoundCode(q.ask.kind), Null)
  <2>1. o \in Outcome /\ o.code = NotFoundCode(q.ask.kind) /\ ~Valid(o)
    BY <1>5, OutcomeFacts DEF Returned, Codes, Valid, Positive
  <2> HIDE DEF o
  <2>2. ASSUME NEW n \in 1 .. Len(envs), q.ask.home = envs[n]
        PROVE  n < Len(envs) /\ envs[n] \in q.denied
    BY <1>1, <1>2, <1>4, <1>8, <2>2 DEF IsLast
  <2>3. Honest(q, o)
    BY <1>5, <1>6, <2>1, <2>2 DEF Honest
  <2>4. Conclusive(q, o)
    BY <1>5, <2>1 DEF Conclusive
  <2> QED
    BY <1>0, <1>8, <2>1, <2>3, <2>4, FinishIInv DEF o
<1>9. ASSUME NEW d \in SUBSET Environments, ~IsLast(q), Continue(r, On1(d)), q.denied \subseteq d,
             q.ask.home = e => e \in d
      PROVE  IInv'
  <2> DEFINE q2 == On1(d)
  <2>1. /\ q2 \in RequestState /\ q2.pc = "apple" /\ q2.ask = q.ask /\ q2.pref = q.pref
        /\ q2.creds = q.creds /\ q2.i = q.i + 1 /\ q2.denied = d /\ q2.outcome = NoOutcome
    <3> DEFINE n == q.i + 1
    <3>1. n \in Nat
      BY <1>0 DEF RequestState
    <3>2. q2 = [q EXCEPT !.i = n, !.denied = d]
      OBVIOUS
    <3> HIDE DEF n
    <3>3. /\ q2 \in RequestState /\ q2.pc = q.pc /\ q2.ask = q.ask /\ q2.pref = q.pref
          /\ q2.creds = q.creds /\ q2.i = n /\ q2.denied = d /\ q2.outcome = q.outcome
      BY <1>0, <1>9, <3>1, <3>2 DEF RequestState
    <3> QED BY <1>0, <1>1, <3>3 DEF n
  <2>2. Continue(r, q2)
    BY <1>9
  <2> HIDE DEF q2
  <2>3. EnvironmentsOf(q2) = envs
    BY <2>1 DEF EnvironmentsOf
  <2>4. q2.i \in 1 .. Len(envs)
    BY <1>1, <1>2, <1>9, <2>1 DEF IsLast
  <2>5. ASSUME NEW n \in 1 .. (q2.i - 1), q.ask.home = envs[n] PROVE envs[n] \in d
    BY <1>1, <1>2, <1>9, <2>1, <2>5
  <2>6. Attempting(q2)
    BY <1>1, <2>1, <2>3, <2>4, <2>5 DEF Attempting
  <2>7. Honest(q2, NoOutcome) /\ Conclusive(q2, NoOutcome)
    BY NothingSaidYet
  <2>8. RequestInv(q2)
    BY <2>1, <2>6, <2>7 DEF RequestInv, Starting, Scanning, Fresh
  <2> QED
    BY <1>0, <2>1, <2>2, <2>8, ContinueIInv
<1>10. CASE AppleGot(q, e, answer) = "notFound" /\ ~IsLast(q) /\ Continue(r, On1(q.denied))
  <2>1. q.denied \in SUBSET Environments
    BY <1>0 DEF RequestState
  <2> QED BY <1>4, <1>9, <1>10, <2>1
<1>11. CASE ~IsLast(q) /\ Continue(r, On1(q.denied \cup {e}))
  <2>1. q.denied \cup {e} \in SUBSET Environments
    BY <1>0, <1>2 DEF RequestState
  <2> QED BY <1>9, <1>11, <2>1
<1>12. CASE Finish(r, AppError("APPLE_API_ERROR"), q) \/ Finish(r, OtherError, q)
  BY <1>0, <1>12, ErrorFacts, ErrorIInv
<1> QED BY <1>3, <1>7, <1>8, <1>10, <1>11, <1>12

-----------------------------------------------------------------------------
(* Google: one GET, the report and the scan.                                 *)

LEMMA FaultFacts ==
  /\ PlayFaults = {"limited", "fault", "garbled"}
  /\ PlayGet("200") = "found" /\ PlayGet("404") = "notFound" /\ PlayGet("410") = "notFound"
  /\ \A f \in PlayFaults \cup {"notFound"} :
       /\ Rethrow(f) \in {AppError("RATE_LIMITED"), AppError("GOOGLE_API_ERROR"), OtherError}
       /\ f # "notFound" =>
            MapGoogleApiError(f) \in {AppError("RATE_LIMITED"), AppError("GOOGLE_API_ERROR"), OtherError}
BY DEF PlayFaults, PlayGet, Rethrow, MapGoogleApiError

LEMMA GoogleGetIInv ==
  ASSUME IInv, NEW r \in Requests, GoogleGet(r)
  PROVE  IInv'
<1> DEFINE q == req[r]
<1>0. /\ q \in RequestState /\ q.pc = "google" /\ q.pc \in Serving /\ RequestInv(q)
  BY DEF IInv, GoogleGet, TypeOK, Serving
<1>1. q.ask.kind \in GoogleKinds /\ q.ask.kind \notin AppleKinds
  BY <1>0 DEF RequestInv, GoogleKinds, AppleKinds
<1>2. NotFoundCode(q.ask.kind) \in {"PURCHASE_NOT_FOUND", "SUBSCRIPTION_NOT_FOUND"}
  BY <1>1 DEF NotFoundCode, GoogleKinds
<1>3. \/ q.ask.home = "play" /\ Finish(r, Returned("VALID", Null), q)
      \/ q.ask.home # "play" /\ Finish(r, Returned(NotFoundCode(q.ask.kind), Null), q)
      \/ \E f \in PlayFaults : Finish(r, MapGoogleApiError(f), q)
  BY FaultFacts DEF GoogleGet
<1>4. CASE q.ask.home = "play" /\ Finish(r, Returned("VALID", Null), q)
  <2> DEFINE o == Returned("VALID", Null)
  <2>1. o \in Outcome /\ o.code = "VALID" /\ Valid(o)
    BY OutcomeFacts DEF Returned, Codes, Valid, Positive
  <2>2. Honest(q, o) /\ Conclusive(q, o)
    BY <1>1, <1>4, <2>1 DEF Honest, Conclusive
  <2> QED BY <1>0, <1>4, <2>1, <2>2, FinishIInv
<1>5. CASE q.ask.home # "play" /\ Finish(r, Returned(NotFoundCode(q.ask.kind), Null), q)
  <2> DEFINE o == Returned(NotFoundCode(q.ask.kind), Null)
  <2>1. o \in Outcome /\ o.code = NotFoundCode(q.ask.kind) /\ ~Valid(o)
    BY <1>2, OutcomeFacts DEF Returned, Codes, Valid, Positive
  <2> HIDE DEF o
  <2>2. Honest(q, o) /\ Conclusive(q, o)
    BY <1>1, <1>2, <1>5, <2>1 DEF Honest, Conclusive
  <2> QED BY <1>0, <1>5, <2>1, <2>2, FinishIInv DEF o
<1>6. CASE \E f \in PlayFaults : Finish(r, MapGoogleApiError(f), q)
  <2>1. \E o \in {AppError("RATE_LIMITED"), AppError("GOOGLE_API_ERROR"), OtherError} : Finish(r, o, q)
    BY <1>6, FaultFacts
  <2> QED BY <1>0, <2>1, ErrorFacts, ErrorIInv
<1> QED BY <1>3, <1>4, <1>5, <1>6

LEMMA ListVoidedPurchasesIInv ==
  ASSUME IInv, NEW r \in Requests, ListVoidedPurchases(r)
  PROVE  IInv'
<1> DEFINE q == req[r]
<1>0. /\ q \in RequestState /\ q.pc \in Serving
      /\ q.ask.kind \notin AppleKinds /\ q.ask.kind \notin GoogleKinds
  BY DEF IInv, ListVoidedPurchases, TypeOK, Serving, AppleKinds, GoogleKinds
<1>1. \E o \in {Returned("VALID", Null), AppError("RATE_LIMITED"), AppError("GOOGLE_API_ERROR"), OtherError} :
        Finish(r, o, q)
  BY FaultFacts DEF ListVoidedPurchases
<1>2. CASE Finish(r, Returned("VALID", Null), q)
  <2> DEFINE o == Returned("VALID", Null)
  <2>1. o \in Outcome /\ o.code = "VALID"
    BY OutcomeFacts DEF Returned, Codes, Positive
  <2>2. Honest(q, o) /\ Conclusive(q, o)
    BY <1>0, <2>1 DEF Honest, Conclusive
  <2> QED BY <1>0, <1>2, <2>1, <2>2, FinishIInv
<1>3. CASE \E o \in {AppError("RATE_LIMITED"), AppError("GOOGLE_API_ERROR"), OtherError} : Finish(r, o, q)
  BY <1>0, <1>3, ErrorFacts, ErrorIInv
<1> QED BY <1>1, <1>2, <1>3

LEMMA FindVoidedPurchaseIInv ==
  ASSUME IInv, NEW r \in Requests, FindVoidedPurchase(r)
  PROVE  IInv'
<1> DEFINE q == req[r]
           list == q.ask.list
           q2 == PageRead(q)
           q3 == [q2 EXCEPT !.cursor = list.next[q.cursor]]
           After(late) == AfterPage(list.next[q.cursor], q.cursor, q2.pages, late)
<1>0. /\ q \in RequestState /\ q.pc = "scan" /\ q.pc \in Serving /\ RequestInv(q)
      /\ q.ask.kind = "voidedFind" /\ q.ask.kind \notin AppleKinds /\ q.ask.kind \notin GoogleKinds
  BY DEF IInv, FindVoidedPurchase, TypeOK, Serving, AppleKinds, GoogleKinds
<1>1. /\ q.pages < MaxPages /\ q.cursor \in DOMAIN list.next /\ 1 \in q.read \cup {q.cursor}
      /\ \A p \in q.read : list.at # p /\ list.next[p] \in q.read \cup {q.cursor}
      /\ q.outcome = NoOutcome
  BY <1>0 DEF RequestInv, Scanning
<1>2. /\ q.pages \in 0 .. MaxPages /\ MaxPages \in Nat /\ q.cursor \in Nat
      /\ list.next[q.cursor] = 0 \/ list.next[q.cursor] \in DOMAIN list.next
      /\ list.next[q.cursor] \in Nat
  <2>1. q.pages \in 0 .. MaxPages /\ MaxPages \in Nat /\ q.cursor \in Nat /\ q.ask \in Asks \cup {NoAsk}
    BY <1>0, LookupAssumption DEF RequestState
  <2>2. list.next[q.cursor] = 0 \/ list.next[q.cursor] \in DOMAIN list.next
    BY <1>1, <2>1, AskFacts
  <2>3. DOMAIN list.next \subseteq Nat
    BY <2>1, AskFacts
  <2> QED BY <2>1, <2>2, <2>3
<1>3. /\ q2 \in RequestState /\ q2.ask = q.ask /\ q2.pref = q.pref /\ q2.pages = q.pages + 1
      /\ q2.read = q.read \cup {q.cursor} /\ q2.outcome = q.outcome /\ q2.pc = "scan"
  <2> DEFINE n == q.pages + 1
             read == q.read \cup {q.cursor}
  <2>1. n \in 0 .. MaxPages /\ read \in SUBSET Nat
    BY <1>0, <1>1, <1>2 DEF RequestState
  <2>2. q2 = [q EXCEPT !.pages = n, !.read = read]
    BY <1>0 DEF PageRead
  <2> HIDE DEF n, read
  <2>3. /\ q2 \in RequestState /\ q2.ask = q.ask /\ q2.pref = q.pref /\ q2.pages = n
        /\ q2.read = read /\ q2.outcome = q.outcome /\ q2.pc = q.pc
    BY <1>0, <2>1, <2>2 DEF RequestState
  <2> QED BY <1>0, <2>3 DEF n, read
<1>4. \/ \E f \in PlayFaults \cup {"notFound"} : Finish(r, Rethrow(f), q)
      \/ list.at = q.cursor /\ Finish(r, Returned("VOIDED", Null), q2)
      \/ list.at # q.cursor /\ list.next[q.cursor] = 0 /\ Finish(r, Returned("NOT_VOIDED", Null), q2)
      \/ Finish(r, Returned("TRUNCATED", Null), q2)
      \/ /\ list.at # q.cursor /\ list.next[q.cursor] # 0 /\ q2.pages # MaxPages
         /\ Continue(r, q3)
  <2>1. ASSUME NEW late \in BOOLEAN
        PROVE  /\ After(late) = "exhausted" => list.next[q.cursor] = 0
               /\ After(late) = "page" => list.next[q.cursor] # 0 /\ q2.pages # MaxPages
    BY DEF AfterPage
  <2> QED BY <2>1 DEF FindVoidedPurchase
<1>5. /\ q3 \in RequestState /\ q3.ask = q.ask /\ q3.pref = q.pref /\ q3.pages = q2.pages
      /\ q3.read = q2.read /\ q3.outcome = q.outcome /\ q3.pc = "scan"
      /\ q3.cursor = list.next[q.cursor]
  BY <1>2, <1>3 DEF RequestState
<1> HIDE DEF q2, q3
<1>6. CASE \E f \in PlayFaults \cup {"notFound"} : Finish(r, Rethrow(f), q)
  <2>1. \E o \in {AppError("RATE_LIMITED"), AppError("GOOGLE_API_ERROR"), OtherError} : Finish(r, o, q)
    BY <1>6, FaultFacts
  <2> QED BY <1>0, <2>1, ErrorFacts, ErrorIInv
<1>7. ASSUME NEW c \in {"VOIDED", "NOT_VOIDED", "TRUNCATED"}, Finish(r, Returned(c, Null), q2),
             c = "VOIDED" => list.at = q.cursor,
             c = "NOT_VOIDED" => list.at # q.cursor /\ list.next[q.cursor] = 0
      PROVE  IInv'
  <2> DEFINE o == Returned(c, Null)
  <2>1. o \in Outcome /\ o.code = c
    BY OutcomeFacts DEF Returned, Codes, Positive
  <2> HIDE DEF o
  <2>2. Honest(q2, o)
    BY <1>0, <1>3 DEF Honest
  <2>3. Conclusive(q2, o)
    BY <1>1, <1>3, <1>7, <2>1 DEF Conclusive
  <2> QED BY <1>0, <1>3, <1>7, <2>1, <2>2, <2>3, FinishIInv DEF o
<1>8. CASE /\ list.at # q.cursor /\ list.next[q.cursor] # 0 /\ q2.pages # MaxPages
           /\ Continue(r, q3)
  <2>1. Scanning(q3)
    <3> DEFINE c == list.next[q.cursor]
    <3>1. c \in DOMAIN list.next /\ q3.pages < MaxPages
      BY <1>1, <1>2, <1>3, <1>5, <1>8
    <3>2. q3.ask = q.ask /\ q3.cursor = c /\ q3.read = q.read \cup {q.cursor}
      BY <1>3, <1>5
    <3>3. list.at # q.cursor /\ list.next[q.cursor] \in q3.read \cup {c}
      BY <1>8
    <3>4. \A p \in q.read : list.at # p /\ list.next[p] \in q3.read \cup {c}
      BY <1>1, <3>2
    <3> HIDE DEF c
    <3>5. 1 \in q3.read \cup {c}
      BY <1>1, <3>2
    <3>6. \A p \in q3.read : list.at # p /\ list.next[p] \in q3.read \cup {c}
      BY <3>2, <3>3, <3>4
    <3> QED BY <1>0, <3>1, <3>2, <3>5, <3>6 DEF Scanning, ScanKinds
  <2>2. Honest(q3, NoOutcome) /\ Conclusive(q3, NoOutcome)
    BY NothingSaidYet
  <2>3. RequestInv(q3)
    BY <1>1, <1>5, <2>1, <2>2 DEF RequestInv, Starting, Attempting, Fresh
  <2> QED BY <1>0, <1>5, <1>8, <2>3, ContinueIInv
<1> QED BY <1>4, <1>6, <1>7, <1>8

-----------------------------------------------------------------------------
(* The recorder's insert, the operator and process death.                    *)

LEMMA WriteAuditIInv ==
  ASSUME IInv, NEW r \in Requests, WriteAudit(r)
  PROVE  IInv'
<1>0. /\ TypeOK /\ audit[r] = "pending" /\ req[r].outcome \in Outcome
      /\ UNCHANGED <<keys, stamped, tenant, req, hist, admin, crashes>>
      /\ RequestInv(req[r]) /\ BarrierInv(r) /\ PreferenceInv(r) /\ AuditInv(r)
  BY DEF IInv, WriteAudit, TypeOK, data, bounds, RequestState
<1>1. rows[r] = << >> /\ Row(req[r].outcome) \in AuditRow
  BY <1>0, RowFacts DEF AuditInv
<1>2. /\ audit' \in [Requests -> {"none", "pending", "failed", "written"}]
      /\ rows' \in [Requests -> Seq(AuditRow)]
      /\ audit'[r] \in {"written", "failed"}
      /\ rows'[r] = IF audit'[r] = "written" THEN <<Row(req[r].outcome)>> ELSE << >>
      /\ \A u \in Requests : u # r => rows'[u] = rows[u] /\ audit'[u] = audit[u]
  <2> DEFINE row == Row(req[r].outcome)
  <2> HIDE DEF row
  <2>1. Append(rows[r], row) = <<row>> /\ <<row>> \in Seq(AuditRow)
    BY <1>1 DEF row
  <2>2. CASE /\ rows' = [rows EXCEPT ![r] = Append(@, row)]
             /\ audit' = [audit EXCEPT ![r] = "written"]
    BY <1>0, <2>1, <2>2 DEF TypeOK, row
  <2>3. CASE audit' = [audit EXCEPT ![r] = "failed"] /\ rows' = rows
    BY <1>0, <1>1, <2>3 DEF TypeOK
  <2> QED BY <2>2, <2>3 DEF WriteAudit, row
<1>3. TypeOK'
  BY <1>0, <1>2 DEF TypeOK
<1>4. BarrierInv(r)' /\ PreferenceInv(r)' /\ AuditInv(r)'
  BY <1>0, <1>2 DEF BarrierInv, PreferenceInv, AuditInv
<1>5. ASSUME NEW u \in Requests
      PROVE  RequestInv(req'[u]) /\ BarrierInv(u)' /\ PreferenceInv(u)' /\ AuditInv(u)'
  BY <1>0, <1>2, <1>4, OthersKeep
<1> QED BY <1>3, <1>5 DEF IInv

LEMMA KeyCommandIInv ==
  ASSUME IInv, NEW k \in Keys, CreateKey(k) \/ RevokeKey(k)
  PROVE  IInv'
<1>0. /\ TypeOK /\ UNCHANGED <<stamped, tenant, req, audit, rows, hist, crashes>>
      /\ admin' = admin + 1
      /\ \E state \in {"active", "revoked"} : keys' = [keys EXCEPT ![k] = state]
      /\ keys[k] # "revoked"
  BY DEF IInv, CreateKey, RevokeKey, Administer
<1>1. TypeOK'
  BY <1>0 DEF TypeOK
<1>2. ASSUME NEW u \in Requests
      PROVE  RequestInv(req'[u]) /\ BarrierInv(u)' /\ PreferenceInv(u)' /\ AuditInv(u)'
  <2>0. RequestInv(req[u]) /\ BarrierInv(u) /\ PreferenceInv(u) /\ AuditInv(u)
    BY DEF IInv
  <2>1. \A x \in Keys : keys[x] = "revoked" => keys'[x] = "revoked"
    BY <1>0 DEF TypeOK
  <2>2. BarrierInv(u)'
    BY <1>0, <2>0, <2>1 DEF BarrierInv
  <2> QED
    BY <1>0, <2>0, <2>2 DEF PreferenceInv, AuditInv
<1> QED BY <1>1, <1>2 DEF IInv

LEMMA SetTenantAuditLogIInv ==
  ASSUME IInv, NEW p \in Preference, SetTenantAuditLog(p)
  PROVE  IInv'
<1> DEFINE H(r) == IF req[r].pc \in {"key", "tenant"}
                   THEN [hist[r] EXCEPT !.prefs = @ \cup {p}] ELSE hist[r]
<1>0. /\ TypeOK /\ UNCHANGED <<keys, stamped, req, audit, rows, crashes>>
      /\ admin' = admin + 1 /\ tenant' = [tenant EXCEPT !.pref = p]
      /\ hist' = [r \in Requests |-> H(r)]
  BY DEF IInv, SetTenantAuditLog, Administer
<1>1. ASSUME NEW r \in Requests
      PROVE  /\ H(r) \in [barred : BOOLEAN, reached : BOOLEAN, prefs : SUBSET Preference]
             /\ H(r).barred = hist[r].barred /\ H(r).reached = hist[r].reached
             /\ H(r).prefs = IF req[r].pc \in {"key", "tenant"} THEN hist[r].prefs \cup {p}
                             ELSE hist[r].prefs
  BY <1>0 DEF TypeOK
<1> HIDE DEF H
<1>2. /\ tenant' \in [present : BOOLEAN, active : BOOLEAN, pref : Preference]
      /\ tenant'.present = tenant.present /\ tenant'.active = tenant.active /\ tenant'.pref = p
  BY <1>0 DEF TypeOK
<1>3. TypeOK'
  <2>1. hist' \in [Requests -> [barred : BOOLEAN, reached : BOOLEAN, prefs : SUBSET Preference]]
    BY <1>0, <1>1
  <2>2. admin' \in Nat
    BY <1>0 DEF TypeOK
  <2> QED
    BY <1>0, <1>2, <2>1, <2>2 DEF TypeOK
<1>4. ASSUME NEW u \in Requests
      PROVE  RequestInv(req'[u]) /\ BarrierInv(u)' /\ PreferenceInv(u)' /\ AuditInv(u)'
  <2>0. RequestInv(req[u]) /\ BarrierInv(u) /\ PreferenceInv(u) /\ AuditInv(u)
    BY DEF IInv
  <2>1. /\ hist'[u].barred = hist[u].barred /\ hist'[u].reached = hist[u].reached
        /\ hist'[u].prefs = IF req[u].pc \in {"key", "tenant"} THEN hist[u].prefs \cup {p}
                            ELSE hist[u].prefs
    BY <1>0, <1>1
  <2>2. BarrierInv(u)' /\ AuditInv(u)'
    BY <1>0, <1>2, <2>0, <2>1 DEF BarrierInv, AuditInv
  <2>3. PreferenceInv(u)'
    BY <1>0, <1>2, <2>0, <2>1 DEF PreferenceInv, Authenticated, Serving
  <2> QED BY <1>0, <2>0, <2>2, <2>3
<1> QED BY <1>3, <1>4 DEF IInv

LEMMA TenantCommandIInv ==
  ASSUME IInv, DeactivateTenant \/ DeleteTenant
  PROVE  IInv'
<1>0. /\ TypeOK /\ UNCHANGED <<stamped, req, audit, rows, hist, crashes>> /\ admin' = admin + 1
  BY DEF IInv, DeactivateTenant, DeleteTenant, Administer
<1>1. /\ keys' \in [Keys -> {"absent", "active", "revoked"}]
      /\ tenant' \in [present : BOOLEAN, active : BOOLEAN, pref : Preference]
      /\ tenant'.pref = tenant.pref
      /\ ~tenant'.present \/ ~tenant'.active
  <2>1. CASE DeactivateTenant
    BY <1>0, <2>1 DEF DeactivateTenant, TypeOK
  <2>2. CASE DeleteTenant
    BY <1>0, <2>2 DEF DeleteTenant, TypeOK
  <2> QED BY <2>1, <2>2
<1>2. TypeOK'
  BY <1>0, <1>1 DEF TypeOK
<1>3. ASSUME NEW u \in Requests
      PROVE  RequestInv(req'[u]) /\ BarrierInv(u)' /\ PreferenceInv(u)' /\ AuditInv(u)'
  <2>0. RequestInv(req[u]) /\ BarrierInv(u) /\ PreferenceInv(u) /\ AuditInv(u)
    BY DEF IInv
  <2>1. BarrierInv(u)'
    BY <1>0, <1>1, <2>0 DEF BarrierInv
  <2> QED
    BY <1>0, <1>1, <2>0, <2>1 DEF PreferenceInv, AuditInv
<1> QED BY <1>2, <1>3 DEF IInv

LEMMA CrashIInv ==
  ASSUME IInv, Crash
  PROVE  IInv'
<1> DEFINE Q(r) == IF req[r].pc \in {"idle", "done"} THEN req[r] ELSE [req[r] EXCEPT !.pc = "lost"]
<1>0. /\ TypeOK /\ UNCHANGED <<keys, stamped, tenant, rows, hist, admin>> /\ crashes' = crashes + 1
      /\ req' = [r \in Requests |-> Q(r)]
      /\ audit' = [r \in Requests |-> IF audit[r] = "pending" THEN "failed" ELSE audit[r]]
  BY DEF IInv, Crash, data
<1>1. ASSUME NEW r \in Requests
      PROVE  /\ Q(r) \in RequestState /\ Q(r).ask = req[r].ask /\ Q(r).outcome = req[r].outcome
             /\ \/ Q(r) = req[r] /\ req[r].pc \in {"idle", "done"}
                \/ Q(r).pc = "lost" /\ req[r].pc \notin {"idle", "done"}
  <2>1. req[r] \in RequestState
    BY <1>0 DEF TypeOK
  <2> QED BY <2>1 DEF RequestState
<1> HIDE DEF Q
<1>2. TypeOK'
  BY <1>0, <1>1 DEF TypeOK
<1>3. ASSUME NEW u \in Requests
      PROVE  RequestInv(req'[u]) /\ BarrierInv(u)' /\ PreferenceInv(u)' /\ AuditInv(u)'
  <2>0. RequestInv(req[u]) /\ BarrierInv(u) /\ PreferenceInv(u) /\ AuditInv(u)
    BY DEF IInv
  <2>1. /\ req'[u] = Q(u)
        /\ audit'[u] = IF audit[u] = "pending" THEN "failed" ELSE audit[u]
    BY <1>0
  <2>2. CASE Q(u) = req[u] /\ req[u].pc \in {"idle", "done"}
    BY <1>0, <2>0, <2>1, <2>2
       DEF BarrierInv, PreferenceInv, AuditInv, Authenticated, Serving
  <2>3. CASE Q(u).pc = "lost" /\ req[u].pc \notin {"idle", "done"}
    <3>1. audit[u] = "none" /\ req[u].outcome = NoOutcome
      BY <2>0, <2>3 DEF AuditInv, RequestInv
    <3>2. Honest(Q(u), NoOutcome) /\ Conclusive(Q(u), NoOutcome)
      BY NothingSaidYet
    <3>3. RequestInv(Q(u))
      BY <1>1, <2>3, <3>1, <3>2 DEF RequestInv, Starting, Attempting, Scanning, Fresh
    <3>4. BarrierInv(u)' /\ PreferenceInv(u)' /\ AuditInv(u)'
      BY <1>0, <2>0, <2>1, <2>3, <3>1
         DEF BarrierInv, PreferenceInv, AuditInv, Authenticated, Serving
    <3> QED BY <2>1, <3>3, <3>4
  <2> QED BY <1>1, <2>2, <2>3
<1> QED BY <1>2, <1>3 DEF IInv

-----------------------------------------------------------------------------
(* The invariant is inductive.                                               *)

LEMMA StepIInv ==
  ASSUME IInv, NEW r \in Requests, Step(r)
  PROVE  IInv'
BY FindKeyIInv, GetTenantIInv, AuthThrowsIInv, TouchLastUsedIInv, AdmitIInv, LoadFailsIInv,
   StartAppleLookupIInv, StartGoogleLookupIInv, PrepareVoidedIInv, AttemptEnvironmentIInv,
   GoogleGetIInv, ListVoidedPurchasesIInv, FindVoidedPurchaseIInv
   DEF Step

LEMMA StutterIInv ==
  ASSUME IInv, UNCHANGED vars
  PROVE  IInv'
<1>1. UNCHANGED <<keys, stamped, tenant, req, audit, rows, hist, admin, crashes>>
  BY DEF vars
<1>2. TypeOK'
  BY <1>1 DEF IInv, TypeOK
<1> QED BY <1>1, <1>2, OthersKeep DEF IInv

LEMMA NextIInv == IInv /\ [Next]_vars => IInv'
<1> SUFFICES ASSUME IInv, [Next]_vars PROVE IInv'
  OBVIOUS
<1>1. ASSUME NEW r \in Requests, NEW a \in Asks, NEW k \in Keys \cup {NoKey}, Arrive(r, a, k)
      PROVE  IInv'
  BY <1>1, ArriveIInv
<1>2. ASSUME NEW r \in Requests, Step(r) \/ WriteAudit(r) PROVE IInv'
  BY <1>2, StepIInv, WriteAuditIInv
<1>3. ASSUME NEW k \in Keys, CreateKey(k) \/ RevokeKey(k) PROVE IInv'
  BY <1>3, KeyCommandIInv
<1>4. ASSUME NEW p \in Preference, SetTenantAuditLog(p) PROVE IInv'
  BY <1>4, SetTenantAuditLogIInv
<1>5. CASE DeactivateTenant \/ DeleteTenant
  BY <1>5, TenantCommandIInv
<1>6. CASE Crash
  BY <1>6, CrashIInv
<1>7. CASE UNCHANGED vars
  BY <1>7, StutterIInv
<1> QED
  BY <1>1, <1>2, <1>3, <1>4, <1>5, <1>6, <1>7 DEF Next

LEMMA AlwaysIInv == Spec => []IInv
BY InitIInv, NextIInv, PTL DEF Spec

-----------------------------------------------------------------------------
(* A key revoked, or a tenant deactivated or erased, before a request        *)
(* arrives keeps that request from its handler, whatever the operator, other *)
(* requests and the process do meanwhile (middleware/auth.ts).               *)
THEOREM BarredNeverServed == Spec => []BarredIsRefused
<1>1. IInv => BarredIsRefused
  BY DEF IInv, BarrierInv, BarredIsRefused
<1> QED BY <1>1, AlwaysIInv, PTL

(* No fault, skipped environment or retry makes a lookup say what is not so  *)
(* of the purchase (environments.ts, and the verify and status services of   *)
(* both stores).                                                             *)
THEOREM LookupsAreHonest == Spec => []AnswerIsHonest
<1>1. IInv => AnswerIsHonest
  BY DEF IInv, RequestInv, Honest, AnswerIsHonest
<1> QED BY <1>1, AlwaysIInv, PTL

(* For a list of any shape, cursors that repeat or loop included, and any    *)
(* page cap: "not voided" means the whole list was read                      *)
(* (voided-purchases.ts).                                                    *)
THEOREM ScanIsConclusive == Spec => []NegativeIsConclusive
<1>1. IInv => NegativeIsConclusive
  BY DEF IInv, RequestInv, Conclusive, NegativeIsConclusive
<1> QED BY <1>1, AlwaysIInv, PTL

(* A lookup's audit row and its answer agree (withAudit against the error    *)
(* handler), and there is at most one.                                       *)
THEOREM AuditMatchesAnswer == Spec => []AuditTellsTheAnswer
<1>1. ASSUME NEW o \in Outcome
      PROVE  Row(o).valid = Response(o).valid /\ Row(o).errorCode = Response(o).error
  BY DEF Row, ErrorCode, Response, Valid, Outcome
<1>2. ASSUME IInv, NEW r \in Requests
      PROVE  /\ Len(rows[r]) <= 1
             /\ rows[r] # << >> => /\ req[r].pc = "done"
                                   /\ rows[r][1].valid = Response(req[r].outcome).valid
                                   /\ rows[r][1].errorCode = Response(req[r].outcome).error
  <2>1. AuditInv(r) /\ req[r].outcome \in Outcome
    BY <1>2 DEF IInv, TypeOK, RequestState
  <2>2. CASE audit[r] = "written"
    <3>1. rows[r] = <<Row(req[r].outcome)>> /\ req[r].pc = "done"
      BY <2>1, <2>2 DEF AuditInv
    <3> QED BY <1>1, <2>1, <3>1
  <2>3. CASE audit[r] # "written"
    BY <2>1, <2>3 DEF AuditInv
  <2> QED BY <2>2, <2>3
<1>3. IInv => AuditTellsTheAnswer
  BY <1>2 DEF AuditTellsTheAnswer
<1> QED BY <1>3, AlwaysIInv, PTL

(* The audit preference that decides is one the tenant had while its request *)
(* was being authenticated (validation-audit.ts).                            *)
THEOREM PreferenceDecides == Spec => []AuditPreferenceHonoured
<1>1. IInv => AuditPreferenceHonoured
  BY DEF IInv, PreferenceInv, On, AuditPreferenceHonoured
<1> QED BY <1>1, AlwaysIInv, PTL

-----------------------------------------------------------------------------
(* How much work a request may cause.                                        *)

(* The steps a request may still take: four in the middleware, one for its   *)
(* credentials, then an attempt per environment, one GET, or a page per turn *)
(* up to the cap.                                                            *)
StepsLeft(q) ==
  CASE q.pc = "key"    -> MaxPages + 6
    [] q.pc = "tenant" -> MaxPages + 5
    [] q.pc = "touch"  -> MaxPages + 4
    [] q.pc = "limit"  -> MaxPages + 3
    [] q.pc = "load"   -> MaxPages + 2
    [] q.pc = "apple"  -> 3 - q.i
    [] q.pc = "google" -> 1
    [] q.pc = "scan"   -> MaxPages - q.pages
    [] OTHER           -> 0

(* Its own step takes one off, and nobody else's puts one on.                *)
RequestAdvances ==
  \A r \in Requests : /\ StepsLeft(req[r]) \in 0..(MaxPages + 6)
                      /\ Step(r) => StepsLeft(req'[r]) < StepsLeft(req[r])
                      /\ req[r].pc # "idle" => StepsLeft(req'[r]) <= StepsLeft(req[r])

LEMMA StepsBounded ==
  ASSUME NEW q \in RequestState, RequestInv(q)
  PROVE  /\ StepsLeft(q) \in 0..(MaxPages + 6)
         /\ q.pc \notin {"idle", "done", "lost"} => StepsLeft(q) > 0
         /\ q.pc = "apple" => StepsLeft(q) <= 2
<1>0. MaxPages \in Nat \ {0} /\ q.pages \in 0..MaxPages
  BY LookupAssumption DEF RequestState
<1>1. CASE q.pc = "apple"
  <2>1. q.i \in 1..Len(EnvironmentsOf(q)) /\ q.creds \in Creds
    BY <1>1 DEF RequestInv, Attempting
  <2>2. q.i \in 1..2
    BY <2>1, EnvironmentFacts
  <2> QED BY <1>0, <1>1, <2>2 DEF StepsLeft
<1>2. CASE q.pc = "scan"
  <2>1. q.pages < MaxPages
    BY <1>2 DEF RequestInv, Scanning
  <2> QED BY <1>0, <1>2, <2>1 DEF StepsLeft
<1>3. CASE q.pc \in {"idle", "done", "lost"}
  <2>1. StepsLeft(q) = 0
    BY <1>3 DEF StepsLeft
  <2> QED BY <1>0, <1>3, <2>1
<1>4. CASE q.pc \in {"key", "tenant", "touch", "limit", "load", "google"}
  <2>1. StepsLeft(q) \in {MaxPages + 6, MaxPages + 5, MaxPages + 4, MaxPages + 3, MaxPages + 2, 1}
    BY <1>4 DEF StepsLeft
  <2> QED BY <1>0, <1>4, <2>1
<1>5. q.pc \in {"idle", "key", "tenant", "touch", "limit", "load", "apple", "google", "scan",
                "done", "lost"}
  BY DEF RequestState
<1> QED BY <1>1, <1>2, <1>3, <1>4, <1>5

(* Where a step takes the request that makes it.                             *)
Moves(q, q2) ==
  \/ q.pc \notin {"idle", "done", "lost"} /\ q2.pc = "done"
  \/ q.pc = "key" /\ q2.pc = "tenant"
  \/ q.pc = "tenant" /\ q2.pc = "touch"
  \/ q.pc = "touch" /\ q2.pc = "limit"
  \/ q.pc = "limit" /\ q2.pc = "load"
  \/ q.pc = "load" /\ q2.pc \in {"apple", "google"}
  \/ q.pc = "load" /\ q2.pc = "scan" /\ q2.pages = q.pages
  \/ q.pc = "apple" /\ q2.pc = "apple" /\ q2.i = q.i + 1
  \/ q.pc = "scan" /\ q2.pc = "scan" /\ q2.pages = q.pages + 1

LEMMA MovesAdvance ==
  ASSUME NEW q \in RequestState, RequestInv(q), NEW q2 \in RequestState, RequestInv(q2),
         Moves(q, q2)
  PROVE  StepsLeft(q2) < StepsLeft(q)
<1>0. /\ StepsLeft(q) \in Nat /\ StepsLeft(q2) \in Nat /\ MaxPages \in Nat \ {0}
      /\ q.pc \notin {"idle", "done", "lost"} => StepsLeft(q) > 0
      /\ q2.pc = "apple" => StepsLeft(q2) <= 2
      /\ q.pages \in 0..MaxPages /\ q.i \in Nat
  BY StepsBounded, LookupAssumption DEF RequestState
<1>1. CASE q2.pc = "done"
  <2>1. StepsLeft(q2) = 0 /\ StepsLeft(q) > 0
    BY <1>0, <1>1 DEF StepsLeft, Moves
  <2> QED BY <1>0, <2>1
<1>2. CASE q.pc = "load" /\ q2.pc = "apple"
  <2>1. StepsLeft(q) = MaxPages + 2
    BY <1>2 DEF StepsLeft
  <2> QED BY <1>0, <1>2, <2>1
<1>3. CASE q2.pc # "done" /\ ~(q.pc = "load" /\ q2.pc = "apple")
  BY <1>0, <1>3 DEF Moves, StepsLeft
<1> QED BY <1>1, <1>2, <1>3

LEMMA FinishMoves ==
  ASSUME TypeOK, NEW r \in Requests, NEW q \in RequestState, NEW o, Finish(r, o, q)
  PROVE  req'[r].pc = "done" /\ \A u \in Requests : u # r => req'[u] = req[u]
<1> DEFINE q2 == [q EXCEPT !.pc = "done", !.outcome = o]
<1>1. req' = [req EXCEPT ![r] = q2]
  BY DEF Finish
<1>2. q2.pc = "done"
  BY DEF RequestState
<1> HIDE DEF q2
<1> QED BY <1>1, <1>2 DEF TypeOK

LEMMA ContinueMoves ==
  ASSUME TypeOK, NEW r \in Requests, NEW q, Continue(r, q)
  PROVE  req'[r] = q /\ \A u \in Requests : u # r => req'[u] = req[u]
BY DEF Continue, TypeOK

LEMMA MiddlewareMoves ==
  ASSUME TypeOK, NEW r \in Requests,
         FindKey(r) \/ GetTenant(r) \/ AuthThrows(r) \/ TouchLastUsed(r) \/ Admit(r)
  PROVE  Moves(req[r], req'[r]) /\ \A u \in Requests : u # r => req'[u] = req[u]
<1> DEFINE q == req[r]
<1>0. q \in RequestState
  BY DEF TypeOK
<1>1. ASSUME q.pc \in {"key", "tenant", "limit"}, NEW o, Refuse(r, o)
      PROVE  Moves(q, req'[r]) /\ \A u \in Requests : u # r => req'[u] = req[u]
  <2> DEFINE q2 == [q EXCEPT !.pc = "done", !.outcome = o]
  <2>1. req' = [req EXCEPT ![r] = q2] /\ q2.pc = "done"
    BY <1>0, <1>1 DEF Refuse, TypeOK, RequestState
  <2> HIDE DEF q2
  <2>2. req'[r] = q2 /\ \A u \in Requests : u # r => req'[u] = req[u]
    BY <2>1 DEF TypeOK
  <2> QED BY <1>1, <2>1, <2>2 DEF Moves
<1>2. CASE FindKey(r)
  <2>1. q.pc = "key"
    BY <1>2 DEF FindKey
  <2>2. CASE req' = [req EXCEPT ![r].pc = "tenant"]
    BY <1>0, <2>1, <2>2 DEF Moves, TypeOK, RequestState
  <2> QED BY <1>1, <1>2, <2>1, <2>2 DEF FindKey
<1>3. CASE GetTenant(r)
  <2>1. q.pc = "tenant"
    BY <1>3 DEF GetTenant
  <2>2. CASE req' = [req EXCEPT ![r].pc = "touch", ![r].pref = tenant.pref]
    BY <1>0, <2>1, <2>2 DEF Moves, TypeOK, RequestState
  <2> QED BY <1>1, <1>3, <2>1, <2>2 DEF GetTenant
<1>4. CASE AuthThrows(r)
  BY <1>1, <1>4 DEF AuthThrows
<1>5. CASE TouchLastUsed(r)
  BY <1>0, <1>5 DEF TouchLastUsed, Moves, TypeOK, RequestState
<1>6. CASE Admit(r)
  <2>1. q.pc = "limit"
    BY <1>6 DEF Admit
  <2>2. CASE req' = [req EXCEPT ![r].pc = "load"]
    BY <1>0, <2>1, <2>2 DEF Moves, TypeOK, RequestState
  <2> QED BY <1>1, <1>6, <2>1, <2>2 DEF Admit
<1> QED BY <1>2, <1>3, <1>4, <1>5, <1>6

LEMMA HandlerStarts ==
  ASSUME TypeOK, NEW r \in Requests,
         LoadFails(r) \/ StartAppleLookup(r) \/ StartGoogleLookup(r) \/ PrepareVoided(r)
  PROVE  Moves(req[r], req'[r]) /\ \A u \in Requests : u # r => req'[u] = req[u]
<1> DEFINE q == req[r]
<1>0. q \in RequestState
  BY DEF TypeOK
<1>1. q.pc = "load"
  BY DEF LoadFails, StartAppleLookup, StartGoogleLookup, PrepareVoided
<1>2. ASSUME NEW q2 \in RequestState, NEW o, Finish(r, o, q2)
      PROVE  Moves(q, req'[r]) /\ \A u \in Requests : u # r => req'[u] = req[u]
  BY <1>1, <1>2, FinishMoves DEF Moves
<1>3. CASE LoadFails(r)
  <2>1. PICK n \in NoCreds :
          Finish(r, IF n = "throws" THEN OtherError ELSE AppError("CREDENTIALS_MISSING"), q)
    BY <1>3 DEF LoadFails
  <2> QED BY <1>0, <1>2, <2>1
<1>4. CASE StartAppleLookup(r)
  <2>1. PICK c \in Creds :
          \/ Finish(r, AppError("CREDENTIALS_MISSING"), [q EXCEPT !.creds = c])
          \/ Continue(r, [q EXCEPT !.creds = c, !.pc = "apple"])
    BY <1>4 DEF StartAppleLookup
  <2>2. /\ [q EXCEPT !.creds = c] \in RequestState
        /\ [q EXCEPT !.creds = c, !.pc = "apple"].pc = "apple"
    BY <1>0 DEF RequestState
  <2>3. CASE Finish(r, AppError("CREDENTIALS_MISSING"), [q EXCEPT !.creds = c])
    BY <1>2, <2>2, <2>3
  <2>4. CASE Continue(r, [q EXCEPT !.creds = c, !.pc = "apple"])
    BY <1>1, <2>2, <2>4, ContinueMoves DEF Moves
  <2> QED BY <2>1, <2>3, <2>4
<1>5. CASE PackageMismatch(r)
  BY <1>0, <1>2, <1>5 DEF PackageMismatch
<1>6. CASE StartGoogleLookup(r)
  <2>1. CASE Continue(r, [q EXCEPT !.pc = "google"])
    <3>1. [q EXCEPT !.pc = "google"].pc = "google"
      BY <1>0 DEF RequestState
    <3> QED BY <1>1, <2>1, <3>1, ContinueMoves DEF Moves
  <2> QED BY <1>5, <1>6, <2>1 DEF StartGoogleLookup
<1>7. CASE PrepareVoided(r)
  <2>1. CASE Continue(r, [q EXCEPT !.pc = "scan"])
    <3>1. [q EXCEPT !.pc = "scan"].pc = "scan" /\ [q EXCEPT !.pc = "scan"].pages = q.pages
      BY <1>0 DEF RequestState
    <3> QED BY <1>1, <2>1, <3>1, ContinueMoves DEF Moves
  <2> QED BY <1>5, <1>7, <2>1 DEF PrepareVoided
<1> QED BY <1>3, <1>4, <1>6, <1>7

LEMMA StoreMoves ==
  ASSUME TypeOK, NEW r \in Requests,
         \/ AttemptEnvironment(r) \/ GoogleGet(r)
         \/ ListVoidedPurchases(r) \/ FindVoidedPurchase(r)
  PROVE  Moves(req[r], req'[r]) /\ \A u \in Requests : u # r => req'[u] = req[u]
<1> DEFINE q == req[r]
<1>0. q \in RequestState
  BY DEF TypeOK
<1>1. q.pc \in {"apple", "google", "scan"}
  BY DEF AttemptEnvironment, GoogleGet, ListVoidedPurchases, FindVoidedPurchase
<1>2. ASSUME NEW q2 \in RequestState, NEW o, Finish(r, o, q2)
      PROVE  Moves(q, req'[r]) /\ \A u \in Requests : u # r => req'[u] = req[u]
  BY <1>1, <1>2, FinishMoves DEF Moves
<1>3. CASE AttemptEnvironment(r)
  <2>1. q.pc = "apple"
    BY <1>3 DEF AttemptEnvironment
  <2>2. \/ \E o : Finish(r, o, q)
        \/ \E d : Continue(r, [q EXCEPT !.i = @ + 1, !.denied = d])
    BY <1>3 DEF AttemptEnvironment
  <2>3. CASE \E d : Continue(r, [q EXCEPT !.i = @ + 1, !.denied = d])
    <3>1. PICK d : Continue(r, [q EXCEPT !.i = @ + 1, !.denied = d])
      BY <2>3
    <3>2. /\ [q EXCEPT !.i = @ + 1, !.denied = d].pc = q.pc
          /\ [q EXCEPT !.i = @ + 1, !.denied = d].i = q.i + 1
      BY <1>0 DEF RequestState
    <3> QED BY <2>1, <3>1, <3>2, ContinueMoves DEF Moves
  <2> QED BY <1>0, <1>2, <2>2, <2>3
<1>4. CASE GoogleGet(r)
  <2>1. \E o : Finish(r, o, q)
    BY <1>4 DEF GoogleGet
  <2> QED BY <1>0, <1>2, <2>1
<1>5. CASE ListVoidedPurchases(r)
  <2>1. \E o : Finish(r, o, q)
    BY <1>5 DEF ListVoidedPurchases
  <2> QED BY <1>0, <1>2, <2>1
<1>6. CASE FindVoidedPurchase(r)
  <2> DEFINE q2 == PageRead(q)
             c == q.ask.list.next[q.cursor]
             q3 == [q2 EXCEPT !.cursor = c]
  <2>1. q.pc = "scan"
    BY <1>6 DEF FindVoidedPurchase
  <2>2. \/ \E o : Finish(r, o, q) \/ Finish(r, o, q2)
        \/ Continue(r, q3)
    BY <1>6 DEF FindVoidedPurchase
  <2>3. CASE \E o : Finish(r, o, q2)
    <3>1. PICK o : req' = [req EXCEPT ![r] = [q2 EXCEPT !.pc = "done", !.outcome = o]]
      BY <2>3 DEF Finish
    <3>2. [q2 EXCEPT !.pc = "done", !.outcome = o].pc = "done"
      BY <1>0 DEF PageRead, RequestState
    <3> HIDE DEF q2
    <3>3. req'[r].pc = "done" /\ \A u \in Requests : u # r => req'[u] = req[u]
      BY <3>1, <3>2 DEF TypeOK
    <3> QED BY <1>1, <3>3 DEF Moves
  <2>4. CASE Continue(r, q3)
    <3>1. q3.pc = q.pc /\ q3.pages = q.pages + 1
      BY <1>0 DEF PageRead, RequestState
    <3> HIDE DEF q3
    <3> QED BY <2>1, <2>4, <3>1, ContinueMoves DEF Moves
  <2> HIDE DEF q2, q3
  <2> QED BY <1>0, <1>2, <2>2, <2>3, <2>4
<1> QED BY <1>3, <1>4, <1>5, <1>6

(* auth.ts, environments.ts, voided-purchases.ts: whatever the stores answer *)
(* and the operator does, a request takes at most MaxPages + 6 steps; the    *)
(* fairness of EveryRequestAnswered adds that each of them settles.          *)
THEOREM RequestIsBounded == Spec => [][RequestAdvances]_vars
<1>1. ASSUME IInv, IInv', [Next]_vars PROVE [RequestAdvances]_vars
  <2>0. /\ TypeOK /\ \A r \in Requests : req[r] \in RequestState /\ RequestInv(req[r])
        /\ \A r \in Requests : req'[r] \in RequestState /\ RequestInv(req'[r])
    BY <1>1 DEF IInv, TypeOK
  <2>1. ASSUME NEW r \in Requests
        PROVE  StepsLeft(req[r]) \in 0..(MaxPages + 6) /\ StepsLeft(req[r]) \in Nat
    BY <2>0, StepsBounded, LookupAssumption
  <2>2. ASSUME NEW r \in Requests, Step(r)
        PROVE  /\ StepsLeft(req'[r]) < StepsLeft(req[r]) /\ StepsLeft(req'[r]) \in Nat
               /\ \A u \in Requests : u # r => req'[u] = req[u]
    <3>1. Moves(req[r], req'[r]) /\ \A u \in Requests : u # r => req'[u] = req[u]
      BY <2>0, <2>2, MiddlewareMoves, HandlerStarts, StoreMoves DEF Step
    <3> QED BY <2>0, <3>1, MovesAdvance, StepsBounded, LookupAssumption
  <2>3. ASSUME Next, NEW u \in Requests, req[u].pc # "idle"
        PROVE  StepsLeft(req'[u]) <= StepsLeft(req[u])
    <3>1. CASE \E r \in Requests : Step(r)
      <4>1. PICK r \in Requests : Step(r)
        BY <3>1
      <4>2. CASE r = u
        BY <2>1, <2>2, <4>1, <4>2
      <4>3. CASE r # u
        <5>1. req'[u] = req[u]
          BY <2>2, <4>1, <4>3
        <5> QED BY <2>1, <5>1
      <4> QED BY <4>2, <4>3
    <3>2. CASE \E r \in Requests, a \in Asks, k \in Keys \cup {NoKey} : Arrive(r, a, k)
      <4>1. req'[u] = req[u]
        BY <2>0, <2>3, <3>2 DEF Arrive, TypeOK
      <4> QED BY <2>1, <4>1
    <3>3. CASE \/ \E r \in Requests : WriteAudit(r)
               \/ \E k \in Keys : CreateKey(k) \/ RevokeKey(k)
               \/ \E p \in Preference : SetTenantAuditLog(p)
               \/ DeactivateTenant \/ DeleteTenant
      <4>1. req' = req
        BY <3>3 DEF WriteAudit, CreateKey, RevokeKey, SetTenantAuditLog, DeactivateTenant,
                    DeleteTenant, Administer
      <4> QED BY <2>1, <4>1
    <3>4. CASE Crash
      <4>1. req'[u] = req[u] \/ StepsLeft(req'[u]) = 0
        <5>1. req'[u] = req[u] \/ req'[u] = [req[u] EXCEPT !.pc = "lost"]
          BY <3>4 DEF Crash
        <5>2. [req[u] EXCEPT !.pc = "lost"].pc = "lost"
          BY <2>0 DEF RequestState
        <5> QED BY <5>1, <5>2 DEF StepsLeft
      <4> QED BY <2>1, <4>1
    <3> QED BY <2>3, <3>1, <3>2, <3>3, <3>4 DEF Next
  <2>4. Next => RequestAdvances
    BY <2>1, <2>2, <2>3 DEF RequestAdvances
  <2> QED BY <1>1, <2>4
<1> QED BY <1>1, InitIInv, NextIInv, PTL DEF Spec

=============================================================================
