----------------------------- MODULE IngestProofs -----------------------------
(***************************************************************************)
(* Theorems about Ingest, for every number of notifications, requests,      *)
(* duplicates and faults.                                                   *)
(***************************************************************************)
EXTENDS Outbound, TLAPS

(* A request between the insert of its event and the insert of its delivery. *)
Owner(h) == req[h].pc \in {"config", "enqueue"}

(* The request that inserted an event is the only one that may enqueue it,   *)
(* and has not done so yet.                                                  *)
OwnersApart ==
  /\ \A h \in Handler : Owner(h) => req[h].id \in EventId /\ queued[req[h].id] = 0
  /\ \A g, h \in Handler : Owner(g) /\ Owner(h) /\ g # h => req[g].id # req[h].id

(* Past the insert, the notification has been persisted.                     *)
PastInsert ==
  \A h \in Handler :
    req[h].pc \in {"find", "findAgain", "config", "enqueue", "respond"} => inserted[req[h].n]

EventsInserted == \A e \in events : e.id \in EventId /\ inserted[e.n]

IInv ==
  /\ TypeOK
  /\ OwnersApart
  /\ PastInsert
  /\ EventsInserted
  /\ OneDeliveryPerEvent
  /\ AckedMeansPersisted

LEMMA RequestTyped ==
  ASSUME TypeOK, NEW h \in Handler, req[h].pc # "idle"
  PROVE  req[h] \in Request /\ req[h].n \in Notification /\ req[h].id \in Nat
BY DEF TypeOK, Request, Idle

(* Initially nothing is stored and no request is in progress.                *)
LEMMA InitIInv == Init => IInv
<1> SUFFICES ASSUME Init PROVE IInv
  OBVIOUS
<1>1. TypeOK
  BY IngestAssumption DEF Init, TypeOK, EventId
<1>2. /\ \A h \in Handler : req[h].pc = "idle"
      /\ events = {} /\ EventId = {}
      /\ \A n \in Notification : acked[n] = FALSE
  BY DEF Init, Idle, EventId
<1> QED
  BY <1>1, <1>2 DEF IInv, OwnersApart, Owner, PastInsert, EventsInserted,
                    OneDeliveryPerEvent, AckedMeansPersisted

(* A step that only ends requests, moves them between the early steps, or     *)
(* deletes events.                                                            *)
LEMMA FrameIInv ==
  ASSUME IInv, TypeOK', events' \subseteq events,
         UNCHANGED <<nextId, queued, inserted>>,
         \A n \in Notification : acked'[n] => inserted[n],
         \A h \in Handler : \/ req'[h].pc \in {"idle", "tenant", "creds", "insert"}
                            \/ req'[h] = req[h]
                            \/ /\ req'[h].pc \in {"find", "findAgain", "respond"}
                               /\ inserted[req'[h].n]
                            \/ /\ Owner(h) /\ Owner(h)'
                               /\ req'[h].n = req[h].n /\ req'[h].id = req[h].id
  PROVE  IInv'
<1>1. OwnersApart'
  BY DEF IInv, OwnersApart, Owner, EventId
<1>2. PastInsert'
  BY DEF IInv, PastInsert, Owner
<1>3. EventsInserted'
  BY DEF IInv, EventsInserted, EventId
<1>4. OneDeliveryPerEvent' /\ AckedMeansPersisted'
  BY DEF IInv, OneDeliveryPerEvent, AckedMeansPersisted, EventId
<1> QED
  BY <1>1, <1>2, <1>3, <1>4 DEF IInv

-----------------------------------------------------------------------------
(* A request's next record is well typed.                                     *)
LEMMA GotoTyped ==
  ASSUME TypeOK, NEW h \in Handler, req[h].pc # "idle",
         NEW pc \in {"tenant", "creds", "insert", "find", "findAgain", "config", "enqueue", "respond"},
         NEW id \in Nat
  PROVE  /\ [req EXCEPT ![h].pc = pc] \in [Handler -> Request \cup {Idle}]
         /\ [req EXCEPT ![h].pc = pc, ![h].id = id] \in [Handler -> Request \cup {Idle}]
         /\ [req EXCEPT ![h] = Idle] \in [Handler -> Request \cup {Idle}]
<1>1. req[h] \in Request
  BY RequestTyped
<1>2. [req[h] EXCEPT !.pc = pc] \in Request /\ [req[h] EXCEPT !.pc = pc, !.id = id] \in Request
  BY <1>1 DEF Request
<1> QED
  BY <1>2 DEF TypeOK

(* The budgets stay naturals.                                                 *)
LEMMA BudgetTyped ==
  ASSUME TypeOK
  PROVE  /\ budget.faults > 0 => [budget EXCEPT !.faults = @ - 1]
                \in [duplicates : Nat, faults : Nat, purges : Nat, admin : Nat]
         /\ budget.duplicates > 0 => [budget EXCEPT !.duplicates = @ - 1]
                \in [duplicates : Nat, faults : Nat, purges : Nat, admin : Nat]
         /\ budget.purges > 0 => [budget EXCEPT !.purges = @ - 1]
                \in [duplicates : Nat, faults : Nat, purges : Nat, admin : Nat]
         /\ budget.admin > 0 => [budget EXCEPT !.admin = @ - 1]
                \in [duplicates : Nat, faults : Nat, purges : Nat, admin : Nat]
BY DEF TypeOK

(* A non-2xx answer ends the request and changes nothing else.                *)
LEMMA FailIInv ==
  ASSUME IInv, NEW h \in Handler, req[h].pc # "idle", Fail(h)
  PROVE  IInv'
<1>1. TypeOK'
  <2>1. req' \in [Handler -> Request \cup {Idle}]
    BY GotoTyped DEF IInv, Fail
  <2> QED
    BY <2>1 DEF Fail, IInv, TypeOK, EventId, db
<1>2. \A g \in Handler : req'[g].pc = "idle" \/ req'[g] = req[g]
  BY DEF Fail, Idle, IInv, TypeOK
<1> QED
  BY <1>1, <1>2, FrameIInv DEF Fail, IInv, AckedMeansPersisted

(* The early steps and the lookups of a conflicting insert.                   *)
LEMMA MoveIInv ==
  ASSUME IInv, NEW h \in Handler, req[h].pc # "idle",
         NEW pc \in {"tenant", "creds", "insert", "find", "findAgain", "config", "enqueue", "respond"},
         NEW id \in Nat,
         \/ req' = [req EXCEPT ![h].pc = pc]
         \/ /\ req' = [req EXCEPT ![h].pc = pc, ![h].id = id]
            /\ pc = "respond",
         pc \in {"find", "findAgain", "respond"} => inserted[req[h].n],
         pc \in {"config", "enqueue"} => Owner(h),
         UNCHANGED <<db, events, nextId, queued, acked, inserted, budget>>
  PROVE  IInv'
<1>0. req[h] \in Request
  BY RequestTyped DEF IInv
<1>1. TypeOK'
  <2>1. req' \in [Handler -> Request \cup {Idle}]
    <3>1. TypeOK
      BY DEF IInv
    <3>2. /\ [req EXCEPT ![h].pc = pc] \in [Handler -> Request \cup {Idle}]
          /\ [req EXCEPT ![h].pc = pc, ![h].id = id] \in [Handler -> Request \cup {Idle}]
      BY <3>1, GotoTyped
    <3> QED
      BY <3>2, Zenon
  <2> QED
    BY <2>1 DEF IInv, TypeOK, EventId, db
<1>2. \A g \in Handler : g # h => req'[g] = req[g]
  BY DEF IInv, TypeOK
<1>3. /\ req'[h].pc = pc /\ req'[h].n = req[h].n
      /\ pc # "respond" => req'[h].id = req[h].id
  BY <1>0 DEF IInv, TypeOK, Request
<1>4. \A g \in Handler : \/ req'[g].pc \in {"idle", "tenant", "creds", "insert"}
                         \/ req'[g] = req[g]
                         \/ /\ req'[g].pc \in {"find", "findAgain", "respond"}
                            /\ inserted[req'[g].n]
                         \/ /\ Owner(g) /\ Owner(g)'
                            /\ req'[g].n = req[g].n /\ req'[g].id = req[g].id
  BY <1>2, <1>3 DEF Owner
<1> QED
  BY <1>1, <1>4, FrameIInv DEF IInv, AckedMeansPersisted

(* The insert gives its event a fresh id that no other request owns.           *)
LEMMA InsertRowIInv ==
  ASSUME IInv, NEW h \in Handler, req[h].pc = "insert", InsertRow(h)
  PROVE  IInv'
<1> DEFINE n == req[h].n
           i == nextId + 1
<1>0. req[h] \in Request /\ n \in Notification /\ nextId \in Nat
  BY RequestTyped DEF IInv, TypeOK
<1>1. /\ nextId' = i /\ events' = events \cup {[id |-> i, n |-> n]}
      /\ queued' = [k \in 1..i |-> IF k = i THEN 0 ELSE queued[k]]
      /\ inserted' = [inserted EXCEPT ![n] = TRUE]
      /\ req' = [req EXCEPT ![h].pc = "config", ![h].id = i]
      /\ UNCHANGED <<db, acked, budget>>
  BY DEF InsertRow
<1>2. TypeOK'
  <2>1. req' \in [Handler -> Request \cup {Idle}]
    <3>1. TypeOK /\ i \in Nat /\ req[h].pc # "idle"
      BY <1>0 DEF IInv
    <3>2. [req EXCEPT ![h].pc = "config", ![h].id = i] \in [Handler -> Request \cup {Idle}]
      <4> HIDE DEF i
      <4> QED BY <3>1, GotoTyped
    <3> QED
      BY <1>1, <3>2, Zenon
  <2>2. queued' \in [1..i -> Nat]
    <3>1. \A k \in 1..i : k # i => k \in 1..nextId
      BY <1>0
    <3> QED
      BY <1>0, <1>1, <3>1 DEF IInv, TypeOK, EventId
  <2>3. events' \subseteq [id : Nat, n : Notification]
    BY <1>0, <1>1 DEF IInv, TypeOK
  <2>4. inserted' \in [Notification -> BOOLEAN]
    BY <1>0, <1>1 DEF IInv, TypeOK
  <2> QED
    BY <1>0, <1>1, <2>1, <2>2, <2>3, <2>4 DEF IInv, TypeOK, EventId, db
<1>3. /\ req'[h].pc = "config" /\ req'[h].n = n /\ req'[h].id = i
      /\ \A g \in Handler : g # h => req'[g] = req[g]
  BY <1>0, <1>1 DEF IInv, TypeOK, Request
<1>4. /\ EventId' = 1..i /\ EventId = 1..nextId /\ i \in EventId' /\ i \notin EventId
      /\ \A k \in EventId : k \in EventId' /\ queued'[k] = queued[k]
      /\ \A k \in EventId' : k = i \/ k \in EventId
      /\ queued'[i] = 0
  BY <1>0, <1>1 DEF EventId
<1>5. \A m \in Notification : inserted[m] => inserted'[m]
  BY <1>1 DEF IInv, TypeOK
<1>6. inserted'[n]
  BY <1>0, <1>1 DEF IInv, TypeOK
<1> HIDE DEF n, i
<1>7. OwnersApart'
  BY <1>3, <1>4 DEF IInv, OwnersApart, Owner
<1>8. PastInsert'
  <2>1. \A g \in Handler : req[g].pc # "idle" => req[g].n \in Notification
    BY RequestTyped DEF IInv
  <2> QED
    BY <1>3, <1>5, <1>6, <2>1 DEF IInv, PastInsert
<1>9. EventsInserted'
  <2>1. \A e \in events : e.n \in Notification
    BY DEF IInv, TypeOK
  <2> QED
    <3> SUFFICES ASSUME NEW e \in events' PROVE e.id \in EventId' /\ inserted'[e.n]
      BY DEF EventsInserted
    <3>1. CASE e \in events
      BY <1>4, <1>5, <2>1, <3>1 DEF IInv, EventsInserted
    <3>2. CASE e = [id |-> i, n |-> n]
      BY <1>4, <1>6, <3>2
    <3> QED
      BY <1>1, <3>1, <3>2
<1>10. OneDeliveryPerEvent'
  BY <1>4 DEF IInv, OneDeliveryPerEvent
<1>11. AckedMeansPersisted'
  BY <1>1, <1>5 DEF IInv, AckedMeansPersisted
<1> QED
  BY <1>2, <1>7, <1>8, <1>9, <1>10, <1>11 DEF IInv

(* Only the owner of an event enqueues it, once.                               *)
LEMMA EnqueueIInv ==
  ASSUME IInv, NEW h \in Handler, Enqueue(h)
  PROVE  IInv'
<1>0. /\ req[h].pc = "enqueue" /\ req[h] \in Request /\ req[h].n \in Notification
      /\ Owner(h) /\ req[h].id \in EventId /\ queued[req[h].id] = 0 /\ inserted[req[h].n]
  BY RequestTyped DEF Enqueue, IInv, OwnersApart, PastInsert, Owner
<1>1. CASE Fail(h)
  BY <1>0, <1>1, FailIInv
<1>2. CASE /\ queued' = [queued EXCEPT ![req[h].id] = @ + 1]
           /\ Goto(h, "respond")
           /\ UNCHANGED <<db, events, nextId, acked, inserted, budget>>
  <2>1. /\ req' = [req EXCEPT ![h].pc = "respond"]
        /\ req'[h].pc = "respond" /\ req'[h].n = req[h].n
        /\ \A g \in Handler : g # h => req'[g] = req[g]
    BY <1>0, <1>2 DEF Goto, IInv, TypeOK, Request
  <2>2. req' \in [Handler -> Request \cup {Idle}]
    <3>1. TypeOK /\ req[h].pc # "idle" /\ 0 \in Nat
      BY <1>0 DEF IInv
    <3>2. [req EXCEPT ![h].pc = "respond"] \in [Handler -> Request \cup {Idle}]
      BY <3>1, GotoTyped
    <3> QED
      BY <2>1, <3>2, Zenon
  <2>3. /\ queued' \in [EventId -> Nat] /\ EventId' = EventId
        /\ queued'[req[h].id] = 1
        /\ \A k \in EventId : k # req[h].id => queued'[k] = queued[k]
    BY <1>0, <1>2 DEF IInv, TypeOK, EventId
  <2>4. TypeOK'
    BY <1>2, <2>2, <2>3 DEF IInv, TypeOK, db
  <2>5. OwnersApart'
    BY <1>0, <2>1, <2>3 DEF IInv, OwnersApart, Owner
  <2>6. PastInsert'
    BY <1>0, <1>2, <2>1 DEF IInv, PastInsert
  <2>7. OneDeliveryPerEvent'
    BY <1>0, <2>3 DEF IInv, OneDeliveryPerEvent
  <2>8. EventsInserted' /\ AckedMeansPersisted'
    BY <1>2, <2>3 DEF IInv, EventsInserted, AckedMeansPersisted
  <2> QED
    BY <2>4, <2>5, <2>6, <2>7, <2>8 DEF IInv
<1> QED
  BY <1>1, <1>2 DEF Enqueue

(* Every step of a request.                                                    *)
LEMMA StepIInv ==
  ASSUME IInv, NEW h \in Handler, Step(h)
  PROVE  IInv'
<1>0. TypeOK /\ 0 \in Nat
  BY DEF IInv
<1>1. CASE CheckTenant(h) \/ CheckCreds(h)
  <2>0. req[h].pc # "idle"
    BY <1>1 DEF CheckTenant, CheckCreds
  <2>1. CASE Fail(h)
    BY <2>0, <2>1, FailIInv
  <2>2. CASE ~Fail(h)
    <3>1. PICK pc \in {"creds", "insert", "tenant"} :
            /\ Goto(h, pc)
            /\ UNCHANGED <<db, events, nextId, queued, acked, inserted, budget>>
      BY <1>1, <2>2 DEF CheckTenant, CheckCreds
    <3> QED
      BY <1>0, <2>0, <3>1, MoveIInv DEF Goto
  <2> QED
    BY <2>1, <2>2
<1>2. CASE Insert(h)
  <2>0. req[h].pc = "insert" /\ req[h].n \in Notification
    BY <1>0, <1>2, RequestTyped DEF Insert
  <2>1. CASE Fail(h)
    BY <2>0, <2>1, FailIInv
  <2>2. CASE InsertRow(h)
    BY <2>0, <2>2, InsertRowIInv
  <2>3. CASE /\ Conflict(req[h].n) /\ Goto(h, "find")
             /\ UNCHANGED <<db, events, nextId, queued, acked, inserted, budget>>
    <3>1. inserted[req[h].n]
      BY <2>3 DEF Conflict, IInv, EventsInserted
    <3> QED
      BY <1>0, <2>0, <2>3, <3>1, MoveIInv DEF Goto
  <2> QED
    BY <1>2, <2>1, <2>2, <2>3 DEF Insert
<1>3. CASE Find(h)
  <2>1. req[h].pc \in {"find", "findAgain"} /\ inserted[req[h].n]
    BY <1>3 DEF Find, IInv, PastInsert
  <2>2. PICK id \in Nat : req' = [req EXCEPT ![h].pc = "respond", ![h].id = id]
    BY <1>0, <1>3 DEF Find, TypeOK
  <2>3. UNCHANGED <<db, events, nextId, queued, acked, inserted, budget>>
    BY <1>3 DEF Find
  <2> QED
    BY <2>1, <2>2, <2>3, MoveIInv
<1>4. CASE FindNothing(h) \/ Degrade(h)
  <2>1. req[h].pc \in {"find", "findAgain"} /\ inserted[req[h].n]
    BY <1>4 DEF FindNothing, Degrade, IInv, PastInsert
  <2>2. PICK pc \in {"findAgain", "respond"} : req' = [req EXCEPT ![h].pc = pc]
    BY <1>4 DEF FindNothing, Degrade, Goto
  <2>3. UNCHANGED <<db, events, nextId, queued, acked, inserted, budget>>
    BY <1>4 DEF FindNothing, Degrade
  <2> QED
    BY <1>0, <2>1, <2>2, <2>3, MoveIInv
<1>5. CASE ReadConfig(h)
  <2>1. req[h].pc = "config" /\ Owner(h) /\ inserted[req[h].n]
    BY <1>5 DEF ReadConfig, IInv, PastInsert, Owner
  <2>2. PICK pc \in {"enqueue", "respond"} : req' = [req EXCEPT ![h].pc = pc]
    BY <1>5 DEF ReadConfig, Goto
  <2>3. UNCHANGED <<db, events, nextId, queued, acked, inserted, budget>>
    BY <1>5 DEF ReadConfig
  <2> QED
    BY <1>0, <2>1, <2>2, <2>3, MoveIInv
<1>6. CASE Enqueue(h)
  BY <1>6, EnqueueIInv
<1>7. CASE Respond(h)
  <2>0. req[h].pc # "idle" /\ inserted[req[h].n] /\ req[h].n \in Notification
    BY <1>0, <1>7, RequestTyped DEF Respond, IInv, PastInsert
  <2>1. req' \in [Handler -> Request \cup {Idle}]
    BY <1>0, <1>7, <2>0, GotoTyped DEF Respond
  <2>2. acked' \in [Notification -> BOOLEAN] /\ \A n \in Notification : acked'[n] => inserted[n]
    BY <1>7, <2>0 DEF Respond, IInv, TypeOK, AckedMeansPersisted
  <2>3. TypeOK'
    BY <1>7, <2>1, <2>2 DEF Respond, IInv, TypeOK, EventId, db
  <2>4. \A g \in Handler : req'[g].pc = "idle" \/ req'[g] = req[g]
    BY <1>7 DEF Respond, Idle, IInv, TypeOK
  <2> QED
    BY <1>7, <2>2, <2>3, <2>4, FrameIInv DEF Respond
<1> QED
  BY <1>1, <1>2, <1>3, <1>4, <1>5, <1>6, <1>7 DEF Step

LEMMA NextIInv == IInv /\ [Next]_vars => IInv'
<1> SUFFICES ASSUME IInv, [Next]_vars PROVE IInv'
  OBVIOUS
<1>0. TypeOK /\ \A n \in Notification : acked[n] => inserted[n]
  BY DEF IInv, AckedMeansPersisted
<1>1. CASE UNCHANGED vars
  <2>1. TypeOK'
    BY <1>0, <1>1 DEF vars, TypeOK, EventId, db
  <2> QED
    BY <1>0, <1>1, <2>1, FrameIInv DEF vars
<1>2. ASSUME NEW h \in Handler, NEW n \in Notification, Deliver(h, n) \/ Duplicate(h, n)
      PROVE  IInv'
  <2>1. req' = [req EXCEPT ![h] = [pc |-> FirstPc(n), n |-> n, id |-> 0]]
    BY <1>2 DEF Deliver, Duplicate, Arrive
  <2>2. FirstPc(n) \in {"tenant", "creds"}
    BY DEF FirstPc
  <2>3. req' \in [Handler -> Request \cup {Idle}]
    BY <1>0, <2>1, <2>2 DEF TypeOK, Request
  <2>4. budget' \in [duplicates : Nat, faults : Nat, purges : Nat, admin : Nat]
    BY <1>0, <1>2, BudgetTyped DEF Deliver, Duplicate, TypeOK
  <2>5. TypeOK'
    BY <1>0, <1>2, <2>3, <2>4 DEF Deliver, Duplicate, TypeOK, EventId, db
  <2>6. \A g \in Handler : req'[g].pc \in {"tenant", "creds"} \/ req'[g] = req[g]
    BY <1>0, <2>1, <2>2 DEF TypeOK
  <2> QED
    BY <1>0, <1>2, <2>5, <2>6, FrameIInv DEF Deliver, Duplicate
<1>3. ASSUME NEW h \in Handler, QueryFails(h) PROVE IInv'
  <2>1. req' \in [Handler -> Request \cup {Idle}]
    BY <1>0, <1>3 DEF QueryFails, TypeOK
  <2>2. budget' \in [duplicates : Nat, faults : Nat, purges : Nat, admin : Nat]
    BY <1>0, <1>3, BudgetTyped DEF QueryFails, UseFault
  <2>3. TypeOK'
    BY <1>0, <1>3, <2>1, <2>2 DEF QueryFails, TypeOK, EventId, db
  <2>4. \A g \in Handler : req'[g].pc = "idle" \/ req'[g] = req[g]
    BY <1>0, <1>3 DEF QueryFails, Idle, TypeOK
  <2> QED
    BY <1>0, <1>3, <2>3, <2>4, FrameIInv DEF QueryFails
<1>4. CASE Crash
  <2>1. budget' \in [duplicates : Nat, faults : Nat, purges : Nat, admin : Nat]
    BY <1>0, <1>4, BudgetTyped DEF Crash, UseFault
  <2>2. TypeOK'
    BY <1>0, <1>4, <2>1 DEF Crash, TypeOK, EventId, db
  <2>3. \A g \in Handler : req'[g].pc = "idle"
    BY <1>4 DEF Crash, Idle
  <2> QED
    BY <1>0, <1>4, <2>2, <2>3, FrameIInv DEF Crash
<1>5. CASE Admin
  <2>1. events' \subseteq events /\ UNCHANGED <<nextId, queued, req, acked, inserted>>
    BY <1>5 DEF Admin, DeactivateTenant, DeleteTenant, SetCreds, SetAudience, SetConfig, PurgeEvent
  <2>2. budget' \in [duplicates : Nat, faults : Nat, purges : Nat, admin : Nat]
    BY <1>0, <1>5, BudgetTyped
       DEF Admin, DeactivateTenant, DeleteTenant, SetCreds, SetAudience, SetConfig, PurgeEvent, UseAdmin
  <2>3. tenant' \in [Tenant -> {"active", "inactive", "deleted"}]
    BY <1>0, <1>5
       DEF Admin, DeactivateTenant, DeleteTenant, SetCreds, SetAudience, SetConfig, PurgeEvent, TypeOK, db
  <2>4. config' \in [Tenant -> {"none", "active", "inactive"}]
    BY <1>0, <1>5
       DEF Admin, DeactivateTenant, DeleteTenant, SetCreds, SetAudience, SetConfig, PurgeEvent, TypeOK, db
  <2>5. creds' \in [Tenant -> Creds]
    <3>1. NoCreds \in Creds
      BY DEF Creds
    <3>2. creds' = creds \/ \E t \in Tenant, c \in Creds : creds' = [creds EXCEPT ![t] = c]
      BY <1>5, <3>1
         DEF Admin, DeactivateTenant, DeleteTenant, SetCreds, SetAudience, SetConfig, PurgeEvent, db
    <3> QED
      BY <1>0, <3>2 DEF TypeOK
  <2>6. audience' \in [Tenant -> BOOLEAN]
    <3>1. audience' = audience \/ \E t \in Tenant, b \in BOOLEAN : audience' = [audience EXCEPT ![t] = b]
      BY <1>5
         DEF Admin, DeactivateTenant, DeleteTenant, SetCreds, SetAudience, SetConfig, PurgeEvent, db
    <3> QED
      BY <1>0, <3>1 DEF TypeOK
  <2>7. TypeOK'
    BY <1>0, <2>1, <2>2, <2>3, <2>4, <2>5, <2>6 DEF TypeOK, EventId
  <2> QED
    BY <1>0, <2>1, <2>7, FrameIInv
<1> QED
  BY <1>1, <1>2, <1>3, <1>4, <1>5, StepIInv DEF Next

LEMMA AlwaysIInv == Spec => []IInv
BY InitIInv, NextIInv, PTL DEF Spec

(* The event row is enqueued for delivery at most once.                       *)
THEOREM SingleDelivery == Spec => []OneDeliveryPerEvent
<1>1. IInv => OneDeliveryPerEvent
  BY DEF IInv
<1> QED
  BY <1>1, AlwaysIInv, PTL

(* The store is told 200 only after the row was inserted.                     *)
THEOREM AckAfterInsert == Spec => []AckedMeansPersisted
<1>1. IInv => AckedMeansPersisted
  BY DEF IInv
<1> QED
  BY <1>1, AlwaysIInv, PTL

-----------------------------------------------------------------------------
(* What loses a delivery.                                                     *)

BudgetBound == budget.faults <= MaxFaults /\ budget.admin <= MaxAdmin

(* The budgets only shrink.                                                   *)
LEMMA BudgetShrinks ==
  ASSUME TypeOK, [Next]_vars
  PROVE  budget'.faults <= budget.faults /\ budget'.admin <= budget.admin
<1>1. budget \in [duplicates : Nat, faults : Nat, purges : Nat, admin : Nat]
  BY DEF TypeOK
<1>2. CASE budget' = budget
  BY <1>1, <1>2
<1>3. CASE \/ budget' = [budget EXCEPT !.duplicates = @ - 1]
           \/ budget' = [budget EXCEPT !.faults = @ - 1]
           \/ budget' = [budget EXCEPT !.purges = @ - 1]
           \/ budget' = [budget EXCEPT !.admin = @ - 1]
  BY <1>1, <1>3
<1>4. ASSUME NEW h \in Handler, Step(h) PROVE budget' = budget
  BY <1>4 DEF Step, CheckTenant, CheckCreds, Insert, InsertRow, Find, FindNothing, Degrade,
              ReadConfig, Enqueue, Respond, Fail
<1> QED
  BY <1>2, <1>3, <1>4 DEF Next, Deliver, Duplicate, QueryFails, Crash, UseFault, Admin,
     DeactivateTenant, DeleteTenant, SetCreds, SetAudience, SetConfig, PurgeEvent, UseAdmin, vars

(* Who owed a delivery that is wanted still owes it.                          *)
LEMMA StillOwed ==
  ASSUME Undelivered = {}, events' \subseteq events, UNCHANGED <<config, queued>>,
         \A h \in Handler : \A e \in events :
           Owes(h, e) /\ config[TenantOf[e.n]] = "active" => Owes(h, e)'
  PROVE  Undelivered' = {}
BY DEF Undelivered

LEMMA UndeliveredStaysEmpty ==
  ASSUME IInv, BudgetBound, Undelivered = {}, [Next]_vars,
         budget'.faults = budget.faults, budget'.admin = budget.admin
  PROVE  Undelivered' = {}
<1>0. TypeOK /\ IInv'
  BY NextIInv DEF IInv
<1>a. /\ budget.faults \in Nat /\ budget.admin \in Nat
      /\ budget \in [duplicates : Nat, faults : Nat, purges : Nat, admin : Nat]
  BY <1>0 DEF TypeOK
<1>1. CASE UNCHANGED vars
  BY <1>1, StillOwed DEF vars, db, Owes
<1>2. ASSUME NEW h \in Handler, NEW n \in Notification, Deliver(h, n) \/ Duplicate(h, n)
      PROVE  Undelivered' = {}
  <2>1. /\ UNCHANGED <<db, events, queued>> /\ req[h].pc = "idle"
        /\ \A g \in Handler : g # h => req'[g] = req[g]
    BY <1>0, <1>2 DEF Deliver, Duplicate, Arrive, Idle, TypeOK
  <2>2. \A g \in Handler : \A e \in events : Owes(g, e) => Owes(g, e)'
    BY <2>1 DEF Owes
  <2> QED
    BY <2>1, <2>2, StillOwed DEF db
<1>3. ASSUME NEW h \in Handler, QueryFails(h) PROVE FALSE
  BY <1>a, <1>3 DEF QueryFails, UseFault
<1>4. CASE Crash
  BY <1>a, <1>4 DEF Crash, UseFault
<1>5. CASE Admin
  <2>1. PICK e \in events : PurgeEvent(e)
    BY <1>a, <1>5 DEF Admin, DeactivateTenant, DeleteTenant, SetCreds, SetAudience, SetConfig, UseAdmin
  <2>2. events' \subseteq events /\ UNCHANGED <<db, queued, req>>
    BY <2>1 DEF PurgeEvent
  <2> QED
    BY <2>2, StillOwed DEF db, Owes
<1>6. ASSUME NEW h \in Handler, Step(h) PROVE Undelivered' = {}
  <2>0. \A g \in Handler : g # h => req'[g] = req[g]
    BY <1>0, <1>6 DEF Step, CheckTenant, CheckCreds, Insert, InsertRow, Find, FindNothing, Degrade,
              ReadConfig, Enqueue, Respond, Fail, Goto, TypeOK
  <2>1. CASE ~Owner(h) /\ UNCHANGED <<db, events, queued>>
    <3>1. \A g \in Handler : \A e \in events : Owes(g, e) => Owes(g, e)'
      BY <2>0, <2>1 DEF Owes, Owner
    <3> QED
      BY <2>1, <3>1, StillOwed DEF db
  <2>2. CASE InsertRow(h) /\ req[h].pc = "insert"
    <3> DEFINE i == nextId + 1
    <3>1. /\ req[h] \in Request /\ nextId \in Nat
          /\ events' = events \cup {[id |-> i, n |-> req[h].n]}
          /\ queued' = [k \in 1..i |-> IF k = i THEN 0 ELSE queued[k]]
          /\ config' = config
      BY <1>0, <2>2, RequestTyped DEF InsertRow, TypeOK, db
    <3>2. req'[h].pc = "config" /\ req'[h].n = req[h].n /\ req'[h].id = i
      BY <1>0, <2>2, <3>1 DEF InsertRow, TypeOK, Request
    <3>3. \A e \in events : e.id \in 1..nextId
      BY DEF IInv, EventsInserted, EventId
    <3>4. \A e \in events : queued'[e.id] = queued[e.id]
      BY <3>1, <3>3
    <3>5. \A g \in Handler : \A e \in events : Owes(g, e) => Owes(g, e)'
      BY <2>0, <2>2 DEF Owes
    <3> HIDE DEF i
    <3> SUFFICES ASSUME NEW e \in events', config[TenantOf[e.n]] = "active", queued'[e.id] # 1
                 PROVE  \E g \in Handler : Owes(g, e)'
      BY <3>1 DEF Undelivered
    <3>6. CASE e \in events
      BY <3>4, <3>5, <3>6 DEF Undelivered
    <3>7. CASE e.id = i /\ e.n = req[h].n
      BY <3>2, <3>7 DEF Owes
    <3> QED
      BY <3>1, <3>6, <3>7
  <2>3. CASE ReadConfig(h)
    <3>1. /\ UNCHANGED <<config, events, queued>> /\ req[h].pc = "config" /\ req[h] \in Request
          /\ req' = [req EXCEPT ![h].pc =
                       IF config[TenantOf[req[h].n]] = "active" THEN "enqueue" ELSE "respond"]
      BY <1>0, <2>3, RequestTyped DEF ReadConfig, Goto, db
    <3>2. ASSUME NEW e \in events, Owes(h, e), config[TenantOf[e.n]] = "active"
          PROVE  Owes(h, e)'
      <4>1. req' = [req EXCEPT ![h].pc = "enqueue"]
        BY <3>1, <3>2 DEF Owes
      <4>2. req'[h].pc = "enqueue" /\ req'[h].n = req[h].n /\ req'[h].id = req[h].id
        BY <1>0, <3>1, <4>1 DEF TypeOK, Request
      <4> QED
        BY <3>2, <4>2 DEF Owes
    <3>3. \A g \in Handler : \A e \in events : g # h /\ Owes(g, e) => Owes(g, e)'
      BY <2>0 DEF Owes
    <3> QED
      BY <3>1, <3>2, <3>3, StillOwed
  <2>4. CASE Enqueue(h)
    <3>0. /\ req[h].pc = "enqueue" /\ req[h] \in Request /\ events' = events /\ config' = config
          /\ req[h].id \in EventId /\ queued[req[h].id] = 0
      BY <1>0, <2>4, RequestTyped
         DEF Enqueue, Fail, db, IInv, OwnersApart, Owner
    <3>1. ASSUME NEW e \in events PROVE e.id \in EventId
      BY DEF IInv, EventsInserted
    <3>2. \A g \in Handler : \A e \in events : g # h /\ Owes(g, e) => Owes(g, e)'
      BY <2>0 DEF Owes
    <3>3. CASE \E e \in events : e.id = req[h].id
      <4>1. queued' = [queued EXCEPT ![req[h].id] = @ + 1]
        BY <2>4, <3>3 DEF Enqueue
      <4>2. /\ queued'[req[h].id] = 1
            /\ \A k \in EventId : k # req[h].id => queued'[k] = queued[k]
        BY <1>0, <3>0, <4>1 DEF TypeOK
      <4>3. \A e \in events : Owes(h, e) => e.id = req[h].id
        BY DEF Owes
      <4> QED
        BY <3>0, <3>1, <3>2, <4>2, <4>3 DEF Undelivered
    <3>4. CASE ~\E e \in events : e.id = req[h].id
      <4>1. \A e \in events : ~Owes(h, e)
        BY <3>4 DEF Owes
      <4>2. queued' = queued
        BY <2>4, <3>4 DEF Enqueue, Fail
      <4> QED
        BY <3>0, <3>2, <4>1, <4>2, StillOwed
    <3> QED
      BY <3>3, <3>4
  <2> QED
    BY <1>6, <2>1, <2>2, <2>3, <2>4
       DEF Step, CheckTenant, CheckCreds, Insert, Find, FindNothing, Degrade, Respond, Fail, Owner
<1> QED
  BY <1>1, <1>2, <1>3, <1>4, <1>5, <1>6 DEF Next

(* However requests race, repeat and overlap with purges: as long as no query *)
(* failed, no answer was lost, no process died and no set-up changed, every    *)
(* event of a tenant with a callback has its delivery or a request about to   *)
(* insert it.                                                                 *)
THEOREM OnlyFaultsLose == Spec => []OnlyFaultsLoseDeliveries
<1> DEFINE Kept == IInv /\ BudgetBound /\ OnlyFaultsLoseDeliveries
<1>1. Init => Kept
  <2> SUFFICES ASSUME Init PROVE Kept
    OBVIOUS
  <2>1. BudgetBound
    BY IngestAssumption DEF Init, BudgetBound
  <2>2. OnlyFaultsLoseDeliveries
    BY DEF Init, OnlyFaultsLoseDeliveries, Undelivered
  <2> QED
    BY <2>1, <2>2, InitIInv
<1>2. Kept /\ [Next]_vars => Kept'
  <2> SUFFICES ASSUME Kept, [Next]_vars PROVE Kept'
    OBVIOUS
  <2>1. /\ budget'.faults <= budget.faults /\ budget'.admin <= budget.admin
        /\ budget.faults \in Nat /\ budget.admin \in Nat
        /\ budget'.faults \in Nat /\ budget'.admin \in Nat
        /\ MaxFaults \in Nat /\ MaxAdmin \in Nat
    BY BudgetShrinks, NextIInv, IngestAssumption DEF IInv, TypeOK
  <2>2. BudgetBound'
    BY <2>1 DEF BudgetBound
  <2>3. ASSUME budget'.faults = MaxFaults, budget'.admin = MaxAdmin
        PROVE  Undelivered' = {}
    <3>1. budget.faults = MaxFaults /\ budget.admin = MaxAdmin
      BY <2>1, <2>3 DEF BudgetBound
    <3> QED
      BY <2>3, <3>1, UndeliveredStaysEmpty DEF OnlyFaultsLoseDeliveries
  <2> QED
    BY <2>2, <2>3, NextIInv DEF OnlyFaultsLoseDeliveries
<1>3. Kept => OnlyFaultsLoseDeliveries
  OBVIOUS
<1> QED
  BY <1>1, <1>2, <1>3, PTL DEF Spec

-----------------------------------------------------------------------------
(* What the callback is told, for every payload.                              *)

(* A key of a map gets one of its mappings, or Unknown.                       *)
LEMMA ClassifiedIn ==
  ASSUME NEW map, NEW key
  PROVE  Classified(map, key) \in {e[2] : e \in map} \cup {Unknown}
<1>1. At(map, key) \subseteq {e[2] : e \in map}
  BY DEF At
<1>2. CASE At(map, key) = {}
  BY <1>2 DEF Classified
<1>3. CASE At(map, key) # {}
  <2>1. (CHOOSE m \in At(map, key) : TRUE) \in At(map, key)
    BY <1>3
  <2> QED
    BY <1>1, <1>3, <2>1 DEF Classified
<1> QED
  BY <1>2, <1>3

(* The names of no Apple mapping.                                             *)
GoogleOnly ==
  {"on_hold", "deferred", "paused", "pause_schedule_changed", "pending_purchase_canceled",
   "price_change_updated", "price_change_rejected", "canceled", "unknown"}

LEMMA AppleNames ==
  \A e \in APPLE_MAP : /\ e[2].name \notin GoogleOnly
                       /\ e[2].kind = "product" => e[2].name = "charged"
<1>1. \A type, subtypes, mapping : \A e \in Row(type, subtypes, mapping) : e[2] = mapping
  BY DEF Row
<1>2. \A e \in APPLE_MAP :
        \E mapping : /\ e[2] = mapping
                     /\ mapping.name \notin GoogleOnly
                     /\ mapping.kind = "product" => mapping.name = "charged"
  BY <1>1 DEF APPLE_MAP, Sub, Product, Test, Mapping, GoogleOnly
<1> QED
  BY <1>2

(* The mappings both stores give.                                             *)
Shared ==
  {Mapping("subscription", "purchased", "initial"), Sub("recovered"), Sub("renewed"),
   Sub("cancellation_scheduled"), Sub("in_grace_period"), Sub("cancellation_revoked"),
   Sub("price_change_accepted"), Sub("revoked"), Sub("expired"), Sub("refunded"), Test}

LEMMA SharedIsApple == \A m \in Shared : \E e \in APPLE_MAP : e[2] = m
<1> DEFINE Given(m) == \E e \in APPLE_MAP : e[2] = m
<1>1. ASSUME NEW type, NEW subtypes, NEW subtype \in subtypes, NEW m,
             Row(type, subtypes, m) \subseteq APPLE_MAP
      PROVE  Given(m)
  <2>1. <<<<type, subtype>>, m>> \in Row(type, subtypes, m)
    BY DEF Row
  <2> QED
    BY <1>1, <2>1
<1>2. Given(Mapping("subscription", "purchased", "initial"))
  <2>1. Row("SUBSCRIBED", {Absent, "INITIAL_BUY"}, Mapping("subscription", "purchased", "initial")) \subseteq APPLE_MAP
    BY DEF APPLE_MAP
  <2> QED BY <1>1, <2>1
<1>3. Given(Sub("recovered"))
  <2>1. Row("DID_RENEW", {"BILLING_RECOVERY"}, Sub("recovered")) \subseteq APPLE_MAP
    BY DEF APPLE_MAP
  <2> QED BY <1>1, <2>1
<1>4. Given(Sub("renewed"))
  <2>1. Row("DID_RENEW", {Absent}, Sub("renewed")) \subseteq APPLE_MAP
    BY DEF APPLE_MAP
  <2> QED BY <1>1, <2>1
<1>5. Given(Sub("cancellation_scheduled"))
  <2>1. Row("DID_CHANGE_RENEWAL_STATUS", {"AUTO_RENEW_DISABLED"}, Sub("cancellation_scheduled")) \subseteq APPLE_MAP
    BY DEF APPLE_MAP
  <2> QED BY <1>1, <2>1
<1>6. Given(Sub("in_grace_period"))
  <2>1. Row("DID_FAIL_TO_RENEW", {"GRACE_PERIOD"}, Sub("in_grace_period")) \subseteq APPLE_MAP
    BY DEF APPLE_MAP
  <2> QED BY <1>1, <2>1
<1>7. Given(Sub("cancellation_revoked"))
  <2>1. Row("DID_CHANGE_RENEWAL_STATUS", {"AUTO_RENEW_ENABLED"}, Sub("cancellation_revoked")) \subseteq APPLE_MAP
    BY DEF APPLE_MAP
  <2> QED BY <1>1, <2>1
<1>8. Given(Sub("price_change_accepted"))
  <2>1. Row("PRICE_INCREASE", {"ACCEPTED"}, Sub("price_change_accepted")) \subseteq APPLE_MAP
    BY DEF APPLE_MAP
  <2> QED BY <1>1, <2>1
<1>9. Given(Sub("revoked"))
  <2>1. Row("REVOKE", {Absent}, Sub("revoked")) \subseteq APPLE_MAP
    BY DEF APPLE_MAP
  <2> QED BY <1>1, <2>1
<1>10. Given(Sub("expired"))
  <2>1. Row("EXPIRED", {Absent}, Sub("expired")) \subseteq APPLE_MAP
    BY DEF APPLE_MAP
  <2> QED BY <1>1, <2>1
<1>11. Given(Sub("refunded"))
  <2>1. Row("REFUND", {Absent}, Sub("refunded")) \subseteq APPLE_MAP
    BY DEF APPLE_MAP
  <2> QED BY <1>1, <2>1
<1>12. Given(Test)
  <2>1. Row("TEST", {Absent}, Test) \subseteq APPLE_MAP
    BY DEF APPLE_MAP
  <2> QED BY <1>1, <2>1
<1> HIDE DEF Given
<1>13. \A m \in Shared : Given(m)
  BY <1>2, <1>3, <1>4, <1>5, <1>6, <1>7, <1>8, <1>9, <1>10, <1>11, <1>12 DEF Shared
<1> QED
  BY <1>13 DEF Given

LEMMA GoogleMappings ==
  ASSUME NEW p
  PROVE  LET m == NormalizeGoogle(p)
         IN  m \in Shared \/ m.name \in GoogleOnly \/ (m.kind = "product" /\ m.name # "charged")
<1> DEFINE Ok(m) == \/ m \in Shared
                    \/ m.name \in GoogleOnly
                    \/ m.kind = "product" /\ m.name # "charged"
<1>1. \A e \in GOOGLE_SUB_MAP : Ok(e[2])
  BY DEF GOOGLE_SUB_MAP, Shared, GoogleOnly, Sub, Mapping
<1>2. \A e \in GOOGLE_PRODUCT_MAP : Ok(e[2])
  BY DEF GOOGLE_PRODUCT_MAP, GoogleOnly, Product, Mapping
<1>3. Ok(Unknown) /\ Ok(Test) /\ Ok(Sub("refunded"))
  BY DEF Unknown, Mapping, GoogleOnly, Shared
<1> HIDE DEF Ok
<1>4. /\ \A n : Ok(Classified(GOOGLE_SUB_MAP, n))
      /\ \A n : Ok(Classified(GOOGLE_PRODUCT_MAP, n))
  BY <1>1, <1>2, <1>3, ClassifiedIn
<1>5. Ok(NormalizeGoogle(p))
  BY <1>3, <1>4 DEF NormalizeGoogle
<1> QED
  BY <1>5 DEF Ok

LEMMA GoogleReasons ==
  ASSUME NEW p, AppleReasons(NormalizeGoogle(p)) # {}
  PROVE  NormalizeGoogle(p).reason \in AppleReasons(NormalizeGoogle(p))
<1> DEFINE m == NormalizeGoogle(p)
<1>1. PICK a \in APPLE_MAP : a[2].kind = m.kind /\ a[2].name = m.name
  BY DEF AppleReasons
<1>2. m \in Shared
  BY <1>1, AppleNames, GoogleMappings
<1>3. PICK e \in APPLE_MAP : e[2] = m
  BY <1>2, SharedIsApple
<1> QED
  BY <1>3 DEF AppleReasons

LEMMA AppleFallback ==
  ASSUME NEW p, At(APPLE_MAP, <<p.type, Absent>>) # {}, At(APPLE_MAP, <<p.type, p.subtype>>) = {}
  PROVE  NormalizeApple(p) \in At(APPLE_MAP, <<p.type, Absent>>)
<1> DEFINE bare == At(APPLE_MAP, <<p.type, Absent>>)
<1>1. NormalizeApple(p) = CHOOSE m \in bare : TRUE
  BY DEF NormalizeApple, Classified
<1> QED
  BY <1>1

LEMMA NothingMisclassified == \A s \in {"apple", "google"} : Misclassified[s] = {}
<1>1. Misclassified.apple = {}
  BY AppleFallback DEF Misclassified
<1>2. Misclassified.google = {}
  BY GoogleReasons DEF Misclassified
<1> QED
  BY <1>1, <1>2 DEF Misclassified

(* A string is there, and so is a subject made of strings.                    *)
LEMMA TextIsPresent == \A s \in Text : s # Absent
BY AbsentAssumption

LEMMA SubjectIsPresent ==
  ASSUME NEW key \in Text, NEW productId \in Text \cup {Absent},
         NEW type \in {"subscription", "product"}
  PROVE  Subject(key, productId, type) # Absent
<1>1. Subject(key, productId, type)
        \in [key : Text, productId : Text \cup {Absent}, type : {"subscription", "product"}]
  BY DEF Subject
<1> QED
  BY <1>1, AbsentAssumption

LEMMA ClassifiedKind ==
  ASSUME NEW map, NEW key, NEW kind, \A e \in map : e[2].kind = kind
  PROVE  Classified(map, key).kind \in {kind, "unknown"}
BY ClassifiedIn DEF Unknown, Mapping

LEMMA GoogleKinds ==
  /\ \A n : Classified(GOOGLE_SUB_MAP, n).kind \in {"subscription", "unknown"}
  /\ \A n : Classified(GOOGLE_PRODUCT_MAP, n).kind \in {"product", "unknown"}
<1>1. \A e \in GOOGLE_SUB_MAP : e[2].kind = "subscription"
  BY DEF GOOGLE_SUB_MAP, Sub, Mapping
<1>2. \A e \in GOOGLE_PRODUCT_MAP : e[2].kind = "product"
  BY DEF GOOGLE_PRODUCT_MAP, Product, Mapping
<1> QED
  BY <1>1, <1>2, ClassifiedKind

(* A user goes out with a subject, if its transaction has an original id.     *)
LEMMA AppleSubjectFits ==
  \A p \in ApplePayload : \A row \in Persisted("apple", p) : SubjectFits(row)
<1> SUFFICES ASSUME NEW p \in ApplePayload, NEW row \in Persisted("apple", p)
             PROVE  SubjectFits(row)
  OBVIOUS
<1>1. /\ row.source = "apple" /\ row.subjectKey = Absent /\ row.payload = p
      /\ row.appUserId = ExtractAppleAppUserId(p)
  BY DEF Persisted
<1>2. BuildPayload(row).subject = ExtractAppleSubject(p)
  BY <1>1 DEF BuildPayload, ExtractSubject
<1>3. row.appUserId # Absent /\ p.tx.originalTransactionId # Absent
        => ExtractAppleSubject(p) # Absent
  <2> SUFFICES ASSUME row.appUserId # Absent, p.tx.originalTransactionId # Absent
               PROVE  ExtractAppleSubject(p) # Absent
    OBVIOUS
  <2> DEFINE type == IF p.tx.type \in APPLE_SUBSCRIPTION_TYPES THEN "subscription" ELSE "product"
  <2>1. p.tx \in AppleTransaction /\ p.tx # Absent
    BY <1>1 DEF ApplePayload, ExtractAppleAppUserId
  <2>2. /\ p.tx.originalTransactionId \in Text /\ p.tx.productId \in Text \cup {Absent}
    BY <2>1 DEF AppleTransaction
  <2>3. Subject(p.tx.originalTransactionId, p.tx.productId, type) # Absent
    BY <2>2, SubjectIsPresent
  <2> QED
    BY <2>1, <2>2, <2>3, TextIsPresent DEF ExtractAppleSubject
<1> QED
  BY <1>1, <1>2, <1>3 DEF SubjectFits

(* The override replaces the key and nothing else.                            *)
LEMMA OverriddenSubject ==
  ASSUME NEW key \in Text, NEW productId \in Text \cup {Absent},
         NEW type \in {"subscription", "product"}, NEW override \in Text \cup {Absent},
         NEW p, ExtractGoogleSubject(p) = Subject(key, productId, type)
  PROVE  /\ ExtractSubject("google", p, override) # Absent
         /\ ExtractSubject("google", p, override).type = type
         /\ override # Absent => ExtractSubject("google", p, override).key = override
<1>1. CASE override = Absent
  <2>1. ExtractSubject("google", p, override) = Subject(key, productId, type)
    BY <1>1 DEF ExtractSubject
  <2> QED
    BY <1>1, <2>1, SubjectIsPresent DEF Subject
<1>2. CASE override # Absent
  <2>1. ExtractSubject("google", p, override) = Subject(override, productId, type)
    BY <1>2, SubjectIsPresent DEF ExtractSubject, Subject
  <2>2. override \in Text
    BY <1>2
  <2> QED
    BY <2>1, <2>2, SubjectIsPresent DEF Subject
<1> QED
  BY <1>1, <1>2

(* One case per notification that has a token, and one for none.              *)
LEMMA GoogleSubjectFits ==
  \A p \in GooglePayload : \A row \in Persisted("google", p) : SubjectFits(row)
<1> SUFFICES ASSUME NEW p \in GooglePayload, NEW row \in Persisted("google", p)
             PROVE  SubjectFits(row)
  OBVIOUS
<1> DEFINE subject == BuildPayload(row).subject
<1>1. /\ row.source = "google" /\ row.event = NormalizeGoogle(p) /\ row.payload = p
      /\ [subjectKey |-> row.subjectKey, appUserId |-> row.appUserId]
           \in ResolveSubscriptionFields(p)
  BY DEF Persisted, ResolveSubscriptionFields
<1>2. subject = ExtractSubject("google", p, row.subjectKey)
  BY <1>1 DEF BuildPayload
<1>3. CASE p.sub # Absent /\ p.sub.token # Absent
  <2>1. p.sub \in GoogleNotification /\ p.otp = Absent /\ ~p.voided /\ ~p.test
    BY <1>3 DEF GooglePayload
  <2>2. p.sub.token \in Text /\ p.sub.productId \in Text \cup {Absent}
    BY <1>3, <2>1 DEF GoogleNotification
  <2>3. row.subjectKey \in Text
    BY <1>1, <1>3, <2>2 DEF ResolveSubscriptionFields
  <2>4. ExtractGoogleSubject(p) = Subject(p.sub.token, p.sub.productId, "subscription")
    BY <1>3 DEF ExtractGoogleSubject
  <2>5. subject # Absent /\ subject.type = "subscription" /\ subject.key = row.subjectKey
    BY <1>2, <2>2, <2>3, <2>4, OverriddenSubject, TextIsPresent
  <2>6. row.event.kind \in {"subscription", "unknown"}
    BY <1>1, <2>1, GoogleKinds DEF NormalizeGoogle, Unknown, Mapping
  <2> QED
    BY <1>1, <2>3, <2>5, <2>6, TextIsPresent DEF SubjectFits
<1>4. CASE ~(p.sub # Absent /\ p.sub.token # Absent)
  <2>1. row.subjectKey = Absent /\ row.appUserId = Absent
    BY <1>1, <1>4 DEF ResolveSubscriptionFields
  <2>2. CASE p.otp # Absent /\ p.otp.token # Absent
    <3>1. p.otp \in GoogleNotification /\ p.sub = Absent /\ ~p.voided /\ ~p.test
      BY <2>2 DEF GooglePayload
    <3>2. p.otp.token \in Text /\ p.otp.productId \in Text \cup {Absent}
      BY <2>2, <3>1 DEF GoogleNotification
    <3>3. ExtractGoogleSubject(p) = Subject(p.otp.token, p.otp.productId, "product")
      BY <1>4, <2>2 DEF ExtractGoogleSubject
    <3>4. subject # Absent /\ subject.type = "product"
      BY <1>2, <2>1, <3>2, <3>3, OverriddenSubject
    <3>5. row.event.kind \in {"product", "unknown"}
      BY <1>1, <3>1, GoogleKinds DEF NormalizeGoogle, Unknown, Mapping
    <3> QED
      BY <1>1, <2>1, <3>4, <3>5 DEF SubjectFits
  <2>3. CASE ~(p.otp # Absent /\ p.otp.token # Absent)
    <3>1. subject = Absent
      BY <1>2, <1>4, <2>3 DEF ExtractSubject, ExtractGoogleSubject
    <3> QED
      BY <2>1, <3>1 DEF SubjectFits
  <2> QED
    BY <2>2, <2>3
<1> QED
  BY <1>3, <1>4

LEMMA SourceTyped == TypeOK => \A e \in events : SourceOf[e.n] \in {"apple", "google"}
BY IngestAssumption DEF TypeOK

(* The subject a callback is given is the one the receiver resolved, of the   *)
(* kind its event names, whatever strings the stores send.                    *)
THEOREM ResolvedSubjectGoesOut == Spec => []SubjectIsTheResolvedOne
<1>1. \A s \in {"apple", "google"} : Unfit[s] = {}
  BY AppleSubjectFits, GoogleSubjectFits DEF Unfit
<1>2. IInv => SubjectIsTheResolvedOne
  BY <1>1, SourceTyped DEF IInv, SubjectIsTheResolvedOne
<1> QED
  BY <1>2, AlwaysIInv, PTL

(* A subtype nobody has seen falls back to its type, and a Google event that  *)
(* Apple has too gives a reason Apple gives, whatever number it comes under.  *)
THEOREM StoresShareVocabulary == Spec => []OneVocabulary
<1>1. IInv => OneVocabulary
  BY NothingMisclassified, SourceTyped DEF IInv, OneVocabulary
<1> QED
  BY <1>1, AlwaysIInv, PTL

=============================================================================
